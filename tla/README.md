# A verification development for EDGI

EDGI is a Linux distribution that boots from one partition, `EDGI_STATE`, and
exists to run k3s. Its own logic is small and sits where it hurts: it decides
what a machine boots, replaces the parts it boots from while it is running, and
deletes things from disks. This directory models that logic in TLA+, checks the
models with TLC and proves the most important properties with TLAPS.

All paths are relative to the repository's root.

## The system

| component | state it keeps | operations | talks to |
|---|---|---|---|
| component store, `edgi upgrade` (`pkg/system/component.go`, `pkg/cli/upgrade/upgrade.go`) | `/edgi/system/<component>/<version>/`, the links `current`, `previous`, `current.tmp`, `<version>.old`, temporary directories; a lock in `/run` | `Run`, `CopyComponent`, `StatComponentVersion` | GRUB and init, which follow the links; reboot; the upgrade controller that starts it |
| init and boot modes (`overlay/init`, `overlay/libexec/k3os/*`) | markers under `edgi/system` (`growpart`, `takeover`, `factory-reset`, `ephemeral`, `poweroff`), `edgi/data`, `sbin/init`; `/run/edgi/mode` | choice of the mode, `mode-disk`, `takeover`, factory reset, pivot, `boot` | kernel command line, the installer's markers |
| installer (`install.sh`, `pkg/cliinstall`, `pkg/questions`, `pkg/util/prompt.go`) | partitions, file systems, the copied store, `grub.cfg`, markers; while it asks, `/etc/shadow` and a temporary file | questions, password, consent; format, mount, copy, `install_grub`, power off or reboot | Boot, configuration |
| manual upgrade scripts (`overlay/share/edgi/edgi/scripts`) | the same store, without the lock | download in place, `ln -nsf` | component store |
| configuration (`pkg/config`) | files, command line, user data | ordered merge of seven kinds of source | appliers, installer |
| appliers and phases (`pkg/cc`, `pkg/cli/config`, `pkg/hostname`, ...) | `/etc`, connman, k3s service | three phases, each a list of appliers that all run | boot scripts, OpenRC |
| SSH keys (`pkg/ssh`), file writing (`pkg/writefile`, `pkg/util`) | `authorized_keys`, files named in the configuration | read-extend-replace, write-and-rename | appliers |
| entering the root (`pkg/enterchroot`), relocation (`pkg/transferroot`), early init (`pkg/cli/rc`) | the root in memory, loop devices and a timer that clears one, mounts, `ENTER_*` and `EDGI_RELOCATED` in the environment | move the root to a tmpfs, scan for the squashfs image, attach, mount, pivot; twice when the node boots from its disk | init, mode-disk |
| OpenRC services, image build, upgrade plan | - | - | - |

The hard behaviours:

* **Crashes.** An upgrade is a dozen system calls per component and may be
  killed between any two: the job's pod is deleted, memory runs out, power is
  lost, or the reboot another upgrade asked for arrives. A takeover deletes a
  whole system step by step and survives a loss of power only if its markers
  outlive what they mark.
* **Partial failure.** `CopyComponent` leaves clean-up to three deferred calls
  which run in every situation it can return from. `Run` logs errors and goes
  on. `takeover || true` turns `set -e` off for everything inside.
* **Interleaving.** The upgrade controller's job and an operator can upgrade at
  the same time. The lock is tried once and lives in `/run`.
* **Retries and timeouts.** The controller starts the job again when it fails and
  after the reboot it caused. Downloads are tried five times, keys ten times, the
  network is waited for 30 seconds; what comes after them runs either way.
* **Everything twice.** The program is process 1 of the initrd and again of the
  disk, each time starting over from its own image; what the first pass leaves in
  the environment, on loop devices and below `/.base` must not reach the second.
* **Phases.** A node configures itself three times on its way up, from sources
  that appear one by one, and what it wrote to `/etc` the first time is gone when
  the root on the disk is entered.

What makes each part correct. *Store*: a node always has something to boot and a
way back; the upgrade that was asked for happens in the end, once. *Boot*: what was
to be deleted is, what was not stays; the node comes up or has a cause not to.
*Installer*: an old system goes only for a new one; the node that comes up is the
one that was asked for. *Configuration*: the last source wins, and one value that
is wrong does not go unnoticed. *Phases*: the node comes up, configured as
its sources say. *Keys and files*: nothing that was there is lost, and nothing
is seen half-written. *Entering the root*: each pass enters its own image, moving
the root loses no file, and no device stays behind. *Questions*: what is installed is
what was answered, and asking leaves no trace.

`PROJECT.json` has the hazards with their lines, and which property would
notice.

## The modules

| module | what it is |
|---|---|
| `VersionSwitch` | abstract: what the store promises to those who follow `current` and `previous` |
| `ComponentStore` | the store, and the file-system calls of `CopyComponent` with the condition under which each succeeds |
| `Upgrade` | extends `ComponentStore`: `Run` and `CopyComponent` as processes, one step per system call; kills, losses of power, reboots; properties |
| `MCUpgrade` | instances for TLC |
| `UpgradeProofs` | types and all safety properties of `Upgrade`, and that it implements `VersionSwitch`, proved |
| `Boot` | from power-on to a running system: choice of the mode, `mode-disk`, takeover, reset, pivot, second pass; losses of power, failing commands |
| `MCBoot` | instances for TLC |
| `BootProofs` | types and all safety properties of `Boot`, proved |
| `Install` | extends `Boot`: `install.sh` as steps that fail or are cut short, and the boots of the machine it runs on |
| `MCInstall` | instances for TLC |
| `InstallProofs` | extends `BootProofs`: types and the safety properties of `Install`, proved |
| `ConfigMerge` | `ReadConfig` for one field: spellings, types, order of the sources, decoding |
| `MCConfigMerge` | instance for TLC |
| `ConfigMergeProofs` | types and all safety properties of `ConfigMerge`, proved |
| `Configure` | the phases of `edgi config`, their appliers, the services that order them, runs by hand; reboots |
| `MCConfigure` | instances for TLC |
| `ConfigureProofs` | types and all safety properties of `Configure`, proved |
| `AtomicFile` | abstract: a file that is replaced in one step, and callers who are told the truth |
| `FileWrite` | `WriteFileAtomic` and `WriteFile`, call by call, several at once; kills |
| `MCFileWrite` | instance for TLC |
| `FileWriteProofs` | `FileWrite` implements `AtomicFile`, and leaves temporary files only for a reason, proved |
| `ImageScan` | `inFile`: the search for the image, block by block and byte by byte, and what it is for |
| `EnterRoot` | extends `ImageScan`: relocation of the root in memory, loop devices, mount and pivot, in both passes and in a container |
| `MCEnterRoot` | instance for TLC |
| `EnterRootProofs` | types and all safety properties of `EnterRoot`, proved |
| `Dialog` | `edgi install` up to the start of `install.sh`: questions, password, consent, temporary file |
| `MCDialog` | instance for TLC |
| `DialogProofs` | the safety properties of `Dialog`, proved |

`Install` composes the installer with `Boot`: its variables are added to those of
`Boot`, whose steps are taken as they are. `UpgradeProofs` is
about `Upgrade`, which composes its processes with the steps of `ComponentStore`. `ConfigMerge` says which source a value comes
from, and `Configure` starts from that. `Configure` takes a file to be written in
one step, which is what `FileWrite` shows. `EnterRoot` is what happens before and, for a
node on a disk, in the middle of `Boot`; the two meet in `losetup -d` and
`umount -l /.base`. What `Dialog` hands to `install.sh` is a `job` of `Install`.

Operators that come before the definition they are named after, and whose
comments begin "Mutant of", are that definition with a plausible bug. No
specification uses them; they show that each property can fail.

### ComponentStore and Upgrade

| variable | in the code |
|---|---|
| `dir[k][v]` | the directory `<k>/<v>`: absent, complete but in the page cache, complete and on disk, or torn by a loss of power |
| `old[k][v]` | `<k>/<v>.old` |
| `current`, `previous`, `curTmp` | targets of the links of those names |
| `litter` | components with an abandoned temporary directory |
| `pc`, `job`, `idx`, `remount`, `copied`, `temp`, `aside` | a process: its next call, flags, component, `doRemount`, `atLeastOneComponentCopied`, temporary directory, whether the third deferred call was registered |
| `lock`, `rw`, `rebooting` | the flock, the mount, a reboot under way |
| `faults`, `kills` | counters for the bounds |
| `interrupted` | history: components a process was killed at work on |
| `risk[k]` | history: has the version `current` names not been flushed since the switch, or has a loss of power damaged it |

Each action of `Step(p)` is one system call, in the order of the code, with
both its outcomes. A call that is impossible (the name is taken, the mount is
read-only, the link does not exist) takes the error path; besides, any call in
`Faulty` may fail up to `MaxFaults` times for reasons of its own. `Stat` is the
two `stat`s at the start and the comparison; it is one step because nothing
that is not excluded by the lock changes what it reads. `os.Chmod` (line 107)
only logs and belongs to `Swap`. The error returns after the first `defer` go to
`MoveBackStep`, `RmTemp`, `RmLink`, the deferred calls in their order.

Facts about the libraries the model relies on: Go's `os.Rename` refuses a
destination that is a directory; `rename(2)` replaces a link in one step;
`copy.Copy` of a link makes a link to the same target; `symlink(2)` fails on any
existing name; flock goes with the process.

*Loss of power.* The file system is ext4 with an ordered journal of metadata. A
loss of power therefore leaves the names as some prefix of the renames made them.
Taking it as the prefix of all calls up to now loses nothing, because power may
also be lost before each of them. The content of a directory that was not
flushed may be torn. Between a switch and the flush after it `current` may
therefore lead to a version that is torn once power is back (`upgrade.go:160`
flushes once, after all components, and only with `--sync`). The models have that
window open, and `CurrentComplete` says that it is the only one. As versions are
compared by name, the same upgrade does not repair such a version.

*Left out.* `RunEnds` assumes that a call returns. The deferred calls are
taken not to fail of themselves. Components are whole directories: what is in
them is not looked at. `--destination` and `--source` are the fixed store and
an image; chroot before the reboot is part of `Reboot`.

### Boot

| variable | in the code |
|---|---|
| `disk.labelled`, `visible` | is there a partition labelled `EDGI_STATE`, and has the kernel found it |
| `disk.flags` | the marker files |
| `disk.foreign` | what is left of the system that was there before: ordinary files, hidden files, `boot`, `sbin` |
| `disk.usrmerge`, `disk.init` | is `sbin` a link, what is `/sbin/init` |
| `disk.data` | `edgi/data`; "old" is what a reset that is due must remove, "kept" what the `rm` of a reset could not |
| `pass` | 1 from the initrd; 2 after the pivot, with `EDGI_MODE=local` |
| `pc` | the next command that matters |
| `waited` | seconds in the loop of `mode` |
| `shutdown` | history: takeover has powered the machine off |

What is under `set -e` goes to the rescue shell when it fails (`Fail`); in
`takeover || true` it goes on with the next command (`FailOn`). The `rm` of a reset
has two operands and goes on to the marker when it fails on the data (`WipeFails`).
Everything but `disk` starts over after a loss of power.

*Left out.* What the scripts set up in tmpfs is rebuilt at every boot and is not
state. The directories that `setup_edgi`, `setup_kernel_squashfs` and
`setup_k3s` fill are not part of the disk. The content of the second pass is one
step, `Local`. `edgi.mode=disk` is not among the instances' command lines: it
also wins in the second pass, and the node would pivot for ever.

### Install

| variable | in the code |
|---|---|
| `job` | the arguments and the environment `EDGI_*` of `install.sh`, which `edgi install` sets from the configuration |
| `net` | does the machine boot from its medium or the network: always, once, never |
| `store` | `edgi/` on the partition: none, part of it, the whole |
| `config` | `edgi/system/config.yaml`: the image's placeholder, part of a file, the one asked for |
| `loader` | what the boot loader of the disk starts |
| `image` | the image EDGI is copied from |
| `ipc`, `tries` | the next step of the script, the failed attempts of a download |
| `unnoticed` | history: a failure hidden by the script's status or by `takeover \|\| true` |

A step is one command, or a few that fail alike. `GetUrl` is the loop of
`get_url`, including that giving up has the status of its `sleep`. `FinishCopy` is
`tar | tar`, of which only the second counts. `InstallFails` is `set -e`. What
`get_iso` downloads to is in memory; the rest is on the disk and stays through
`LosePower`. After `End` or a failure the steps of `Boot` go on with the same disk.

*Left out.* The questions, which are in `Dialog`, the difference of EFI
and BIOS partitions, the dependency checks before the first write to the disk. A
failed installation is not started again before the next boot, and what a
step has written is taken to be on the disk (`reboot -f` and `poweroff -f` flush it
at the end, but a loss of power in between may find less).

### ConfigMerge

| variable | in the code |
|---|---|
| `field` | one field of `CloudConfig`: string, boolean, list of strings, map of strings; with a capital in its name or not |
| `sources` | what each `reader` returns for it, in order |
| `next`, `data` | the loop of `merge` and its result so far, by spelling |
| `item`, `line` | the loop of `readCmdline` and its result so far, by spelling |
| `outcome`, `value` | what `ReadConfig` returns |

`Named` is `FuzzyNames.ToInternal`: it copies what it finds under another
spelling to the field's name, in Go's random order of a map, and leaves the other
entry there. `Converted` are the type converters. They run after `FuzzyNames` and
under the field's own name only. `ReadItem` is one turn of the loop in `readCmdline`;
a value remembers the source and the places it is put together from, and its type
follows from how often the name has come. `Decode` is `convert.ToObj`, which goes through
JSON and therefore does not mind case.

*Left out.* YAML, the quoting of the command line, empty values, lists of
structures (`wifi`, `write_files`), which no converter touches. A map on the command
line has keys that are all different and have no dots. Left out are a map's name with
a value but no key, a key given twice and a key with a dot (`edgi.sysctl.kernel.printk`):
`readCmdline` makes a string, a list or a nested map of them, and `ToMap` a string of
what is nested (`coerce.go:56-67`).

### Configure

| variable | in the code |
|---|---|
| `node` | which keys each source sets, the mode |
| `binary` | `/sbin/k3s`, `/usr/local/bin/k3s` or none |
| `local` | `/var/lib/cmd/edgi/config.yaml`: as it was, edited, or such that it cannot be parsed |
| `cloud`, `online` | the files in `/run/config`: none, as downloaded, or such that they cannot be parsed; the network |
| `stage` | how far init and OpenRC have come |
| `run` | each run of `edgi config`: phase, applier, what it has read |
| `set` | for each key, the sources whose value is in force |
| `keys`, `env` | `authorized_keys`, `/etc/environment` |
| `dirty` | has `authorized_keys` not reached the disk yet |
| `unit`, `k3s` | the configuration of the k3s service and of the k3s that runs |
| `seen`, `missed`, `forgone`, `touched` | history, for the properties: what the runtime phase has read, settings and keys that failed, has there been a run by hand |

The value of a key is the name of the source it comes from. `Return` is the loop
of `runApplies`: an error does not stop it. `authorized_keys` is read in one
step and replaced in another, `/etc/environment` is read, truncated and written in
three, so that runs overlap as they can. What is in the kernel stays until a reboot,
`/etc` until `Pivot`, wifi settings, keys and a downloaded k3s for good, on a node that
is on a disk. `authorized_keys` is renamed into its place without a flush
(`util.go:12-29`): a loss of power (`PowerLoss`) leaves any part of what has not been
flushed, a reboot (`Reboot`) all of it.

A run may come to a step that nothing bounds (`Waits`): `http.Get` has no timeout
(`ssh.go:75`), k3s is downloaded by a script, `run_cmd` and its like run any command,
and on a node that is to be installed `ApplyInstall` runs `edgi install`, which asks its
questions, inside of `ccapply` (`funcs.go:174-178`). Such a run is "waiting", and the
fairness does not cover it. A server that answers with an error is `FailKey`. With an
address the network may supply a name at any time (`SupplyHostname`), which replaces
the configured one (README.md:452).

*Left out.* The commands a configuration runs change nothing here. Files are taken to
be written under `/etc`, in one step. What `ApplyInstall` starts is `Install`. The
download of the user data is taken to end, and a k3s that was downloaded is either
there or not after a loss of power, never a part of it.

### FileWrite

| variable | in the code |
|---|---|
| `file`, `there` | the destination, its directory |
| `pc`, `call` | a writer: its next system call; which of the two functions, for what, with an owner or not |
| `temp` | its temporary file: whose contents, how much of them, permissions, owner |
| `err`, `answer` | the error to be returned; what the last caller was told |
| `strays` | history: how each temporary file that nobody will remove came to be left |

Each action is one system call, which may fail. `WriteFile` makes the directory
and sets an owner, `WriteFileAtomic` removes its temporary file; in all else they
are the same steps.

*Left out.* Names of temporary files are taken never to be the same. Loss of power:
neither function flushes the file before it is renamed, so that after one the
contents may be less than what was there; nothing in the repository says otherwise.
What that does to `authorized_keys` is in `Configure`.

### ImageScan and EnterRoot

| variable | in the code |
|---|---|
| `layout` | the program of each pass: the bytes before the magic, and what is next to it (`.root`, `.squashfs`) |
| `tree`, `old`, `new`, `memory` | the files of the root in memory with their kinds, those still in the old file system, those in the tmpfs with what they have become |
| `pass`, `pc`, `pid1` | the program that runs, its next step, whether it is process 1 |
| `scan`, `offset` | `found`, `offset` of `inFile`; where the image is |
| `env` | `EDGI_RELOCATED`, `ENTER_ROOT`, `ENTER_DEVICE` |
| `loop`, `nodes`, `dev`, `timer` | loop devices and what is attached; their device files; the device of this `Mount`; the goroutine with its 3 seconds |
| `entered` | the image the pass has mounted |
| `blame` | history: what excuses a stop |

`Read` is one `read(2)` of the loop in `inFile` and takes any number of bytes up to a
block, so that the magic lies across blocks in every way; `Look` is one turn of the loop
over what was read, `scan.left` what of it is still to be looked at. `Timer` may fire as soon
as it is set: how long the mount takes is not known. What the kernel does with a
device that is to clear itself, when its last user goes, is `Unmounted`.

`Made` is what becomes of a file that is moved: of the kind it was, but for a device,
which `mknod` makes a regular file of, because it is given a Go `FileMode`, in which the
kernel finds no type (`transferroot.go:145`).

*Left out.* Owners, permissions and directories of the moved root; debug output; the
other programs in the binary.

### Dialog

| variable | in the code |
|---|---|
| `mode`, `disks`, `preset` | `/run/edgi/mode`, what `lsblk` lists, what the configuration has set before the first question |
| `listed` | has `/etc/shadow` a line for `edgi` |
| `piped`, `lost` | whether the answers come from a pipe; whether a reader has taken the ones to come |
| `pc`, `install` | the next question or call; the answer of `isInstall` |
| `cfg`, `role` | `CloudConfig`, as far as questions set it; server or agent |
| `entry` | the password as it is typed: keys and what `MaskPassword` makes of them, first and second entry |
| `shadow`, `saved`, `err` | the password in `/etc/shadow`; `oldShadow`; the error of `AskPassword` |
| `consent`, `temp`, `installer` | the summary that was agreed to; the temporary file; what `install.sh` was started with |
| `system` | `config.yaml` of a node that is configured, not installed |
| `fault` | history: an error nobody looks at, or one that comes before `os.Remove` is deferred |

A `Question` is one call of `Ask...` with its prompts; an answer that is not understood
is asked for again and is no step. Passwords are typed key by key. `chpasswd` falls back
on `/etc/passwd` for a user `/etc/shadow` does not know. The search for the hash then
finds nothing, and `AskPassword` returns without a password and without an error
(`ask.go:221-229`); `InstallsAsAnswered` names that case.

*Left out.* The wording; the raw mode of the terminal; the branch of `AskPassword`
for other users than root, which the command does not let in.

## What the runs check

| run | instance | checks |
|---|---|---|
| `upgrade_race` | two processes, one component, three versions; one kill or loss of power and one failing call anywhere | the inductive invariant `IInv`, with it types, `CurrentComplete`, `RollbackKept`; `NoLeftovers`; `FlipKeepsRollback`; refinement of `VersionSwitch` |
| `upgrade_retry` | the same image over and over by two processes, with and without the reboot; three components of which one has no directory; one kill or loss of power, two failing calls, the switch itself included | `SyncedBeforeReboot`; `RunEnds`, `RetryConverges`, `NoRebootLoop` |
| `boot` | 182 combinations of disk and command line, an overlay installation among them; two losses of power, one failing command | types; `ForgetsOldState`, `TakeoverFinishes`, `OnlyProgramsSurvive`, `RescueHasCause`, `BootEnds` |
| `install` | 21 installations: blank and used disks, medium or network, automatic, takeover with and without `--poweroff`; two losses of power, one failing command, two tries per download | types; `TakeoverReplaces`, `LeadsSomewhere`, `NodeAsAsked` |
| `config_merge` | every kind of field; a file, a command line with up to three names, a file, each with up to two spellings | types; `LastSourceWins`, `RepeatedKeysInOrder`, `RefusedWithCause` |
| `configure` | four nodes; user data that come, do not, or are broken; one run by hand at a time, one edit, one failing applier or key, one reboot or loss of power | types; `FilesBeforeCommands`, `ConfiguredWhenUp`, `K3sWhenConfigured`; `KeysKept`; `NodeComesUp` |
| `file_write` | two writers, two contents; every call may fail, every writer may be killed, any number of times | `IInv`; `NoStrays`; refinement of `AtomicFile` |
| `enter_root` | every program of up to four bytes before a magic of three, read in blocks of two; everything that may be next to the program, in both passes; roots in memory with every kind of file; three loop devices; process 1 or a container with a device already in use; any call may fail | types; `RootMoved`, `EntersItsImage`, `DevicesFreed`; `EntersOrStops` |
| `dialog` | 336 machines: four modes, up to two disks, seven presets, terminal or pipe, `/etc/shadow` with a line for `edgi` or without; passwords of up to two keystrokes and one too many; any call may fail, the program may be killed | `InstallsAsAnswered`, `LeavesNothing` |

The bounds. Three versions are the least with which the version being
installed, the current and the previous one differ. Two processes are the most
that interact at one time: a third would find the lock taken as the second
does. One component is enough where components do not interact; two are
needed for "the first is done, the second fails". One fault and one kill at any
of the steps make every combination of the two. The run about retries has two
failing calls, because two are what it takes to defeat them: when the switch has
failed twice, `<version>` and `<version>.old` are both there, and no retry gets past
`component.go:92`. `MaxWait` is 3 instead of 30: nothing depends on how often the loop
turns, only on whether the disk turns up before it ends. Two losses of
power are one in the first boot and one in the boot that picks up the pieces. Two
tries of a download are one that is followed by another and one that is not.
A file before and one after the command line are a source that is overlaid and
one that overlays; three names are two of a kind with another between them. The nodes
of `configure` have between them every key, every source and every place k3s
may be in; one run by hand overlaps
with the boot's, and one reboot shows what stays. Two writers of a file are a writer and
all others; neither their number nor that of the contents is bounded in the proofs. A
program of four bytes before a magic of three has every way in which bytes of the
program and of the magic can be taken for one another; blocks of two cut the magic
at each place. Three loop devices are one somebody else has, one for each pass. Two
keystrokes are a character and one that takes it back, and with the second entry a
password that begins like the first.

The fairness. A started process is scheduled and its calls return (weak
fairness of each `Step(p)`), and a reboot that was asked for comes (weak fairness
of `Restart`). Nothing makes anybody start a run: `RetryConverges` has "runs keep
being started" as its premise. A machine that has power goes on with its boot
(weak fairness of `BootStep`); the disk need never turn up, nobody has to switch on
a machine that is off. In `Configure` init and OpenRC go on, with the run of `edgi
config` they wait for, as long as that does not wait for a server, a command or an
answer itself (weak fairness of `~Waiting /\ BootStep`); neither those nor the network
nor anybody at the console has to do anything, and `NodeComesUp` says that the node
comes up again and again or waits for one of the three for ever. In `EnterRoot`
every step is the program's own, the kernel's or a script's, and none waits for
anything but the one before it (weak fairness of `Next`). `Install`, `ConfigMerge`,
`FileWrite` and `Dialog`, which waits for a person, are checked for safety only.

`config_merge`, `enter_root`, `install` and `dialog` do not look for deadlocks: a program
that has ended and a machine that is off do stop.
Symmetry is used in `file_write` only, whose properties are safety properties that do not
tell writers or contents apart.

### Where the code does not do what is said of it

Each of these runs is expected to find a violation.

* `upgrade_third`: the third upgrade to the same version fails, and every one
  after it. Replacing a version leaves `<version>.old`; at the next replacement
  the rename to that name is refused (`component.go:92`). Two switches to a version that
  fail have the same effect; `RetryConverges` excepts them.
* `upgrade_mixed`: after a run that was killed with `current.tmp` in place, that
  component is never upgraded again, but the others are and the node reboots
  into the mix (`component.go:70`, `upgrade.go:137`).
* `install_config`: if the configuration cannot be downloaded, the installation
  goes on with the placeholder of the image and ends as if nothing had happened
  (`install.sh:20`).

Met while modelling, and in the models, but without a run of their own:

* Takeover keeps `sbin/init` by name. If that is a program and not a link to one,
  setup_init leaves it (`mode-disk:79`) and the node hands over to it after the
  takeover, although README.md:168 has all files deleted that are not EDGI.
  `OnlyProgramsSurvive` names it as the one thing the node may be handed over to.
* A factory reset that cannot delete all of the data removes its marker all the same
  (`mode-disk:160`): the boot stops, and the next one comes up with the old data.
* The takeover ends in a reboot, not a shutdown, unless `--poweroff` was given;
  with it, a loss of power between removing the marker and `poweroff -f` also leaves
  the node running (`mode-disk:136-143`).
* The hidden files of the old root directory survive a takeover (`mode-disk:118`).
* With `edgi.install.iso_url` the disk is erased even if the image could not be
  downloaded (`install.sh:244`), for the reason of `install_config`.
* The label `EDGI_STATE` is set before anything is copied. An installation cut short
  after that is not resumed by `edgi.fallback_mode=install`.
* The table of phases in the README has `edgi.password` in the initrd phase
  (`InitApply` leaves it out) and `edgi.data_sources` in the runtime phase (it is
  applied at boot, so that data sources named by user data have no effect).
* "`runtime` is executed after networking has come online": `net-online` gives up
  after 30 seconds and `ccapply` runs all the same. A node that would have learnt
  from its user data which cluster to join then starts a server of its own.
* A server that accepts the request for a key and does not answer keeps `ccapply` from
  its other keys, its commands and k3s for ever (`ssh.go:75`). The ten tries are for
  requests that fail.
* `copyFS` is to be "equivalent to a more memory efficient version of `/bin/cp -a`"
  (`transferroot.go:26`), but devices come out as regular files.
* Without a line for `edgi` in `/etc/shadow` the password that was typed is dropped and
  the installation goes on, maybe without any way to log in (`ask.go:221-229`).
* `authorized_keys` is replaced without a flush: a loss of power soon after may leave
  less than there was (`util.go:28`).
* A lower-case spelling of a field in camel case (`runcmd`, `ntpservers`) stays
  in the data and wins over every other one, later sources included; unconverted,
  a single string under such a name makes `ReadConfig` refuse everything.
* The form `key[key]=value` for maps on the command line is not parsed as
  described (names are split at dots), and there is no field `edgi.install.efi`.
* Wifi settings and authorised keys stay when they are removed from the
  configuration. Two runs of `edgi config` at once can lose a key (`ssh.go:119`) or a
  variable (`funcs.go:314`); `KeysKept` excepts such runs.
* `WriteFile` leaves its temporary file after an error (`writefile.go:52`); in a
  `config.d` it is read as a source from then on. `authorizeSSHKey` sets the owner
  after the rename: a kill in between leaves keys the user's sshd may not read.
* An image is not found if the program ends in a beginning of the magic
  (`enter.go:201`). The environment must lose `ENTER_ROOT` and `ENTER_DEVICE` before
  the second pass (`enter.go:290`), or it would enter the first pass's image again.
  `losetup -d` takes the device to be `loop0`, which it is only as long as the program
  is process 1 and first. A mount that takes more than 3 seconds finds its device
  cleared.
* After a kill between chpasswd and the deferred write `/etc/shadow` has the new
  password, and an error of that write leaves it cut short (`ask.go:200`). An error
  before `os.Remove` is deferred leaves `/tmp/edgi.*` with the password's hash
  (`install.go:108`).
* Each prompt has a reader of its own and throws away what that has read ahead
  (`questions.go:109`): answers from a pipe are lost after the first, and the
  installation fails for want of input. Without a disk to install to the question for
  the device has no right answer and is asked for ever (`questions.go:36`).
* With a server's URL from the command line the token is never asked for: the second
  condition in `isServer` (`ask.go:136`) comes after the return of its caller.
* Backspaces count against the 512 bytes of a password, and an empty one is accepted.

## What is proved

Everything in this section holds for every value of the constants that satisfies
their named assumptions, and with no bound on what the runs bound.

| module | theorems | state the properties |
|---|---|---|
| `UpgradeProofs` | `TypeCorrect`, `LinksInvariant`, `AlwaysBootable`, `RollbackNeverLost`, `RebootsSynced`, `AlwaysAWayBack`, `LeavesNoLeftovers`, `UpgradeImplementsVersionSwitch` | `TypeOK`, `IInv`, `CurrentComplete`, `RollbackKept`, `SyncedBeforeReboot`, `FlipKeepsRollback`, `NoLeftovers`, `SwitchesVersions` |
| `BootProofs` | `BootInvariant`, `BootTypes`, `ResetForgets`, `TakeoverIsFinished`, `OwnInitOnly`, `RescueIsCaused` | `TypeOK`, `ForgetsOldState`, `TakeoverFinishes`, `OnlyProgramsSurvive`, `RescueHasCause` |
| `InstallProofs` | `InstallInvariant`, `InstallWellTyped`, `TakeoverKeepsOldSystem`, `LoaderLeadsSomewhere`, `NodeComesUpAsAsked` | `InstallTypeOK`, `TakeoverReplaces`, `LeadsSomewhere`, `NodeAsAsked` |
| `ConfigMergeProofs` | `MergeInvariant`, `MergeTypes`, `TheLastSourceWins`, `RepeatedKeysStayInOrder`, `RefusesWithCause` | `TypeOK`, `LastSourceWins`, `RepeatedKeysInOrder`, `RefusedWithCause` |
| `ConfigureProofs` | `ConfigureInvariant`, `ConfigureTypes`, `CommandsFindTheirFiles`, `UpAsConfigured`, `K3sWaits`, `NoKeyIsLost` | `TypeOK`, `FilesBeforeCommands`, `ConfiguredWhenUp`, `K3sWhenConfigured`, `KeysKept` |
| `FileWriteProofs` | `CompleteBeforeRename`, `WritersImplementAtomicFile`, `StraysHaveCause` | `IInv`, `ReplacesAtOnce`, `NoStrays` |
| `EnterRootProofs` | `EnterInvariant`, `EnterTypes`, `RootIsMovedWhole`, `PassEntersItsOwn`, `NoDeviceIsLeft` | `TypeOK`, `RootMoved`, `EntersItsImage`, `DevicesFreed` |
| `DialogProofs` | `DialogInvariant`, `InstallsWhatWasAnswered`, `AskingLeavesNothing` | `InstallsAsAnswered`, `LeavesNothing` |

The theorems with no property of their own state the inductive invariant of their
module. In each module that is a conjunction of named parts, every part is kept by every
step (one lemma per part, one case per action), and the properties follow from it.

*Assumptions.* That constants have their types (`JobAssumption`, `NodesAssumption`,
`LayoutsAssumption` and the like), that bounds are natural numbers, and that the values
standing for "none" are none of the others (`NoVersion`, `NoProcess`, `NoFile`, `NoCall`,
`None`). Of the contents of what a machine starts with, these: `MarkedAssumption`, that a
disk with foreign files carries the takeover's marker, that old data carry a marker for
their deletion and that nothing is left of a reset that failed; `KindsAssumption`, that a takeover is run as the README
says, from the system it replaces and with `--no-format`; `KeysAssumption`, that a source
that names keys names at least one; `OperatorAssumption`, that the runs by hand are not
the boot's; `SourcesAssumption`, that a source has the field under its own spellings and the
command line has names only. `MagicAssumption` says no more than that the magic is not empty.

*Upgrade.* `CurrentComplete` is not inductive: `MoveAsideStep` takes a
directory away. It is safe because the version it takes away is not the
current one, which was established by `Stat`, several steps earlier, and could be
made false only by another process's `FlipStep`. So `IInv` says in addition
(`Consistent`) that only the holder of the lock is past it, that the version it
is at work on is one and not the current one, that `current.tmp` names that
version, and, from the swap to the switch, that the version is in its place and whole. The
second and third make `FlipStep` safe. `Watched` says that what `current` names has been
flushed or is known not to have been (`risk`), so that a loss of power is the only thing
that can leave it torn, and only in that window (`FlushKeepsLinks` and its like). `RollbackKept` rests on the same facts and
on that a directory moves only between `<v>` and `<v>.old`. A kill ends what
`Consistent` asserts of the process; a loss of power or a reboot of all of them,
and neither makes a directory come or go (`LinksKeptByTrees`). Two more invariants lie on
top. `Known`: what a process has learnt of its component stays true until it acts on it,
that `previous` is the current version before the switch and that all has been flushed
before the reboot. `Accounted`: whatever is lying about, a temporary directory,
`current.tmp`, a version moved aside, belongs to a process whose deferred calls will see
to it, unless a process was killed. The refinement is
proved from `IInv` step by step: each file-system call that readers can see
is one abstract step (`CallsAreSteps`), the rest leave the abstract state as it is
(`Unseen`).

*Boot.* A property of the running system is about markers many steps earlier. The parts
say what each step relies on: `Forgetting`, that old data has its marker until it is
deleted, or has been what a failing `rm` of a reset has left; `Clearing`, that the
takeover's marker outlasts what it marks, through the order
of the deletions; `OwnInit`, that there is an init from `setup_init` on and that it is
EDGI's or a program itself once the takeover is past; `Mounting`, that the partition `mode` saw is there;
`Grown`, that `growpart` is gone once that is over. A loss of power leaves the disk and
nothing else, so that each part must hold of the disk alone at power-on.

*Install.* The disk of the installer is the disk of the boots after it, so that the
invariant of `Boot` has to be kept by the script and that of the script by the boots.
`OldSystem` says until when the system to be replaced is there, `Sound` what the boot
loader promises, `FromDisk` which of the two a machine without a medium starts,
`TakingOver` and `SwitchingOff` where the takeover is; all but the types are under the
condition that no failure went unnoticed, which is part of the properties.

*ConfigMerge.* `Reading` says that what has been read of the command line is, for each
name, the places up to the item where it stands, in their order (`Appended` is the step
from one item to the next). `Merged` says that what stands under the field's own name is
what one source has for it under one of its names, and that no source read after it has
the field; under the lower-case name, which is not converted, only that it is from some
source. The properties follow at `Decode`, where all sources have been read (`Decoded`).

*Configure.* `Done` and `Served` say, applier by applier, what a run has put in force of
the configuration it has read when it is at its n-th applier; the lemmas about the lists
(`OnceEach`, `CommandsLast`, `RuntimeAppliers`) say that commands come after files.
`Sourced` says that until the node is up no source goes away, so that what an earlier
phase has set is what a later one reads; `Seen` ties the runtime phase to what is in force
at the end. A name that DHCP supplies may take the place of a configured one at any step
(`SetAsBeforeIs`), and a key that failed is in `forgone`, so that neither excuses
anything else. `KeysKept` needs that a run that was alone still has in hand what is in
`authorized_keys` (`Alone`).

*FileWrite.* The refinement maps the rename to `Replace`, the return and a kill to
the answer, and all other calls to nothing. `Rename` is a step of `AtomicFile` only if
what is renamed is what was asked for, and no invariant about the destination says
so: `Progress` follows a temporary file from call to call, that it is whole after the
write, has its permissions after chmod, and its owner before the rename if the call
has one, the reason why `chown` is reached only by a call that has. `NoStrays` needs of
`Progress` that a call without an error has no temporary file left when it ends.

*EnterRoot.* `Scanning` is the invariant of the loop in `inFile`: as many bytes as have
been matched stand just before the place it looks at, and in a plain program it has
matched the magic after the program as far as it has come, wherever the reads cut it.
`Named` says that the environment names what the pass wants, and not what the first one
has left; `Owned`, whose device each device is, which is what makes `losetup -d loop0`
the right call.

*Dialog.* `Reading` says that a line under way is what its keystrokes spell: there is an
increasing enumeration of the keys that count, and what stands behind each is counted by
characters less backspaces (`Spelled`). A backspace then takes away the last key that
counted, and the fact for lines of every length needs no induction but that over steps.
`Hashing` carries the password by way of `/etc/shadow`, `Asked` what has been asked by the
time of the summary, `Agreed` what was agreed to, `Keeping` that the copy of
`/etc/shadow` is the original.

*What the proofs changed in the models.* `NodeAsAsked` of `Install` no longer excepts
every failure, but only those that nobody notices, a failing command under
`takeover || true` among them. The assumptions that were implicit in the instances have names. The
search for the image and the meaning of a line of keystrokes, both recursive, are steps
and relations now, and the command line, which was folded at once, is read item by item.

*Only model-checked.* The liveness properties,
`RunEnds`, `RetryConverges`, `NoRebootLoop`, `BootEnds`, `NodeComesUp` and
`EntersOrStops`, are out of the prover's reach, which has no rule for fairness, and so are
the violations.

## Not modelled

* The manual upgrade scripts (`overlay/share/edgi/edgi/scripts`), deprecated since
  v0.9.0 (README.md:389): they change the links of the component store in place and
  without the lock, so that none of what is shown of `Upgrade` holds next to them.
* `edgi rc`: a straight line of mounts and device nodes whose errors are logged;
  nothing interleaves and nothing outlives the boot.
* Of the boot, what is rebuilt in tmpfs at every start, and the directories
  `setup_edgi`, `setup_kernel_squashfs` and `setup_k3s` fill when they are missing: a
  disk that `install.sh` has finished has them.
* The image build has no run-time state; the upgrade controller is external, and in
  `Upgrade` what it does is to start a job any number of times.

`PROJECT.json` lists every component.

## Plan

1. Done: the models and runs above; every safety property of `Upgrade`, `FileWrite`,
   `Boot`, `Install`, `ConfigMerge`, `Configure`, `EnterRoot` and `Dialog` that is expected to hold, and
   both refinements, proved.
2. Boot with the component store: the directories `mode-disk` fills on a disk an
   installation has left unfinished, and `previous` as a way back.
