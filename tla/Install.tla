------------------------------ MODULE Install -------------------------------
(***************************************************************************)
(* install.sh, step by step, and the boots of the machine it runs on: an   *)
(* installation formats a disk or takes over the root file system it finds *)
(* and may be cut short at any step, by a command that fails or a loss of  *)
(* power; what it leaves is what Boot starts from.                         *)
(*                                                                         *)
(* The script runs under set -e.  An installation that has failed is not   *)
(* started again before the machine is.                                    *)
(***************************************************************************)
EXTENDS Boot

CONSTANTS
    Setups,         \* machines with what is to be installed, see SetupType
    Attempts        \* downloads are tried so often (5 in the code)

(* format: partition and format the disk; otherwise the file system that   *)
(* is there is used.  config: where the configuration comes from, iso: is  *)
(* there a medium, or is the image downloaded?  interactive: started by    *)
(* hand, with arguments.                                                   *)
JobType ==
    [format : BOOLEAN, takeover : BOOLEAN, poweroff : BOOLEAN, interactive : BOOLEAN,
     config : {"none", "file", "url"}, iso : {"medium", "url"}]

(* at: where the machine is when the model starts.  net: does it boot from *)
(* a medium or the network, with its command line, whatever is on the      *)
(* disk: always, until somebody takes the medium away, or never?           *)
NetType == {"always", "once", "never"}
SetupType ==
    [disk : DiskType, cmdline : Cmdline, net : NetType, at : {"off", "foreign"}, job : JobType]

(* The menu of our boot loader passes neither a mode nor a fallback.       *)
Menu == [mode |-> "", fallback |-> "", memory |-> TRUE]

ASSUME SetupsAssumption   == Setups \subseteq SetupType /\ Menu \in Cmdline
(* README, "Takeover Installation": it is run by hand, with --no-format,   *)
(* on the root of the running system; a medium to start from instead is    *)
(* there always or never.  Its init is no program, which would survive the *)
(* takeover and be started by it (see OnlyProgramsSurvive).  A layout made *)
(* by hand, which --no-format alone is for, is left out: if EDGI is        *)
(* installed there twice, it is overwritten in place.                      *)
ASSUME KindsAssumption ==
    \A s \in Setups :
        /\ "takeover" \notin s.disk.flags
        /\ s.disk.foreign = {} \/ {"plain", "boot"} \subseteq s.disk.foreign
        /\ s.job.takeover = ~s.job.format
        /\ s.job.takeover =>
              /\ s.job.interactive /\ s.at = "foreign" /\ s.net # "once"
              /\ s.disk.foreign # {} /\ s.disk.init # "program"
ASSUME AttemptsAssumption == Attempts \in Nat \ {0}

VARIABLES
    job,            \* what is installed, and how
    net,            \* does the machine boot from elsewhere than its disk?
    store,          \* edgi/ on the partition: none, part of it, the whole
    config,         \* edgi/system/config.yaml
    loader,         \* what the boot loader of the disk starts, if anything
    image,          \* the image EDGI is copied from
    ipc,            \* the installer's next step
    tries,          \* downloads of the present file that have failed
    unnoticed       \* something failed and its script went on (history)

kept  == <<job, net>>
ivars == <<job, net, store, config, loader, image, ipc, tries, unnoticed>>
allvars == <<vars, ivars>>

Working == {"iso", "fetchiso", "label", "erase", "mkfs", "mount", "copy", "copying",
            "grow", "config", "marks", "power", "grub", "write", "grubinstall",
            "opt", "end"}

InstallTypeOK ==
    /\ TypeOK
    /\ job \in JobType /\ net \in NetType
    /\ store \in {"none", "part", "whole"}
    /\ config \in {"none", "placeholder", "part", "given"}
    /\ loader \in {"none", "foreign", "edgi"}
    /\ image \in {"none", "empty", "part", "whole"}
    /\ ipc \in {"idle", "failed", "done"} \cup Working
    /\ tries \in 0..(Attempts - 1)
    /\ unnoticed \in BOOLEAN

(* No disk comes with EDGI on it.                                          *)
InstallInit ==
    \E s \in Setups :
        /\ disk = s.disk /\ cmdline = s.cmdline /\ net = s.net /\ job = s.job
        /\ pc = s.at /\ pass = 1 /\ waited = 0 /\ visible = FALSE /\ shutdown = FALSE
        /\ losses = 0 /\ failures = 0
        /\ store = "none" /\ config = "none" /\ image = "none"
        /\ loader = (IF s.disk.foreign = {} THEN "none" ELSE "foreign")
        /\ ipc = "idle" /\ tries = 0 /\ unnoticed = FALSE

-----------------------------------------------------------------------------
(* The steps of install.sh.  A step reads and writes the disk; the boot is *)
(* where it was.                                                           *)
Disk(d) == disk' = d /\ UNCHANGED <<cmdline, visible, pc, pass, waited, losses,
                                    failures, shutdown>>

InstallStep(from, to) == ipc = from /\ ipc' = to /\ UNCHANGED kept

(* The service ccapply starts it in install mode, once; or it is started   *)
(* by hand on a system that is to be taken over.                           *)
Begin ==
    /\ pc = IF job.interactive THEN "foreign" ELSE "install"
    /\ InstallStep("idle", "iso")
    /\ Disk(disk) /\ UNCHANGED <<store, config, loader, image, tries, unnoticed>>

(* get_iso: the medium is there, or there is an empty temporary file.      *)
GetIso ==
    /\ InstallStep("iso", IF job.iso = "url" THEN "fetchiso"
                          ELSE IF job.format THEN "erase" ELSE "label")
    /\ image' = IF job.iso = "url" THEN "empty" ELSE "whole"
    /\ Disk(disk) /\ UNCHANGED <<store, config, loader, tries, unnoticed>>

(* Mutant of GetUrl: the attempts are not counted up to a limit.           *)
GetUrlForEver(from, to, file, complete) ==
    \/ /\ InstallStep(from, to)
       /\ file' = complete /\ tries' = 0 /\ UNCHANGED unnoticed
    \/ /\ InstallStep(from, from)
       /\ file' \in {file, "part"} /\ tries' = tries + 1 /\ UNCHANGED unnoticed

(* get_url, for what is not a local file: what an attempt that fails       *)
(* leaves is nothing, or some of it.  The loop ends with the status of its *)
(* `sleep`, so that giving up goes unnoticed.                              *)
GetUrl(from, to, file, complete) ==
    \/ /\ InstallStep(from, to)
       /\ file' = complete /\ tries' = 0 /\ UNCHANGED unnoticed
    \/ /\ tries < Attempts - 1
       /\ InstallStep(from, from)
       /\ file' \in {file, "part"} /\ tries' = tries + 1 /\ UNCHANGED unnoticed
    \/ /\ tries = Attempts - 1
       /\ InstallStep(from, to)
       /\ file' \in {file, "part"} /\ tries' = 0 /\ unnoticed' = TRUE

FetchIso ==
    /\ GetUrl("fetchiso", IF job.format THEN "erase" ELSE "label", image, "whole")
    /\ Disk(disk) /\ UNCHANGED <<store, config, loader>>

(* Mutant of Label: the file system is marked for the takeover at once.    *)
LabelAndMark ==
    /\ InstallStep("label", "mount")
    /\ Disk([disk EXCEPT !.labelled = TRUE,
                         !.flags = IF job.takeover THEN @ \cup {"takeover"} ELSE @])
    /\ UNCHANGED <<store, config, loader, image, tries, unnoticed>>

(* do_format with --no-format: tune2fs -L, if there is no such label.      *)
Label ==
    /\ InstallStep("label", "mount")
    /\ Disk([disk EXCEPT !.labelled = TRUE])
    /\ UNCHANGED <<store, config, loader, image, tries, unnoticed>>

(* do_format: dd and parted take the old partitions and boot loader away,  *)
(* mkfs.ext4 makes the partition that has the label.                       *)
Erase ==
    /\ InstallStep("erase", "mkfs")
    /\ Disk([labelled |-> FALSE, flags |-> {}, foreign |-> {}, usrmerge |-> FALSE,
             init |-> "none", data |-> "none"])
    /\ store' = "none" /\ config' = "none" /\ loader' = "none"
    /\ UNCHANGED <<image, tries, unnoticed>>

Mkfs ==
    /\ InstallStep("mkfs", "mount")
    /\ Disk([disk EXCEPT !.labelled = TRUE])
    /\ UNCHANGED <<store, config, loader, image, tries, unnoticed>>

(* do_mount: an empty file cannot be mounted, a part of one perhaps.       *)
MountBoth ==
    /\ \/ image # "empty" /\ InstallStep("mount", "copy")
       \/ image # "whole" /\ InstallStep("mount", "failed")
    /\ Disk(disk) /\ UNCHANGED <<store, config, loader, image, tries, unnoticed>>

(* Mutant of StartCopy: nobody waits for the copy.                         *)
StartCopyOnly ==
    /\ InstallStep("copy", "config")
    /\ store' = "part" /\ config' = "placeholder"
    /\ Disk(disk) /\ UNCHANGED <<loader, image, tries, unnoticed>>

(* do_copy: tar | tar.  Files are replaced, the placeholder of the image   *)
(* for the configuration among them.                                       *)
StartCopy ==
    /\ InstallStep("copy", "copying")
    /\ store' = "part" /\ config' = "placeholder"
    /\ Disk(disk) /\ UNCHANGED <<loader, image, tries, unnoticed>>

(* The status of a pipeline is that of the tar that writes: one that reads *)
(* an incomplete or bad image fails unnoticed.                             *)
FinishCopy ==
    /\ InstallStep("copying", IF job.format THEN "grow" ELSE "config")
    /\ \/ image = "whole" /\ store' = "whole" /\ UNCHANGED <<unnoticed, failures>>
       \/ /\ image = "part" \/ failures < MaxFailures
          /\ failures' = IF image = "part" THEN failures ELSE failures + 1
          /\ unnoticed' = TRUE /\ UNCHANGED store
    /\ UNCHANGED <<disk, cmdline, visible, pc, pass, waited, losses, shutdown>>
    /\ UNCHANGED <<config, loader, image, tries>>

MarkGrow ==
    /\ InstallStep("grow", "config")
    /\ Disk([disk EXCEPT !.flags = @ \cup {"growpart"}])
    /\ UNCHANGED <<store, config, loader, image, tries, unnoticed>>

(* Mutant of GetConfig: a configuration that is there is kept.             *)
GetConfigUnlessThere ==
    /\ InstallStep("config", "marks")
    /\ Disk(disk) /\ UNCHANGED <<store, config, loader, image, tries, unnoticed>>

(* A local file is copied.                                                 *)
GetConfig ==
    /\ IF job.config = "url" THEN GetUrl("config", "marks", config, "given")
       ELSE /\ InstallStep("config", "marks")
            /\ config' = IF job.config = "file" THEN "given" ELSE config
            /\ UNCHANGED <<tries, unnoticed>>
    /\ Disk(disk) /\ UNCHANGED <<store, loader, image>>

Mark ==
    /\ InstallStep("marks", IF job.takeover /\ job.poweroff THEN "power" ELSE "grub")
    /\ Disk([disk EXCEPT !.flags = IF job.takeover THEN @ \cup {"takeover"} ELSE @])
    /\ UNCHANGED <<store, config, loader, image, tries, unnoticed>>

MarkPower ==
    /\ InstallStep("power", "grub")
    /\ Disk([disk EXCEPT !.flags = @ \cup {"poweroff"}])
    /\ UNCHANGED <<store, config, loader, image, tries, unnoticed>>

(* install_grub: `cat > grub.cfg` truncates the file, then writes it.  On  *)
(* a disk that was formatted nothing reads it before grub-install.         *)
TruncateGrub ==
    /\ InstallStep("grub", "write")
    /\ loader' = "none"
    /\ Disk(disk) /\ UNCHANGED <<store, config, image, tries, unnoticed>>

WriteGrub ==
    /\ InstallStep("write", IF job.format THEN "grubinstall" ELSE "opt")
    /\ loader' = IF job.format THEN loader ELSE "edgi"
    /\ Disk(disk) /\ UNCHANGED <<store, config, image, tries, unnoticed>>

GrubInstall ==
    /\ InstallStep("grubinstall", "opt")
    /\ loader' = "edgi"
    /\ Disk(disk) /\ UNCHANGED <<store, config, image, tries, unnoticed>>

CreateOpt ==
    /\ InstallStep("opt", "end")
    /\ Disk([disk EXCEPT !.data = "new"])
    /\ UNCHANGED <<store, config, loader, image, tries, unnoticed>>

(* A command fails: set -e ends the script, and the machine stays up.      *)
InstallFails ==
    /\ failures < MaxFailures
    /\ failures' = failures + 1
    /\ ipc \in Working
    /\ ipc' = "failed"
    /\ UNCHANGED <<disk, cmdline, visible, pc, pass, waited, losses, shutdown>>
    /\ UNCHANGED <<kept, store, config, loader, image, tries, unnoticed>>

-----------------------------------------------------------------------------
(* What the machine starts: the medium or the network, unless it has been  *)
(* taken away; or what the boot loader finds.                              *)
Start ==
    /\ net' \in (IF net = "once" THEN {"once", "never"} ELSE {net})
    /\ visible' = FALSE /\ waited' = 0 /\ pass' = 1
    /\ cmdline' = IF net' # "never" THEN cmdline ELSE Menu
    /\ pc' = IF net' # "never" \/ (loader = "edgi" /\ store = "whole") THEN "mode"
             ELSE IF loader = "foreign" /\ {"plain", "boot"} \subseteq disk.foreign
             THEN "foreign" ELSE "off"
    /\ image' = "none" /\ ipc' = "idle" /\ tries' = 0
    /\ UNCHANGED <<job, store, config, loader, unnoticed>>

SwitchOn ==
    /\ pc \in Halted /\ ipc \notin Working
    /\ Start
    /\ disk' = Due(disk)
    /\ UNCHANGED <<losses, failures, shutdown>>

LosePower ==
    /\ pc \notin Halted \/ ipc \in Working
    /\ losses < MaxPowerLoss
    /\ losses' = losses + 1
    /\ Start
    /\ disk' = Due(disk)
    /\ UNCHANGED <<failures, shutdown>>

(* Started by hand it leaves the reboot to the operator.                   *)
End ==
    /\ ipc = "end"
    /\ IF job.interactive
       THEN /\ ipc' = "done"
            /\ Disk(disk) /\ UNCHANGED <<kept, store, config, loader, image, tries, unnoticed>>
       ELSE IF job.poweroff
       THEN /\ ipc' = "done" /\ pc' = "off"
            /\ UNCHANGED <<disk, cmdline, visible, pass, waited, losses, failures, shutdown>>
            /\ UNCHANGED <<kept, store, config, loader, image, tries, unnoticed>>
       ELSE Start /\ UNCHANGED <<disk, losses, failures, shutdown>>

Installing ==
    \/ Begin \/ GetIso \/ FetchIso \/ Label \/ Erase \/ Mkfs \/ MountBoth
    \/ StartCopy \/ FinishCopy \/ MarkGrow \/ GetConfig \/ Mark \/ MarkPower
    \/ TruncateGrub \/ WriteGrub \/ GrubInstall \/ CreateOpt \/ InstallFails \/ End

Booting ==
    \/ (BootStep \/ Appear \/ Fail \/ WipeFails \/ AskForReset) /\ UNCHANGED ivars
    \/ /\ FailOn /\ unnoticed' = TRUE
       /\ UNCHANGED <<job, net, store, config, loader, image, ipc, tries>>

InstallNext == Installing \/ Booting \/ SwitchOn \/ LosePower

InstallSpec == InstallInit /\ [][InstallNext]_allvars

-----------------------------------------------------------------------------
(* Properties.                                                             *)

(* A takeover gives up the old system only for a whole new one: whenever   *)
(* it is cut short, and however the machine is started then, what was      *)
(* there is deleted only when all of EDGI has been copied.                 *)
TakeoverReplaces ==
    job.takeover /\ ~unnoticed => "plain" \in disk.foreign \/ store = "whole"

(* The boot loader of the disk leads to a system that is there: to EDGI    *)
(* only once all of it is, and to the old system only as long as it is.    *)
(* (For a moment, while grub.cfg is rewritten in place, it leads nowhere.) *)
LeadsSomewhere ==
    ~unnoticed =>
        /\ loader = "edgi" => store = "whole" /\ disk.labelled
        /\ net = "never" /\ loader = "foreign" => {"plain", "boot"} \subseteq disk.foreign

(* A node that comes up from its disk is what the installation was to      *)
(* make: whole, with the configuration asked for, the old system gone, and *)
(* the machine switched off in between where the takeover was to do that.  *)
(* (A loss of power may come after the marker is removed and before that.) *)
NodeAsAsked ==
    ~unnoticed /\ net = "never" /\ pc = "running" /\ pass = 2 =>
        /\ store = "whole"
        /\ job.config # "none" => config = "given"
        /\ job.takeover => disk.foreign \subseteq {"hidden"}
        /\ job.takeover /\ job.poweroff /\ losses = 0 => shutdown

(* README.md:113: edgi.install.config_url is "The URL of the config to be  *)
(* installed at `/edgi/system/config.yaml`".                               *)
ConfigInstalled ==
    pc = "running" /\ pass = 2 /\ loader = "edgi" /\ job.config = "url" => config = "given"
=============================================================================
