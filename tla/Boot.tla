-------------------------------- MODULE Boot --------------------------------
(***************************************************************************)
(* How a node gets from power-on to a running system: overlay/init, the    *)
(* choice of the boot mode (overlay/libexec/k3os/mode) and, for a node     *)
(* installed on disk, mode-disk: it takes over a foreign root file system, *)
(* resets the state when asked to and pivots to the disk, where init runs  *)
(* a second time, in mode local.                                           *)
(*                                                                         *)
(* What is on disk survives a loss of power at any step; everything else   *)
(* starts over.  The file system journals its metadata in order, so what a *)
(* loss of power leaves is what the calls up to some point have done.      *)
(***************************************************************************)
EXTENDS Naturals, FiniteSets

CONSTANTS
    Cmdline,        \* how the kernel is started: [mode, fallback], "" if not given,
                    \* and is the root file system in memory?
    Disks,          \* the disks a node may come with, see DiskType
    MaxWait,        \* MODE_WAIT_SECONDS (30 in the code)
    MaxPowerLoss,   \* bound: losses of power
    MaxFailures     \* bound: commands that fail

(* The marker files under edgi/system, and what else a root directory has. *)
Flag    == {"takeover", "factory-reset", "ephemeral", "poweroff", "growpart"}
Foreign == {"plain", "hidden", "boot", "sbin"}
Scripts == {"disk", "live", "install", "local", "shell"}
Names   == Scripts \cup {"", "live-server"}

(* labelled: there is a partition labelled EDGI_STATE.  usrmerge: sbin is  *)
(* a symbolic link to usr/sbin.  init: what /sbin/init is: a link to a     *)
(* foreign program elsewhere (systemd), a foreign program itself, or the   *)
(* link to ours.  data: the state of the system; "old" if it is from       *)
(* before a reset that is due, "kept" if it was to go in a reset, could    *)
(* not be deleted and is no longer due.                                    *)
DiskType ==
    [labelled : BOOLEAN, flags : SUBSET Flag, foreign : SUBSET Foreign,
     usrmerge : BOOLEAN, init : {"none", "link", "program", "edgi"},
     data : {"none", "old", "new", "kept"}]

ASSUME CmdlineAssumption ==
    Cmdline \subseteq [mode : Names, fallback : Names, memory : BOOLEAN]
ASSUME DisksAssumption   == Disks \subseteq DiskType
(* What comes with foreign files is what install.sh --takeover has marked; *)
(* "old" has its reason.                                                   *)
ASSUME MarkedAssumption ==
    \A d \in Disks :
        /\ d.foreign \subseteq {"hidden"} \/ "takeover" \in d.flags
        /\ d.data # "kept"
        /\ d.data = "old" => d.flags \cap {"factory-reset", "ephemeral"} # {}
ASSUME BoundAssumption   ==
    MaxWait \in Nat \ {0} /\ MaxPowerLoss \in Nat /\ MaxFailures \in Nat

VARIABLES
    disk,           \* what is on the disk
    cmdline,        \* the command line the boot loader passes
    visible,        \* has the kernel found the partition yet?
    pc,             \* the step the boot is at
    pass,           \* 1: from the initrd, 2: from the disk (EDGI_MODE=local)
    waited,         \* seconds spent waiting for a boot mode
    losses,         \* losses of power so far
    failures,       \* commands that have failed so far
    shutdown        \* has takeover turned the machine off? (history)

vars == <<disk, cmdline, visible, pc, pass, waited, losses, failures, shutdown>>

TakeoverSteps == {"t-reset", "t-sbinlink", "t-root", "t-sbin", "t-boot",
                  "t-unflag", "t-data", "t-off", "t-halt"}
DiskSteps     == {"mount", "grow", "ungrow", "setup", "takeover", "wipe",
                  "unflag", "giveup", "pivot"}
Halted        == {"off", "running", "rescue", "live", "install", "shell", "foreign"}

TypeOK ==
    /\ disk \in DiskType
    /\ cmdline \in Cmdline
    /\ visible \in BOOLEAN /\ shutdown \in BOOLEAN
    /\ pc \in {"mode", "local"} \cup TakeoverSteps \cup DiskSteps \cup Halted
    /\ pass \in {1, 2}
    /\ waited \in 0..MaxWait
    /\ losses \in 0..MaxPowerLoss /\ failures \in 0..MaxFailures

Init ==
    /\ disk \in Disks
    /\ cmdline \in Cmdline
    /\ visible = FALSE /\ shutdown = FALSE
    /\ pc = "mode" /\ pass = 1 /\ waited = 0
    /\ losses = 0 /\ failures = 0

Has(flag) == flag \in disk.flags

(* The machine's part of the state when a boot begins.                     *)
FromPowerOn ==
    pc' = "mode" /\ pass' = 1 /\ waited' = 0 /\ visible' = FALSE

Goto(label) == pc' = label /\ UNCHANGED <<pass, waited, visible>>

-----------------------------------------------------------------------------
(* The script `mode`.  What the command line names comes first, then       *)
(* EDGI_MODE, which only the second pass has, then a partition labelled    *)
(* EDGI_STATE, then the fallback; an overlay installation starts with its  *)
(* root on the disk, and that is local.                                    *)
Mode ==
    IF cmdline.mode # "" THEN cmdline.mode
    ELSE IF pass = 2 THEN "local"
    ELSE IF disk.labelled /\ visible THEN "disk"
    ELSE IF cmdline.fallback # "" THEN cmdline.fallback
    ELSE IF ~cmdline.memory THEN "local"
    ELSE ""

ChooseMode ==
    /\ pc = "mode"
    /\ Mode # ""
    /\ Goto(IF Mode = "disk" THEN "mount" ELSE IF Mode \in Scripts THEN Mode
            ELSE "rescue")
    /\ UNCHANGED <<disk, cmdline, losses, failures, shutdown>>

(* Mutant of Wait: the seconds are not counted down.                       *)
WaitForEver ==
    /\ pc = "mode" /\ Mode = ""
    /\ waited' = waited + 1
    /\ UNCHANGED <<disk, cmdline, visible, pc, pass, losses, failures, shutdown>>

(* One second of the loop; the partition may turn up at any time.          *)
Wait ==
    /\ pc = "mode" /\ Mode = "" /\ waited < MaxWait
    /\ waited' = waited + 1
    /\ UNCHANGED <<disk, cmdline, visible, pc, pass, losses, failures, shutdown>>

GiveUp ==
    /\ pc = "mode" /\ Mode = "" /\ waited = MaxWait
    /\ Goto("rescue")
    /\ UNCHANGED <<disk, cmdline, losses, failures, shutdown>>

Appear ==
    /\ ~visible
    /\ visible' = TRUE
    /\ UNCHANGED <<disk, cmdline, pc, pass, waited, losses, failures, shutdown>>

-----------------------------------------------------------------------------
(* mode-disk.  A step leaves the disk as it is or changes it once.         *)
DiskStep(from, to, after) ==
    /\ pc = from
    /\ disk' = after
    /\ Goto(to)
    /\ UNCHANGED <<cmdline, losses, failures, shutdown>>

Without(flag) == [disk EXCEPT !.flags = @ \ {flag}]

Mount ==
    DiskStep("mount", IF ~(disk.labelled /\ visible) THEN "rescue"
                      ELSE IF Has("growpart") THEN "grow" ELSE "setup", disk)

(* Growing the partition may fail; the marker goes all the same.           *)
Grow == DiskStep("grow", "ungrow", disk)

(* Mutant of Ungrow: the marker stays.                                     *)
UngrowMissing == DiskStep("ungrow", "setup", disk)

Ungrow == DiskStep("ungrow", "setup", Without("growpart"))

(* Does /sbin/init lead anywhere?  A foreign link leads to foreign files.  *)
InitLeads ==
    \/ disk.init \in {"edgi", "program"}
    \/ disk.init = "link" /\ "plain" \in disk.foreign

(* setup_edgi to setup_k3s; of those, setup_init matters to what follows.  *)
Setup ==
    DiskStep("setup", "takeover",
             IF InitLeads THEN disk ELSE [disk EXCEPT !.init = "edgi"])

Takeover == DiskStep("takeover", IF Has("takeover") THEN "t-reset" ELSE "wipe", disk)

(* Mutant of TReset: the marker goes first.                                *)
TResetEarly ==
    DiskStep("t-reset", "t-sbinlink",
             [disk EXCEPT !.flags = (@ \cup {"factory-reset"}) \ {"takeover"}])

TReset ==
    DiskStep("t-reset", "t-sbinlink", [disk EXCEPT !.flags = @ \cup {"factory-reset"}])

(* With the link to usr/sbin goes the way to the init in it.               *)
TSbinLink ==
    DiskStep("t-sbinlink", "t-root",
             IF disk.usrmerge THEN [disk EXCEPT !.usrmerge = FALSE, !.init = "none"]
             ELSE disk)

(* `for i in *` does not see hidden files.                                 *)
TRoot == DiskStep("t-root", "t-sbin", [disk EXCEPT !.foreign = @ \ {"plain"}])

(* Of sbin all goes but the names that ours are to have: sbin/init stays,  *)
(* whatever it is.                                                         *)
TSbin == DiskStep("t-sbin", "t-boot", [disk EXCEPT !.foreign = @ \ {"sbin"}])

TBoot == DiskStep("t-boot", "t-unflag", [disk EXCEPT !.foreign = @ \ {"boot"}])

(* Mutant of TUnflag: the marker stays.                                    *)
TUnflagMissing == DiskStep("t-unflag", "t-data", disk)

TUnflag == DiskStep("t-unflag", "t-data", Without("takeover"))

TData == DiskStep("t-data", "t-off", [disk EXCEPT !.data = "none"])

(* The marker of the power-off is removed before the machine is off.       *)
TOff ==
    /\ pc = "t-off"
    /\ IF Has("poweroff")
       THEN disk' = Without("poweroff") /\ Goto("t-halt")
       ELSE UNCHANGED disk /\ FromPowerOn
    /\ UNCHANGED <<cmdline, losses, failures, shutdown>>

THalt ==
    /\ pc = "t-halt"
    /\ Goto("off")
    /\ shutdown' = TRUE
    /\ UNCHANGED <<disk, cmdline, losses, failures>>

(* Mutant of Wipe: an ephemeral node keeps its data.                       *)
WipeKeepsEphemeral ==
    IF Has("factory-reset")
    THEN DiskStep("wipe", "unflag", [disk EXCEPT !.data = "none"])
    ELSE DiskStep("wipe", "pivot", disk)

(* rm -rf edgi/data edgi/system/factory-reset: one command, in this order. *)
Wipe ==
    IF Has("factory-reset") \/ Has("ephemeral")
    THEN DiskStep("wipe", "unflag", [disk EXCEPT !.data = "none"])
    ELSE DiskStep("wipe", "pivot", disk)

Unflag == DiskStep("unflag", "pivot", Without("factory-reset"))

(* rm cannot delete all of the data: it goes on to the marker, and ends    *)
(* with an error only then.                                                *)
WipeFails ==
    /\ failures < MaxFailures
    /\ failures' = failures + 1
    /\ pc = "wipe" /\ (Has("factory-reset") \/ Has("ephemeral"))
    /\ disk' = IF disk.data = "none" THEN disk ELSE [disk EXCEPT !.data = "kept"]
    /\ Goto("giveup")
    /\ UNCHANGED <<cmdline, losses, shutdown>>

UnflagAndStop == DiskStep("giveup", "rescue", Without("factory-reset"))

(* EDGI_MODE=local exec /sbin/init, with the disk as the root.             *)
Pivot ==
    /\ pc = "pivot"
    /\ IF disk.init = "edgi"
       THEN pc' = "mode" /\ pass' = 2 /\ waited' = 0
       ELSE pc' = (IF InitLeads THEN "foreign" ELSE "rescue") /\ UNCHANGED <<pass, waited>>
    /\ UNCHANGED <<disk, cmdline, visible, losses, failures, shutdown>>

(* mode-local and the script `boot`.  grow_live cannot remove its marker   *)
(* from the read-only mount.                                               *)
Local ==
    /\ pc = "local"
    /\ IF pass = 2 /\ Has("growpart")
       THEN UNCHANGED disk /\ Goto("rescue")
       ELSE /\ disk' = IF pass = 2 /\ disk.data = "none" THEN [disk EXCEPT !.data = "new"]
                                                        ELSE disk
            /\ Goto("running")
    /\ UNCHANGED <<cmdline, losses, failures, shutdown>>

-----------------------------------------------------------------------------
(* A command fails: set -e and the trap of init make it the rescue shell,  *)
(* but not in takeover, which runs under `|| true` and goes on.            *)
Fail ==
    /\ failures < MaxFailures
    /\ failures' = failures + 1
    /\ pc \in (DiskSteps \ {"wipe"}) \cup {"local"}
    /\ Goto("rescue")
    /\ UNCHANGED <<disk, cmdline, losses, shutdown>>

AfterStep ==
    [s \in TakeoverSteps |->
        CASE s = "t-reset" -> "t-sbinlink" [] s = "t-sbinlink" -> "t-root"
          [] s = "t-root" -> "t-sbin"      [] s = "t-sbin" -> "t-boot"
          [] s = "t-boot" -> "t-unflag"    [] s = "t-unflag" -> "t-data"
          [] s = "t-data" -> "t-off"       [] OTHER -> "wipe"]

FailOn ==
    /\ failures < MaxFailures
    /\ failures' = failures + 1
    /\ pc \in TakeoverSteps
    /\ Goto(IF pc = "t-off" /\ Has("poweroff") THEN "t-halt" ELSE AfterStep[pc])
    /\ UNCHANGED <<disk, cmdline, losses, shutdown>>

(* What a running system keeps is old once a reset is due.                 *)
Due(d) ==
    IF d.data \in {"new", "kept"} /\ d.flags \cap {"factory-reset", "ephemeral"} # {}
    THEN [d EXCEPT !.data = "old"] ELSE d

(* An operator asks for a reset, or makes the node ephemeral.              *)
AskForReset ==
    /\ pc = "running" /\ pass = 2
    /\ \E flag \in {"factory-reset", "ephemeral"} :
        disk' = [disk EXCEPT !.flags = @ \cup {flag}]
    /\ UNCHANGED <<cmdline, visible, pc, pass, waited, losses, failures, shutdown>>

Restart ==
    /\ pc \in Halted
    /\ disk' = Due(disk)
    /\ FromPowerOn
    /\ UNCHANGED <<cmdline, losses, failures, shutdown>>

PowerLoss ==
    /\ pc \notin Halted
    /\ losses < MaxPowerLoss
    /\ losses' = losses + 1
    /\ disk' = Due(disk)
    /\ FromPowerOn
    /\ UNCHANGED <<cmdline, failures, shutdown>>

BootStep ==
    \/ ChooseMode \/ Wait \/ GiveUp
    \/ Mount \/ Grow \/ Ungrow \/ Setup
    \/ Takeover \/ TReset \/ TSbinLink \/ TRoot \/ TSbin \/ TBoot \/ TUnflag
    \/ TData \/ TOff \/ THalt
    \/ Wipe \/ Unflag \/ UnflagAndStop \/ Pivot \/ Local

Next == BootStep \/ Appear \/ Fail \/ FailOn \/ WipeFails \/ AskForReset \/ Restart \/ PowerLoss

(* A machine that has power runs its boot on.                              *)
Spec == Init /\ [][Next]_vars /\ WF_vars(BootStep)

-----------------------------------------------------------------------------
(* Properties.                                                             *)

(* Nothing from before a factory reset, or from an earlier boot of an      *)
(* ephemeral node, is there when the system comes up, wherever power is    *)
(* lost and whatever command fails in between; with one exception: what a  *)
(* factory reset could not delete is not tried again, because that rm      *)
(* removes the marker all the same.  An ephemeral node does try again.     *)
ForgetsOldState ==
    pc \in {"mode", "local"} /\ pass = 2 =>
        /\ disk.data # "old"
        /\ disk.data = "kept" => failures > 0 /\ ~Has("ephemeral")

(* A takeover that is cut short is taken up again: once its marker is gone *)
(* what it deletes is gone.                                                *)
TakeoverFinishes ==
    failures = 0 /\ ~Has("takeover") => disk.foreign \subseteq {"hidden"}

(* A link to a foreign init never lives until the pivot: whatever it leads *)
(* to is deleted, and the link replaced.  A foreign sbin/init that is a    *)
(* program itself is what the node hands over to, takeover or not:         *)
(* setup_init leaves it, and so does the deletion, although by             *)
(* README.md:168 EDGI "will then delete all files on the root partition    *)
(* that are not EDGI".  Nothing else gets the node out of EDGI's hands.    *)
OnlyProgramsSurvive == failures = 0 /\ pc = "foreign" => disk.init = "program"

(* The rescue shell has a cause: a command failed, the command line asks   *)
(* for what there is not, or there was no partition in time.               *)
RescueHasCause ==
    pc = "rescue" =>
        \/ failures > 0
        \/ cmdline.mode \notin Scripts \cup {""}
        \/ cmdline.fallback \notin Scripts \cup {""}
        \/ "disk" \in {cmdline.mode, cmdline.fallback}
        \/ waited = MaxWait

(* A boot ends in a system, a shell, an installer or the machine off: no   *)
(* takeover or pivot goes round for ever.                                  *)
BootEnds == []<>(pc \in Halted)
=============================================================================
