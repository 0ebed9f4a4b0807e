---------------------------- MODULE InstallProofs ----------------------------
(***************************************************************************)
(* Proofs about Install, for any machines, any number of losses of power   *)
(* and of failures: its types, and that a takeover replaces what it        *)
(* deletes, that the boot loader leads somewhere, and that the node that   *)
(* comes up is the one that was asked for.                                 *)
(***************************************************************************)
EXTENDS Install, BootProofs

Quiet == ~unnoticed

(* The installer's steps: until EDGI is there, until it is configured and  *)
(* marked, and until its boot loader is.                                   *)
Copying   == {"mount", "copy", "copying"}
Preparing == {"iso", "fetchiso", "label", "erase", "mkfs"} \cup Copying
Writing   == {"marks", "power", "grub", "write", "grubinstall", "opt", "end"}
Copied    == {"grow", "config"} \cup Writing

(* The kinds of machine.                                                   *)
Kinds ==
    /\ job.takeover = ~job.format
    /\ job.takeover => job.interactive /\ net # "once" /\ disk.init # "program"
    /\ ~job.takeover => ~Has("takeover")

(* The installer runs on a machine that does nothing else; its steps have  *)
(* what those before them have done.                                       *)
AtWork ==
    /\ ipc \in Working => pc = IF job.interactive THEN "foreign" ELSE "install"
    /\ ipc \in Copying \cup Copied => disk.labelled
    /\ ipc \in {"erase", "mkfs", "grow", "grubinstall"} => job.format
    /\ ipc = "label" => job.takeover
    /\ job.format /\ ipc \in {"mkfs"} \cup Copying \cup (Copied \ {"opt", "end"}) => loader = "none"
    /\ job.takeover /\ ipc \in {"power", "grub", "write"} => Has("takeover")
    /\ job.takeover /\ job.poweroff /\ ipc \in {"grub", "write"} => Has("poweroff")

(* Unless a download or a copy has failed unnoticed.                       *)
Sound ==
    Quiet =>
        /\ ipc \in {"label", "erase", "mkfs"} \cup Copying => image = "whole"
        /\ ipc \in Copied => store = "whole"
        /\ ipc \in Writing /\ job.config # "none" => config = "given"
        /\ loader = "edgi" => /\ store = "whole" /\ disk.labelled
                              /\ job.config # "none" => config = "given"

(* A machine that starts from its disk boots EDGI if that is what the boot *)
(* loader starts, and else the system that was there.                      *)
FromDisk ==
    /\ net = "never" /\ pc \notin {"off", "foreign"} =>
          loader = "edgi" /\ store = "whole" /\ cmdline = Menu
    /\ net = "never" => pc # "install"
    /\ loader = "foreign" /\ (net = "never" \/ ~job.takeover) =>
          {"plain", "boot"} \subseteq disk.foreign

(* The old system is there until its boot loader is given up; if it could  *)
(* start from elsewhere, it is not marked before EDGI is there.            *)
OldSystem ==
    job.takeover /\ Quiet =>
        /\ pc = "foreign" /\ ipc \in {"idle", "config", "marks", "power", "grub"} \cup Preparing =>
              loader = "foreign" /\ "plain" \in disk.foreign
        /\ pc = "foreign" /\ ipc \in {"idle", "config", "marks"} \cup Preparing /\ net # "never" =>
              ~Has("takeover")
        /\ Has("takeover") /\ store # "whole" => net = "never" /\ loader = "foreign"
        /\ "plain" \in disk.foreign \/ store = "whole"

(* Where the takeover is.                                                  *)
TakingOver ==
    /\ pc \in {"t-reset", "t-sbinlink", "t-root", "t-sbin", "t-boot", "t-unflag"} => Has("takeover")
    /\ job.takeover /\ Quiet =>
        /\ pc \in {"wipe", "unflag", "giveup", "pivot"} \/ (pass = 2 /\ pc # "foreign") => ~Has("takeover")
        /\ pc \in {"t-sbin", "t-boot", "t-unflag"} => "plain" \notin disk.foreign
        /\ pc \in {"t-boot", "t-unflag"} => "sbin" \notin disk.foreign
        /\ pc = "t-unflag" => "boot" \notin disk.foreign
        /\ loader # "foreign" => Has("takeover") \/ disk.foreign \subseteq {"hidden"}

(* The power is switched off on the way.                                   *)
SwitchingOff ==
    job.takeover /\ job.poweroff /\ Quiet /\ net = "never" /\ losses = 0 /\ loader = "edgi"
    /\ ~shutdown =>
        \/ Has("poweroff") /\ (Has("takeover") \/ pc \in {"t-data", "t-off"})
        \/ pc = "t-halt"

InstallIInv ==
    InstallTypeOK /\ Kinds /\ AtWork /\ Sound /\ FromDisk /\ OldSystem /\ TakingOver /\ SwitchingOff

-----------------------------------------------------------------------------
(* Types.                                                                  *)

LEMMA InitInstall == InstallInit => InstallIInv
<1> SUFFICES ASSUME NEW s \in Setups,
                    disk = s.disk, cmdline = s.cmdline, net = s.net, job = s.job,
                    pc = s.at, InstallInit
             PROVE  InstallIInv
  BY DEF InstallInit
<1>1. s \in SetupType
  BY SetupsAssumption
<1>2. losses = 0 /\ failures = 0 /\ waited = 0 /\ pass = 1 /\ ~visible /\ ~shutdown /\ tries = 0
  BY DEF InstallInit
<1>3. /\ store = "none" /\ config = "none" /\ image = "none" /\ ipc = "idle" /\ ~unnoticed
      /\ loader = IF disk.foreign = {} THEN "none" ELSE "foreign"
  BY DEF InstallInit
<1>4. TypeOK
  <2>1. waited \in 0..MaxWait /\ losses \in 0..MaxPowerLoss /\ failures \in 0..MaxFailures
    BY <1>2, BoundAssumption
  <2>2. pc \in Halted
    BY <1>1 DEF SetupType, Halted
  <2>3. visible \in BOOLEAN /\ shutdown \in BOOLEAN
    BY DEF InstallInit
  <2>4. QED
    BY <1>1, <1>2, <2>1, <2>2, <2>3 DEF TypeOK, SetupType
<1>5. InstallTypeOK
  <2>1. tries \in 0..(Attempts - 1)
    BY <1>2, AttemptsAssumption
  <2>2. unnoticed \in BOOLEAN
    BY DEF InstallInit
  <2>3. QED
    BY <1>1, <1>3, <1>4, <2>1, <2>2 DEF InstallTypeOK, SetupType
<1>6. Kinds
  BY <1>1, KindsAssumption DEF Kinds, Has
<1>7. AtWork /\ Sound
  BY <1>3 DEF AtWork, Sound, Working, Copying, Copied, Writing
<1>8. FromDisk
  BY <1>1, <1>3, KindsAssumption DEF FromDisk, SetupType
<1>9. OldSystem
  BY <1>3, KindsAssumption DEF OldSystem, Has
<1>10. TakingOver /\ SwitchingOff
  BY <1>1, <1>2, <1>3, KindsAssumption DEF TakingOver, SwitchingOff, SetupType
<1>11. QED
  BY <1>5, <1>6, <1>7, <1>8, <1>9, <1>10 DEF InstallIInv

LEMMA DiskTypes ==
    ASSUME TypeOK, NEW d \in DiskType, Disk(d)
    PROVE  TypeOK'
BY DEF TypeOK, Disk

(* What an installation may leave of a disk is a disk.                     *)
LEMMA InstalledDisks ==
    ASSUME TypeOK
    PROVE  /\ [disk EXCEPT !.labelled = TRUE] \in DiskType
           /\ \A f \in Flag : [disk EXCEPT !.flags = @ \cup {f}] \in DiskType
           /\ [disk EXCEPT !.data = "new"] \in DiskType
           /\ [labelled |-> FALSE, flags |-> {}, foreign |-> {}, usrmerge |-> FALSE,
               init |-> "none", data |-> "none"] \in DiskType
BY DEF TypeOK, DiskType

LEMMA InstallTypes == InstallTypeOK /\ [InstallNext]_allvars => InstallTypeOK'
<1> SUFFICES ASSUME InstallTypeOK, [InstallNext]_allvars
             PROVE  InstallTypeOK'
  OBVIOUS
<1> USE AttemptsAssumption
<1>0. TypeOK
  BY DEF InstallTypeOK
<1>1. TypeOK /\ disk' = disk /\ Disk(disk) => TypeOK'
  BY DiskTypes DEF TypeOK
<1> USE DEF InstallStep, kept, Working
<1>2. /\ tries \in 0..(Attempts - 1)
      /\ tries + 1 \in 0..(Attempts - 1) \/ ~(tries < Attempts - 1)
      /\ 0 \in 0..(Attempts - 1)
  BY DEF InstallTypeOK
<1>3. CASE Begin \/ GetIso \/ MountBoth \/ StartCopy \/ TruncateGrub \/ WriteGrub \/ GrubInstall
  <2>1. TypeOK'
    BY <1>0, <1>1, <1>3 DEF Begin, GetIso, MountBoth, StartCopy, TruncateGrub, WriteGrub,
                            GrubInstall, Disk
  <2>2. QED
    BY <1>3, <2>1 DEF Begin, GetIso, MountBoth, StartCopy, TruncateGrub, WriteGrub, GrubInstall,
                      InstallTypeOK
<1>4. CASE FetchIso
  <2>1. TypeOK'
    BY <1>0, <1>1, <1>4 DEF FetchIso, Disk
  <2>2. tries' \in 0..(Attempts - 1)
    BY <1>2, <1>4 DEF FetchIso, GetUrl
  <2>3. /\ image' \in {"none", "empty", "part", "whole"} /\ unnoticed' \in BOOLEAN
        /\ ipc' \in {"fetchiso", "erase", "label"} /\ UNCHANGED <<job, net, store, config, loader>>
    BY <1>4 DEF FetchIso, GetUrl, InstallTypeOK
  <2>4. QED
    BY <2>1, <2>2, <2>3 DEF InstallTypeOK
<1>5. CASE GetConfig
  <2>1. TypeOK'
    BY <1>0, <1>1, <1>5 DEF GetConfig, Disk
  <2>2. tries' \in 0..(Attempts - 1)
    BY <1>2, <1>5 DEF GetConfig, GetUrl
  <2>3. /\ config' \in {"none", "placeholder", "part", "given"} /\ unnoticed' \in BOOLEAN
        /\ ipc' \in {"config", "marks"} /\ UNCHANGED <<job, net, store, loader, image>>
    BY <1>5 DEF GetConfig, GetUrl, InstallTypeOK
  <2>4. QED
    BY <2>1, <2>2, <2>3 DEF InstallTypeOK
<1>6. CASE Label \/ Mkfs \/ MarkGrow \/ MarkPower \/ Erase \/ CreateOpt
  <2>1. TypeOK'
    BY <1>0, <1>6, DiskTypes, InstalledDisks
    DEF Label, Mkfs, MarkGrow, MarkPower, Erase, CreateOpt, Flag
  <2>2. QED
    BY <1>6, <2>1 DEF Label, Mkfs, MarkGrow, MarkPower, Erase, CreateOpt, InstallTypeOK
<1>7. CASE Mark
  <2>1. TypeOK'
    BY <1>0, <1>7, DiskTypes, InstalledDisks DEF Mark, Flag, TypeOK, DiskType
  <2>2. QED
    BY <1>7, <2>1 DEF Mark, InstallTypeOK
<1>8. CASE FinishCopy \/ InstallFails
  <2>1. failures' \in 0..MaxFailures
    BY <1>0, <1>8, BoundAssumption DEF FinishCopy, InstallFails, TypeOK
  <2>2. TypeOK'
    BY <1>0, <1>8, <2>1 DEF FinishCopy, InstallFails, TypeOK
  <2>3. QED
    BY <1>8, <2>2 DEF FinishCopy, InstallFails, InstallTypeOK
<1>9. ASSUME Start, disk' \in DiskType, UNCHANGED <<failures, shutdown>>,
             losses' \in 0..MaxPowerLoss
      PROVE  InstallTypeOK'
  <2>1. pc' \in {"mode", "foreign", "off"} /\ pass' = 1 /\ waited' = 0 /\ visible' = FALSE
    BY <1>9 DEF Start
  <2>2. cmdline' \in Cmdline
    BY <1>0, <1>9, SetupsAssumption DEF Start, TypeOK
  <2>3. waited' \in 0..MaxWait /\ failures' \in 0..MaxFailures
    BY <1>0, <1>9, <2>1, BoundAssumption DEF TypeOK
  <2>4. visible' \in BOOLEAN /\ shutdown' \in BOOLEAN
    BY <1>0, <1>9, <2>1 DEF TypeOK
  <2>5. TypeOK'
    BY <1>9, <2>1, <2>2, <2>3, <2>4 DEF TypeOK, Halted
  <2>6. net' \in NetType
    BY <1>9 DEF Start, InstallTypeOK, NetType
  <2>7. tries' \in 0..(Attempts - 1)
    BY <1>9 DEF Start
  <2>8. QED
    BY <1>9, <2>5, <2>6, <2>7 DEF Start, InstallTypeOK
<1>10. CASE End
  <2>1. CASE job.interactive \/ job.poweroff
    <3>1. TypeOK'
      BY <1>0, <1>10, <2>1 DEF End, Disk, TypeOK, Halted
    <3>2. QED
      BY <1>10, <2>1, <3>1 DEF End, InstallTypeOK
  <2>2. CASE ~job.interactive /\ ~job.poweroff
    BY <1>0, <1>9, <1>10, <2>2 DEF End, TypeOK
  <2>3. QED
    BY <2>1, <2>2
<1>11. CASE SwitchOn \/ LosePower
  <2>1. losses' \in 0..MaxPowerLoss /\ disk' \in DiskType
    BY <1>0, <1>11, ChangedDisks, BoundAssumption DEF SwitchOn, LosePower, TypeOK
  <2>2. QED
    BY <1>9, <1>11, <2>1 DEF SwitchOn, LosePower
<1>12. CASE Booting
  <2>1. TypeOK'
    BY <1>0, <1>12, NextTypes DEF Booting, Next
  <2>2. UNCHANGED <<job, net, store, config, loader, image, ipc, tries>>
        /\ unnoticed' \in BOOLEAN
    BY <1>12 DEF Booting, ivars, InstallTypeOK
  <2>3. QED
    BY <2>1, <2>2 DEF InstallTypeOK
<1>13. CASE UNCHANGED allvars
  BY <1>0, <1>13 DEF allvars, ivars, vars, InstallTypeOK, TypeOK
<1>14. QED
  BY <1>3, <1>4, <1>5, <1>6, <1>7, <1>8, <1>10, <1>11, <1>12, <1>13 DEF InstallNext, Installing

-----------------------------------------------------------------------------
(* What the steps of a boot, and a start of the machine, do to what these  *)
(* invariants are about.                                                   *)

(* A step of the boot, as opposed to one of its environment.               *)
Running == BootStep \/ Fail \/ FailOn \/ WipeFails \/ AskForReset

LEMMA BootKeeps ==
    ASSUME TypeOK, Running
    PROVE  /\ pc \notin {"off", "foreign", "install"}
           /\ UNCHANGED <<cmdline, losses>>
           /\ disk'.labelled = disk.labelled
           /\ disk'.init \in {disk.init, "none", "edgi"}
           /\ disk'.foreign \subseteq disk.foreign
           /\ pc \notin {"t-root", "t-sbin", "t-boot"} => disk'.foreign = disk.foreign
           /\ pc # "t-unflag" => (Has("takeover"))' = Has("takeover")
           /\ pc # "t-off" => (Has("poweroff"))' = Has("poweroff")
           /\ pc = "t-unflag" /\ (Has("takeover"))' => Has("takeover")
<1>0. disk \in DiskType
  BY DEF TypeOK
<1> USE DEF Has, DiskStep
<1>1. CASE ChooseMode \/ Wait \/ GiveUp \/ Fail \/ FailOn
  BY <1>1 DEF ChooseMode, Wait, GiveUp, Fail, FailOn, TakeoverSteps, DiskSteps
<1>2. CASE Mount \/ Grow \/ Takeover \/ THalt \/ Pivot
  BY <1>2 DEF Mount, Grow, Takeover, THalt, Pivot
<1>3. CASE Ungrow \/ Unflag \/ UnflagAndStop
  BY <1>0, <1>3 DEF Ungrow, Unflag, UnflagAndStop, Without, DiskType
<1>4. CASE Setup
  BY <1>0, <1>4 DEF Setup, DiskType
<1>5. CASE TReset
  BY <1>0, <1>5 DEF TReset, DiskType
<1>6. CASE TSbinLink
  BY <1>0, <1>6 DEF TSbinLink, DiskType
<1>7. CASE TRoot \/ TSbin \/ TBoot
  BY <1>0, <1>7 DEF TRoot, TSbin, TBoot, DiskType
<1>8. CASE TUnflag \/ TOff
  BY <1>0, <1>8 DEF TUnflag, TOff, Without, DiskType
<1>9. CASE TData \/ Wipe \/ WipeFails
  BY <1>0, <1>9 DEF TData, Wipe, WipeFails, DiskType
<1>10. CASE Local \/ AskForReset
  BY <1>0, <1>10 DEF Local, AskForReset, DiskType
<1>11. QED
  BY <1>1, <1>2, <1>3, <1>4, <1>5, <1>6, <1>7, <1>8, <1>9, <1>10 DEF Running, BootStep

LEMMA BootingIs ==
    ASSUME Booting
    PROVE  /\ UNCHANGED <<job, net, store, config, loader, image, ipc, tries>>
           /\ unnoticed => unnoticed'
           /\ \/ BootStep \/ Fail \/ WipeFails \/ AskForReset
              \/ FailOn /\ unnoticed'
              \/ UNCHANGED <<disk, cmdline, pc, pass, waited, losses, failures, shutdown>>
BY DEF Booting, ivars, Appear

(* The only way from a boot to a foreign system is the pivot.              *)
LEMMA ToForeign ==
    ASSUME Running, pc' = "foreign"
    PROVE  pc = "pivot" /\ UNCHANGED disk /\ disk.init # "edgi" /\ InitLeads
BY DEF Running, BootStep, ChooseMode, Wait, GiveUp, Mount, Grow, Ungrow, Setup, Takeover, TReset,
       TSbinLink, TRoot, TSbin, TBoot, TUnflag, TData, TOff, THalt, Wipe, Unflag, UnflagAndStop, Pivot, Local,
       WipeFails, Fail, FailOn, AfterStep, AskForReset, DiskStep, Goto, FromPowerOn, TakeoverSteps, Scripts

LEMMA ToInstall ==
    ASSUME Running, pc' = "install"
    PROVE  "install" \in {cmdline.mode, cmdline.fallback}
<1>1. ChooseMode
  BY DEF Running, BootStep, ChooseMode, Wait, GiveUp, Mount, Grow, Ungrow, Setup, Takeover, TReset,
         TSbinLink, TRoot, TSbin, TBoot, TUnflag, TData, TOff, THalt, Wipe, Unflag, UnflagAndStop, Pivot, Local,
         WipeFails, Fail, FailOn, AfterStep, AskForReset, DiskStep, Goto, FromPowerOn, TakeoverSteps
<1>2. Mode = "install"
  BY <1>1 DEF ChooseMode, Goto
<1>3. QED
  BY <1>2 DEF Mode

(* A start: SwitchOn, LosePower and the reboot at the end of install.sh.   *)
Starts == Start /\ disk' \in {disk, Due(disk)} /\ UNCHANGED shutdown

LEMMA StartKeeps ==
    ASSUME TypeOK, Starts
    PROVE  /\ disk'.labelled = disk.labelled /\ disk'.init = disk.init
           /\ disk'.foreign = disk.foreign /\ disk'.flags = disk.flags
           /\ ipc' = "idle" /\ pass' = 1 /\ pc' \in {"mode", "foreign", "off"}
           /\ UNCHANGED <<job, store, config, loader, unnoticed>>
BY DEF TypeOK, DiskType, Starts, Start, Due

(* A step of the installer that is no start.                               *)
AStep == Installing /\ (End => job.interactive \/ job.poweroff)

LEMMA InstallIs ==
    ASSUME [InstallNext]_allvars
    PROVE  \/ AStep
           \/ Booting
           \/ /\ Starts
              /\ \/ losses' = losses + 1
                 \/ losses' = losses /\ (pc \in Halted \/ ~job.interactive)
           \/ UNCHANGED allvars
<1>1. CASE SwitchOn \/ LosePower
  BY <1>1 DEF SwitchOn, LosePower, Starts
<1>2. CASE End /\ ~job.interactive /\ ~job.poweroff
  BY <1>2 DEF End, Starts
<1>3. QED
  BY <1>1, <1>2 DEF InstallNext, AStep

-----------------------------------------------------------------------------
(* The invariants, one after the other.                                    *)

LEMMA KindsKept == InstallIInv /\ [InstallNext]_allvars => Kinds'
<1> SUFFICES ASSUME InstallIInv, [InstallNext]_allvars
             PROVE  Kinds'
  OBVIOUS
<1>0. TypeOK /\ disk \in DiskType /\ Kinds
  BY DEF InstallIInv, InstallTypeOK, TypeOK
<1> USE DEF Kinds, Has
<1>1. CASE AStep
  <2>1. UNCHANGED <<job, net>>
    BY <1>1 DEF AStep, Installing, Begin, GetIso, FetchIso, GetUrl, Label, Erase, Mkfs, MountBoth,
           StartCopy, FinishCopy, MarkGrow, GetConfig, Mark, MarkPower, TruncateGrub, WriteGrub,
           GrubInstall, CreateOpt, InstallFails, End, InstallStep, kept
  <2>2. CASE Erase \/ Label \/ Mkfs \/ MarkGrow \/ MarkPower \/ CreateOpt
    BY <1>0, <2>1, <2>2 DEF Erase, Label, Mkfs, MarkGrow, MarkPower, CreateOpt, Disk, DiskType
  <2>3. CASE Mark
    BY <1>0, <2>1, <2>3 DEF Mark, Disk, DiskType
  <2>4. CASE ~(Erase \/ Label \/ Mkfs \/ MarkGrow \/ MarkPower \/ CreateOpt \/ Mark)
    <3>1. disk' = disk
      BY <1>1, <2>4 DEF AStep, Installing, Begin, GetIso, FetchIso, MountBoth, StartCopy,
             FinishCopy, GetConfig, TruncateGrub, WriteGrub, GrubInstall, InstallFails, End, Disk
    <3>2. QED
      BY <1>0, <2>1, <3>1
  <2>5. QED
    BY <2>2, <2>3, <2>4
<1>2. CASE Booting
  BY <1>0, <1>2, BootingIs, BootKeeps DEF Running
<1>3. CASE Starts
  <2>1. net' # "once" \/ net = "once"
    BY <1>3 DEF Starts, Start
  <2>2. QED
    BY <1>0, <1>3, <2>1, StartKeeps
<1>4. CASE UNCHANGED allvars
  BY <1>0, <1>4 DEF allvars, vars, ivars
<1>5. QED
  BY <1>1, <1>2, <1>3, <1>4, InstallIs

LEMMA AtWorkKept == InstallIInv /\ [InstallNext]_allvars => AtWork'
<1> SUFFICES ASSUME InstallIInv, [InstallNext]_allvars
             PROVE  AtWork'
  OBVIOUS
<1>0. TypeOK /\ disk \in DiskType /\ Kinds /\ AtWork
  BY DEF InstallIInv, InstallTypeOK, TypeOK
<1>1. CASE AStep
  <2> USE DEF AtWork, Kinds, InstallStep, kept, Disk, Working, Copying, Copied, Writing, Has
  <2>1. CASE Begin \/ InstallFails
    BY <1>0, <2>1 DEF Begin, InstallFails
  <2>2. CASE GetIso
    BY <1>0, <2>2 DEF GetIso
  <2>3. CASE FetchIso
    BY <1>0, <2>3 DEF FetchIso, GetUrl
  <2>4. CASE Label
    BY <1>0, <2>4 DEF Label, DiskType
  <2>5. CASE Erase
    BY <1>0, <2>5 DEF Erase
  <2>6. CASE Mkfs
    BY <1>0, <2>6 DEF Mkfs, DiskType
  <2>7. CASE MountBoth \/ StartCopy
    BY <1>0, <2>7 DEF MountBoth, StartCopy
  <2>8. CASE FinishCopy
    BY <1>0, <2>8 DEF FinishCopy
  <2>9. CASE MarkGrow
    BY <1>0, <2>9 DEF MarkGrow, DiskType
  <2>10. CASE GetConfig
    BY <1>0, <2>10 DEF GetConfig, GetUrl
  <2>11. CASE Mark
    BY <1>0, <2>11 DEF Mark, DiskType
  <2>12. CASE MarkPower
    BY <1>0, <2>12 DEF MarkPower, DiskType
  <2>13. CASE TruncateGrub \/ WriteGrub \/ GrubInstall
    BY <1>0, <2>13 DEF TruncateGrub, WriteGrub, GrubInstall
  <2>14. CASE CreateOpt
    BY <1>0, <2>14 DEF CreateOpt, DiskType
  <2>15. CASE End /\ (job.interactive \/ job.poweroff)
    BY <1>0, <2>15 DEF End
  <2>16. QED
    BY <1>1, <2>1, <2>2, <2>3, <2>4, <2>5, <2>6, <2>7, <2>8, <2>9, <2>10, <2>11, <2>12, <2>13,
       <2>14, <2>15 DEF AStep, Installing
<1>2. CASE Booting
  <2>1. CASE Running
    <3>1. ipc' \notin Working
      BY <1>0, <1>2, <2>1, BootKeeps, BootingIs DEF AtWork
    <3>2. QED
      BY <3>1 DEF AtWork, Working, Copying, Copied, Writing
  <2>2. CASE UNCHANGED <<disk, cmdline, pc, pass, waited, losses, failures, shutdown>>
    BY <1>0, <1>2, <2>2, BootingIs DEF AtWork, Has
  <2>3. QED
    BY <1>2, <2>1, <2>2, BootingIs DEF Running
<1>3. CASE Starts
  BY <1>0, <1>3, StartKeeps DEF AtWork, Working, Copying, Copied, Writing
<1>4. CASE UNCHANGED allvars
  BY <1>0, <1>4 DEF allvars, vars, ivars, AtWork, Has
<1>5. QED
  BY <1>1, <1>2, <1>3, <1>4, InstallIs

(* What the boot loader starts is replaced when all else has been.         *)
LEMMA LoaderLast ==
    ASSUME InstallIInv, Quiet, ipc \in {"copy", "config"}
    PROVE  loader # "edgi"
<1>1. pc = IF job.interactive THEN "foreign" ELSE "install"
  BY DEF InstallIInv, AtWork, Working
<1>2. CASE job.takeover
  BY <1>1, <1>2 DEF InstallIInv, Kinds, OldSystem, Preparing, Copying
<1>3. CASE ~job.takeover
  BY <1>3 DEF InstallIInv, Kinds, AtWork, Copying, Copied
<1>4. QED
  BY <1>2, <1>3

LEMMA SoundKept == InstallIInv /\ [InstallNext]_allvars => Sound'
<1> SUFFICES ASSUME InstallIInv, [InstallNext]_allvars, Quiet'
             PROVE  Sound'
  BY DEF Sound
<1>0. TypeOK /\ disk \in DiskType /\ Kinds /\ AtWork /\ Sound
  BY DEF InstallIInv, InstallTypeOK, TypeOK
<1>1. CASE AStep
  <2> USE DEF Sound, Quiet, InstallStep, kept, Disk, Copying, Copied, Writing
  <2>1. CASE Begin \/ InstallFails
    BY <1>0, <2>1 DEF Begin, InstallFails
  <2>2. CASE GetIso
    BY <1>0, <2>2 DEF GetIso
  <2>3. CASE FetchIso
    BY <1>0, <2>3 DEF FetchIso, GetUrl
  <2>4. CASE Label \/ Mkfs
    BY <1>0, <2>4 DEF Label, Mkfs, DiskType
  <2>5. CASE Erase
    BY <1>0, <2>5 DEF Erase
  <2>6. CASE MountBoth
    BY <1>0, <2>6 DEF MountBoth
  <2>7. CASE StartCopy
    <3>1. loader # "edgi"
      BY <2>7, LoaderLast DEF StartCopy
    <3>2. QED
      BY <1>0, <2>7, <3>1 DEF StartCopy
  <2>8. CASE FinishCopy
    BY <1>0, <2>8 DEF FinishCopy
  <2>9. CASE MarkGrow \/ MarkPower \/ CreateOpt
    BY <1>0, <2>9 DEF MarkGrow, MarkPower, CreateOpt, DiskType
  <2>10. CASE GetConfig
    <3>1. job.config \in {"none", "file", "url"}
      BY DEF InstallIInv, InstallTypeOK, JobType
    <3>2. CASE job.config = "url"
      <4>1. Quiet /\ ipc = "config" /\ UNCHANGED <<disk, job, store, loader, image>>
        BY <2>10, <3>2 DEF GetConfig, GetUrl
      <4>2. loader # "edgi" /\ store = "whole"
        BY <1>0, <4>1, LoaderLast
      <4>3. ipc' = "config" \/ (ipc' = "marks" /\ config' = "given")
        BY <2>10, <3>2 DEF GetConfig, GetUrl
      <4>4. QED
        BY <4>1, <4>2, <4>3
    <3>3. CASE job.config # "url"
      BY <1>0, <2>10, <3>1, <3>3 DEF GetConfig
    <3>4. QED
      BY <3>2, <3>3
  <2>11. CASE Mark
    BY <1>0, <2>11 DEF Mark, DiskType
  <2>12. CASE TruncateGrub
    BY <1>0, <2>12 DEF TruncateGrub
  <2>13. CASE WriteGrub \/ GrubInstall
    BY <1>0, <2>13 DEF WriteGrub, GrubInstall, AtWork
  <2>14. CASE End /\ (job.interactive \/ job.poweroff)
    BY <1>0, <2>14 DEF End
  <2>15. QED
    BY <1>1, <2>1, <2>2, <2>3, <2>4, <2>5, <2>6, <2>7, <2>8, <2>9, <2>10, <2>11, <2>12, <2>13,
       <2>14 DEF AStep, Installing
<1>2. CASE Booting
  BY <1>0, <1>2, BootingIs, BootKeeps DEF Running, Sound, Quiet
<1>3. CASE Starts
  BY <1>0, <1>3, StartKeeps DEF Sound, Quiet, Copying, Copied, Writing
<1>4. CASE UNCHANGED allvars
  BY <1>0, <1>4 DEF allvars, vars, ivars, Sound, Quiet
<1>5. QED
  BY <1>1, <1>2, <1>3, <1>4, InstallIs

LEMMA FromDiskKept == InstallIInv /\ [InstallNext]_allvars => FromDisk'
<1> SUFFICES ASSUME InstallIInv, [InstallNext]_allvars
             PROVE  FromDisk'
  OBVIOUS
<1>0. TypeOK /\ disk \in DiskType /\ Kinds /\ AtWork /\ FromDisk
  BY DEF InstallIInv, InstallTypeOK, TypeOK
<1>1. CASE AStep
  <2> USE DEF FromDisk, InstallStep, kept, Disk
  <2>1. UNCHANGED <<net, cmdline, job>> /\ pc' \in {pc, "off"}
    BY <1>1 DEF AStep, Installing, Begin, GetIso, FetchIso, GetUrl, Label, Erase, Mkfs, MountBoth,
           StartCopy, FinishCopy, MarkGrow, GetConfig, Mark, MarkPower, TruncateGrub, WriteGrub,
           GrubInstall, CreateOpt, InstallFails, End
  <2>2. net = "never" => pc \in {"off", "foreign"}
    <3>1. pc = IF job.interactive THEN "foreign" ELSE "install"
      BY <1>0, <1>1 DEF AStep, Installing, Begin, GetIso, FetchIso, GetUrl, Label, Erase, Mkfs,
             MountBoth, StartCopy, FinishCopy, MarkGrow, GetConfig, Mark, MarkPower, TruncateGrub,
             WriteGrub, GrubInstall, CreateOpt, InstallFails, End, AtWork, Working
    <3>2. QED
      BY <1>0, <3>1
  <2>3. disk'.foreign = disk.foreign \/ loader' = "none"
    BY <1>0, <1>1 DEF AStep, Installing, Begin, GetIso, FetchIso, GetUrl, Label, Erase, Mkfs,
             MountBoth, StartCopy, FinishCopy, MarkGrow, GetConfig, Mark, MarkPower, TruncateGrub,
             WriteGrub, GrubInstall, CreateOpt, InstallFails, End, DiskType
  <2>4. loader' = "foreign" => loader = "foreign"
    BY <1>1 DEF AStep, Installing, Begin, GetIso, FetchIso, GetUrl, Label, Erase, Mkfs,
             MountBoth, StartCopy, FinishCopy, MarkGrow, GetConfig, Mark, MarkPower, TruncateGrub,
             WriteGrub, GrubInstall, CreateOpt, InstallFails, End
  <2>5. QED
    BY <1>0, <2>1, <2>2, <2>3, <2>4
<1>2. CASE Booting
  <2>1. CASE Running
    <3>1. pc \in {"t-root", "t-sbin", "t-boot"} => Has("takeover")
      BY DEF InstallIInv, TakingOver
    <3>2. net = "never" => pc' # "install"
      <4>1. net = "never" => cmdline = Menu
        BY <1>0, <2>1, BootKeeps DEF FromDisk
      <4>2. "install" \notin {Menu.mode, Menu.fallback}
        BY DEF Menu
      <4>3. QED
        BY <2>1, <4>1, <4>2, ToInstall
    <3>3. QED
      BY <1>0, <1>2, <2>1, <3>1, <3>2, BootKeeps, BootingIs DEF FromDisk, Kinds
  <2>2. CASE UNCHANGED <<disk, cmdline, pc, pass, waited, losses, failures, shutdown>>
    BY <1>0, <1>2, <2>2, BootingIs DEF FromDisk
  <2>3. QED
    BY <1>2, <2>1, <2>2, BootingIs DEF Running
<1>3. CASE Starts
  BY <1>0, <1>3, StartKeeps DEF FromDisk, Kinds, Starts, Start
<1>4. CASE UNCHANGED allvars
  BY <1>0, <1>4 DEF allvars, vars, ivars, FromDisk
<1>5. QED
  BY <1>1, <1>2, <1>3, <1>4, InstallIs

LEMMA OldSystemKept == InstallIInv /\ [InstallNext]_allvars => OldSystem'
<1> SUFFICES ASSUME InstallIInv, [InstallNext]_allvars, job'.takeover, Quiet'
             PROVE  OldSystem'
  BY DEF OldSystem
<1>0. TypeOK /\ disk \in DiskType /\ Kinds /\ AtWork /\ OldSystem /\ FromDisk /\ Sound
  BY DEF InstallIInv, InstallTypeOK, TypeOK
<1>1. CASE AStep
  <2>1. Quiet /\ job.takeover /\ UNCHANGED <<job, net>>
    BY <1>1 DEF AStep, Installing, Begin, GetIso, FetchIso, GetUrl, Label, Erase, Mkfs, MountBoth,
           StartCopy, FinishCopy, MarkGrow, GetConfig, Mark, MarkPower, TruncateGrub, WriteGrub,
           GrubInstall, CreateOpt, InstallFails, End, InstallStep, kept, Quiet
  <2>2. job.interactive /\ ~job.format
    BY <1>0, <2>1 DEF Kinds
  <2> USE DEF OldSystem, InstallStep, Disk, Preparing, Copying, Has
  <2>3. CASE Begin \/ InstallFails
    BY <1>0, <2>1, <2>3 DEF Begin, InstallFails
  <2>4. CASE GetIso
    BY <1>0, <2>1, <2>2, <2>4 DEF GetIso
  <2>5. CASE FetchIso
    BY <1>0, <2>1, <2>2, <2>5 DEF FetchIso, GetUrl
  <2>6. CASE Label
    BY <1>0, <2>1, <2>6 DEF Label, DiskType
  <2>7. CASE Erase \/ Mkfs \/ MarkGrow \/ GrubInstall
    BY <1>0, <2>2, <2>7 DEF Erase, Mkfs, MarkGrow, GrubInstall, AtWork
  <2>8. CASE MountBoth
    BY <1>0, <2>1, <2>8 DEF MountBoth
  <2>9. CASE StartCopy
    <3>1. pc = "foreign"
      BY <1>0, <2>2, <2>9 DEF StartCopy, AtWork, Working
    <3>2. QED
      BY <1>0, <2>1, <2>9, <3>1 DEF StartCopy
  <2>10. CASE FinishCopy
    BY <1>0, <2>1, <2>2, <2>10 DEF FinishCopy
  <2>11. CASE GetConfig
    BY <1>0, <2>1, <2>11 DEF GetConfig, GetUrl
  <2>12. CASE Mark
    <3>1. store = "whole" /\ pc = "foreign" /\ ipc = "marks"
      BY <1>0, <2>1, <2>2, <2>12 DEF Mark, AtWork, Sound, Copied, Writing, Working
    <3>2. disk'.foreign = disk.foreign
      BY <1>0, <2>12 DEF Mark, DiskType
    <3>3. ipc' \in {"power", "grub"} /\ UNCHANGED <<pc, store, loader>>
      BY <2>12 DEF Mark
    <3>4. QED
      BY <1>0, <2>1, <3>1, <3>2, <3>3
  <2>13. CASE MarkPower
    BY <1>0, <2>1, <2>13 DEF MarkPower, DiskType
  <2>14. CASE TruncateGrub \/ WriteGrub
    <3>1. store = "whole"
      BY <1>0, <2>1, <2>14 DEF TruncateGrub, WriteGrub, Sound, Copied, Writing
    <3>2. QED
      BY <1>0, <2>1, <2>2, <2>14, <3>1 DEF TruncateGrub, WriteGrub
  <2>15. CASE CreateOpt
    BY <1>0, <2>1, <2>15 DEF CreateOpt, DiskType
  <2>16. CASE End
    BY <1>0, <2>1, <2>2, <2>16 DEF End
  <2>17. QED
    BY <1>1, <2>3, <2>4, <2>5, <2>6, <2>7, <2>8, <2>9, <2>10, <2>11, <2>12, <2>13, <2>14, <2>15,
       <2>16 DEF AStep, Installing
<1>2. CASE Booting
  <2>1. Quiet /\ job.takeover /\ UNCHANGED <<net, store, loader, ipc>>
    BY <1>2, BootingIs DEF Quiet
  <2>2. CASE Running
    <3>1. "plain" \in disk'.foreign \/ store = "whole"
      <4>1. pc \in {"t-root", "t-sbin", "t-boot"} => Has("takeover")
        BY DEF InstallIInv, TakingOver
      <4>2. QED
        BY <1>0, <2>1, <2>2, <4>1, BootKeeps DEF OldSystem, FromDisk
    <3>2. (Has("takeover"))' => Has("takeover")
      BY <1>0, <2>2, BootKeeps
    <3>3. ASSUME pc' = "foreign"
          PROVE  loader = "foreign" /\ "plain" \in disk'.foreign /\ ~(Has("takeover"))'
      <4>1. pc = "pivot" /\ UNCHANGED disk /\ disk.init # "edgi" /\ InitLeads
        BY <2>2, <3>3, ToForeign
      <4>2. ~Has("takeover")
        BY <2>1, <4>1 DEF InstallIInv, TakingOver
      <4>3. "plain" \in disk.foreign
        BY <1>0, <2>1, <4>1 DEF Kinds, InitLeads
      <4>4. loader = "foreign"
        BY <2>1, <4>2, <4>3 DEF InstallIInv, TakingOver
      <4>5. QED
        BY <4>1, <4>2, <4>3, <4>4 DEF Has
    <3>4. QED
      BY <1>0, <2>1, <3>1, <3>2, <3>3 DEF OldSystem
  <2>3. CASE UNCHANGED <<disk, cmdline, pc, pass, waited, losses, failures, shutdown>>
    BY <1>0, <2>1, <2>3 DEF OldSystem, Has
  <2>4. QED
    BY <1>2, <2>2, <2>3, BootingIs DEF Running
<1>3. CASE Starts
  <2>1. Quiet /\ job.takeover
    BY <1>0, <1>3, StartKeeps DEF Quiet
  <2>2. net' = net
    BY <1>0, <1>3, <2>1 DEF Starts, Start, Kinds
  <2>3. pc' = "foreign" => net' = "never" /\ loader = "foreign" /\ "plain" \in disk.foreign
    BY <1>3 DEF Starts, Start
  <2>4. QED
    BY <1>0, <1>3, <2>1, <2>2, <2>3, StartKeeps DEF OldSystem, Has
<1>4. CASE UNCHANGED allvars
  BY <1>0, <1>4 DEF allvars, vars, ivars, OldSystem, Has, Quiet
<1>5. QED
  BY <1>1, <1>2, <1>3, <1>4, InstallIs

LEMMA TakingOverKept == InstallIInv /\ [InstallNext]_allvars => TakingOver'
<1> SUFFICES ASSUME InstallIInv, [InstallNext]_allvars
             PROVE  TakingOver'
  OBVIOUS
<1>0. TypeOK /\ disk \in DiskType /\ Kinds /\ AtWork /\ TakingOver
  BY DEF InstallIInv, InstallTypeOK, TypeOK
<1>1. CASE AStep
  <2>1. UNCHANGED job /\ (unnoticed => unnoticed')
    BY <1>1 DEF AStep, Installing, Begin, GetIso, FetchIso, GetUrl, Label, Erase, Mkfs, MountBoth,
           StartCopy, FinishCopy, MarkGrow, GetConfig, Mark, MarkPower, TruncateGrub, WriteGrub,
           GrubInstall, CreateOpt, InstallFails, End, InstallStep, kept
  <2>2. pc = (IF job.interactive THEN "foreign" ELSE "install") /\ pc' \in {pc, "off"}
        /\ (job.takeover => pc' = pc)
    BY <1>0, <1>1 DEF AStep, Installing, Begin, GetIso, FetchIso, Label, Erase, Mkfs, MountBoth,
           StartCopy, FinishCopy, MarkGrow, GetConfig, Mark, MarkPower, TruncateGrub, WriteGrub,
           GrubInstall, CreateOpt, InstallFails, End, InstallStep, GetUrl, AtWork, Working, Disk, Kinds
  <2>3. ASSUME job.takeover, loader' # "foreign", ~unnoticed
        PROVE  (Has("takeover"))' \/ disk'.foreign \subseteq {"hidden"}
    <3> USE DEF Has, Disk, InstallStep
    <3>1. CASE TruncateGrub \/ WriteGrub \/ GrubInstall
      BY <1>0, <2>3, <3>1 DEF TruncateGrub, WriteGrub, GrubInstall, AtWork, Kinds
    <3>2. CASE Erase
      BY <1>0, <2>3, <3>2 DEF Erase
    <3>3. CASE Label \/ Mkfs \/ MarkGrow \/ MarkPower \/ CreateOpt
      BY <1>0, <2>3, <3>3 DEF Label, Mkfs, MarkGrow, MarkPower, CreateOpt, TakingOver, Quiet, DiskType
    <3>4. CASE Mark
      BY <1>0, <2>3, <3>4 DEF Mark, DiskType
    <3>5. CASE Begin \/ GetIso \/ FetchIso \/ MountBoth \/ StartCopy \/ FinishCopy \/ GetConfig
               \/ InstallFails \/ (End /\ (job.interactive \/ job.poweroff))
      <4>1. disk' = disk /\ loader' = loader
        BY <3>5 DEF Begin, GetIso, FetchIso, MountBoth, StartCopy, FinishCopy, GetConfig,
                    InstallFails, End
      <4>2. QED
        BY <1>0, <2>3, <4>1 DEF TakingOver, Quiet
    <3>6. QED
      BY <1>1, <3>1, <3>2, <3>3, <3>4, <3>5 DEF AStep, Installing
  <2>4. QED
    BY <1>0, <2>1, <2>2, <2>3 DEF TakingOver, Quiet, Kinds
<1>2. CASE Booting
  <2>1. UNCHANGED <<job, loader>> /\ (unnoticed => unnoticed')
    BY <1>2, BootingIs
  <2> USE DEF TakingOver, Quiet, Has, DiskStep, Goto
  <2>2. CASE ChooseMode \/ Wait \/ GiveUp
    BY <1>0, <2>1, <2>2 DEF ChooseMode, Wait, GiveUp, Scripts
  <2>3. CASE Mount \/ Grow \/ Ungrow
    BY <1>0, <2>1, <2>3 DEF Mount, Grow, Ungrow, Without, DiskType
  <2>4. CASE Setup
    BY <1>0, <2>1, <2>4 DEF Setup, DiskType
  <2>5. CASE Takeover
    BY <1>0, <2>1, <2>5 DEF Takeover
  <2>6. CASE TReset
    BY <1>0, <2>1, <2>6 DEF TReset, DiskType
  <2>7. CASE TSbinLink
    BY <1>0, <2>1, <2>7 DEF TSbinLink, DiskType
  <2>8. CASE TRoot \/ TSbin \/ TBoot
    BY <1>0, <2>1, <2>8 DEF TRoot, TSbin, TBoot, DiskType
  <2>9. CASE TUnflag
    <3>1. disk'.foreign = disk.foreign /\ disk.foreign \subseteq Foreign /\ pc' = "t-data"
      BY <1>0, <2>9 DEF TUnflag, Without, DiskType
    <3>2. job.takeover /\ Quiet => disk.foreign \subseteq {"hidden"}
      BY <1>0, <2>9, <3>1 DEF TUnflag, Foreign
    <3>3. pass = 2 /\ job.takeover => unnoticed
      BY <1>0, <2>9 DEF TUnflag
    <3>4. UNCHANGED pass
      BY <2>9 DEF TUnflag
    <3>5. QED
      BY <2>1, <3>1, <3>2, <3>3, <3>4
  <2>10. CASE TData \/ THalt
    BY <1>0, <2>1, <2>10 DEF TData, THalt, DiskType
  <2>11. CASE TOff
    BY <1>0, <2>1, <2>11 DEF TOff, FromPowerOn, Without, DiskType
  <2>12. CASE Wipe \/ Unflag \/ UnflagAndStop \/ WipeFails
    BY <1>0, <2>1, <2>12 DEF Wipe, Unflag, UnflagAndStop, WipeFails, Without, DiskType
  <2>13. CASE Pivot
    BY <1>0, <2>1, <2>13 DEF Pivot
  <2>14. CASE Local \/ AskForReset
    BY <1>0, <2>1, <2>14 DEF Local, AskForReset, DiskType
  <2>15. CASE Fail
    BY <1>0, <2>1, <2>15 DEF Fail, DiskSteps
  <2>16. CASE FailOn /\ unnoticed'
    BY <1>0, <2>1, <2>16 DEF FailOn, AfterStep, TakeoverSteps
  <2>17. CASE UNCHANGED <<disk, cmdline, pc, pass, waited, losses, failures, shutdown>>
    BY <1>0, <2>1, <2>17
  <2>18. QED
    BY <1>2, BootingIs, <2>2, <2>3, <2>4, <2>5, <2>6, <2>7, <2>8, <2>9, <2>10, <2>11, <2>12, <2>13,
       <2>14, <2>15, <2>16, <2>17 DEF BootStep
<1>3. CASE Starts
  BY <1>0, <1>3, StartKeeps DEF TakingOver, Quiet, Has
<1>4. CASE UNCHANGED allvars
  BY <1>0, <1>4 DEF allvars, vars, ivars, TakingOver, Quiet, Has
<1>5. QED
  BY <1>1, <1>2, <1>3, <1>4, InstallIs

(* WriteGrub leaves it marked; the takeover unmarks it last.               *)
LEMMA SwitchingOffKept == InstallIInv /\ [InstallNext]_allvars => SwitchingOff'
<1> DEFINE Both == Has("poweroff") /\ Has("takeover")
<1> SUFFICES ASSUME InstallIInv, [InstallNext]_allvars,
                    job'.takeover, job'.poweroff, Quiet', net' = "never", losses' = 0,
                    loader' = "edgi", ~shutdown'
             PROVE  \/ (Has("poweroff"))' /\ ((Has("takeover"))' \/ pc' \in {"t-data", "t-off"})
                    \/ pc' = "t-halt"
  BY DEF SwitchingOff
<1>0. TypeOK /\ disk \in DiskType /\ Kinds /\ AtWork /\ SwitchingOff
  BY DEF InstallIInv, InstallTypeOK, TypeOK
<1>1. CASE AStep
  <2>1. job' = job /\ net' = net /\ losses' = losses /\ shutdown' = shutdown
        /\ (unnoticed => unnoticed')
    BY <1>1 DEF AStep, Installing, Begin, GetIso, FetchIso, GetUrl, Label, Erase, Mkfs, MountBoth,
           StartCopy, FinishCopy, MarkGrow, GetConfig, Mark, MarkPower, TruncateGrub, WriteGrub,
           GrubInstall, CreateOpt, InstallFails, End, InstallStep, kept, Disk
  <2>2. pc = "foreign" /\ ~job.format
    BY <1>0, <1>1, <2>1 DEF AStep, Installing, Begin, GetIso, FetchIso, Label, Erase, Mkfs,
           MountBoth, StartCopy, FinishCopy, MarkGrow, GetConfig, Mark, MarkPower, TruncateGrub,
           WriteGrub, GrubInstall, CreateOpt, InstallFails, End, InstallStep, GetUrl, AtWork,
           Working, Kinds
  <2>3. disk.flags \subseteq disk'.flags
    BY <1>0, <1>1 DEF AStep, Installing, Begin, GetIso, FetchIso, GetUrl, Label, Erase, Mkfs,
           MountBoth, StartCopy, FinishCopy, MarkGrow, GetConfig, Mark, MarkPower, TruncateGrub,
           WriteGrub, GrubInstall, CreateOpt, InstallFails, End, Disk, DiskType
  <2>4. loader = "edgi" \/ WriteGrub \/ GrubInstall
    BY <1>1 DEF AStep, Installing, Begin, GetIso, FetchIso, GetUrl, Label, Erase, Mkfs, MountBoth,
           StartCopy, FinishCopy, MarkGrow, GetConfig, Mark, MarkPower, TruncateGrub, CreateOpt,
           InstallFails, End
  <2>5. Both
    <3>1. CASE loader = "edgi"
      BY <1>0, <2>1, <2>2, <3>1 DEF SwitchingOff, Quiet
    <3>2. CASE WriteGrub \/ GrubInstall
      BY <1>0, <2>1, <2>2, <3>2 DEF WriteGrub, GrubInstall, InstallStep, AtWork
    <3>3. QED
      BY <2>4, <3>1, <3>2
  <2>6. QED
    BY <2>3, <2>5 DEF Has
<1>2. CASE Booting
  <2>1. UNCHANGED <<job, net, loader>> /\ Quiet
    BY <1>2, BootingIs DEF Quiet
  <2>2. CASE BootStep \/ Fail \/ WipeFails \/ AskForReset
    <3>0. Running
      BY <2>2 DEF Running
    <3>1. ~shutdown
      BY <2>2 DEF BootStep, ChooseMode, Wait, GiveUp, Mount, Grow, Ungrow, Setup, Takeover,
             TReset, TSbinLink, TRoot, TSbin, TBoot, TUnflag, TData, TOff, THalt, Wipe, Unflag, UnflagAndStop,
             Pivot, Local, WipeFails, Fail, AskForReset, DiskStep
    <3>2. losses = 0
      BY <1>0, <3>0, BootKeeps
    <3>3. \/ Has("poweroff") /\ (Has("takeover") \/ pc \in {"t-data", "t-off"})
          \/ pc = "t-halt"
      BY <1>0, <2>1, <3>1, <3>2 DEF SwitchingOff
    <3>4. CASE pc \notin {"t-unflag", "t-data", "t-off", "t-halt"}
      BY <1>0, <3>0, <3>3, <3>4, BootKeeps
    <3>5. CASE pc \in {"t-unflag", "t-data"}
      <4>1. pc' \in {"t-data", "t-off"}
        BY <2>2, <3>5 DEF BootStep, ChooseMode, Wait, GiveUp, Mount, Grow, Ungrow, Setup,
               Takeover, TReset, TSbinLink, TRoot, TSbin, TBoot, TUnflag, TData, TOff, THalt, Wipe,
               Unflag, UnflagAndStop, Pivot, Local, WipeFails, Fail, AskForReset, DiskStep, DiskSteps, Goto
      <4>2. QED
        BY <1>0, <3>0, <3>3, <3>5, <4>1, BootKeeps
    <3>6. CASE pc = "t-off"
      BY <2>2, <3>3, <3>6 DEF BootStep, ChooseMode, Wait, GiveUp, Mount, Grow, Ungrow,
             Setup, Takeover, TReset, TSbinLink, TRoot, TSbin, TBoot, TUnflag, TData, TOff, THalt,
             Wipe, Unflag, UnflagAndStop, Pivot, Local, WipeFails, Fail, AskForReset, DiskStep, DiskSteps, Goto
    <3>7. pc # "t-halt"
      BY <2>2 DEF BootStep, ChooseMode, Wait, GiveUp, Mount, Grow, Ungrow, Setup, Takeover,
             TReset, TSbinLink, TRoot, TSbin, TBoot, TUnflag, TData, TOff, THalt, Wipe, Unflag, UnflagAndStop,
             Pivot, Local, WipeFails, Fail, AskForReset, DiskStep, DiskSteps
    <3>8. QED
      BY <3>4, <3>5, <3>6, <3>7
  <2>3. CASE UNCHANGED <<disk, cmdline, pc, pass, waited, losses, failures, shutdown>>
    BY <1>0, <2>1, <2>3 DEF SwitchingOff, Has
  <2>4. QED
    BY <1>2, <2>2, <2>3, BootingIs DEF Quiet
<1>3. CASE Starts /\ (\/ losses' = losses + 1
                      \/ losses' = losses /\ (pc \in Halted \/ ~job.interactive))
  <2>1. losses \in Nat
    BY <1>0, BoundAssumption DEF TypeOK
  <2>2. losses = 0 /\ (pc \in Halted \/ ~job.interactive)
    BY <1>3, <2>1
  <2>3. UNCHANGED <<job, loader, unnoticed, shutdown>> /\ disk'.flags = disk.flags
    BY <1>0, <1>3, StartKeeps DEF Starts
  <2>4. net = "never" /\ pc \in Halted
    BY <1>0, <1>3, <2>2, <2>3 DEF Starts, Start, Kinds
  <2>5. Both
    BY <1>0, <2>2, <2>3, <2>4 DEF SwitchingOff, Quiet, Halted
  <2>6. QED
    BY <2>3, <2>5 DEF Has
<1>4. CASE UNCHANGED allvars
  BY <1>0, <1>4 DEF allvars, vars, ivars, SwitchingOff, Has, Quiet
<1>5. QED
  BY <1>1, <1>2, <1>3, <1>4, InstallIs

-----------------------------------------------------------------------------
(* The theorems.                                                           *)

(* Every state of the machine, of the script and of the disk satisfies the *)
(* invariant, whatever is installed, wherever power is lost and whichever  *)
(* commands fail.                                                          *)
THEOREM InstallInvariant == InstallSpec => []InstallIInv
<1>1. InstallIInv /\ [InstallNext]_allvars => InstallIInv'
  BY InstallTypes, KindsKept, AtWorkKept, SoundKept, FromDiskKept, OldSystemKept, TakingOverKept,
     SwitchingOffKept DEF InstallIInv
<1>2. QED
  BY InitInstall, <1>1, PTL DEF InstallSpec

(* What the script and the boots make of the machine has its type; above   *)
(* all, the disk is one that a boot may find (Boot!TypeOK).                *)
THEOREM InstallWellTyped == InstallSpec => []InstallTypeOK
<1>1. InstallIInv => InstallTypeOK
  BY DEF InstallIInv
<1>2. QED
  BY InstallInvariant, <1>1, PTL

(* TakeoverReplaces: the old system is deleted only when all of EDGI is    *)
(* there, however often the takeover is cut short.                         *)
THEOREM TakeoverKeepsOldSystem == InstallSpec => []TakeoverReplaces
<1>1. InstallIInv => TakeoverReplaces
  BY DEF InstallIInv, OldSystem, Quiet, TakeoverReplaces
<1>2. QED
  BY InstallInvariant, <1>1, PTL

(* LeadsSomewhere: what the boot loader of the disk starts is there, at    *)
(* every step of the script and of the boots.                              *)
THEOREM LoaderLeadsSomewhere == InstallSpec => []LeadsSomewhere
<1>1. InstallIInv => LeadsSomewhere
  BY DEF InstallIInv, Sound, FromDisk, Quiet, LeadsSomewhere
<1>2. QED
  BY InstallInvariant, <1>1, PTL

(* NodeAsAsked: a node that comes up from its disk is whole, configured as *)
(* asked, and rid of the old system.                                       *)
THEOREM NodeComesUpAsAsked == InstallSpec => []NodeAsAsked
<1>1. ASSUME InstallIInv, Quiet, net = "never", pc = "running", pass = 2
      PROVE  /\ store = "whole"
             /\ job.config # "none" => config = "given"
             /\ job.takeover => disk.foreign \subseteq {"hidden"}
             /\ job.takeover /\ job.poweroff /\ losses = 0 => shutdown
  <2>1. loader = "edgi"
    BY <1>1 DEF InstallIInv, FromDisk
  <2>2. store = "whole" /\ (job.config # "none" => config = "given")
    BY <1>1, <2>1 DEF InstallIInv, Sound
  <2>3. job.takeover => ~Has("takeover") /\ disk.foreign \subseteq {"hidden"}
    BY <1>1, <2>1 DEF InstallIInv, TakingOver
  <2>4. job.takeover /\ job.poweroff /\ losses = 0 => shutdown
    BY <1>1, <2>1, <2>3 DEF InstallIInv, SwitchingOff
  <2>5. QED
    BY <2>2, <2>3, <2>4
<1>2. InstallIInv => NodeAsAsked
  BY <1>1 DEF NodeAsAsked, Quiet
<1>3. QED
  BY InstallInvariant, <1>2, PTL
=============================================================================
