----------------------------- MODULE BootProofs ------------------------------
(***************************************************************************)
(* Proofs about Boot, for any disks and command lines, any time to wait    *)
(* and any number of losses of power and of failures: its types and its    *)
(* four safety invariants, from an invariant that says what each step of   *)
(* mode-disk and of the takeover may rely on.                              *)
(***************************************************************************)
EXTENDS Boot, TLAPS

Pc == {"mode", "local"} \cup TakeoverSteps \cup DiskSteps \cup Halted

ResetDue == disk.flags \cap {"factory-reset", "ephemeral"} # {}

(* Old data has a reason to be deleted, and once the second pass is        *)
(* reached, or the deletion is done, there is none; an ephemeral node has  *)
(* none at all then.  Data is kept only where rm has failed.               *)
Forgetting ==
    /\ disk.data = "old" => ResetDue
    /\ disk.data = "kept" \/ pc = "giveup" => failures > 0
    /\ pass = 2 \/ pc \in {"unflag", "giveup", "pivot"} => disk.data # "old"
    /\ pc = "unflag" => disk.data = "none"
    /\ pc = "pivot" \/ (pass = 2 /\ pc \in {"mode", "local"}) =>
          (Has("ephemeral") => disk.data = "none")

(* The takeover marker is there as long as there is anything to delete,    *)
(* and the step that removes it comes after those that delete.             *)
Clearing ==
    failures = 0 =>
        /\ ~Has("takeover") => disk.foreign \subseteq {"hidden"}
        /\ pc \in {"t-sbin", "t-boot", "t-unflag"} => "plain" \notin disk.foreign
        /\ pc \in {"t-boot", "t-unflag"} => "sbin" \notin disk.foreign
        /\ pc = "t-unflag" => "boot" \notin disk.foreign

(* From setup_init on there is an init, and from the takeover on, which    *)
(* a node that has been taken over passes, it is ours or a program.        *)
OwnInit ==
    failures = 0 =>
        /\ pc = "takeover" => InitLeads
        /\ pc \in {"wipe", "unflag", "pivot"} => disk.init \in {"edgi", "program"}
        /\ pc = "foreign" => disk.init = "program"

(* A partition that mode has seen is still there when it is mounted.       *)
Mounting ==
    pc = "mount" => (disk.labelled /\ visible) \/ "disk" \in {cmdline.mode, cmdline.fallback}

(* The marker of growing is gone once that is over.                        *)
Grown ==
    pass = 2 \/ pc \in TakeoverSteps \cup {"setup", "takeover", "wipe", "unflag", "giveup", "pivot"}
        => ~Has("growpart")

IInv == TypeOK /\ Forgetting /\ Clearing /\ OwnInit /\ Mounting /\ Grown /\ RescueHasCause

LEMMA InitIInv == Init => IInv
<1> SUFFICES ASSUME Init
             PROVE  IInv
  OBVIOUS
<1>1. TypeOK
  <2>1. waited \in 0..MaxWait /\ losses \in 0..MaxPowerLoss /\ failures \in 0..MaxFailures
    BY BoundAssumption DEF Init
  <2>2. QED
    BY <2>1, DisksAssumption DEF Init, TypeOK
<1>2. Forgetting /\ Clearing /\ OwnInit
  BY MarkedAssumption DEF Init, Forgetting, ResetDue, Clearing, Has, OwnInit
<1>3. Mounting /\ Grown /\ RescueHasCause
  BY DEF Init, Mounting, Grown, RescueHasCause, TakeoverSteps
<1>4. QED
  BY <1>1, <1>2, <1>3 DEF IInv

-----------------------------------------------------------------------------
(* Types.                                                                  *)

LEMMA ChangedDisks ==
    ASSUME TypeOK
    PROVE  /\ \A f : Without(f) \in DiskType
           /\ Due(disk) \in DiskType
BY DEF TypeOK, DiskType, Without, Due

LEMMA StepTypes ==
    ASSUME TypeOK, NEW from, NEW to \in Pc, NEW after \in DiskType, DiskStep(from, to, after)
    PROVE  TypeOK'
BY DEF TypeOK, DiskStep, Goto, Pc

LEMMA PowerOnTypes ==
    ASSUME TypeOK, FromPowerOn, disk' \in DiskType, UNCHANGED <<cmdline, shutdown>>,
           losses' \in 0..MaxPowerLoss, failures' \in 0..MaxFailures
    PROVE  TypeOK'
<1>1. pc' \in Pc /\ pass' \in {1, 2}
  BY DEF FromPowerOn, Pc
<1>2. waited' \in 0..MaxWait
  BY BoundAssumption DEF FromPowerOn
<1>3. visible' \in BOOLEAN /\ cmdline' \in Cmdline /\ shutdown' \in BOOLEAN
  BY DEF FromPowerOn, TypeOK
<1>4. QED
  BY <1>1, <1>2, <1>3 DEF TypeOK, Pc

(* Every step of a boot keeps the types.                                   *)
LEMMA NextTypes == TypeOK /\ [Next]_vars => TypeOK'
<1> SUFFICES ASSUME TypeOK, [Next]_vars
             PROVE  TypeOK'
  OBVIOUS
<1> USE BoundAssumption
<1>1. CASE ChooseMode \/ Wait \/ GiveUp \/ Appear
  <2>1. CASE ChooseMode
    BY <2>1 DEF ChooseMode, Goto, TypeOK, Scripts, DiskSteps, Halted
  <2>2. CASE Wait
    <3>1. waited \in 0..MaxWait /\ MaxWait \in Nat
      BY DEF TypeOK
    <3>2. waited < MaxWait /\ waited' = waited + 1
      BY <2>2 DEF Wait
    <3>3. waited' \in 0..MaxWait
      BY ONLY <3>1, <3>2
    <3>4. QED
      BY <2>2, <3>3 DEF Wait, TypeOK
  <2>3. CASE GiveUp \/ Appear
    BY <2>3 DEF GiveUp, Appear, Goto, TypeOK, Halted
  <2>4. QED
    BY <1>1, <2>1, <2>2, <2>3
<1>2. CASE Mount \/ Grow \/ Ungrow \/ Setup \/ Takeover \/ TReset \/ TSbinLink \/ TRoot
           \/ TSbin \/ TBoot \/ TUnflag \/ TData \/ Wipe \/ Unflag \/ UnflagAndStop
  <2> USE StepTypes, ChangedDisks DEF Pc, TakeoverSteps, DiskSteps, Halted
  <2>1. CASE Mount \/ Grow \/ Ungrow \/ Takeover \/ TUnflag \/ Unflag \/ UnflagAndStop
    BY <2>1 DEF Mount, Grow, Ungrow, Takeover, TUnflag, Unflag, UnflagAndStop, TypeOK
  <2>2. CASE Setup \/ TSbinLink
    <3>1. [disk EXCEPT !.init = "edgi"] \in DiskType
      BY DEF TypeOK, DiskType
    <3>2. [disk EXCEPT !.usrmerge = FALSE, !.init = "none"] \in DiskType
      BY DEF TypeOK, DiskType
    <3>3. QED
      BY <2>2, <3>1, <3>2 DEF Setup, TSbinLink, TypeOK
  <2>3. CASE TReset
    <3>1. [disk EXCEPT !.flags = @ \cup {"factory-reset"}] \in DiskType
      BY DEF TypeOK, DiskType, Flag
    <3>2. QED
      BY <2>3, <3>1 DEF TReset
  <2>4. CASE TRoot \/ TSbin \/ TBoot
    <3>1. \A f : [disk EXCEPT !.foreign = @ \ {f}] \in DiskType
      BY DEF TypeOK, DiskType
    <3>2. QED
      BY <2>4, <3>1 DEF TRoot, TSbin, TBoot
  <2>5. CASE TData \/ Wipe
    <3>1. [disk EXCEPT !.data = "none"] \in DiskType
      BY DEF TypeOK, DiskType
    <3>2. QED
      BY <2>5, <3>1 DEF TData, Wipe, TypeOK
  <2>6. QED
    BY <1>2, <2>1, <2>2, <2>3, <2>4, <2>5
<1>3. CASE TOff \/ THalt \/ Pivot
  <2>1. CASE TOff
    <3>1. disk' \in DiskType
      BY <2>1, ChangedDisks DEF TOff, TypeOK
    <3>2. QED
      BY <2>1, <3>1, PowerOnTypes DEF TOff, Goto, TypeOK, TakeoverSteps
  <2>2. CASE THalt
    BY <2>2 DEF THalt, Goto, TypeOK, Halted
  <2>3. CASE Pivot
    <3>1. pc' \in Pc /\ pass' \in {1, 2} /\ waited' \in 0..MaxWait
      BY <2>3 DEF Pivot, TypeOK, Pc, Halted
    <3>2. QED
      BY <2>3, <3>1 DEF Pivot, TypeOK, Pc
  <2>4. QED
    BY <1>3, <2>1, <2>2, <2>3
<1>4. CASE Local \/ AskForReset
  <2>1. [disk EXCEPT !.data = "new"] \in DiskType
    BY DEF TypeOK, DiskType
  <2>2. \A f \in {"factory-reset", "ephemeral"} :
            [disk EXCEPT !.flags = @ \cup {f}] \in DiskType
    BY DEF TypeOK, DiskType, Flag
  <2>3. QED
    BY <1>4, <2>1, <2>2 DEF Local, AskForReset, Goto, TypeOK, Halted
<1>5. CASE Fail \/ FailOn
  BY <1>5 DEF Fail, FailOn, AfterStep, Goto, TypeOK, TakeoverSteps, DiskSteps, Halted
<1>6. CASE Restart \/ PowerLoss
  <2>1. disk' \in DiskType
    BY <1>6, ChangedDisks DEF Restart, PowerLoss
  <2>2. QED
    BY <1>6, <2>1, PowerOnTypes DEF Restart, PowerLoss, TypeOK
<1>7. CASE WipeFails
  <2>1. [disk EXCEPT !.data = "kept"] \in DiskType
    BY DEF TypeOK, DiskType
  <2>2. disk' \in DiskType /\ failures' \in 0..MaxFailures
    BY <1>7, <2>1 DEF WipeFails, TypeOK
  <2>3. QED
    BY <1>7, <2>2 DEF WipeFails, Goto, TypeOK, DiskSteps
<1>8. CASE UNCHANGED vars
  BY <1>8 DEF vars, TypeOK
<1>9. QED
  BY <1>1, <1>2, <1>3, <1>4, <1>5, <1>6, <1>7, <1>8 DEF Next, BootStep

-----------------------------------------------------------------------------
(* The steps of the script and of init, and what they do to what the       *)
(* invariants are about.                                                   *)

(* Between failures nothing else happens to their number.                  *)
LEMMA FailuresGrow ==
    ASSUME TypeOK, Next, failures' = 0
    PROVE  failures = 0 /\ ~Fail /\ ~FailOn /\ ~WipeFails
<1>1. failures \in Nat
  BY BoundAssumption DEF TypeOK
<1>2. CASE Fail \/ FailOn \/ WipeFails
  BY <1>1, <1>2 DEF Fail, FailOn, WipeFails
<1>3. CASE ~Fail /\ ~FailOn /\ ~WipeFails
  <2>1. BootStep \/ Appear \/ AskForReset \/ Restart \/ PowerLoss
    BY <1>3 DEF Next
  <2>2. UNCHANGED failures
    BY <2>1 DEF BootStep, ChooseMode, Wait, GiveUp, Appear, Mount, Grow, Ungrow, Setup,
           Takeover, TReset, TSbinLink, TRoot, TSbin, TBoot, TUnflag, TData, TOff, THalt,
           Wipe, Unflag, UnflagAndStop, Pivot, Local, AskForReset, Restart, PowerLoss, DiskStep
  <2>3. QED
    BY <1>3, <2>2
<1>4. QED
  BY <1>2, <1>3

LEMMA ForgettingKept == TypeOK /\ Forgetting /\ [Next]_vars => Forgetting'
<1> SUFFICES ASSUME TypeOK, Forgetting, [Next]_vars
             PROVE  Forgetting'
  OBVIOUS
<1> USE DEF Forgetting, ResetDue, Goto, DiskStep, Has
<1>0. disk \in DiskType /\ pass \in {1, 2} /\ failures \in Nat
  BY BoundAssumption DEF TypeOK
<1>1. CASE ChooseMode \/ Wait \/ GiveUp \/ Appear
  BY <1>1 DEF ChooseMode, Wait, GiveUp, Appear, Scripts
<1>2. CASE Mount \/ Grow \/ Setup \/ Takeover \/ TSbinLink \/ TRoot \/ TSbin \/ TBoot
           \/ THalt
  BY <1>0, <1>2 DEF Mount, Grow, Setup, Takeover, TSbinLink, TRoot, TSbin, TBoot, THalt, DiskType
<1>3. CASE Ungrow \/ TReset \/ TUnflag
  BY <1>0, <1>3 DEF Ungrow, TReset, TUnflag, Without, DiskType
<1>4. CASE TData
  BY <1>0, <1>4 DEF TData, DiskType
<1>5. CASE TOff
  BY <1>0, <1>5 DEF TOff, Without, FromPowerOn, DiskType
<1>6. CASE Wipe
  BY <1>0, <1>6 DEF Wipe, DiskType
<1>7. CASE Unflag \/ UnflagAndStop
  BY <1>0, <1>7 DEF Unflag, UnflagAndStop, Without, DiskType
<1>8. CASE Pivot
  BY <1>0, <1>8 DEF Pivot
<1>9. CASE Local \/ AskForReset
  BY <1>0, <1>9 DEF Local, AskForReset, DiskType
<1>10. CASE Fail \/ FailOn \/ WipeFails
  BY <1>0, <1>10 DEF Fail, FailOn, WipeFails, AfterStep, TakeoverSteps, DiskType
<1>11. CASE Restart \/ PowerLoss
  BY <1>0, <1>11 DEF Restart, PowerLoss, FromPowerOn, Due, DiskType
<1>12. CASE UNCHANGED vars
  BY <1>12 DEF vars
<1>13. QED
  BY <1>1, <1>2, <1>3, <1>4, <1>5, <1>6, <1>7, <1>8, <1>9, <1>10, <1>11, <1>12 DEF Next, BootStep

(* What is deleted stays deleted, what is marked stays marked until then.  *)
LEMMA ClearingKept == TypeOK /\ Clearing /\ [Next]_vars => Clearing'
<1> SUFFICES ASSUME TypeOK, Clearing, [Next]_vars, failures' = 0
             PROVE  Clearing'
  BY DEF Clearing
<1> USE DEF Clearing, Goto, DiskStep, Has
<1>0. /\ disk \in DiskType
      /\ failures = 0
      /\ ~Fail /\ ~FailOn /\ ~WipeFails
  BY FailuresGrow DEF TypeOK, vars, Fail, FailOn, WipeFails
<1>1. CASE ChooseMode \/ Wait \/ GiveUp \/ Appear
  BY <1>0, <1>1 DEF ChooseMode, Wait, GiveUp, Appear, Scripts
<1>2. CASE Mount \/ Grow \/ Setup \/ Takeover \/ THalt \/ Pivot
  BY <1>0, <1>2 DEF Mount, Grow, Setup, Takeover, THalt, Pivot, DiskType
<1>3. CASE Ungrow \/ TReset \/ Unflag \/ UnflagAndStop
  BY <1>0, <1>3 DEF Ungrow, TReset, Unflag, UnflagAndStop, Without, DiskType
<1>4. CASE TSbinLink \/ TRoot
  BY <1>0, <1>4 DEF TSbinLink, TRoot, DiskType
<1>5. CASE TSbin \/ TBoot
  BY <1>0, <1>5 DEF TSbin, TBoot, DiskType
<1>6. CASE TUnflag
  <2>1. disk'.foreign = disk.foreign /\ disk.foreign \subseteq Foreign /\ pc' = "t-data"
    BY <1>0, <1>6 DEF TUnflag, Without, DiskType
  <2>2. disk.foreign \subseteq {"hidden"}
    BY <1>0, <1>6, <2>1 DEF TUnflag, Foreign
  <2>3. QED
    BY <2>1, <2>2
<1>7. CASE TData \/ Wipe
  BY <1>0, <1>7 DEF TData, Wipe, DiskType
<1>8. CASE TOff
  BY <1>0, <1>8 DEF TOff, Without, FromPowerOn, DiskType
<1>9. CASE Local \/ AskForReset
  BY <1>0, <1>9 DEF Local, AskForReset, DiskType
<1>10. CASE Restart \/ PowerLoss
  BY <1>0, <1>10 DEF Restart, PowerLoss, FromPowerOn, Due, DiskType
<1>11. CASE UNCHANGED vars
  BY <1>11 DEF vars
<1>12. QED
  BY <1>0, <1>1, <1>2, <1>3, <1>4, <1>5, <1>6, <1>7, <1>8, <1>9, <1>10, <1>11
  DEF Next, BootStep

LEMMA OwnInitKept == TypeOK /\ Clearing /\ OwnInit /\ [Next]_vars => OwnInit'
<1> SUFFICES ASSUME TypeOK, Clearing, OwnInit, [Next]_vars
             PROVE  OwnInit'
  OBVIOUS
<1> USE DEF OwnInit, InitLeads, Goto, DiskStep
<1>0. /\ disk \in DiskType
      /\ failures' = 0 => failures = 0 /\ ~Fail /\ ~FailOn /\ ~WipeFails
  BY FailuresGrow DEF TypeOK, vars, Fail, FailOn, WipeFails
<1>1. CASE ChooseMode \/ Wait \/ GiveUp \/ Appear
  BY <1>0, <1>1 DEF ChooseMode, Wait, GiveUp, Appear, Scripts
<1>2. CASE Mount \/ Grow \/ Ungrow
  BY <1>0, <1>2 DEF Mount, Grow, Ungrow, Without, DiskType
<1>3. CASE Setup
  BY <1>0, <1>3 DEF Setup, DiskType
<1>4. CASE Takeover
  BY <1>0, <1>4 DEF Takeover, Clearing, DiskType
<1>5. CASE TReset \/ TSbinLink \/ TRoot \/ TSbin \/ TBoot \/ TUnflag \/ TData
  BY <1>0, <1>5 DEF TReset, TSbinLink, TRoot, TSbin, TBoot, TUnflag, TData, Without, DiskType
<1>6. CASE TOff \/ THalt
  BY <1>0, <1>6 DEF TOff, THalt, Without, FromPowerOn, DiskType
<1>7. CASE Wipe \/ Unflag \/ UnflagAndStop
  BY <1>0, <1>7 DEF Wipe, Unflag, UnflagAndStop, Without, DiskType
<1>8. CASE Pivot
  BY <1>0, <1>8 DEF Pivot
<1>9. CASE Local \/ AskForReset
  BY <1>0, <1>9 DEF Local, AskForReset, DiskType
<1>10. CASE Fail \/ FailOn \/ WipeFails
  BY <1>0, <1>10 DEF Fail, FailOn, WipeFails
<1>11. CASE Restart \/ PowerLoss
  BY <1>0, <1>11 DEF Restart, PowerLoss, FromPowerOn, Due, DiskType
<1>12. CASE UNCHANGED vars
  BY <1>12 DEF vars
<1>13. QED
  BY <1>1, <1>2, <1>3, <1>4, <1>5, <1>6, <1>7, <1>8, <1>9, <1>10, <1>11, <1>12 DEF Next, BootStep

LEMMA MountingKept == TypeOK /\ Mounting /\ [Next]_vars => Mounting'
<1> SUFFICES ASSUME TypeOK, Mounting, [Next]_vars, pc' = "mount"
             PROVE  (disk'.labelled /\ visible') \/ "disk" \in {cmdline'.mode, cmdline'.fallback}
  BY DEF Mounting
<1>1. ChooseMode \/ Appear \/ UNCHANGED vars
  BY DEF Next, BootStep, ChooseMode, Wait, GiveUp, Appear, Mount, Grow, Ungrow, Setup,
         Takeover, TReset, TSbinLink, TRoot, TSbin, TBoot, TUnflag, TData, TOff, THalt,
         Wipe, Unflag, UnflagAndStop, WipeFails, Pivot, Local, Fail, FailOn, AfterStep, AskForReset, Restart, PowerLoss,
         DiskStep, Goto, FromPowerOn, TakeoverSteps
<1>2. CASE ChooseMode
  <2>1. Mode = "disk" /\ UNCHANGED <<disk, cmdline, visible>>
    BY <1>2 DEF ChooseMode, Goto, Scripts
  <2>2. QED
    BY <2>1 DEF Mode
<1>3. CASE Appear \/ UNCHANGED vars
  BY <1>3 DEF Appear, vars, Mounting
<1>4. QED
  BY <1>1, <1>2, <1>3

LEMMA GrownKept == TypeOK /\ Grown /\ [Next]_vars => Grown'
<1> SUFFICES ASSUME TypeOK, Grown, [Next]_vars
             PROVE  Grown'
  OBVIOUS
<1> USE DEF Grown, Goto, DiskStep, Has, TakeoverSteps
<1>0. disk \in DiskType
  BY DEF TypeOK
<1>1. CASE ChooseMode \/ Wait \/ GiveUp \/ Appear
  BY <1>1 DEF ChooseMode, Wait, GiveUp, Appear, Scripts
<1>2. CASE Mount \/ Grow \/ Ungrow
  BY <1>0, <1>2 DEF Mount, Grow, Ungrow, Without, DiskType
<1>3. CASE Setup \/ Takeover
  BY <1>0, <1>3 DEF Setup, Takeover, DiskType
<1>4. CASE TReset \/ TSbinLink \/ TRoot \/ TSbin
  <2>1. pc \in TakeoverSteps /\ "growpart" \notin disk.flags
    BY <1>4 DEF TReset, TSbinLink, TRoot, TSbin
  <2>2. CASE TReset
    BY <1>0, <2>1, <2>2 DEF TReset, DiskType
  <2>3. CASE TSbinLink
    BY <1>0, <2>1, <2>3 DEF TSbinLink, DiskType
  <2>4. CASE TRoot \/ TSbin
    BY <1>0, <2>1, <2>4 DEF TRoot, TSbin, DiskType
  <2>5. QED
    BY <1>4, <2>2, <2>3, <2>4
<1>5. CASE TBoot \/ TUnflag \/ TData
  BY <1>0, <1>5 DEF TBoot, TUnflag, TData, Without, DiskType
<1>6. CASE TOff \/ THalt
  BY <1>0, <1>6 DEF TOff, THalt, Without, FromPowerOn, DiskType
<1>7. CASE Wipe \/ Unflag \/ UnflagAndStop \/ Pivot
  BY <1>0, <1>7 DEF Wipe, Unflag, UnflagAndStop, Pivot, Without, DiskType
<1>8. CASE Local \/ AskForReset
  BY <1>0, <1>8 DEF Local, AskForReset, DiskType
<1>9. CASE Fail \/ FailOn \/ WipeFails
  BY <1>0, <1>9 DEF Fail, FailOn, WipeFails, AfterStep, DiskType
<1>10. CASE Restart \/ PowerLoss
  BY <1>10 DEF Restart, PowerLoss, FromPowerOn
<1>11. CASE UNCHANGED vars
  BY <1>11 DEF vars
<1>12. QED
  BY <1>1, <1>2, <1>3, <1>4, <1>5, <1>6, <1>7, <1>8, <1>9, <1>10, <1>11 DEF Next, BootStep

LEMMA RescueKept == IInv /\ [Next]_vars => RescueHasCause'
<1> SUFFICES ASSUME IInv, [Next]_vars, pc' = "rescue"
             PROVE  RescueHasCause'
  BY DEF RescueHasCause
<1>0. failures \in Nat /\ cmdline.mode \in Names /\ cmdline.fallback \in Names
  BY CmdlineAssumption, BoundAssumption DEF IInv, TypeOK
<1>1. \/ ChooseMode \/ GiveUp \/ Mount \/ Pivot \/ Local
      \/ Fail \/ UnflagAndStop \/ Appear \/ UNCHANGED vars
  BY DEF Next, BootStep, ChooseMode, Wait, GiveUp, Appear, Mount, Grow, Ungrow, Setup,
         Takeover, TReset, TSbinLink, TRoot, TSbin, TBoot, TUnflag, TData, TOff, THalt,
         Wipe, Unflag, UnflagAndStop, WipeFails, Pivot, Local, Fail, FailOn, AfterStep, AskForReset, Restart, PowerLoss,
         DiskStep, Goto, FromPowerOn, TakeoverSteps
<1> USE DEF RescueHasCause, Goto
<1>2. CASE ChooseMode
  <2>1. Mode \notin Scripts /\ Mode # "" /\ UNCHANGED cmdline
    BY <1>2 DEF ChooseMode, Scripts
  <2>2. cmdline.mode \notin Scripts \cup {""} \/ cmdline.fallback \notin Scripts \cup {""}
    BY <2>1 DEF Mode, Scripts
  <2>3. QED
    BY <2>1, <2>2
<1>3. CASE GiveUp
  BY <1>3 DEF GiveUp
<1>4. CASE Mount
  BY <1>4 DEF Mount, DiskStep, IInv, Mounting
<1>5. CASE Pivot
  <2>1. failures # 0 /\ failures' = failures
    BY <1>5 DEF Pivot, IInv, OwnInit, InitLeads
  <2>2. failures' > 0
    BY ONLY <1>0, <2>1
  <2>3. QED
    BY <2>2
<1>6. CASE Local
  BY <1>6 DEF Local, IInv, Grown
<1>7. CASE Fail
  <2>1. failures' > 0
    BY <1>0, <1>7 DEF Fail
  <2>2. QED
    BY <2>1
<1>8. CASE UnflagAndStop
  <2>1. failures' > 0
    BY <1>0, <1>8 DEF UnflagAndStop, DiskStep, IInv, Forgetting
  <2>2. QED
    BY <2>1
<1>9. CASE Appear \/ UNCHANGED vars
  BY <1>9 DEF Appear, vars, IInv
<1>10. QED
  BY <1>1, <1>2, <1>3, <1>4, <1>5, <1>6, <1>7, <1>8, <1>9

-----------------------------------------------------------------------------
THEOREM BootInvariant == Spec => []IInv
<1>1. IInv /\ [Next]_vars => IInv'
  BY NextTypes, ForgettingKept, ClearingKept, OwnInitKept, MountingKept, GrownKept, RescueKept
  DEF IInv
<1>2. QED
  BY InitIInv, <1>1, PTL DEF Spec

(* Every state of a boot is one of its type.                               *)
THEOREM BootTypes == Spec => []TypeOK
<1>1. IInv => TypeOK
  BY DEF IInv
<1>2. QED
  BY BootInvariant, <1>1, PTL

(* Data that was to be deleted, by a factory reset or because the node is  *)
(* ephemeral, is not there when the system comes up, but for what rm could *)
(* not delete in a factory reset.                                          *)
THEOREM ResetForgets == Spec => []ForgetsOldState
<1>1. IInv => ForgetsOldState
  BY DEF IInv, Forgetting, ForgetsOldState
<1>2. QED
  BY BootInvariant, <1>1, PTL

(* A takeover that loses its marker has deleted all it was to delete.      *)
THEOREM TakeoverIsFinished == Spec => []TakeoverFinishes
<1>1. IInv => TakeoverFinishes
  BY DEF IInv, Clearing, TakeoverFinishes
<1>2. QED
  BY BootInvariant, <1>1, PTL

(* The node pivots to no init but its own, or a program the disk came with. *)
THEOREM OwnInitOnly == Spec => []OnlyProgramsSurvive
<1>1. IInv => OnlyProgramsSurvive
  BY DEF IInv, OwnInit, OnlyProgramsSurvive
<1>2. QED
  BY BootInvariant, <1>1, PTL

(* The rescue shell always has one of the causes named.                    *)
THEOREM RescueIsCaused == Spec => []RescueHasCause
<1>1. IInv => RescueHasCause
  BY DEF IInv
<1>2. QED
  BY BootInvariant, <1>1, PTL
=============================================================================
