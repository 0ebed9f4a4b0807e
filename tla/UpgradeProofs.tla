--------------------------- MODULE UpgradeProofs ---------------------------
(***************************************************************************)
(* Proofs about Upgrade, for any number of processes, components, versions *)
(* and jobs, and any number of kills, losses of power and failing calls:   *)
(* types, the links, the way back at the moment `current` is replaced,     *)
(* what is on disk before the reboot, what is left in the store once       *)
(* CopyComponent is over, and that all of it implements VersionSwitch.     *)
(***************************************************************************)
EXTENDS Upgrade, TLAPS

(* There is a job, so what a process forgets it goes back to is one.       *)
LEMMA AnyJobIsJob == AnyJob \in Job
BY JobAssumption DEF AnyJob

(* Where a process is, and what it would install there, are well typed.    *)
LEMMA HereType ==
    ASSUME TypeOK, NEW p \in Process
    PROVE  Here(p) \in Key /\ New(p) \in Link
BY ComponentsAssumption, JobAssumption DEF TypeOK, Here, New, JobType

(* The store's calls keep the store well typed.                            *)
LEMMA StoreCallsType ==
    ASSUME StoreTypeOK, NEW k \in Key, NEW v \in Link
    PROVE  /\ LinkTmp(k, v) => StoreTypeOK'
           /\ UnlinkTmp(k) => StoreTypeOK'
           /\ MoveAside(k, v) => StoreTypeOK'
           /\ MoveBack(k, v) => StoreTypeOK'
           /\ SwapIn(k, v) => StoreTypeOK'
           /\ DropPrevious(k) => StoreTypeOK'
           /\ Remember(k) => StoreTypeOK'
           /\ Flip(k) => StoreTypeOK'
           /\ UNCHANGED storeVars => StoreTypeOK'
<1>1. LinkTmp(k, v) => StoreTypeOK'
  BY DEF LinkTmp, StoreTypeOK, Link
<1>2. UnlinkTmp(k) => StoreTypeOK'
  BY DEF UnlinkTmp, StoreTypeOK, Link
<1>3. MoveAside(k, v) => StoreTypeOK'
  <2>1. CASE v \in Version
    BY <2>1 DEF MoveAside, StoreTypeOK, Content
  <2>2. CASE v \notin Version
    <3>1. \A f \in [Version -> Content] : \A y : [f EXCEPT ![v] = y] \in [Version -> Content]
      BY <2>2
    <3>2. QED
      BY <3>1 DEF MoveAside, StoreTypeOK
  <2>3. QED
    BY <2>1, <2>2
<1>4. MoveBack(k, v) => StoreTypeOK'
  <2>1. CASE v \in Version
    BY <2>1 DEF MoveBack, StoreTypeOK, Content
  <2>2. CASE v \notin Version
    <3>1. \A f \in [Version -> Content] : \A y : [f EXCEPT ![v] = y] \in [Version -> Content]
      BY <2>2
    <3>2. QED
      BY <3>1 DEF MoveBack, StoreTypeOK
  <2>3. QED
    BY <2>1, <2>2
<1>5. SwapIn(k, v) => StoreTypeOK'
  <2>1. CASE v \in Version
    BY <2>1 DEF SwapIn, StoreTypeOK, Content
  <2>2. CASE v \notin Version
    <3>1. \A f \in [Version -> Content] : \A y : [f EXCEPT ![v] = y] \in [Version -> Content]
      BY <2>2
    <3>2. QED
      BY <3>1 DEF SwapIn, StoreTypeOK
  <2>3. QED
    BY <2>1, <2>2
<1>6. DropPrevious(k) => StoreTypeOK'
  BY DEF DropPrevious, StoreTypeOK, Link
<1>7. Remember(k) => StoreTypeOK'
  BY DEF Remember, StoreTypeOK, Link
<1>8. Flip(k) => StoreTypeOK'
  BY DEF Flip, StoreTypeOK, Link
<1>9. UNCHANGED storeVars => StoreTypeOK'
  BY DEF storeVars, StoreTypeOK
<1>10. QED
  BY <1>1, <1>2, <1>3, <1>4, <1>5, <1>6, <1>7, <1>8, <1>9

(* Flushing or tearing changes no directory into no directory.             *)
LEMMA TreesType ==
    ASSUME NEW tree \in [Key -> [Version -> Content]], NEW lost
    PROVE  /\ Flushed(tree) \in [Key -> [Version -> Content]]
           /\ Torn(tree, lost) \in [Key -> [Version -> Content]]
           /\ \A k \in Key : \A v \in Version :
                /\ Flushed(tree)[k][v] = "absent" <=> tree[k][v] = "absent"
                /\ Torn(tree, lost)[k][v] = "absent" <=> tree[k][v] = "absent"
BY DEF Flushed, Torn, Content

(* So do the helpers of the actions keep the types of what they set.      *)
LEMMA LocalsType ==
    ASSUME TypeOK, NEW p \in Process
    PROVE  /\ \A label \in Labels : Goto(p, label) => pc' \in [Process -> Labels]
           /\ Return(p) => /\ pc' \in [Process -> Labels]
                           /\ idx' \in [Process -> 1..Len(Components)]
           /\ \A call : Fails(call) => faults' \in 0..MaxFaults
           /\ \A call, possible : Refused(call, possible) => faults' \in 0..MaxFaults
<1>1. \A label \in Labels : Goto(p, label) => pc' \in [Process -> Labels]
  BY DEF TypeOK, Goto
<1>2. Len(Components) \in Nat /\ Len(Components) > 0
  BY ComponentsAssumption
<1>3. Return(p) => /\ pc' \in [Process -> Labels]
                   /\ idx' \in [Process -> 1..Len(Components)]
  <2>1. "stat" \in Labels /\ "sync" \in Labels
    BY DEF Labels, Locked, Steps
  <2>2. Return(p) => pc' \in [Process -> Labels]
    BY <1>1, <2>1 DEF Return
  <2>3. Return(p) => idx' \in [Process -> 1..Len(Components)]
    <3>1. CASE idx[p] < Len(Components)
      <4>1. idx[p] + 1 \in 1..Len(Components)
        BY <1>2, <3>1 DEF TypeOK
      <4>2. QED
        BY <3>1, <4>1 DEF TypeOK, Return
    <3>2. CASE ~(idx[p] < Len(Components))
      BY <3>2 DEF TypeOK, Return
    <3>3. QED
      BY <3>1, <3>2
  <2>4. QED
    BY <2>2, <2>3
<1>4. \A call : Fails(call) => faults' \in 0..MaxFaults
  BY BoundAssumption DEF TypeOK, Fails
<1>5. \A call, possible : Refused(call, possible) => faults' \in 0..MaxFaults
  BY <1>4 DEF TypeOK, Refused
<1>6. QED
  BY <1>1, <1>3, <1>4, <1>5

(* So does the end of any set of processes.                                *)
LEMMA GoneType ==
    ASSUME TypeOK, NEW P, Gone(P)
    PROVE  /\ pc'      \in [Process -> Labels]
           /\ job'     \in [Process -> Job]
           /\ idx'     \in [Process -> 1..Len(Components)]
           /\ remount' \in [Process -> BOOLEAN]
           /\ copied'  \in [Process -> BOOLEAN]
           /\ temp'    \in [Process -> {"none", "partial", "whole"}]
           /\ aside'   \in [Process -> BOOLEAN]
<1>1. 1 \in 1..Len(Components)
  BY ComponentsAssumption
<1>2. "idle" \in Labels
  BY DEF Labels
<1>3. pc' \in [Process -> Labels] /\ job' \in [Process -> Job]
  BY <1>2, AnyJobIsJob DEF TypeOK, Gone
<1>4. idx' \in [Process -> 1..Len(Components)]
  BY <1>1 DEF TypeOK, Gone
<1>5. /\ remount' \in [Process -> BOOLEAN]
      /\ copied'  \in [Process -> BOOLEAN]
      /\ aside'   \in [Process -> BOOLEAN]
  BY DEF TypeOK, Gone
<1>6. temp' \in [Process -> {"none", "partial", "whole"}]
  BY DEF TypeOK, Gone
<1>7. QED
  BY <1>3, <1>4, <1>5, <1>6

(* The labels, spelled out.                                                *)
LEMMA LabelsAre ==
    Labels = {"idle", "lock", "stat", "remount", "symlink", "tempdir", "copy",
              "moveaside", "swap", "rmprevious", "remember", "flip", "moveback",
              "rmtemp", "rmlink", "sync", "reboot", "exit"}
BY DEF Labels, Locked, Steps, Copying, Deferred

(* A kill and a start of the machine keep the types they concern.          *)
LEMMA KilledType ==
    ASSUME TypeOK, NEW P \in SUBSET Process, Killed(P)
    PROVE  litter' \in SUBSET Key /\ interrupted' \in SUBSET Key
<1>1. \A p \in P : Here(p) \in Key
  BY HereType
<1>2. QED
  BY <1>1 DEF Killed, TypeOK, StoreTypeOK

(* Every step keeps the types.                                             *)
LEMMA TypeStep == TypeOK /\ [Next]_vars => TypeOK'
<1> SUFFICES ASSUME TypeOK, [Next]_vars PROVE TypeOK'
  OBVIOUS
<1>1. CASE UNCHANGED vars
  BY <1>1, StoreCallsType DEF TypeOK, vars, procVars, hostVars, storeVars, StoreTypeOK
<1>2. ASSUME NEW p \in Process, Begin(p) PROVE TypeOK'
  <2>1. \A j \in Job : j.remount \in BOOLEAN
    BY JobAssumption DEF JobType
  <2>2. job' \in [Process -> Job]
    BY <1>2 DEF TypeOK, Begin
  <2>3. remount' \in [Process -> BOOLEAN]
    BY <1>2, <2>1 DEF TypeOK, Begin
  <2>4. QED
    <3>1. pc' \in [Process -> Labels]
      BY <1>2, LocalsType, LabelsAre DEF Begin
    <3>2. StoreTypeOK'
      BY <1>2 DEF TypeOK, Begin, storeVars, StoreTypeOK
    <3>3. QED
      BY <1>2, <2>2, <2>3, <3>1, <3>2 DEF TypeOK, Begin, hostVars
<1>3. ASSUME NEW p \in Process, Lock(p) PROVE TypeOK'
  BY <1>3, HereType, LocalsType, GoneType, LabelsAre, StoreCallsType
  DEF TypeOK, Lock, hostVars, storeVars, StoreTypeOK
<1>4. ASSUME NEW p \in Process, Stat(p) PROVE TypeOK'
  BY <1>4, HereType, LocalsType, LabelsAre, StoreCallsType
  DEF TypeOK, Stat, hostVars, storeVars, StoreTypeOK
<1>5. ASSUME NEW p \in Process, Remount(p) PROVE TypeOK'
  BY <1>5, HereType, LocalsType, LabelsAre, StoreCallsType
  DEF TypeOK, Remount, hostVars, storeVars, StoreTypeOK
<1>6. ASSUME NEW p \in Process, Symlink(p) PROVE TypeOK'
  BY <1>6, HereType, LocalsType, LabelsAre, StoreCallsType
  DEF TypeOK, Symlink, hostVars, storeVars, StoreTypeOK
<1>7. ASSUME NEW p \in Process, TempDir(p) PROVE TypeOK'
  BY <1>7, HereType, LocalsType, LabelsAre, StoreCallsType
  DEF TypeOK, TempDir, hostVars, storeVars, StoreTypeOK
<1>8. ASSUME NEW p \in Process, Copy(p) PROVE TypeOK'
  BY <1>8, HereType, LocalsType, LabelsAre, StoreCallsType
  DEF TypeOK, Copy, hostVars, storeVars, StoreTypeOK
<1>9. ASSUME NEW p \in Process, MoveAsideStep(p) PROVE TypeOK'
  BY <1>9, HereType, LocalsType, LabelsAre, StoreCallsType
  DEF TypeOK, MoveAsideStep, hostVars, storeVars, StoreTypeOK
<1>10. ASSUME NEW p \in Process, Swap(p) PROVE TypeOK'
  BY <1>10, HereType, LocalsType, LabelsAre, StoreCallsType
  DEF TypeOK, Swap, hostVars, storeVars, StoreTypeOK
<1>11. ASSUME NEW p \in Process, RmPrevious(p) PROVE TypeOK'
  BY <1>11, HereType, LocalsType, LabelsAre, StoreCallsType
  DEF TypeOK, RmPrevious, hostVars, storeVars, StoreTypeOK
<1>12. ASSUME NEW p \in Process, RememberStep(p) PROVE TypeOK'
  BY <1>12, HereType, LocalsType, LabelsAre, StoreCallsType
  DEF TypeOK, RememberStep, hostVars, storeVars, StoreTypeOK
<1>13. ASSUME NEW p \in Process, FlipStep(p) PROVE TypeOK'
  <2>1. risk' \in [Key -> Risk]
    BY <1>13 DEF FlipStep, Risk, TypeOK
  <2>2. StoreTypeOK'
    BY <1>13, HereType, StoreCallsType DEF FlipStep, TypeOK
  <2>3. pc' \in [Process -> Labels] /\ faults' \in 0..MaxFaults
    BY <1>13, LocalsType, LabelsAre DEF FlipStep, TypeOK
  <2>4. remount' \in [Process -> BOOLEAN] /\ copied' \in [Process -> BOOLEAN]
    BY <1>13 DEF FlipStep, TypeOK
  <2>5. QED
    BY <1>13, <2>1, <2>2, <2>3, <2>4 DEF TypeOK, FlipStep
<1>14. ASSUME NEW p \in Process, MoveBackStep(p) PROVE TypeOK'
  BY <1>14, HereType, LocalsType, LabelsAre, StoreCallsType
  DEF TypeOK, MoveBackStep, hostVars, storeVars, StoreTypeOK
<1>15. ASSUME NEW p \in Process, RmTemp(p) PROVE TypeOK'
  BY <1>15, HereType, LocalsType, LabelsAre, StoreCallsType
  DEF TypeOK, RmTemp, hostVars, storeVars, StoreTypeOK
<1>16. ASSUME NEW p \in Process, RmLink(p) PROVE TypeOK'
  BY <1>16, HereType, LocalsType, LabelsAre, StoreCallsType
  DEF TypeOK, RmLink, hostVars, storeVars, StoreTypeOK
<1>17. ASSUME NEW p \in Process, SyncStep(p) PROVE TypeOK'
  <2>1. StoreTypeOK'
    <3>1. CASE Sync /\ UNCHANGED litter
      BY <3>1, TreesType DEF TypeOK, Sync, StoreTypeOK
    <3>2. CASE UNCHANGED storeVars
      BY <3>2 DEF TypeOK, storeVars, StoreTypeOK
    <3>3. QED
      BY <1>17, <3>1, <3>2 DEF SyncStep
  <2>2. QED
    <3>1. risk' \in [Key -> Risk]
      BY <1>17 DEF SyncStep, RiskAfter, Risk, TypeOK
    <3>2. pc' \in [Process -> Labels]
      BY <1>17, LocalsType, LabelsAre DEF SyncStep
    <3>3. QED
      BY <1>17, <2>1, <3>1, <3>2 DEF TypeOK, SyncStep
<1>18. ASSUME NEW p \in Process, Reboot(p) PROVE TypeOK'
  BY <1>18, HereType, LocalsType, LabelsAre, StoreCallsType
  DEF TypeOK, Reboot, hostVars, storeVars, StoreTypeOK
<1>19. ASSUME NEW p \in Process, Exit(p) PROVE TypeOK'
  BY <1>19, HereType, GoneType, StoreCallsType
  DEF TypeOK, Exit, hostVars, storeVars, StoreTypeOK
<1>20. ASSUME NEW p \in Process, Kill(p) PROVE TypeOK'
  <2>1. Killed({p}) /\ Gone({p})
    BY <1>20 DEF Kill, Killed
  <2>2. litter' \in SUBSET Key /\ interrupted' \in SUBSET Key
    BY <2>1, KilledType
  <2>3. StoreTypeOK'
    BY <1>20, <2>2 DEF TypeOK, Kill, StoreTypeOK
  <2>4. kills' \in 0..MaxKills /\ lock' \in Process \cup {NoProcess}
    BY <1>20, BoundAssumption DEF TypeOK, Kill
  <2>5. QED
    BY <1>20, <2>1, <2>2, <2>3, <2>4, GoneType DEF TypeOK, Kill
<1>21. CASE Restart
  <2>1. ComeUp /\ Killed(Process) /\ Gone(Process) /\ Sync
    BY <1>21 DEF Restart, ComeUp, Killed
  <2>2. litter' \in SUBSET Key /\ interrupted' \in SUBSET Key
    BY <2>1, KilledType
  <2>3. StoreTypeOK'
    BY <2>1, <2>2, TreesType DEF TypeOK, Sync, StoreTypeOK
  <2>4. kills' \in 0..MaxKills
    BY <1>21 DEF TypeOK, Restart
  <2>5. rw' \in BOOLEAN /\ rebooting' \in BOOLEAN
    BY <2>1 DEF ComeUp
  <2>6. lock' \in Process \cup {NoProcess} /\ faults' \in 0..MaxFaults
    BY <2>1 DEF TypeOK, ComeUp
  <2>7. /\ pc' \in [Process -> Labels] /\ job' \in [Process -> Job]
        /\ idx' \in [Process -> 1..Len(Components)]
        /\ remount' \in [Process -> BOOLEAN] /\ copied' \in [Process -> BOOLEAN]
        /\ temp' \in [Process -> {"none", "partial", "whole"}]
        /\ aside' \in [Process -> BOOLEAN]
    BY <2>1, GoneType
  <2>8. risk' \in [Key -> Risk]
    BY <1>21 DEF Restart, RiskAfter, Risk, TypeOK
  <2>9. QED
    BY <2>2, <2>3, <2>4, <2>5, <2>6, <2>7, <2>8 DEF TypeOK
<1>22. CASE PowerLoss
  <2>1. ComeUp /\ Killed(Process) /\ Gone(Process) /\ LosePower
    BY <1>22 DEF PowerLoss, ComeUp, Killed
  <2>2. litter' \in SUBSET Key /\ interrupted' \in SUBSET Key
    BY <2>1, KilledType
  <2>3. StoreTypeOK'
    <3>1. dir' \in [Key -> [Version -> Content]]
      <4>1. PICK lost \in SUBSET Cached(dir) : dir' = Torn(dir, lost)
        BY <2>1 DEF LosePower
      <4>2. QED
        BY <4>1, TreesType DEF TypeOK, StoreTypeOK
    <3>2. old' \in [Key -> [Version -> Content]]
      <4>1. PICK lost \in SUBSET Cached(old) : old' = Torn(old, lost)
        BY <2>1 DEF LosePower
      <4>2. QED
        BY <4>1, TreesType DEF TypeOK, StoreTypeOK
    <3>3. QED
      BY <2>1, <2>2, <3>1, <3>2 DEF TypeOK, LosePower, StoreTypeOK
  <2>4. kills' \in 0..MaxKills
    BY <1>22, BoundAssumption DEF TypeOK, PowerLoss
  <2>5. rw' \in BOOLEAN /\ rebooting' \in BOOLEAN
    BY <2>1 DEF ComeUp
  <2>6. lock' \in Process \cup {NoProcess} /\ faults' \in 0..MaxFaults
    BY <2>1 DEF TypeOK, ComeUp
  <2>7. /\ pc' \in [Process -> Labels] /\ job' \in [Process -> Job]
        /\ idx' \in [Process -> 1..Len(Components)]
        /\ remount' \in [Process -> BOOLEAN] /\ copied' \in [Process -> BOOLEAN]
        /\ temp' \in [Process -> {"none", "partial", "whole"}]
        /\ aside' \in [Process -> BOOLEAN]
    BY <2>1, GoneType
  <2>8. risk' \in [Key -> Risk]
    BY <1>22 DEF PowerLoss, RiskAfter, Risk, TypeOK
  <2>9. QED
    BY <2>2, <2>3, <2>4, <2>5, <2>6, <2>7, <2>8 DEF TypeOK
<1>23. QED
  BY <1>1, <1>2, <1>3, <1>4, <1>5, <1>6, <1>7, <1>8, <1>9, <1>10, <1>11, <1>12, <1>13, <1>14, <1>15, <1>16, <1>17, <1>18, <1>19, <1>20, <1>21, <1>22 DEF Next, Step

(* The types hold when the machine is installed.                           *)
LEMMA InitType == Init => TypeOK
<1> SUFFICES ASSUME Init PROVE TypeOK
  OBVIOUS
<1>1. PICK base \in [Shipped -> Version] :
        /\ dir = [k \in Key |-> [v \in Version |->
                    IF k \in Shipped /\ v = base[k] THEN "stable" ELSE "absent"]]
        /\ old = [k \in Key |-> [v \in Version |-> "absent"]]
        /\ current  = [k \in Key |-> IF k \in Shipped THEN base[k] ELSE NoVersion]
        /\ previous = [k \in Key |-> NoVersion]
        /\ curTmp   = [k \in Key |-> NoVersion]
        /\ litter   = {}
  BY DEF Init, StoreInit
<1>2. StoreTypeOK
  BY <1>1 DEF StoreTypeOK, Content, Link
<1>3. 1 \in 1..Len(Components)
  BY ComponentsAssumption
<1>4. /\ remount \in [Process -> BOOLEAN] /\ copied \in [Process -> BOOLEAN]
      /\ aside \in [Process -> BOOLEAN] /\ rw \in BOOLEAN /\ rebooting \in BOOLEAN
  BY DEF Init
<1>5. /\ pc \in [Process -> Labels] /\ job \in [Process -> Job]
      /\ idx \in [Process -> 1..Len(Components)]
      /\ temp \in [Process -> {"none", "partial", "whole"}]
  BY <1>3, AnyJobIsJob, LabelsAre DEF Init
<1>6. /\ lock \in Process \cup {NoProcess} /\ interrupted \in SUBSET Key
      /\ faults \in 0..MaxFaults /\ kills \in 0..MaxKills
  BY BoundAssumption DEF Init
<1>7. risk \in [Key -> Risk]
  BY DEF Init, Risk
<1>8. QED
  BY <1>2, <1>4, <1>5, <1>6, <1>7 DEF TypeOK

(* Every variable stays in its type, whatever happens.                     *)
THEOREM TypeCorrect == Spec => []TypeOK
BY InitType, TypeStep, PTL DEF Spec

-----------------------------------------------------------------------------
(* The links.                                                              *)

(* The installer leaves links that lead somewhere, and nobody at work.     *)
LEMMA InitLinks == Init => IInv
<1> SUFFICES ASSUME Init PROVE IInv
  OBVIOUS
<1>1. PICK base \in [Shipped -> Version] :
        /\ dir = [k \in Key |-> [v \in Version |->
                    IF k \in Shipped /\ v = base[k] THEN "stable" ELSE "absent"]]
        /\ current  = [k \in Key |-> IF k \in Shipped THEN base[k] ELSE NoVersion]
        /\ previous = [k \in Key |-> NoVersion]
  BY DEF Init, StoreInit
<1>2. CurrentComplete
  BY <1>1, ShippedAssumption DEF CurrentComplete, Present
<1>3. RollbackKept
  BY <1>1 DEF RollbackKept
<1>4. \A p \in Process : Consistent(p)
  BY DEF Init, Consistent, Locked, Steps, Copying, Deferred
<1>5. Watched
  BY <1>1, InitType DEF Watched, TypeOK, StoreTypeOK, Link
<1>6. QED
  BY <1>2, <1>3, <1>4, <1>5, InitType DEF IInv

(* While a process is past the lock no other is, and nothing is asserted   *)
(* of the others.                                                          *)
LEMMA OnlyTheHolder ==
    ASSUME IInv, NEW p \in Process, pc[p] \in Locked,
           \A q \in Process \ {p} : pc'[q] = pc[q],
           Consistent(p)'
    PROVE  \A q \in Process : Consistent(q)'
<1>1. \A q \in Process \ {p} : pc'[q] \notin Locked
  BY DEF IInv, Consistent
<1>2. \A q \in Process \ {p} : Consistent(q)'
  BY <1>1 DEF Consistent, Locked, Steps, Copying, Deferred
<1>3. QED
  BY <1>2

(* A process that goes on to the next component asserts nothing of it yet. *)
LEMMA ReturnConsistent ==
    ASSUME TypeOK, NEW p \in Process, Consistent(p), pc[p] \in Locked,
           Return(p), UNCHANGED lock
    PROVE  Consistent(p)' /\ \A q \in Process \ {p} : pc'[q] = pc[q]
<1>1. pc'[p] \in {"stat", "sync"} /\ \A q \in Process \ {p} : pc'[q] = pc[q]
  BY DEF TypeOK, Return, Goto
<1>2. QED
  BY <1>1 DEF Consistent, Locked, Steps, Copying, Deferred

(* A process that stays with its component keeps it and the version.       *)
LEMMA StaysHere ==
    ASSUME TypeOK, NEW p \in Process, NEW label, Goto(p, label), UNCHANGED <<job, idx>>
    PROVE  /\ pc'[p] = label
           /\ \A q \in Process \ {p} : pc'[q] = pc[q]
           /\ Here(p)' = Here(p)
           /\ New(p)' = New(p)
BY DEF TypeOK, Goto, Here, New

(* A step that leads to a deferred call, or past the last component,       *)
(* asserts next to nothing.                                                *)
LEMMA WindsUp ==
    ASSUME TypeOK, NEW p \in Process, Consistent(p), pc[p] \in Locked,
           NEW label, Goto(p, label), UNCHANGED <<job, idx, lock>>,
           \/ label \in Deferred /\ New(p) \in Version
           \/ label \in {"reboot", "exit"}
    PROVE  Consistent(p)' /\ \A q \in Process \ {p} : pc'[q] = pc[q]
<1>1. /\ pc'[p] = label /\ lock' = p /\ New(p)' = New(p)
      /\ \A q \in Process \ {p} : pc'[q] = pc[q]
  BY StaysHere DEF Consistent
<1>2. QED
  BY <1>1 DEF Consistent, Locked, Steps, Copying, Deferred

(* A step to the next call that touches no link keeps what is asserted.    *)
LEMMA GoesOn ==
    ASSUME TypeOK, NEW p \in Process, Consistent(p),
           NEW label, Goto(p, label), UNCHANGED <<job, idx, lock, current, curTmp>>,
           \/ pc[p] = "remount" /\ label = "symlink"
           \/ pc[p] \in Copying \ {"symlink"} /\ label \in {"copy", "moveaside"}
    PROVE  Consistent(p)' /\ \A q \in Process \ {p} : pc'[q] = pc[q]
<1>1. /\ pc'[p] = label /\ Here(p)' = Here(p) /\ New(p)' = New(p)
      /\ \A q \in Process \ {p} : pc'[q] = pc[q]
  BY StaysHere
<1>2. QED
  BY <1>1 DEF Consistent, Locked, Steps, Copying, Deferred

(* What is asserted of the store: the links, and what has been flushed.    *)
StoreGood == CurrentComplete /\ Watched /\ RollbackKept

(* What the links need from a step: each call that can disturb them.       *)
LEMMA LinksKept ==
    ASSUME IInv, NEW k \in Key, NEW v \in Version
    PROVE  /\ UNCHANGED <<dir, old, current, previous, risk>> => StoreGood'
           /\ v # current[k] /\ CanMoveAside(k, v) /\ MoveAside(k, v) /\ UNCHANGED risk =>
                 StoreGood'
           /\ CanMoveBack(k, v) /\ MoveBack(k, v) /\ UNCHANGED risk => StoreGood'
           /\ CanSwapIn(k, v) /\ SwapIn(k, v) /\ UNCHANGED risk => StoreGood'
           /\ DropPrevious(k) /\ UNCHANGED risk => StoreGood'
           /\ Remember(k) /\ UNCHANGED risk => StoreGood'
           /\ /\ v = curTmp[k] /\ dir[k][v] \in {"cached", "stable"} /\ Flip(k)
              /\ risk' = [risk EXCEPT ![k] = "unflushed"]
              => StoreGood'
<1> USE DEF IInv, TypeOK, StoreTypeOK, Link, StoreGood, CurrentComplete, Watched,
            RollbackKept, Present
<1>1. UNCHANGED <<dir, old, current, previous, risk>> => StoreGood'
  OBVIOUS
<1>2. v # current[k] /\ CanMoveAside(k, v) /\ MoveAside(k, v) /\ UNCHANGED risk => StoreGood'
  BY DEF CanMoveAside, MoveAside
<1>3. CanMoveBack(k, v) /\ MoveBack(k, v) /\ UNCHANGED risk => StoreGood'
  BY DEF CanMoveBack, MoveBack
<1>4. CanSwapIn(k, v) /\ SwapIn(k, v) /\ UNCHANGED risk => StoreGood'
  BY DEF CanSwapIn, SwapIn
<1>5. DropPrevious(k) /\ UNCHANGED risk => StoreGood'
  BY DEF DropPrevious
<1>6. Remember(k) /\ UNCHANGED risk => StoreGood'
  BY DEF Remember
<1>7. ASSUME v = curTmp[k], dir[k][v] \in {"cached", "stable"}, Flip(k),
             risk' = [risk EXCEPT ![k] = "unflushed"]
      PROVE  StoreGood'
  BY <1>7 DEF Flip
<1>8. QED
  BY <1>1, <1>2, <1>3, <1>4, <1>5, <1>6, <1>7

(* sync(2) keeps the links good, and leaves nothing to watch.              *)
LEMMA FlushKeepsLinks == IInv /\ Sync /\ RiskAfter("none") => StoreGood'
<1> SUFFICES ASSUME IInv, Sync, RiskAfter("none") PROVE StoreGood'
  OBVIOUS
<1>1. \A k \in Key : \A v \in Version :
        /\ dir'[k][v] = "absent" <=> dir[k][v] = "absent"
        /\ old'[k][v] = "absent" <=> old[k][v] = "absent"
        /\ dir'[k][v] # "cached"
        /\ dir'[k][v] = "torn" <=> dir[k][v] = "torn"
  BY DEF Sync, Flushed
<1>2. \A k \in Key : risk[k] = "damaged" => risk'[k] = "damaged"
  BY DEF RiskAfter
<1>3. UNCHANGED <<current, previous>>
  BY DEF Sync
<1>4. \A k \in Key : current[k] \in Link /\ previous[k] \in Link
  BY DEF IInv, TypeOK, StoreTypeOK
<1>5. QED
  BY <1>1, <1>2, <1>3, <1>4
  DEF IInv, Link, StoreGood, CurrentComplete, Watched, RollbackKept, Present

(* A loss of power tears what is in a directory, not the links; of what is *)
(* current it tears only what has not been flushed.                        *)
LEMMA PowerLossKeepsLinks == IInv /\ LosePower /\ RiskAfter("damaged") => StoreGood'
<1> SUFFICES ASSUME IInv, LosePower, RiskAfter("damaged") PROVE StoreGood'
  OBVIOUS
<1>1. PICK lost \in SUBSET Cached(dir) : dir' = Torn(dir, lost)
  BY DEF LosePower
<1>2. PICK lostOld \in SUBSET Cached(old) : old' = Torn(old, lostOld)
  BY DEF LosePower
<1>3. \A k \in Key : \A v \in Version :
        /\ dir'[k][v] = "absent" <=> dir[k][v] = "absent"
        /\ old'[k][v] = "absent" <=> old[k][v] = "absent"
        /\ dir'[k][v] # "cached"
        /\ dir'[k][v] = "torn" => dir[k][v] \in {"torn", "cached"}
  BY <1>1, <1>2 DEF Torn
<1>4. \A k \in Key : risk[k] \in {"damaged", "unflushed"} => risk'[k] = "damaged"
  BY DEF RiskAfter
<1>5. UNCHANGED <<current, previous>>
  BY DEF LosePower
<1>6. \A k \in Key : current[k] \in Link /\ previous[k] \in Link
  BY DEF IInv, TypeOK, StoreTypeOK
<1>7. QED
  BY <1>3, <1>4, <1>5, <1>6
  DEF IInv, Link, StoreGood, CurrentComplete, Watched, RollbackKept, Present

(* Every step keeps the links and what they rest on.                       *)
LEMMA LinksStep == IInv /\ [Next]_vars => IInv'
<1> SUFFICES ASSUME IInv, [Next]_vars PROVE IInv'
  OBVIOUS
<1> USE DEF IInv, StoreGood
<1>1. TypeOK'
  BY TypeStep
<1>2. CASE UNCHANGED vars
  BY <1>1, <1>2
  DEF vars, storeVars, procVars, hostVars, CurrentComplete, Watched, RollbackKept,
      Present, Consistent, Here, New
<1>3. ASSUME NEW p \in Process, Begin(p) PROVE IInv'
  <2>1. StoreGood'
    BY <1>3 DEF Begin, storeVars, hostVars, StoreGood, CurrentComplete, Watched, RollbackKept, Present
  <2>2. \A q \in Process : Consistent(q)'
    <3>1. /\ pc'[p] = "lock" /\ pc[p] = "idle"
          /\ \A q \in Process \ {p} : pc'[q] = pc[q] /\ job'[q] = job[q]
      BY <1>3 DEF Begin, TypeOK, Goto
    <3>2. \A q \in Process \ {p} : Consistent(q)'
      BY <1>3, <3>1
      DEF Begin, hostVars, storeVars, Present, Consistent, Here, New
    <3>3. Consistent(p)'
      BY <3>1 DEF Consistent, Locked, Steps, Copying, Deferred
    <3>4. QED
      BY <3>2, <3>3
  <2>3. QED
    BY <1>1, <2>1, <2>2
<1>4. ASSUME NEW p \in Process, Lock(p) PROVE IInv'
  <2>1. StoreGood'
    BY <1>4 DEF Lock, storeVars, StoreGood, CurrentComplete, Watched, RollbackKept, Present
  <2>2. \A q \in Process : Consistent(q)'
    <3>1. CASE LockFree /\ lock' = p /\ Goto(p, "stat") /\ UNCHANGED <<job, idx>>
      BY <1>4, <3>1, NoProcessAssumption
      DEF TypeOK, LockFree, Consistent, Goto, Locked, Steps, Copying, Deferred
    <3>2. CASE Gone({p}) /\ UNCHANGED lock
      BY <1>4, <3>2
      DEF TypeOK, Lock, Gone, storeVars, Present, Consistent, Here, New,
          Locked, Steps, Copying, Deferred
    <3>3. QED
      BY <1>4, <3>1, <3>2 DEF Lock
  <2>3. QED
    BY <1>1, <2>1, <2>2
<1>5. ASSUME NEW p \in Process, Stat(p) PROVE IInv'
  <2>1. StoreGood'
    BY <1>5 DEF Stat, storeVars, hostVars, StoreGood, CurrentComplete, Watched, RollbackKept, Present
  <2>2. Consistent(p)' /\ \A q \in Process \ {p} : pc'[q] = pc[q]
    <3>1. CASE Skips(p) /\ Return(p)
      BY <1>5, <3>1, ReturnConsistent DEF Stat, hostVars, Locked, Steps
    <3>2. CASE ~Skips(p) /\ Goto(p, IF remount[p] THEN "remount" ELSE "symlink") /\ UNCHANGED idx
      <4>1. New(p) \in Version /\ current[Here(p)] # New(p)
        BY <3>2, HereType DEF Skips, Resolve, CurrentComplete, Link
      <4>2. /\ pc'[p] \in {"remount", "symlink"}
            /\ \A q \in Process \ {p} : pc'[q] = pc[q]
            /\ Here(p)' = Here(p) /\ New(p)' = New(p)
        BY <1>5, <3>2, StaysHere DEF Stat
      <4>3. QED
        BY <1>5, <4>1, <4>2
        DEF Stat, hostVars, storeVars, Consistent, Locked, Steps, Copying, Deferred
    <3>3. QED
      BY <1>5, <3>1, <3>2 DEF Stat
  <2>3. QED
    BY <1>1, <1>5, <2>1, <2>2, OnlyTheHolder DEF Stat, Locked, Steps, Copying, Deferred
<1>6. ASSUME NEW p \in Process, Remount(p) PROVE IInv'
  <2>1. StoreGood'
    BY <1>6 DEF Remount, storeVars, StoreGood, CurrentComplete, Watched, RollbackKept, Present
  <2>2. Consistent(p)' /\ \A q \in Process \ {p} : pc'[q] = pc[q]
    <3>1. CASE Return(p)
      BY <1>6, <3>1, ReturnConsistent DEF Remount, Locked, Steps
    <3>2. CASE Goto(p, "symlink") /\ UNCHANGED idx
      BY <1>6, <3>2, GoesOn DEF Remount, storeVars
    <3>3. QED
      BY <1>6, <3>1, <3>2 DEF Remount
  <2>3. QED
    BY <1>1, <1>6, <2>1, <2>2, OnlyTheHolder DEF Remount, Locked, Steps, Copying, Deferred
<1>7. ASSUME NEW p \in Process, Symlink(p) PROVE IInv'
  <2>1. StoreGood'
    BY <1>7, LinksKept, HereType DEF Symlink, LinkTmp, storeVars, Consistent, Copying
  <2>2. Consistent(p)' /\ \A q \in Process \ {p} : pc'[q] = pc[q]
    <3>1. CASE LinkTmp(Here(p), New(p)) /\ Goto(p, "tempdir") /\ UNCHANGED idx
      BY <1>7, <3>1, StaysHere, HereType
      DEF Symlink, LinkTmp, TypeOK, StoreTypeOK, Consistent, Locked, Steps, Copying, Deferred
    <3>2. CASE Return(p)
      BY <1>7, <3>2, ReturnConsistent DEF Symlink, Locked, Steps, Copying
    <3>3. QED
      BY <1>7, <3>1, <3>2 DEF Symlink
  <2>3. QED
    BY <1>1, <1>7, <2>1, <2>2, OnlyTheHolder DEF Symlink, Locked, Steps, Copying, Deferred
<1>8. ASSUME NEW p \in Process, TempDir(p) PROVE IInv'
  <2>1. StoreGood'
    BY <1>8 DEF TempDir, storeVars, StoreGood, CurrentComplete, Watched, RollbackKept, Present
  <2>2. Consistent(p)' /\ \A q \in Process \ {p} : pc'[q] = pc[q]
    <3>1. CASE Goto(p, "moveback")
      <4>1. New(p) \in Version /\ pc[p] \in Locked
        BY <1>8 DEF TempDir, Consistent, Locked, Steps, Copying
      <4>2. QED
        BY <1>8, <3>1, <4>1, WindsUp DEF TempDir, Deferred
    <3>2. CASE Goto(p, "copy")
      BY <1>8, <3>2, GoesOn DEF TempDir, storeVars, Copying
    <3>3. QED
      BY <1>8, <3>1, <3>2 DEF TempDir
  <2>3. QED
    BY <1>1, <1>8, <2>1, <2>2, OnlyTheHolder DEF TempDir, Locked, Steps, Copying, Deferred
<1>9. ASSUME NEW p \in Process, Copy(p) PROVE IInv'
  <2>1. StoreGood'
    BY <1>9 DEF Copy, storeVars, StoreGood, CurrentComplete, Watched, RollbackKept, Present
  <2>2. Consistent(p)' /\ \A q \in Process \ {p} : pc'[q] = pc[q]
    <3>1. CASE Goto(p, "moveback")
      <4>1. New(p) \in Version /\ pc[p] \in Locked
        BY <1>9 DEF Copy, Consistent, Locked, Steps, Copying
      <4>2. QED
        BY <1>9, <3>1, <4>1, WindsUp DEF Copy, Deferred
    <3>2. CASE Goto(p, "moveaside")
      BY <1>9, <3>2, GoesOn DEF Copy, storeVars, Copying
    <3>3. QED
      BY <1>9, <3>1, <3>2 DEF Copy
  <2>3. QED
    BY <1>1, <1>9, <2>1, <2>2, OnlyTheHolder DEF Copy, Locked, Steps, Copying, Deferred
<1>10. ASSUME NEW p \in Process, MoveAsideStep(p) PROVE IInv'
  <2>1. StoreGood'
    BY <1>10, LinksKept, HereType DEF MoveAsideStep, storeVars, Consistent, Copying
  <2>2. Consistent(p)' /\ \A q \in Process \ {p} : pc'[q] = pc[q]
    <3>1. pc'[p] \in {"swap", "moveback"}
      BY <1>10, StaysHere DEF MoveAsideStep
    <3>2. UNCHANGED <<current, curTmp, lock>>
      BY <1>10 DEF MoveAsideStep, MoveAside, storeVars
    <3>3. QED
      BY <1>10, <3>1, <3>2, StaysHere
      DEF MoveAsideStep, Consistent, Locked, Steps, Copying, Deferred
  <2>3. QED
    BY <1>1, <1>10, <2>1, <2>2, OnlyTheHolder DEF MoveAsideStep, Locked, Steps, Copying, Deferred
<1>11. ASSUME NEW p \in Process, Swap(p) PROVE IInv'
  <2>1. StoreGood'
    BY <1>11, LinksKept, HereType DEF Swap, storeVars, Consistent, Copying
  <2>2. Consistent(p)' /\ \A q \in Process \ {p} : pc'[q] = pc[q]
    <3>1. CASE SwapIn(Here(p), New(p)) /\ Goto(p, "rmprevious")
      <4>1. dir'[Here(p)][New(p)] = "cached" /\ UNCHANGED <<current, curTmp, lock>>
        BY <1>11, <3>1, HereType, StaysHere, NoVersionAssumption
        DEF Swap, SwapIn, TypeOK, StoreTypeOK, Consistent, Copying, Present
      <4>2. QED
        BY <1>11, <3>1, <4>1, StaysHere
        DEF Swap, Consistent, Locked, Steps, Copying, Deferred
    <3>2. CASE Goto(p, "moveback") /\ UNCHANGED storeVars
      BY <1>11, <3>2, StaysHere
      DEF Swap, storeVars, Consistent, Locked, Steps, Copying, Deferred
    <3>3. QED
      BY <1>11, <3>1, <3>2 DEF Swap
  <2>3. QED
    BY <1>1, <1>11, <2>1, <2>2, OnlyTheHolder DEF Swap, Locked, Steps, Copying, Deferred
<1>12. ASSUME NEW p \in Process, RmPrevious(p) PROVE IInv'
  <2>1. StoreGood'
    BY <1>12, LinksKept, HereType DEF RmPrevious, storeVars, Consistent, Copying
  <2>2. Consistent(p)' /\ \A q \in Process \ {p} : pc'[q] = pc[q]
    <3>1. UNCHANGED <<dir, current, curTmp, lock>>
      BY <1>12 DEF RmPrevious, DropPrevious, storeVars
    <3>2. QED
      BY <1>12, <3>1, StaysHere
      DEF RmPrevious, Present, Consistent, Locked, Steps, Copying, Deferred
  <2>3. QED
    BY <1>1, <1>12, <2>1, <2>2, OnlyTheHolder DEF RmPrevious, Locked, Steps, Copying, Deferred
<1>13. ASSUME NEW p \in Process, RememberStep(p) PROVE IInv'
  <2>1. StoreGood'
    BY <1>13, LinksKept, HereType DEF RememberStep, storeVars, Consistent, Copying
  <2>2. Consistent(p)' /\ \A q \in Process \ {p} : pc'[q] = pc[q]
    <3>1. UNCHANGED <<dir, current, curTmp, lock>>
      BY <1>13 DEF RememberStep, Remember, storeVars
    <3>2. QED
      BY <1>13, <3>1, StaysHere
      DEF RememberStep, Present, Consistent, Locked, Steps, Copying, Deferred
  <2>3. QED
    BY <1>1, <1>13, <2>1, <2>2, OnlyTheHolder DEF RememberStep, Locked, Steps, Copying, Deferred
<1>14. ASSUME NEW p \in Process, FlipStep(p) PROVE IInv'
  <2>1. StoreGood'
    BY <1>14, LinksKept, HereType DEF FlipStep, storeVars, Consistent, Copying
  <2>2. Consistent(p)' /\ \A q \in Process \ {p} : pc'[q] = pc[q]
    <3>1. New(p) \in Version /\ pc[p] \in Locked
      BY <1>14 DEF FlipStep, Consistent, Locked, Steps, Copying, Deferred
    <3>2. Goto(p, "moveback") /\ UNCHANGED <<job, idx, lock>>
      BY <1>14 DEF FlipStep
    <3>3. QED
      BY <3>1, <3>2, WindsUp DEF Deferred
  <2>3. QED
    BY <1>1, <1>14, <2>1, <2>2, OnlyTheHolder DEF FlipStep, Locked, Steps, Copying, Deferred
<1>15. ASSUME NEW p \in Process, MoveBackStep(p) PROVE IInv'
  <2>1. StoreGood'
    BY <1>15, LinksKept, HereType DEF MoveBackStep, storeVars, hostVars, Consistent, Deferred
  <2>2. Consistent(p)' /\ \A q \in Process \ {p} : pc'[q] = pc[q]
    <3>1. New(p) \in Version /\ pc[p] \in Locked
      BY <1>15 DEF MoveBackStep, Consistent, Locked, Steps, Copying, Deferred
    <3>2. Goto(p, "rmtemp") /\ UNCHANGED <<job, idx, lock>>
      BY <1>15 DEF MoveBackStep, hostVars
    <3>3. QED
      BY <3>1, <3>2, WindsUp DEF Deferred
  <2>3. QED
    BY <1>1, <1>15, <2>1, <2>2, OnlyTheHolder DEF MoveBackStep, Locked, Steps, Copying, Deferred
<1>16. ASSUME NEW p \in Process, RmTemp(p) PROVE IInv'
  <2>1. StoreGood'
    BY <1>16 DEF RmTemp, storeVars, hostVars, StoreGood, CurrentComplete, Watched, RollbackKept, Present
  <2>2. Consistent(p)' /\ \A q \in Process \ {p} : pc'[q] = pc[q]
    <3>1. New(p) \in Version /\ pc[p] \in Locked
      BY <1>16 DEF RmTemp, Consistent, Locked, Steps, Copying, Deferred
    <3>2. Goto(p, "rmlink") /\ UNCHANGED <<job, idx, lock>>
      BY <1>16 DEF RmTemp, hostVars
    <3>3. QED
      BY <3>1, <3>2, WindsUp DEF Deferred
  <2>3. QED
    BY <1>1, <1>16, <2>1, <2>2, OnlyTheHolder DEF RmTemp, Locked, Steps, Copying, Deferred
<1>17. ASSUME NEW p \in Process, RmLink(p) PROVE IInv'
  <2>1. StoreGood'
    BY <1>17 DEF RmLink, UnlinkTmp, hostVars, StoreGood, CurrentComplete, Watched, RollbackKept, Present
  <2>2. Consistent(p)' /\ \A q \in Process \ {p} : pc'[q] = pc[q]
    BY <1>17, ReturnConsistent DEF RmLink, hostVars, Locked, Steps, Deferred
  <2>3. QED
    BY <1>1, <1>17, <2>1, <2>2, OnlyTheHolder DEF RmLink, Locked, Steps, Copying, Deferred
<1>18. ASSUME NEW p \in Process, SyncStep(p) PROVE IInv'
  <2>1. StoreGood'
    <3>1. CASE UNCHANGED <<storeVars, risk>>
      BY <3>1 DEF storeVars, StoreGood, CurrentComplete, Watched, RollbackKept, Present
    <3>2. CASE Sync /\ RiskAfter("none")
      BY <3>2, FlushKeepsLinks
    <3>3. QED
      BY <1>18, <3>1, <3>2 DEF SyncStep
  <2>2. Consistent(p)' /\ \A q \in Process \ {p} : pc'[q] = pc[q]
    <3>1. Goto(p, "reboot") /\ UNCHANGED <<job, idx, lock>> /\ pc[p] \in Locked
      BY <1>18 DEF SyncStep, Locked, hostVars
    <3>2. QED
      BY <3>1, WindsUp
  <2>3. QED
    BY <1>1, <1>18, <2>1, <2>2, OnlyTheHolder DEF SyncStep, Locked, Steps, Copying, Deferred
<1>19. ASSUME NEW p \in Process, Reboot(p) PROVE IInv'
  <2>1. StoreGood'
    BY <1>19 DEF Reboot, storeVars, StoreGood, CurrentComplete, Watched, RollbackKept, Present
  <2>2. Consistent(p)' /\ \A q \in Process \ {p} : pc'[q] = pc[q]
    <3>1. Goto(p, "exit") /\ UNCHANGED <<job, idx, lock>> /\ pc[p] \in Locked
      BY <1>19 DEF Reboot, Locked
    <3>2. QED
      BY <3>1, WindsUp
  <2>3. QED
    BY <1>1, <1>19, <2>1, <2>2, OnlyTheHolder DEF Reboot, Locked, Steps, Copying, Deferred
<1>20. ASSUME NEW p \in Process, Exit(p) PROVE IInv'
  <2>1. StoreGood'
    BY <1>20 DEF Exit, storeVars, StoreGood, CurrentComplete, Watched, RollbackKept, Present
  <2>2. Consistent(p)' /\ \A q \in Process \ {p} : pc'[q] = pc[q]
    BY <1>20 DEF TypeOK, Exit, Gone, Consistent, Locked, Steps, Copying, Deferred
  <2>3. QED
    BY <1>1, <1>20, <2>1, <2>2, OnlyTheHolder DEF Exit, Locked
<1>21. ASSUME NEW p \in Process, Kill(p) PROVE IInv'
  <2>1. StoreGood'
    BY <1>21 DEF Kill, StoreGood, CurrentComplete, Watched, RollbackKept, Present
  <2>2. Gone({p})
    BY <1>21 DEF Kill, Killed
  <2>3. \A q \in Process : Consistent(q)'
    BY <1>21, <2>2
    DEF TypeOK, Kill, Gone, Present, Consistent, Here, New, Locked, Steps, Copying, Deferred
  <2>4. QED
    BY <1>1, <2>1, <2>3
<1>22. ASSUME ComeUp PROVE \A q \in Process : Consistent(q)'
  BY <1>22 DEF ComeUp, Killed, Gone, Consistent, Locked, Steps, Copying, Deferred
<1>23. CASE Restart
  BY <1>1, <1>22, <1>23, FlushKeepsLinks DEF Restart
<1>24. CASE PowerLoss
  BY <1>1, <1>22, <1>24, PowerLossKeepsLinks DEF PowerLoss
<1>25. QED
  BY <1>2, <1>3, <1>4, <1>5, <1>6, <1>7, <1>8, <1>9, <1>10, <1>11, <1>12, <1>13, <1>14, <1>15, <1>16, <1>17, <1>18, <1>19, <1>20, <1>21, <1>23, <1>24 DEF Next, Step

(* The inductive invariant holds throughout: of the processes at work on a *)
(* component one has the lock, what it installs is not the current version *)
(* and current.tmp, once it has made that, leads to it.                    *)
THEOREM LinksInvariant == Spec => []IInv
BY InitLinks, LinksStep, PTL DEF Spec

(* `current` always leads to a directory that is there, and whole unless   *)
(* power was lost before it was flushed: through crashes at any step,      *)
(* failing calls and any number of concurrent upgrades.                    *)
THEOREM AlwaysBootable == Spec => []CurrentComplete
BY LinksInvariant, PTL DEF IInv

(* What `previous` names is never lost.                                    *)
THEOREM RollbackNeverLost == Spec => []RollbackKept
BY LinksInvariant, PTL DEF IInv
-----------------------------------------------------------------------------
(* What a process that is about to copy `current`, or to replace it, knows *)
(* of `previous`, and one that has synced of the directories: nothing      *)
(* while it waits for the lock.                                            *)
KnowsWayBack(p) ==
    faults = 0 =>
        /\ pc[p] = "remember" => previous[Here(p)] = NoVersion
        /\ pc[p] = "flip" => previous[Here(p)] = current[Here(p)]

KnowsSynced(p) ==
    pc[p] \in {"reboot", "exit"} /\ copied[p] /\ job[p].sync =>
        \A k \in Key : current[k] # NoVersion => dir[k][current[k]] # "cached"

Knows(p) == KnowsWayBack(p) /\ KnowsSynced(p)

Known == \A q \in Process : Knows(q)

Telling == {"remember", "flip", "reboot", "exit"}

(* Elsewhere a process knows nothing.                                      *)
LEMMA ElsewhereKnowsNothing ==
    ASSUME NEW p \in Process, pc'[p] \notin Telling
    PROVE  Knows(p)'
BY DEF Knows, KnowsWayBack, KnowsSynced, Telling

(* While one process is past the lock, no other knows anything.            *)
LEMMA OthersKnowNothing ==
    ASSUME IInv, NEW p \in Process, pc[p] \in Locked,
           \A q \in Process \ {p} : pc'[q] = pc[q]
    PROVE  \A q \in Process \ {p} : Knows(q)'
<1>1. \A q \in Process \ {p} : pc'[q] \notin Locked
  BY DEF IInv, Consistent
<1>2. QED
  BY <1>1, ElsewhereKnowsNothing DEF Telling, Locked, Steps, Copying, Deferred

(* Where the next step of a process leads, and that it is the process's    *)
(* own: all but four kinds of step lead to where nothing is known.         *)
LEMMA StepLeadsElsewhere ==
    ASSUME TypeOK, NEW p \in Process, Step(p),
           ~RmPrevious(p), ~RememberStep(p), ~SyncStep(p), ~Reboot(p)
    PROVE  pc'[p] \notin Telling
<1> USE DEF TypeOK, Telling, Goto, Return
<1>1. CASE Lock(p)
  BY <1>1 DEF Lock, Gone
<1>2. CASE Stat(p)
  BY <1>2 DEF Stat
<1>3. CASE Remount(p)
  BY <1>3 DEF Remount
<1>4. CASE Symlink(p)
  BY <1>4 DEF Symlink
<1>5. CASE TempDir(p) \/ Copy(p)
  BY <1>5 DEF TempDir, Copy
<1>6. CASE MoveAsideStep(p)
  BY <1>6 DEF MoveAsideStep
<1>7. CASE Swap(p)
  BY <1>7 DEF Swap
<1>8. CASE FlipStep(p)
  BY <1>8 DEF FlipStep
<1>9. CASE MoveBackStep(p) \/ RmTemp(p)
  BY <1>9 DEF MoveBackStep, RmTemp
<1>10. CASE RmLink(p)
  BY <1>10 DEF RmLink
<1>11. CASE Exit(p)
  BY <1>11 DEF Exit, Gone
<1>12. QED
  BY <1>1, <1>2, <1>3, <1>4, <1>5, <1>6, <1>7, <1>8, <1>9, <1>10, <1>11 DEF Step

(* A step is taken by a process past the lock, unless it is the lock, and  *)
(* moves no other process.                                                 *)
LEMMA StepIsLocal ==
    ASSUME TypeOK, NEW p \in Process, Step(p)
    PROVE  /\ Lock(p) \/ pc[p] \in Locked
           /\ \A q \in Process \ {p} : pc'[q] = pc[q]
<1>1. /\ \A label : Goto(p, label) => \A q \in Process \ {p} : pc'[q] = pc[q]
      /\ Return(p) => \A q \in Process \ {p} : pc'[q] = pc[q]
      /\ Gone({p}) => \A q \in Process \ {p} : pc'[q] = pc[q]
  BY DEF TypeOK, Goto, Return, Gone
<1>2. CASE Lock(p) \/ Stat(p) \/ Remount(p) \/ Symlink(p) \/ RmLink(p) \/ Exit(p)
  BY <1>1, <1>2 DEF Lock, Stat, Remount, Symlink, RmLink, Exit, Locked, Steps, Copying, Deferred
<1>3. CASE TempDir(p) \/ Copy(p) \/ MoveAsideStep(p) \/ Swap(p)
  BY <1>1, <1>3 DEF TempDir, Copy, MoveAsideStep, Swap, Locked, Steps, Copying, Deferred
<1>4. CASE RmPrevious(p) \/ RememberStep(p) \/ FlipStep(p) \/ MoveBackStep(p) \/ RmTemp(p)
  BY <1>1, <1>4
  DEF RmPrevious, RememberStep, FlipStep, MoveBackStep, RmTemp, Locked, Steps, Copying, Deferred
<1>5. CASE SyncStep(p) \/ Reboot(p)
  BY <1>1, <1>5 DEF SyncStep, Reboot, Locked
<1>6. QED
  BY <1>2, <1>3, <1>4, <1>5 DEF Step

(* A step of one process that touches neither the store nor the others.    *)
LEMMA OutsideKnows ==
    ASSUME IInv, \A q \in Process : Knows(q), NEW p \in Process,
           UNCHANGED <<dir, current, previous>>, faults = 0 \/ faults' # 0,
           \A q \in Process \ {p} :
               /\ pc'[q] = pc[q] /\ idx'[q] = idx[q]
               /\ job'[q] = job[q] /\ copied'[q] = copied[q]
    PROVE  \A q \in Process \ {p} : Knows(q)'
BY DEF Knows, KnowsWayBack, KnowsSynced, Here

(* The four steps that teach something.                                    *)
LEMMA LearnsWayBack ==
    ASSUME IInv, NEW p \in Process, Knows(p), RmPrevious(p) \/ RememberStep(p)
    PROVE  Knows(p)'
<1>1. faults' = 0 => faults = 0
  BY DEF RmPrevious, RememberStep, Refused, Fails, IInv, TypeOK
<1>2. Here(p) \in Key
  BY HereType DEF IInv
<1>3. CASE RmPrevious(p)
  <2>1. pc'[p] = "remember" /\ Here(p)' = Here(p)
    BY <1>3, StaysHere DEF RmPrevious, IInv
  <2>2. faults' = 0 => previous'[Here(p)] = NoVersion
    BY <1>1, <1>2, <1>3
    DEF RmPrevious, CanDropPrevious, DropPrevious, Refused, Fails, storeVars,
        IInv, TypeOK, StoreTypeOK
  <2>3. QED
    BY <2>1, <2>2 DEF Knows, KnowsWayBack, KnowsSynced
<1>4. CASE RememberStep(p)
  <2>1. pc'[p] = "flip" /\ Here(p)' = Here(p) /\ pc[p] = "remember"
    BY <1>4, StaysHere DEF RememberStep, IInv
  <2>2. faults' = 0 => previous'[Here(p)] = current'[Here(p)]
    BY <1>1, <1>2, <1>4, <2>1
    DEF RememberStep, CanRemember, Remember, Refused, Fails, storeVars,
        Knows, KnowsWayBack, IInv, TypeOK, StoreTypeOK
  <2>3. QED
    BY <2>1, <2>2 DEF Knows, KnowsWayBack, KnowsSynced
<1>5. QED
  BY <1>3, <1>4

LEMMA LearnsSynced ==
    ASSUME IInv, NEW p \in Process, Knows(p), SyncStep(p) \/ Reboot(p)
    PROVE  Knows(p)'
<1>1. CASE SyncStep(p)
  <2>1. pc'[p] = "reboot" /\ UNCHANGED <<job, copied, current>>
    BY <1>1 DEF SyncStep, Goto, Sync, storeVars, IInv, TypeOK
  <2>2. copied[p] /\ job[p].sync =>
          \A k \in Key : \A v \in Version : dir'[k][v] # "cached"
    BY <1>1 DEF SyncStep, Sync, Flushed
  <2>3. \A k \in Key : current[k] # NoVersion => current[k] \in Version
    BY DEF IInv, TypeOK, StoreTypeOK, Link
  <2>4. QED
    BY <2>1, <2>2, <2>3 DEF Knows, KnowsWayBack, KnowsSynced
<1>2. CASE Reboot(p)
  <2>1. pc[p] = "reboot" /\ pc'[p] = "exit" /\ UNCHANGED <<job, copied, current, dir>>
    BY <1>2 DEF Reboot, Goto, storeVars, IInv, TypeOK
  <2>2. QED
    BY <2>1 DEF Knows, KnowsWayBack, KnowsSynced
<1>3. QED
  BY <1>1, <1>2

(* What the processes know stays true.                                     *)
LEMMA KnowsStep ==
    IInv /\ Known /\ [Next]_vars => Known'
<1> SUFFICES ASSUME IInv, \A q \in Process : Knows(q), [Next]_vars
             PROVE  \A q \in Process : Knows(q)'
  BY DEF Known
<1> USE DEF IInv
<1>1. CASE UNCHANGED vars
  BY <1>1
  DEF vars, storeVars, procVars, hostVars, Knows, KnowsWayBack, KnowsSynced, Here
<1>2. ASSUME NEW p \in Process, Begin(p) PROVE \A q \in Process : Knows(q)'
  <2>1. pc'[p] = "lock" /\ \A q \in Process \ {p} : pc'[q] = pc[q] /\ job'[q] = job[q]
    BY <1>2 DEF Begin, Goto, TypeOK
  <2>2. \A q \in Process \ {p} : Knows(q)'
    BY <1>2, <2>1, OutsideKnows DEF Begin, storeVars, hostVars
  <2>3. QED
    BY <2>1, <2>2, ElsewhereKnowsNothing DEF Telling
<1>3. ASSUME NEW p \in Process, Lock(p) PROVE \A q \in Process : Knows(q)'
  <2>1. \A q \in Process \ {p} : /\ pc'[q] = pc[q] /\ job'[q] = job[q]
                                 /\ idx'[q] = idx[q] /\ copied'[q] = copied[q]
    BY <1>3 DEF Lock, Goto, Gone, TypeOK
  <2>2. UNCHANGED <<dir, current, previous>> /\ (faults = 0 \/ faults' # 0)
    BY <1>3 DEF Lock, storeVars, Refused, Fails, TypeOK
  <2>3. pc'[p] \notin Telling
    BY <1>3 DEF Lock, Goto, Gone, TypeOK, Telling
  <2>4. \A q \in Process \ {p} : Knows(q)'
    BY <2>1, <2>2, OutsideKnows
  <2>5. QED
    BY <2>3, <2>4, ElsewhereKnowsNothing
<1>4. ASSUME NEW p \in Process, Step(p), ~Lock(p) PROVE \A q \in Process : Knows(q)'
  <2>1. \A q \in Process \ {p} : Knows(q)'
    BY <1>4, StepIsLocal, OthersKnowNothing
  <2>2. Knows(p)'
    BY <1>4, StepLeadsElsewhere, ElsewhereKnowsNothing, LearnsWayBack, LearnsSynced
  <2>3. QED
    BY <2>1, <2>2
<1>5. ASSUME NEW p \in Process, Kill(p) PROVE \A q \in Process : Knows(q)'
  <2>1. Gone({p}) /\ UNCHANGED <<dir, current, previous, faults>>
    BY <1>5 DEF Kill, Killed
  <2>2. /\ pc'[p] = "idle"
        /\ \A q \in Process \ {p} : /\ pc'[q] = pc[q] /\ job'[q] = job[q]
                                    /\ idx'[q] = idx[q] /\ copied'[q] = copied[q]
    BY <2>1 DEF Gone
  <2>3. \A q \in Process \ {p} : Knows(q)'
    BY <2>1, <2>2, OutsideKnows
  <2>4. QED
    BY <2>2, <2>3, ElsewhereKnowsNothing DEF Telling
<1>6. CASE Restart \/ PowerLoss
  <2>1. \A q \in Process : pc'[q] = "idle"
    BY <1>6 DEF Restart, PowerLoss, ComeUp, Killed, Gone
  <2>2. QED
    BY <2>1, ElsewhereKnowsNothing DEF Telling
<1>7. QED
  BY <1>1, <1>2, <1>3, <1>4, <1>5, <1>6 DEF Next

LEMMA KnowsInvariant == Spec => [](IInv /\ Known)
<1>1. Init => Known
  BY DEF Init, Known, Knows, KnowsWayBack, KnowsSynced
<1>2. QED
  BY <1>1, InitLinks, LinksStep, KnowsStep, PTL DEF Spec

(* With --sync, what the run made current is on disk before it asks for    *)
(* the reboot: nobody changes it in between, for the lock is still held.   *)
THEOREM RebootsSynced == Spec => []SyncedBeforeReboot
<1>1. Known => SyncedBeforeReboot
  BY DEF Known, Knows, KnowsSynced, SyncedBeforeReboot
<1>2. QED
  BY <1>1, KnowsInvariant, PTL

(* Only the rename of current.tmp replaces `current`.                      *)
LEMMA OnlyFlipReplaces ==
    ASSUME IInv, [Next]_vars, current' # current
    PROVE  \E p \in Process : FlipStep(p) /\ Flip(Here(p)) /\ UNCHANGED faults
<1>1. PICK p \in Process : Begin(p) \/ Step(p) \/ Kill(p)
  BY DEF Next, vars, storeVars, Restart, PowerLoss, Sync, LosePower
<1>2. FlipStep(p)
  BY <1>1
  DEF Begin, Step, Kill, Lock, Stat, Remount, Symlink, TempDir, Copy, MoveAsideStep,
      Swap, RmPrevious, RememberStep, MoveBackStep, RmTemp, RmLink, SyncStep, Reboot,
      Exit, storeVars, LinkTmp, UnlinkTmp, MoveAside, MoveBack, SwapIn, DropPrevious,
      Remember, Sync
<1>3. QED
  BY <1>2 DEF FlipStep, storeVars

(* As long as no call has failed, `previous` holds the outgoing version at *)
(* the moment `current` is replaced.                                       *)
THEOREM AlwaysAWayBack == Spec => FlipKeepsRollback
<1> DEFINE Keeps == \A k \in Key : current'[k] # current[k] /\ faults = 0 =>
                                       previous[k] = current[k]
<1>1. IInv /\ Known /\ [Next]_vars => [Keeps]_vars
  <2> SUFFICES ASSUME IInv, Known, [Next]_vars,
                      NEW k \in Key, current'[k] # current[k], faults = 0
               PROVE  previous[k] = current[k]
    OBVIOUS
  <2>1. PICK p \in Process : FlipStep(p) /\ Flip(Here(p))
    BY OnlyFlipReplaces
  <2>2. k = Here(p)
    BY <2>1 DEF Flip, IInv, TypeOK, StoreTypeOK
  <2>3. QED
    BY <2>1, <2>2 DEF FlipStep, Known, Knows, KnowsWayBack
<1>2. QED
  BY <1>1, KnowsInvariant, PTL DEF Spec, FlipKeepsRollback

-----------------------------------------------------------------------------
(* What is left in the store.                                              *)

(* Past the symbolic link: a kill from here on counts as an interruption.  *)
Past == (Copying \cup Deferred) \ {"symlink"}

(* What only a process at work on the component accounts for: current.tmp, *)
(* and a version that is aside without a replacement.                      *)
LinkOwned(k) ==
    curTmp[k] # NoVersion => \E p \in Process : pc[p] \in Past /\ Here(p) = k

AsideOwned(k) ==
    \A v \in Version : old[k][v] # "absent" =>
        \/ Present(k, v)
        \/ \E p \in Process : aside[p] /\ Here(p) = k /\ New(p) = v

Owned(k) == k \notin litter /\ LinkOwned(k) /\ AsideOwned(k)

(* A process has a temporary directory, or a version aside, at work only.  *)
Holds(p) == temp[p] # "none" \/ aside[p] => pc[p] \in Past

(* Where each of them is given up.                                         *)
GivesUp(p) ==
    /\ pc[p] \in {"rmtemp", "rmlink"} => ~aside[p]
    /\ pc[p] = "rmlink" => temp[p] = "none"

Accounted ==
    /\ \A k \in Key \ interrupted : Owned(k)
    /\ \A p \in Process : Holds(p) /\ GivesUp(p)

Others(p) == Process \ {p}

(* Nothing that a process has is changed by another.                       *)
Apart(p) ==
    \A q \in Others(p) : /\ pc'[q] = pc[q] /\ idx'[q] = idx[q] /\ job'[q] = job[q]
                         /\ temp'[q] = temp[q] /\ aside'[q] = aside[q]

LEMMA StepIsApart ==
    ASSUME TypeOK, NEW p \in Process, Begin(p) \/ Step(p)
    PROVE  Apart(p) /\ UNCHANGED <<litter, interrupted>>
<1> USE DEF TypeOK, Apart, Others
<1>1. /\ \A label : Goto(p, label) => \A q \in Others(p) : pc'[q] = pc[q]
      /\ Return(p) => \A q \in Others(p) : pc'[q] = pc[q] /\ idx'[q] = idx[q]
      /\ Gone({p}) => Apart(p)
  BY DEF Goto, Return, Gone
<1>2. CASE Begin(p)
  BY <1>1, <1>2 DEF Begin, storeVars, hostVars
<1>3. CASE Lock(p) \/ Stat(p) \/ Remount(p) \/ Exit(p)
  BY <1>1, <1>3 DEF Lock, Stat, Remount, Exit, storeVars, hostVars
<1>4. CASE Symlink(p) \/ RmLink(p)
  BY <1>1, <1>4 DEF Symlink, RmLink, LinkTmp, UnlinkTmp, storeVars, hostVars
<1>5. CASE TempDir(p) \/ Copy(p) \/ RmTemp(p) \/ Reboot(p)
  BY <1>1, <1>5 DEF TempDir, Copy, RmTemp, Reboot, storeVars, hostVars
<1>6. CASE MoveAsideStep(p) \/ Swap(p) \/ MoveBackStep(p)
  BY <1>1, <1>6
  DEF MoveAsideStep, Swap, MoveBackStep, MoveAside, SwapIn, MoveBack, storeVars, hostVars
<1>7. CASE RmPrevious(p) \/ RememberStep(p) \/ FlipStep(p)
  BY <1>1, <1>7
  DEF RmPrevious, RememberStep, FlipStep, DropPrevious, Remember, Flip, storeVars, hostVars
<1>8. CASE SyncStep(p)
  BY <1>1, <1>8 DEF SyncStep, storeVars, hostVars
<1>9. QED
  BY <1>2, <1>3, <1>4, <1>5, <1>6, <1>7, <1>8 DEF Step

(* A step changes the store at the process's own component, if at all.     *)
SameAt(k) ==
    /\ curTmp'[k] = curTmp[k]
    /\ \A v \in Version : /\ dir'[k][v] = "absent" <=> dir[k][v] = "absent"
                          /\ old'[k][v] = "absent" <=> old[k][v] = "absent"

LEMMA OthersStayOwned ==
    ASSUME Accounted, NEW p \in Process, Apart(p), UNCHANGED <<litter, interrupted>>,
           NEW k \in Key \ interrupted, SameAt(k),
           \/ k # Here(p)
           \/ pc[p] \notin Past
           \/ pc'[p] \in Past /\ Here(p)' = k /\ New(p)' = New(p) /\ aside'[p] = aside[p]
    PROVE  Owned(k)'
<1>1. Owned(k) /\ Holds(p)
  BY DEF Accounted
<1>2. \A q \in Others(p) : Here(q)' = Here(q) /\ New(q)' = New(q)
  BY DEF Apart, Here, New
<1>3. LinkOwned(k)'
  BY <1>1, <1>2 DEF Owned, LinkOwned, SameAt, Apart, Others
<1>4. AsideOwned(k)'
  BY <1>1, <1>2 DEF Owned, AsideOwned, SameAt, Apart, Others, Present, Holds
<1>5. QED
  BY <1>1, <1>3, <1>4 DEF Owned

(* It is enough to look at the process that moves, and at its component.   *)
LEMMA AccountedForOthers ==
    ASSUME Accounted, NEW p \in Process, Apart(p), UNCHANGED <<litter, interrupted>>,
           \A k \in Key \ {Here(p)} : SameAt(k),
           \A k \in Key \ interrupted : k = Here(p) => Owned(k)',
           Holds(p)', GivesUp(p)'
    PROVE  Accounted'
<1>1. \A k \in (Key \ interrupted) \ {Here(p)} : Owned(k)'
  BY OthersStayOwned
<1>2. \A q \in Others(p) : Holds(q)' /\ GivesUp(q)'
  BY DEF Accounted, Apart, Others, Holds, GivesUp
<1>3. QED
  BY <1>1, <1>2 DEF Accounted, Others

(* A step before the symbolic link is made, or after the last component.   *)
LEMMA OutsideAccounted ==
    ASSUME Accounted, NEW p \in Process, Apart(p), UNCHANGED <<litter, interrupted>>,
           \A k \in Key : SameAt(k), pc[p] \notin Past, pc'[p] \notin Past,
           temp'[p] \in {temp[p], "none"}, aside'[p] \in {aside[p], FALSE}
    PROVE  Accounted'
<1>1. \A k \in Key \ interrupted : Owned(k)'
  BY OthersStayOwned
<1>2. Holds(p)' /\ GivesUp(p)'
  BY DEF Accounted, Holds, GivesUp, Past, Copying, Deferred
<1>3. \A q \in Others(p) : Holds(q)' /\ GivesUp(q)'
  BY DEF Accounted, Apart, Others, Holds, GivesUp
<1>4. QED
  BY <1>1, <1>2, <1>3 DEF Accounted, Others

(* A step from call to call, once there is a link, that leaves the store.  *)
LEMMA InsideAccounted ==
    ASSUME Accounted, NEW p \in Process, Apart(p), UNCHANGED <<litter, interrupted>>,
           \A k \in Key : SameAt(k) \/ (k = Here(p) /\ UNCHANGED <<dir, old>>),
           pc[p] \in Past, pc'[p] \in Past, Here(p)' = Here(p), New(p)' = New(p),
           aside'[p] = aside[p], GivesUp(p)'
    PROVE  Accounted'
<1>1. ASSUME NEW k \in Key \ interrupted, k = Here(p) PROVE Owned(k)'
  <2>1. Owned(k) /\ LinkOwned(k)'
    BY <1>1 DEF Accounted, Owned, LinkOwned
  <2>2. \A q \in Others(p) : Here(q)' = Here(q) /\ New(q)' = New(q)
    BY DEF Apart, Here, New
  <2>3. AsideOwned(k)'
    BY <1>1, <2>1, <2>2 DEF Owned, AsideOwned, SameAt, Apart, Others, Present
  <2>4. QED
    BY <2>1, <2>3 DEF Owned
<1>2. Holds(p)'
  BY DEF Holds
<1>3. QED
  BY <1>1, <1>2, AccountedForOthers

(* The steps before the link and after the last component, and those that  *)
(* fail before there is a link.                                            *)
LEMMA OutsideSteps ==
    ASSUME IInv, Accounted, NEW p \in Process,
           \/ Begin(p) \/ Lock(p) \/ Stat(p) \/ Remount(p)
           \/ Symlink(p) /\ Return(p) /\ UNCHANGED storeVars
           \/ SyncStep(p) \/ Reboot(p) \/ Exit(p)
    PROVE  Accounted'
<1> USE DEF IInv, TypeOK, Past, Copying, Deferred
<1>1. Apart(p) /\ UNCHANGED <<litter, interrupted>>
  BY StepIsApart DEF Step
<1>2. \A k \in Key : SameAt(k)
  <2>1. CASE UNCHANGED storeVars
    BY <2>1 DEF storeVars, SameAt
  <2>2. CASE SyncStep(p)
    BY <2>2 DEF SyncStep, Sync, Flushed, storeVars, SameAt
  <2>3. QED
    BY <2>1, <2>2 DEF Begin, Lock, Stat, Remount, Reboot, Exit
<1>3. pc[p] \notin Past /\ pc'[p] \notin Past
  <2>1. CASE Begin(p) \/ Lock(p) \/ Exit(p)
    BY <2>1 DEF Begin, Lock, Exit, Goto, Gone
  <2>2. CASE Stat(p) \/ Remount(p)
    BY <2>2 DEF Stat, Remount, Goto, Return
  <2>3. CASE Symlink(p) /\ Return(p)
    BY <2>3 DEF Symlink, Return, Goto
  <2>4. CASE SyncStep(p) \/ Reboot(p)
    BY <2>4 DEF SyncStep, Reboot, Goto
  <2>5. QED
    BY <2>1, <2>2, <2>3, <2>4
<1>4. temp'[p] \in {temp[p], "none"} /\ aside'[p] \in {aside[p], FALSE}
  BY DEF Begin, Lock, Stat, Remount, Symlink, SyncStep, Reboot, Exit, Gone
<1>5. QED
  BY <1>1, <1>2, <1>3, <1>4, OutsideAccounted

(* The link is made: from here on there is something to clean up.          *)
LEMMA LinkStep ==
    ASSUME IInv, Accounted, NEW p \in Process,
           Symlink(p), LinkTmp(Here(p), New(p)), Goto(p, "tempdir"), UNCHANGED idx
    PROVE  Accounted'
<1> USE DEF IInv, TypeOK
<1>1. Apart(p) /\ UNCHANGED <<litter, interrupted>>
  BY StepIsApart DEF Step
<1>2. pc[p] \notin Past /\ pc'[p] = "tempdir" /\ Here(p)' = Here(p) /\ UNCHANGED <<dir, old>>
  BY StaysHere DEF Symlink, LinkTmp, Past
<1>3. \A k \in Key \ {Here(p)} : SameAt(k)
  BY <1>2 DEF LinkTmp, SameAt, StoreTypeOK
<1>4. ASSUME NEW k \in Key \ interrupted, k = Here(p) PROVE Owned(k)'
  <2>1. Owned(k) /\ Holds(p)
    BY DEF Accounted
  <2>2. LinkOwned(k)'
    BY <1>2, <1>4 DEF LinkOwned, Past, Copying, Deferred
  <2>3. \A q \in Others(p) : Here(q)' = Here(q) /\ New(q)' = New(q)
    BY <1>1 DEF Apart, Here, New
  <2>4. AsideOwned(k)'
    <3>1. \A q \in Process : aside[q] => q \in Others(p)
      BY <1>2, <2>1 DEF Others, Holds
    <3>2. \A q \in Others(p) : aside'[q] = aside[q]
      BY <1>1 DEF Apart
    <3>3. ASSUME NEW v \in Version, old'[k][v] # "absent", ~Present(k, v)'
          PROVE  \E q \in Process : aside'[q] /\ Here(q)' = k /\ New(q)' = v
      <4>1. PICK q \in Process : aside[q] /\ Here(q) = k /\ New(q) = v
        BY <1>2, <2>1, <3>3 DEF Owned, AsideOwned, Present
      <4>2. QED
        BY <2>3, <3>1, <3>2, <4>1
    <3>4. QED
      BY <3>3 DEF AsideOwned
  <2>5. QED
    BY <1>1, <2>1, <2>2, <2>4 DEF Owned
<1>5. Holds(p)' /\ GivesUp(p)'
  BY <1>2 DEF Holds, GivesUp, Past, Copying, Deferred
<1>6. QED
  BY <1>1, <1>3, <1>4, <1>5, AccountedForOthers

(* The steps that leave the directories as they are.                       *)
LEMMA InsideSteps ==
    ASSUME IInv, Accounted, NEW p \in Process,
           TempDir(p) \/ Copy(p) \/ RmPrevious(p) \/ RememberStep(p) \/ FlipStep(p)
    PROVE  Accounted'
<1> USE DEF IInv, TypeOK
<1>1. Apart(p) /\ UNCHANGED <<litter, interrupted>>
  BY StepIsApart DEF Step
<1>2. UNCHANGED <<dir, old, job, idx, aside>>
  BY DEF TempDir, Copy, RmPrevious, RememberStep, FlipStep, DropPrevious, Remember, Flip,
         storeVars
<1>3. Here(p)' = Here(p) /\ New(p)' = New(p)
  BY <1>2 DEF Here, New
<1>4. pc[p] \in Past /\ pc'[p] \in {"copy", "moveaside", "moveback", "remember", "flip"}
  BY DEF TempDir, Copy, RmPrevious, RememberStep, FlipStep, Goto, Past, Copying, Deferred
<1>5. \A k \in Key \ {Here(p)} : SameAt(k)
  BY <1>2, HereType
  DEF TempDir, Copy, RmPrevious, RememberStep, FlipStep, DropPrevious, Remember, Flip,
      storeVars, SameAt, StoreTypeOK
<1>6. pc'[p] \in Past /\ GivesUp(p)'
  BY <1>4 DEF GivesUp, Past, Copying, Deferred
<1>7. QED
  BY <1>1, <1>2, <1>3, <1>4, <1>5, <1>6, InsideAccounted

(* The steps that move directories: a version that is aside is answered    *)
(* for by the process until there is a replacement or it is back.          *)
LEMMA MovingSteps ==
    ASSUME IInv, Accounted, NEW p \in Process,
           MoveAsideStep(p) \/ Swap(p) \/ MoveBackStep(p)
    PROVE  Accounted'
<1> USE DEF IInv, TypeOK
<1>1. Apart(p) /\ UNCHANGED <<litter, interrupted>>
  BY StepIsApart DEF Step
<1>2. Here(p) \in Key /\ New(p) \in Version /\ New(p) # NoVersion
  BY HereType, NoVersionAssumption
  DEF MoveAsideStep, Swap, MoveBackStep, Consistent, Copying, Deferred
<1>3. Here(p)' = Here(p) /\ New(p)' = New(p) /\ UNCHANGED curTmp
  BY DEF MoveAsideStep, Swap, MoveBackStep, MoveAside, SwapIn, MoveBack, Here, New, storeVars
<1>4. pc[p] \in Past /\ pc'[p] \in {"swap", "rmprevious", "moveback", "rmtemp"}
  BY DEF MoveAsideStep, Swap, MoveBackStep, Goto, Past, Copying, Deferred
<1>5. pc'[p] \in Past /\ Holds(p)' /\ GivesUp(p)'
  BY <1>4 DEF MoveBackStep, Swap, MoveAsideStep, Goto, Holds, GivesUp, Past, Copying, Deferred
<1>6. \A k \in Key \ {Here(p)} : SameAt(k)
  BY <1>3 DEF MoveAsideStep, Swap, MoveBackStep, MoveAside, SwapIn, MoveBack,
              storeVars, SameAt, StoreTypeOK
<1>7. ASSUME NEW k \in Key \ interrupted, k = Here(p) PROVE Owned(k)'
  <2>1. Owned(k)
    BY DEF Accounted
  <2>2. LinkOwned(k)'
    BY <1>3, <1>5, <1>7 DEF LinkOwned
  <2>3. \A q \in Others(p) : /\ Here(q)' = Here(q) /\ New(q)' = New(q)
                             /\ aside'[q] = aside[q]
    BY <1>1 DEF Apart, Here, New
  <2>4. \A v \in Version \ {New(p)} : dir'[k][v] = dir[k][v] /\ old'[k][v] = old[k][v]
    BY <1>2, <1>7
    DEF MoveAsideStep, Swap, MoveBackStep, MoveAside, SwapIn, MoveBack, storeVars, StoreTypeOK
  <2>5. \/ old'[k][New(p)] = "absent"
        \/ dir'[k][New(p)] # "absent"
        \/ aside'[p]
        \/ UNCHANGED <<dir, old>> /\ ~aside[p]
    <3>1. CASE MoveAsideStep(p)
      BY <1>2, <1>7, <3>1 DEF MoveAsideStep, MoveAside, storeVars
    <3>2. CASE Swap(p)
      BY <1>2, <1>7, <3>2 DEF Swap, SwapIn, storeVars, StoreTypeOK
    <3>3. CASE MoveBackStep(p)
      BY <1>2, <1>7, <3>3
      DEF MoveBackStep, MoveBack, CanMoveBack, storeVars, StoreTypeOK
    <3>4. QED
      BY <3>1, <3>2, <3>3
  <2>6. AsideOwned(k)'
    <3> SUFFICES ASSUME NEW v \in Version, old'[k][v] # "absent", ~Present(k, v)'
                 PROVE  \E q \in Process : aside'[q] /\ Here(q)' = k /\ New(q)' = v
      BY DEF AsideOwned
    <3>1. dir'[k][v] = "absent"
      BY NoVersionAssumption DEF Present
    <3>2. CASE v = New(p) /\ aside'[p]
      BY <1>3, <1>7, <3>2
    <3>3. CASE dir'[k][v] = dir[k][v] /\ old'[k][v] = old[k][v] /\ (v = New(p) => ~aside[p])
      <4>1. PICK q \in Process : aside[q] /\ Here(q) = k /\ New(q) = v
        BY <2>1, <3>1, <3>3 DEF Owned, AsideOwned, Present
      <4>2. q \in Others(p)
        BY <3>3, <4>1 DEF Others
      <4>3. QED
        BY <2>3, <4>1, <4>2
    <3>4. QED
      BY <2>4, <2>5, <3>1, <3>2, <3>3
  <2>7. QED
    BY <1>1, <2>1, <2>2, <2>6 DEF Owned
<1>8. QED
  BY <1>1, <1>5, <1>6, <1>7, AccountedForOthers

(* The last two deferred calls, after which nothing is left to answer for. *)
LEMMA CleaningSteps ==
    ASSUME IInv, Accounted, NEW p \in Process, RmTemp(p) \/ RmLink(p)
    PROVE  Accounted'
<1> USE DEF IInv, TypeOK
<1>1. Apart(p) /\ UNCHANGED <<litter, interrupted>>
  BY StepIsApart DEF Step
<1>2. CASE RmTemp(p)
  <2>1. UNCHANGED <<storeVars, aside>> /\ Here(p)' = Here(p) /\ New(p)' = New(p)
    BY <1>2 DEF RmTemp, Here, New
  <2>2. pc[p] = "rmtemp" /\ pc'[p] = "rmlink" /\ temp'[p] = "none"
    BY <1>2 DEF RmTemp, Goto
  <2>3. GivesUp(p)'
    BY <2>1, <2>2 DEF Accounted, GivesUp
  <2>4. \A k \in Key : SameAt(k)
    BY <2>1 DEF storeVars, SameAt
  <2>5. pc[p] \in Past /\ pc'[p] \in Past
    BY <2>2 DEF Past, Copying, Deferred
  <2>6. QED
    BY <1>1, <2>1, <2>3, <2>4, <2>5, InsideAccounted
<1>3. CASE RmLink(p)
  <2>1. /\ pc[p] = "rmlink" /\ pc'[p] \in {"stat", "sync"}
        /\ UNCHANGED <<dir, old, temp, aside>>
        /\ curTmp' = [curTmp EXCEPT ![Here(p)] = NoVersion]
    BY <1>3 DEF RmLink, UnlinkTmp, Return, Goto
  <2>2. temp[p] = "none" /\ ~aside[p]
    BY <2>1 DEF Accounted, GivesUp
  <2>3. Holds(p)' /\ GivesUp(p)'
    BY <2>1, <2>2 DEF Holds, GivesUp
  <2>4. \A k \in Key \ {Here(p)} : SameAt(k)
    BY <2>1, HereType DEF SameAt, StoreTypeOK
  <2>5. ASSUME NEW k \in Key \ interrupted, k = Here(p) PROVE Owned(k)'
    <3>1. Owned(k)
      BY DEF Accounted
    <3>2. LinkOwned(k)'
      BY <2>1, <2>5 DEF LinkOwned, StoreTypeOK
    <3>3. \A q \in Others(p) : /\ Here(q)' = Here(q) /\ New(q)' = New(q)
                               /\ aside'[q] = aside[q]
      BY <1>1 DEF Apart, Here, New
    <3>4. AsideOwned(k)'
      <4>1. ASSUME NEW v \in Version, old'[k][v] # "absent", ~Present(k, v)'
            PROVE  \E q \in Process : aside'[q] /\ Here(q)' = k /\ New(q)' = v
        <5>1. PICK q \in Process : aside[q] /\ Here(q) = k /\ New(q) = v
          BY <2>1, <3>1, <4>1 DEF Owned, AsideOwned, Present
        <5>2. QED
          BY <2>2, <3>3, <5>1 DEF Others
      <4>2. QED
        BY <4>1 DEF AsideOwned
    <3>5. QED
      BY <1>1, <3>1, <3>2, <3>4 DEF Owned
  <2>6. QED
    BY <1>1, <2>3, <2>4, <2>5, AccountedForOthers
<1>4. QED
  BY <1>2, <1>3

(* What processes had that are killed counts as interrupted.               *)
LEMMA KilledAccounted ==
    ASSUME IInv, Accounted, NEW P \in SUBSET Process, Killed(P), UNCHANGED curTmp,
           \A k \in Key : SameAt(k)
    PROVE  Accounted'
<1> USE DEF IInv, TypeOK
<1>1. \A p \in P : /\ pc'[p] = "idle" /\ temp'[p] = "none" /\ ~aside'[p]
                   /\ pc[p] \in Past => Here(p) \in interrupted'
  BY DEF Killed, Gone, Past
<1>2. \A q \in Process \ P : /\ pc'[q] = pc[q] /\ temp'[q] = temp[q] /\ aside'[q] = aside[q]
                              /\ Here(q)' = Here(q) /\ New(q)' = New(q)
  BY DEF Killed, Gone, Here, New
<1>3. \A k \in Key \ interrupted' : Owned(k)'
  <2> TAKE k \in Key \ interrupted'
  <2>1. Owned(k)
    BY DEF Accounted, Killed
  <2>2. \A p \in Process : pc[p] \in Past /\ Here(p) = k => p \in Process \ P
    BY <1>1
  <2>3. k \notin litter'
    BY <2>1, <2>2 DEF Accounted, Holds, Owned, Killed
  <2>4. LinkOwned(k)'
    BY <1>2, <2>1, <2>2 DEF Owned, LinkOwned
  <2>5. AsideOwned(k)'
    <3> SUFFICES ASSUME NEW v \in Version, old'[k][v] # "absent", ~Present(k, v)'
                 PROVE  \E q \in Process : aside'[q] /\ Here(q)' = k /\ New(q)' = v
      BY DEF AsideOwned
    <3>1. old[k][v] # "absent" /\ ~Present(k, v)
      BY DEF SameAt, Present
    <3>2. PICK q \in Process : aside[q] /\ Here(q) = k /\ New(q) = v
      BY <2>1, <3>1 DEF Owned, AsideOwned
    <3>3. q \in Process \ P
      BY <2>2, <3>2 DEF Accounted, Holds
    <3>4. QED
      BY <1>2, <3>2, <3>3
  <2>6. QED
    BY <2>3, <2>4, <2>5 DEF Owned
<1>4. \A p \in Process : Holds(p)' /\ GivesUp(p)'
  BY <1>1, <1>2 DEF Accounted, Holds, GivesUp
<1>5. QED
  BY <1>3, <1>4 DEF Accounted

LEMMA AccountedStep == IInv /\ Accounted /\ [Next]_vars => Accounted'
<1> SUFFICES ASSUME IInv, Accounted, [Next]_vars PROVE Accounted'
  OBVIOUS
<1>1. CASE UNCHANGED vars
  BY <1>1 DEF vars, storeVars, procVars, hostVars, Accounted, Owned, LinkOwned, AsideOwned,
              Holds, GivesUp, Present, Here, New
<1>2. ASSUME NEW p \in Process, Begin(p) \/ Step(p) PROVE Accounted'
  <2>1. Symlink(p) => \/ Return(p) /\ UNCHANGED storeVars
                      \/ LinkTmp(Here(p), New(p)) /\ Goto(p, "tempdir") /\ UNCHANGED idx
    BY DEF Symlink
  <2>2. QED
    BY <1>2, <2>1, OutsideSteps, LinkStep, InsideSteps, MovingSteps, CleaningSteps DEF Step
<1>3. ASSUME NEW p \in Process, Kill(p) PROVE Accounted'
  <2>1. \A k \in Key : SameAt(k)
    BY <1>3 DEF Kill, SameAt
  <2>2. QED
    BY <1>3, <2>1, KilledAccounted DEF Kill
<1>4. CASE Restart
  <2>1. \A k \in Key : SameAt(k)
    BY <1>4 DEF Restart, Sync, Flushed, SameAt
  <2>2. QED
    BY <1>4, <2>1, KilledAccounted DEF Restart, ComeUp, Sync
<1>5. CASE PowerLoss
  <2>1. PICK lost \in SUBSET Cached(dir) : dir' = Torn(dir, lost)
    BY <1>5 DEF PowerLoss, LosePower
  <2>2. PICK lostOld \in SUBSET Cached(old) : old' = Torn(old, lostOld)
    BY <1>5 DEF PowerLoss, LosePower
  <2>3. \A k \in Key : SameAt(k)
    BY <1>5, <2>1, <2>2 DEF PowerLoss, LosePower, Torn, SameAt
  <2>4. QED
    BY <1>5, <2>3, KilledAccounted DEF PowerLoss, ComeUp, LosePower
<1>6. QED
  BY <1>1, <1>2, <1>3, <1>4, <1>5 DEF Next

LEMMA InitAccounted == Init => Accounted
BY DEF Init, StoreInit, Accounted, Owned, LinkOwned, AsideOwned, Holds, GivesUp

(* Once CopyComponent has run its deferred calls, however it ended, there  *)
(* is no current.tmp, no temporary directory and no version moved aside    *)
(* without a replacement: only a kill or a loss of power leaves anything.  *)
THEOREM LeavesNoLeftovers == Spec => []NoLeftovers
<1>1. Accounted => NoLeftovers
  BY DEF Accounted, Owned, LinkOwned, AsideOwned, Holds, NoLeftovers, AtWork, Past
<1>2. QED
  BY <1>1, InitLinks, LinksStep, InitAccounted, AccountedStep, PTL DEF Spec

(***************************************************************************)
(* Upgrade implements VersionSwitch: every call that an upgrade makes on   *)
(* the store is one of the steps the store promises, or none that its      *)
(* readers can see.                                                        *)
(***************************************************************************)
Installed == [k \in Key |-> {v \in Version : dir[k][v] # "absent"}]

(* A change that makes no directory come or go, and no link, is not seen.  *)
LEMMA Unseen ==
    ASSUME UNCHANGED <<current, previous>>,
           \A k \in Key : \A v \in Version :
               dir'[k][v] = "absent" <=> dir[k][v] = "absent"
    PROVE  UNCHANGED Switch!vars
<1>1. Installed' = Installed
  BY DEF Installed
<1>2. QED
  BY <1>1 DEF Installed, Switch!vars

(* The calls that are seen, each as the step it is.                        *)
LEMMA CallsAreSteps ==
    ASSUME IInv, NEW k \in Key, NEW v \in Version
    PROVE  /\ v # current[k] /\ MoveAside(k, v) => Switch!Retire(k, v)
           /\ CanMoveBack(k, v) /\ MoveBack(k, v) => Switch!Install(k, v)
           /\ SwapIn(k, v) => Switch!Install(k, v)
           /\ DropPrevious(k) => Switch!Forget(k)
           /\ CanRemember(k) /\ Remember(k) => Switch!Remember(k)
           /\ v = curTmp[k] /\ Present(k, v) /\ Flip(k) => Switch!Activate(k, v)
<1> USE DEF IInv, TypeOK, StoreTypeOK
<1>1. ASSUME v # current[k], MoveAside(k, v) PROVE Switch!Retire(k, v)
  <2>1. Installed' = [Installed EXCEPT ![k] = @ \ {v}]
    BY <1>1 DEF MoveAside, Installed
  <2>2. QED
    BY <1>1, <2>1 DEF MoveAside, Installed, Switch!Retire
<1>2. ASSUME CanMoveBack(k, v), MoveBack(k, v) PROVE Switch!Install(k, v)
  <2>1. Installed' = [Installed EXCEPT ![k] = @ \cup {v}]
    <3>1. \A j \in Key : \A w \in Version :
            dir'[j][w] # "absent" <=> (j = k /\ w = v) \/ dir[j][w] # "absent"
      BY <1>2 DEF CanMoveBack, MoveBack
    <3>2. \A j \in Key : Installed'[j] = IF j = k THEN Installed[j] \cup {v}
                                                 ELSE Installed[j]
      BY <3>1 DEF Installed
    <3>3. QED
      BY <3>2 DEF Installed
  <2>2. QED
    BY <1>2, <2>1 DEF MoveBack, Installed, Switch!Install
<1>3. ASSUME SwapIn(k, v) PROVE Switch!Install(k, v)
  <2>1. Installed' = [Installed EXCEPT ![k] = @ \cup {v}]
    <3>1. \A j \in Key : \A w \in Version :
            dir'[j][w] # "absent" <=> (j = k /\ w = v) \/ dir[j][w] # "absent"
      BY <1>3 DEF SwapIn
    <3>2. \A j \in Key : Installed'[j] = IF j = k THEN Installed[j] \cup {v}
                                                 ELSE Installed[j]
      BY <3>1 DEF Installed
    <3>3. QED
      BY <3>2 DEF Installed
  <2>2. QED
    BY <1>3, <2>1 DEF SwapIn, Installed, Switch!Install
<1>4. ASSUME DropPrevious(k) PROVE Switch!Forget(k)
  BY <1>4 DEF DropPrevious, Switch!Forget
<1>5. ASSUME CanRemember(k), Remember(k) PROVE Switch!Remember(k)
  BY <1>5 DEF CanRemember, Remember, Switch!Remember
<1>6. ASSUME v = curTmp[k], Present(k, v), Flip(k) PROVE Switch!Activate(k, v)
  BY <1>6 DEF Present, Flip, Switch!Activate
<1>7. QED
  BY <1>1, <1>2, <1>3, <1>4, <1>5, <1>6

(* What the installer leaves is an initial state of the abstract store.    *)
LEMMA InitImplements == Init => Switch!Init
<1> SUFFICES ASSUME Init PROVE Switch!Init
  OBVIOUS
<1>1. IInv
  BY InitLinks
<1>2. Switch!TypeOK
  BY <1>1 DEF IInv, TypeOK, StoreTypeOK, Link, Switch!TypeOK
<1>3. Switch!ActiveInstalled
  BY <1>1 DEF IInv, TypeOK, StoreTypeOK, Link, CurrentComplete, Present,
              Switch!ActiveInstalled
<1>4. QED
  BY <1>2, <1>3 DEF Switch!Init

(* A step of an upgrade is a step of the abstract store or is not seen.    *)
LEMMA StepImplements == IInv /\ [Next]_vars => [Switch!Next]_(Switch!vars)
<1> SUFFICES ASSUME IInv, [Next]_vars PROVE [Switch!Next]_(Switch!vars)
  OBVIOUS
<1>1. CASE UNCHANGED <<dir, current, previous>>
  BY <1>1 DEF Switch!vars
<1>2. CASE Sync
  <2>1. \A k \in Key : \A v \in Version :
          dir'[k][v] = "absent" <=> dir[k][v] = "absent"
    BY <1>2 DEF Sync, Flushed
  <2>2. QED
    BY <1>2, <2>1, Unseen DEF Sync
<1>3. CASE PowerLoss
  <2>1. PICK lost \in SUBSET Cached(dir) : dir' = Torn(dir, lost)
    BY <1>3 DEF PowerLoss, LosePower
  <2>2. \A k \in Key : \A v \in Version :
          dir'[k][v] = "absent" <=> dir[k][v] = "absent"
    BY <2>1 DEF Torn
  <2>3. QED
    BY <1>3, <2>2, Unseen DEF PowerLoss, LosePower
<1>4. ASSUME NEW p \in Process, MoveAsideStep(p) PROVE [Switch!Next]_(Switch!vars)
  <2>1. Here(p) \in Key /\ New(p) \in Version
    BY <1>4, HereType DEF IInv, MoveAsideStep, Consistent, Copying, Deferred
  <2>2. CASE MoveAside(Here(p), New(p)) /\ New(p) # current[Here(p)]
    BY <2>1, <2>2, CallsAreSteps DEF Switch!Next
  <2>3. CASE UNCHANGED storeVars
    BY <1>1, <2>3 DEF storeVars
  <2>4. QED
    BY <1>4, <2>2, <2>3 DEF IInv, MoveAsideStep, Consistent, Copying
<1>5. ASSUME NEW p \in Process, Swap(p) PROVE [Switch!Next]_(Switch!vars)
  <2>1. Here(p) \in Key /\ New(p) \in Version
    BY <1>5, HereType DEF IInv, Swap, Consistent, Copying, Deferred
  <2>2. CASE SwapIn(Here(p), New(p))
    BY <2>1, <2>2, CallsAreSteps DEF Switch!Next
  <2>3. CASE UNCHANGED storeVars
    BY <1>1, <2>3 DEF storeVars
  <2>4. QED
    BY <1>5, <2>2, <2>3 DEF IInv, Swap, Consistent, Copying
<1>6. ASSUME NEW p \in Process, MoveBackStep(p) PROVE [Switch!Next]_(Switch!vars)
  <2>1. Here(p) \in Key /\ New(p) \in Version
    BY <1>6, HereType DEF IInv, MoveBackStep, Consistent, Copying, Deferred
  <2>2. CASE MoveBack(Here(p), New(p)) /\ CanMoveBack(Here(p), New(p))
    BY <2>1, <2>2, CallsAreSteps DEF Switch!Next
  <2>3. CASE UNCHANGED storeVars
    BY <1>1, <2>3 DEF storeVars
  <2>4. QED
    BY <1>6, <2>2, <2>3 DEF IInv, MoveBackStep, Consistent, Copying
<1>7. ASSUME NEW p \in Process, RmPrevious(p) PROVE [Switch!Next]_(Switch!vars)
  <2>1. Here(p) \in Key /\ New(p) \in Version
    BY <1>7, HereType DEF IInv, RmPrevious, Consistent, Copying, Deferred
  <2>2. CASE DropPrevious(Here(p))
    BY <2>1, <2>2, CallsAreSteps DEF Switch!Next
  <2>3. CASE UNCHANGED storeVars
    BY <1>1, <2>3 DEF storeVars
  <2>4. QED
    BY <1>7, <2>2, <2>3 DEF IInv, RmPrevious, Consistent, Copying
<1>8. ASSUME NEW p \in Process, RememberStep(p) PROVE [Switch!Next]_(Switch!vars)
  <2>1. Here(p) \in Key /\ New(p) \in Version
    BY <1>8, HereType DEF IInv, RememberStep, Consistent, Copying, Deferred
  <2>2. CASE Remember(Here(p)) /\ CanRemember(Here(p))
    BY <2>1, <2>2, CallsAreSteps DEF Switch!Next
  <2>3. CASE UNCHANGED storeVars
    BY <1>1, <2>3 DEF storeVars
  <2>4. QED
    BY <1>8, <2>2, <2>3 DEF IInv, RememberStep, Consistent, Copying
<1>9. ASSUME NEW p \in Process, FlipStep(p) PROVE [Switch!Next]_(Switch!vars)
  <2>1. Here(p) \in Key /\ New(p) \in Version
    BY <1>9, HereType DEF IInv, FlipStep, Consistent, Copying, Deferred
  <2>2. CASE Flip(Here(p)) /\ New(p) = curTmp[Here(p)] /\ Present(Here(p), New(p))
    BY <2>1, <2>2, CallsAreSteps DEF Switch!Next
  <2>3. CASE UNCHANGED storeVars
    BY <1>1, <2>3 DEF storeVars
  <2>4. QED
    BY <1>9, <2>1, <2>2, <2>3, NoVersionAssumption
    DEF IInv, FlipStep, Consistent, Copying, Present
<1>10. ASSUME NEW p \in Process, Symlink(p) \/ RmLink(p) PROVE [Switch!Next]_(Switch!vars)
  BY <1>1, <1>10 DEF Symlink, RmLink, LinkTmp, UnlinkTmp, storeVars
<1>11. ASSUME NEW p \in Process, SyncStep(p) PROVE [Switch!Next]_(Switch!vars)
  BY <1>1, <1>2, <1>11 DEF SyncStep, storeVars
<1>12. ASSUME NEW p \in Process,
             \/ Begin(p) \/ Lock(p) \/ Stat(p) \/ Remount(p) \/ TempDir(p)
             \/ Copy(p) \/ RmTemp(p) \/ Reboot(p) \/ Exit(p) \/ Kill(p)
      PROVE  [Switch!Next]_(Switch!vars)
  BY <1>1, <1>12 DEF Begin, Lock, Stat, Remount, TempDir, Copy, RmTemp, Reboot, Exit,
                   Kill, storeVars
<1>13. CASE Restart
  BY <1>2, <1>13 DEF Restart
<1>14. CASE UNCHANGED vars
  BY <1>1, <1>14 DEF vars, storeVars
<1>15. QED
  BY <1>3, <1>4, <1>5, <1>6, <1>7, <1>8, <1>9, <1>10, <1>11, <1>12, <1>13, <1>14 DEF Next, Step

(* The upgrades keep the promises of the store.                            *)
THEOREM UpgradeImplementsVersionSwitch == Spec => SwitchesVersions
BY InitImplements, StepImplements, LinksInvariant, PTL
DEF Spec, SwitchesVersions, Switch!Spec
=============================================================================
