------------------------------ MODULE Upgrade ------------------------------
(***************************************************************************)
(* `edgi upgrade` (pkg/cli/upgrade/upgrade.go) and the routine it calls    *)
(* for each component, CopyComponent (pkg/system/component.go).            *)
(*                                                                         *)
(* Several processes may run it: the job of the upgrade plan and an        *)
(* operator at a console.  A process may be killed between any two system  *)
(* calls (its deferred calls are then lost), a call may fail, the machine  *)
(* may lose power, and a reboot that one process asked for may catch       *)
(* another at work.  The store outlives all of that; the lock, which is a  *)
(* flock on a file under /run, and the read-write mount do not.            *)
(***************************************************************************)
EXTENDS ComponentStore

CONSTANTS
    Process,    \* the processes that may run `edgi upgrade`
    NoProcess,  \* the lock's holder when it is free
    Components, \* the order Run goes through: edgi, k3s, kernel
    Job,        \* the invocations: what Run is asked to do
    Faulty,     \* the calls that may fail for reasons of their own
    MaxFaults,  \* bound: how many of them fail
    MaxKills    \* bound: how many times a process is killed or power lost

(* An invocation: the versions in the image at --source, the components    *)
(* selected (--rootfs stands for edgi and k3s), and the three switches.    *)
JobType == [source : [Key -> Link], want : SUBSET Key,
            remount : BOOLEAN, sync : BOOLEAN, reboot : BOOLEAN]

ASSUME NoProcessAssumption  == NoProcess \notin Process
ASSUME ComponentsAssumption == Components \in Seq(Key) /\ Len(Components) > 0
ASSUME JobAssumption        == Job \subseteq JobType /\ Job # {}
ASSUME BoundAssumption      == MaxFaults \in Nat /\ MaxKills \in Nat

VARIABLES
    pc,         \* [Process -> the next system call]
    job,        \* [Process -> its invocation]
    idx,        \* [Process -> where in Components it is]
    remount,    \* [Process -> doRemount]
    copied,     \* [Process -> atLeastOneComponentCopied]
    temp,       \* [Process -> what is in its temporary directory]
    aside,      \* [Process -> whether the deferred <v>.old -> <v> is pending]
    lock,       \* the process that holds the lock, or NoProcess
    rw,         \* is the store mounted read-write?
    rebooting,  \* has a reboot been asked for?
    faults,     \* how many calls have failed
    kills,      \* how many kills and losses of power there were
    interrupted, \* the components some process was killed at work on (history)
    risk        \* [Key -> what a loss of power does, or has done, to what
                \* `current` names] (history)

procVars == <<pc, job, idx, remount, copied, temp, aside>>
hostVars == <<lock, rw, rebooting, faults, kills, interrupted, risk>>
vars     == <<storeVars, procVars, hostVars>>

(* CopyComponent's calls: those it goes through and then its defers.       *)
Copying   == {"symlink", "tempdir", "copy", "moveaside", "swap",
              "rmprevious", "remember", "flip"}
Deferred  == {"moveback", "rmtemp", "rmlink"}
Steps     == {"stat", "remount"} \cup Copying \cup Deferred
Locked    == Steps \cup {"sync", "reboot", "exit"}
Labels    == {"idle", "lock"} \cup Locked

(* Nothing; it may tear it, as it has been switched to since the last      *)
(* flush; it may have torn it, just then.                                  *)
Risk == {"none", "unflushed", "damaged"}

TypeOK ==
    /\ StoreTypeOK
    /\ pc      \in [Process -> Labels]
    /\ job     \in [Process -> Job]
    /\ idx     \in [Process -> 1..Len(Components)]
    /\ remount \in [Process -> BOOLEAN]
    /\ copied  \in [Process -> BOOLEAN]
    /\ temp    \in [Process -> {"none", "partial", "whole"}]
    /\ aside   \in [Process -> BOOLEAN]
    /\ lock    \in Process \cup {NoProcess}
    /\ rw \in BOOLEAN /\ rebooting \in BOOLEAN
    /\ faults \in 0..MaxFaults /\ kills \in 0..MaxKills
    /\ interrupted \in SUBSET Key
    /\ risk \in [Key -> Risk]

AnyJob == CHOOSE j \in Job : TRUE

Init ==
    /\ StoreInit
    /\ pc      = [p \in Process |-> "idle"]
    /\ job     = [p \in Process |-> AnyJob]
    /\ idx     = [p \in Process |-> 1]
    /\ remount = [p \in Process |-> FALSE]
    /\ copied  = [p \in Process |-> FALSE]
    /\ temp    = [p \in Process |-> "none"]
    /\ aside   = [p \in Process |-> FALSE]
    /\ lock = NoProcess /\ rw = FALSE /\ rebooting = FALSE
    /\ faults = 0 /\ kills = 0 /\ interrupted = {}
    /\ risk = [k \in Key |-> "none"]

-----------------------------------------------------------------------------
(* The component p is at, and the version its image has of it.             *)
Here(p) == Components[idx[p]]
New(p)  == job[p].source[Here(p)]

Goto(p, label) == pc' = [pc EXCEPT ![p] = label]

(* A call that cannot succeed, or one of the bounded number that fail for  *)
(* a reason outside the model: no space left, an I/O error.                *)
Fails(call) ==
    /\ call \in Faulty
    /\ faults < MaxFaults
    /\ faults' = faults + 1

Refused(call, possible) ==
    \/ ~possible /\ UNCHANGED faults
    \/ Fails(call)

(* Mutant of Return: the same component again.                             *)
ReturnToSame(p) ==
    IF idx[p] < Len(Components)
    THEN Goto(p, "stat") /\ UNCHANGED idx
    ELSE Goto(p, "sync") /\ UNCHANGED idx

(* CopyComponent returns: Run logs an error, if there is one, and goes on. *)
Return(p) ==
    IF idx[p] < Len(Components)
    THEN Goto(p, "stat") /\ idx' = [idx EXCEPT ![p] = @ + 1]
    ELSE Goto(p, "sync") /\ UNCHANGED idx

(* The processes in P are no more; their locals are forgotten.             *)
Gone(P) ==
    /\ pc'      = [p \in Process |-> IF p \in P THEN "idle" ELSE pc[p]]
    /\ job'     = [p \in Process |-> IF p \in P THEN AnyJob ELSE job[p]]
    /\ idx'     = [p \in Process |-> IF p \in P THEN 1 ELSE idx[p]]
    /\ remount' = [p \in Process |-> IF p \in P THEN FALSE ELSE remount[p]]
    /\ copied'  = [p \in Process |-> IF p \in P THEN FALSE ELSE copied[p]]
    /\ temp'    = [p \in Process |-> IF p \in P THEN "none" ELSE temp[p]]
    /\ aside'   = [p \in Process |-> IF p \in P THEN FALSE ELSE aside[p]]

-----------------------------------------------------------------------------
(* Run: the command line, the lock.                                        *)
Begin(p) ==
    /\ pc[p] = "idle"
    /\ \E j \in Job :
        /\ job'     = [job EXCEPT ![p] = j]
        /\ remount' = [remount EXCEPT ![p] = j.remount]
    /\ Goto(p, "lock")
    /\ UNCHANGED <<storeVars, idx, copied, temp, aside, hostVars>>

(* Mutant of LockFree: the run goes on without the lock.                   *)
LockIgnored == TRUE

LockFree == lock = NoProcess

(* Without a lock, or a file to lock, the run is over (logrus.Fatal).      *)
Lock(p) ==
    /\ pc[p] = "lock"
    /\ \/ /\ LockFree
          /\ lock' = p
          /\ Goto(p, "stat")
          /\ UNCHANGED <<faults, job, idx, remount, copied, temp, aside>>
       \/ /\ Refused("lock", LockFree)
          /\ Gone({p})
          /\ UNCHANGED lock
    /\ UNCHANGED <<storeVars, rw, rebooting, kills, interrupted, risk>>

-----------------------------------------------------------------------------
(* CopyComponent, for the component Here(p).                               *)

(* Mutant of Skips: the versions are not compared.                         *)
SkipsUncompared(p) == Here(p) \notin job[p].want \/ New(p) = NoVersion

(* Not selected, not in the image, or current already.                     *)
Skips(p) ==
    \/ Here(p) \notin job[p].want
    \/ New(p) = NoVersion
    \/ Resolve(current, Here(p)) = New(p)

Stat(p) ==
    /\ pc[p] = "stat"
    /\ \/ Skips(p) /\ Return(p)
       \/ /\ ~Skips(p)
          /\ Goto(p, IF remount[p] THEN "remount" ELSE "symlink")
          /\ UNCHANGED idx
    /\ UNCHANGED <<storeVars, job, remount, copied, temp, aside, hostVars>>

Remount(p) ==
    /\ pc[p] = "remount"
    /\ \/ rw' = TRUE /\ Goto(p, "symlink") /\ UNCHANGED <<idx, faults>>
       \/ Fails("remount") /\ Return(p) /\ UNCHANGED rw
    /\ UNCHANGED <<storeVars, job, remount, copied, temp, aside,
                   lock, rebooting, kills, interrupted, risk>>

(* Nothing is deferred yet when the link cannot be made.                   *)
Symlink(p) ==
    LET possible == rw /\ CanLinkTmp(Here(p))
    IN  /\ pc[p] = "symlink"
        /\ \/ /\ possible
              /\ LinkTmp(Here(p), New(p))
              /\ Goto(p, "tempdir")
              /\ UNCHANGED <<idx, faults>>
           \/ /\ Refused("symlink", possible)
              /\ Return(p)
              /\ UNCHANGED storeVars
        /\ UNCHANGED <<job, remount, copied, temp, aside,
                       lock, rw, rebooting, kills, interrupted, risk>>

(* Any error from here on goes to the deferred calls.                      *)
TempDir(p) ==
    /\ pc[p] = "tempdir"
    /\ \/ /\ temp' = [temp EXCEPT ![p] = "partial"]
          /\ Goto(p, "copy")
          /\ UNCHANGED faults
       \/ Fails("tempdir") /\ Goto(p, "moveback") /\ UNCHANGED temp
    /\ UNCHANGED <<storeVars, job, idx, remount, copied, aside,
                   lock, rw, rebooting, kills, interrupted, risk>>

Copy(p) ==
    /\ pc[p] = "copy"
    /\ \/ /\ temp' = [temp EXCEPT ![p] = "whole"]
          /\ Goto(p, "moveaside")
          /\ UNCHANGED faults
       \/ Fails("copy") /\ Goto(p, "moveback") /\ UNCHANGED temp
    /\ UNCHANGED <<storeVars, job, idx, remount, copied, aside,
                   lock, rw, rebooting, kills, interrupted, risk>>

MoveAsideStep(p) ==
    LET taken    == Present(Here(p), New(p))
        possible == CanMoveAside(Here(p), New(p))
    IN  /\ pc[p] = "moveaside"
        /\ \/ /\ ~taken
              /\ Goto(p, "swap")
              /\ UNCHANGED <<storeVars, aside, faults>>
           \/ /\ taken /\ possible
              /\ MoveAside(Here(p), New(p))
              /\ aside' = [aside EXCEPT ![p] = TRUE]
              /\ Goto(p, "swap")
              /\ UNCHANGED faults
           \/ /\ taken /\ Refused("moveaside", possible)
              /\ Goto(p, "moveback")
              /\ UNCHANGED <<storeVars, aside>>
        /\ UNCHANGED <<job, idx, remount, copied, temp,
                       lock, rw, rebooting, kills, interrupted, risk>>

Swap(p) ==
    LET possible == CanSwapIn(Here(p), New(p))
    IN  /\ pc[p] = "swap"
        /\ \/ /\ possible
              /\ SwapIn(Here(p), New(p))
              /\ temp' = [temp EXCEPT ![p] = "none"]
              /\ Goto(p, "rmprevious")
              /\ UNCHANGED faults
           \/ /\ Refused("swap", possible)
              /\ Goto(p, "moveback")
              /\ UNCHANGED <<storeVars, temp>>
        /\ UNCHANGED <<job, idx, remount, copied, aside,
                       lock, rw, rebooting, kills, interrupted, risk>>

(* Failures of the next two calls are logged and change nothing else.      *)
RmPrevious(p) ==
    LET possible == CanDropPrevious(Here(p))
    IN  /\ pc[p] = "rmprevious"
        /\ \/ possible /\ DropPrevious(Here(p)) /\ UNCHANGED faults
           \/ Refused("rmprevious", possible) /\ UNCHANGED storeVars
        /\ Goto(p, "remember")
        /\ UNCHANGED <<job, idx, remount, copied, temp, aside,
                       lock, rw, rebooting, kills, interrupted, risk>>

RememberStep(p) ==
    LET possible == CanRemember(Here(p))
    IN  /\ pc[p] = "remember"
        /\ \/ possible /\ Remember(Here(p)) /\ UNCHANGED faults
           \/ Refused("remember", possible) /\ UNCHANGED storeVars
        /\ Goto(p, "flip")
        /\ UNCHANGED <<job, idx, remount, copied, temp, aside,
                       lock, rw, rebooting, kills, interrupted, risk>>

(* Run's reaction to (true, nil), which is local to p, is taken here.      *)
FlipStep(p) ==
    LET possible == CanFlip(Here(p))
    IN  /\ pc[p] = "flip"
        /\ \/ /\ possible
              /\ Flip(Here(p))
              /\ copied'  = [copied EXCEPT ![p] = TRUE]
              /\ remount' = [remount EXCEPT ![p] = FALSE]
              /\ risk'    = [risk EXCEPT ![Here(p)] = "unflushed"]
              /\ UNCHANGED faults
           \/ /\ Refused("flip", possible)
              /\ UNCHANGED <<storeVars, copied, remount, risk>>
        /\ Goto(p, "moveback")
        /\ UNCHANGED <<job, idx, temp, aside,
                       lock, rw, rebooting, kills, interrupted>>

(* The deferred calls, last deferred first, in success and in failure.     *)
MoveBackStep(p) ==
    LET possible == aside[p] /\ CanMoveBack(Here(p), New(p))
    IN  /\ pc[p] = "moveback"
        /\ \/ possible /\ MoveBack(Here(p), New(p))
           \/ ~possible /\ UNCHANGED storeVars
        /\ aside' = [aside EXCEPT ![p] = FALSE]
        /\ Goto(p, "rmtemp")
        /\ UNCHANGED <<job, idx, remount, copied, temp, hostVars>>

RmTemp(p) ==
    /\ pc[p] = "rmtemp"
    /\ temp' = [temp EXCEPT ![p] = "none"]
    /\ Goto(p, "rmlink")
    /\ UNCHANGED <<storeVars, job, idx, remount, copied, aside, hostVars>>

RmLink(p) ==
    /\ pc[p] = "rmlink"
    /\ UnlinkTmp(Here(p))
    /\ Return(p)
    /\ UNCHANGED <<job, remount, copied, temp, aside, hostVars>>

-----------------------------------------------------------------------------
(* Run, after the last component.                                          *)
RiskAfter(outcome) ==
    risk' = [k \in Key |-> IF risk[k] = "unflushed" THEN outcome ELSE risk[k]]

SyncStep(p) ==
    /\ pc[p] = "sync"
    /\ IF copied[p] /\ job[p].sync
       THEN Sync /\ RiskAfter("none") /\ UNCHANGED litter
       ELSE UNCHANGED <<storeVars, risk>>
    /\ Goto(p, "reboot")
    /\ UNCHANGED <<job, idx, remount, copied, temp, aside,
                   lock, rw, rebooting, faults, kills, interrupted>>

(* Mutant of Reboot: it does not matter whether anything was copied.       *)
RebootRegardless(p) ==
    /\ pc[p] = "reboot"
    /\ rebooting' = (rebooting \/ job[p].reboot)
    /\ Goto(p, "exit")
    /\ UNCHANGED <<storeVars, job, idx, remount, copied, temp, aside,
                   lock, rw, faults, kills, interrupted, risk>>

(* A reboot command that cannot be started or fails ends the run as well.  *)
Reboot(p) ==
    LET wanted == copied[p] /\ job[p].reboot
    IN  /\ pc[p] = "reboot"
        /\ \/ wanted /\ rebooting' = TRUE /\ UNCHANGED faults
           \/ wanted /\ Fails("reboot") /\ UNCHANGED rebooting
           \/ ~wanted /\ UNCHANGED <<rebooting, faults>>
        /\ Goto(p, "exit")
        /\ UNCHANGED <<storeVars, job, idx, remount, copied, temp, aside,
                       lock, rw, kills, interrupted, risk>>

Exit(p) ==
    /\ pc[p] = "exit"
    /\ lock' = NoProcess
    /\ Gone({p})
    /\ UNCHANGED <<storeVars, rw, rebooting, faults, kills, interrupted, risk>>

-----------------------------------------------------------------------------
(* What happens to a process, and to the machine.                          *)

(* Killed processes run no deferred call; what they made stays.            *)
Killed(P) ==
    /\ litter' = litter \cup {Here(p) : p \in {q \in P : temp[q] # "none"}}
    /\ interrupted' = interrupted \cup {Here(p) : p \in {q \in P :
           pc[q] \in (Copying \cup Deferred) \ {"symlink"}}}
    /\ Gone(P)

Kill(p) ==
    /\ pc[p] # "idle"
    /\ kills < MaxKills
    /\ kills' = kills + 1
    /\ Killed({p})
    /\ lock' = IF lock = p THEN NoProcess ELSE lock
    /\ UNCHANGED <<dir, old, current, previous, curTmp, rw, rebooting, faults, risk>>

(* /run is empty and the store read-only when the machine is up again.     *)
ComeUp ==
    /\ Killed(Process)
    /\ lock' = NoProcess
    /\ rw' = FALSE
    /\ rebooting' = FALSE
    /\ UNCHANGED faults

(* The reboot asked for: file systems are unmounted in good order.         *)
Restart ==
    /\ rebooting
    /\ Sync
    /\ RiskAfter("none")
    /\ ComeUp
    /\ UNCHANGED kills

PowerLoss ==
    /\ kills < MaxKills
    /\ kills' = kills + 1
    /\ LosePower
    /\ RiskAfter("damaged")
    /\ ComeUp

-----------------------------------------------------------------------------
Step(p) ==
    \/ Lock(p) \/ Stat(p) \/ Remount(p) \/ Symlink(p) \/ TempDir(p) \/ Copy(p)
    \/ MoveAsideStep(p) \/ Swap(p) \/ RmPrevious(p) \/ RememberStep(p)
    \/ FlipStep(p) \/ MoveBackStep(p) \/ RmTemp(p) \/ RmLink(p)
    \/ SyncStep(p) \/ Reboot(p) \/ Exit(p)

Next ==
    \/ \E p \in Process : Begin(p) \/ Step(p) \/ Kill(p)
    \/ Restart
    \/ PowerLoss

(* The scheduler runs a started process on, and a machine that was asked   *)
(* to reboot does so.  Nobody has to start a run, no call has to fail.     *)
Fairness ==
    /\ \A p \in Process : WF_vars(Step(p))
    /\ WF_vars(Restart)

Spec     == Init /\ [][Next]_vars
FairSpec == Spec /\ Fairness

-----------------------------------------------------------------------------
(* Properties.                                                             *)

AtWork(k) ==
    \E p \in Process : pc[p] \in Copying \cup Deferred /\ Here(p) = k

(* No crash, failing call or concurrent upgrade ever leaves `current`      *)
(* pointing at a directory that is not there, although CopyComponent takes *)
(* a version's directory away before it puts the new copy in its place.    *)
(* The directory is whole, and the machine can boot the component, unless  *)
(* power was lost between the switch and the next flush: then the copy may *)
(* not have made it to the disk, while the link has.  A run with --sync    *)
(* closes that window before it ends, a reboot in good order closes it,    *)
(* and no upgrade switches to what such a loss has left behind.            *)
CurrentComplete ==
    \A k \in Key : current[k] # NoVersion =>
        /\ Present(k, current[k])
        /\ dir[k][current[k]] = "torn" => risk[k] = "damaged"

(* What `previous` names is never lost: it is there, or next to its place  *)
(* as <version>.old, where an operator can find it.                        *)
RollbackKept ==
    \A k \in Key : previous[k] # NoVersion =>
        Present(k, previous[k]) \/ old[k][previous[k]] # "absent"

(* Once CopyComponent has run its deferred calls, however it ended, the    *)
(* component is as it should be found: no current.tmp, which would stop    *)
(* the next upgrade, no temporary directory, which setup_k3s may mistake   *)
(* for a version, and no version moved aside without a replacement.  Only  *)
(* a kill gets in the way.                                                 *)
NoLeftovers ==
    \A k \in Key \ interrupted : ~AtWork(k) =>
        /\ curTmp[k] = NoVersion
        /\ k \notin litter
        /\ \A v \in Version : old[k][v] # "absent" => Present(k, v)

(* With --sync, what the run made current is on disk before it asks for    *)
(* the reboot.                                                             *)
SyncedBeforeReboot ==
    \A p \in Process : pc[p] \in {"reboot", "exit"} /\ copied[p] /\ job[p].sync =>
        \A k \in Key : current[k] # NoVersion => dir[k][current[k]] # "cached"

(* As long as no call has failed, `previous` holds the outgoing version at *)
(* the moment `current` is replaced: there is always a way back.           *)
FlipKeepsRollback ==
    [][\A k \in Key : current'[k] # current[k] /\ faults = 0 =>
           previous[k] = current[k]]_vars

(* What makes the two invariants about the links inductive: only the       *)
(* holder of the lock is past it, the version it is at work on is not the  *)
(* current one, current.tmp names that version, and by the time the links  *)
(* are changed the version is in its place, whole.                         *)
Consistent(p) ==
    /\ pc[p] \in Locked => lock = p
    /\ pc[p] \in {"remount"} \cup Copying \cup Deferred => New(p) \in Version
    /\ pc[p] \in {"remount"} \cup Copying => current[Here(p)] # New(p)
    /\ pc[p] \in Copying \ {"symlink"} => curTmp[Here(p)] = New(p)
    /\ pc[p] \in {"rmprevious", "remember", "flip"} =>
           dir[Here(p)][New(p)] \in {"cached", "stable"}

(* What `current` names is flushed, or is known not to be.                 *)
Watched ==
    \A k \in Key : current[k] # NoVersion /\ dir[k][current[k]] = "cached" =>
        risk[k] = "unflushed"

IInv ==
    /\ TypeOK
    /\ CurrentComplete
    /\ Watched
    /\ RollbackKept
    /\ \A p \in Process : Consistent(p)

(* A run that was started ends, whatever calls fail.                       *)
RunEnds == \A p \in Process : pc[p] # "idle" ~> pc[p] = "idle"

(* The jobs agree on a version of each component that can be upgraded, and *)
(* it is current and whole; or its replacement is blocked: <version> and   *)
(* <version>.old are both there, and the rename of the one to the other is *)
(* refused for ever (component.go:92).                                     *)
Upgraded(k, v) == current[k] = v /\ dir[k][v] \in {"cached", "stable"}

Blocked(k, v) == Present(k, v) /\ ~CanMoveAside(k, v)

Settled ==
    \A k \in Shipped : \A j \in Job :
        k \in j.want /\ j.source[k] # NoVersion =>
            Upgraded(k, j.source[k]) \/ (Blocked(k, j.source[k]) /\ faults > 1)

(* Upgrading again until it works does work: the deferred calls leave the  *)
(* store so that, if runs keep being started, the image ends up current.   *)
(* One thing gets in the way, and it takes two failed calls: when the      *)
(* switch has failed twice, <version>.old is there for good.  (Runs cut    *)
(* short, by a kill or by the reboot another asked for, are left to        *)
(* RebootsIntoImage, a loss of power before the flush to CurrentComplete.) *)
RetryConverges ==
    /\ [](interrupted = {} /\ \A k \in Key : risk[k] # "damaged")
    /\ []<>(\E p \in Process : pc[p] = "stat")
    => <>[]Settled

(* A job that is started again and again does not keep rebooting the node: *)
(* once the image is current, or cannot be made so, there is no reboot.    *)
NoRebootLoop == <>[]~rebooting

(* README.md:353-355: the upgrade job will "upgrade the EDGI content under *)
(* `/edgi/system`, and then reboot.  The system should come back up        *)
(* running the latest kernel and k3s version bundled with EDGI".           *)
RebootsIntoImage ==
    \A p \in Process : pc[p] = "reboot" /\ copied[p] /\ job[p].reboot =>
        \A k \in job[p].want \cap Shipped :
            job[p].source[k] # NoVersion => current[k] = job[p].source[k]

(* component.go:46-47: CopyComponent copies the component, "moving the     *)
(* `current` symlink to the version from `src`".                           *)
MovesCurrent ==
    \A p \in Process : pc[p] = "rmlink" => current[Here(p)] = New(p)

(* The store keeps the promises of VersionSwitch.                          *)
Switch == INSTANCE VersionSwitch WITH
    installed <- [k \in Key |-> {v \in Version : dir[k][v] # "absent"}],
    active    <- current,
    fallback  <- previous

SwitchesVersions == Switch!Spec
=============================================================================
