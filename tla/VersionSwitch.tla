--------------------------- MODULE VersionSwitch ---------------------------
(***************************************************************************)
(* What the component store under /edgi/system promises to its readers:    *)
(* the boot loader, which follows kernel/current and kernel/previous, and  *)
(* init, which follows edgi/current and k3s/current.                       *)
(*                                                                         *)
(* Each component has a set of installed versions, one active version and  *)
(* at most one fallback.  The store changes one component, by one of five  *)
(* steps, at a time.  Who takes the steps, in what order, with which       *)
(* failures in between, is the business of the modules that implement it.  *)
(***************************************************************************)
CONSTANTS
    Key,        \* the components: "edgi", "k3s", "kernel"
    Version,    \* the names of their versions
    NoVersion   \* no version at all, not in Version

VARIABLES
    installed,  \* [Key -> SUBSET Version], the versions that are there
    active,     \* [Key -> Version or NoVersion], the one that is started
    fallback    \* [Key -> Version or NoVersion], the one to go back to

vars == <<installed, active, fallback>>

TypeOK ==
    /\ installed \in [Key -> SUBSET Version]
    /\ active    \in [Key -> Version \cup {NoVersion}]
    /\ fallback  \in [Key -> Version \cup {NoVersion}]

(* A component that has an active version has it installed. *)
ActiveInstalled ==
    \A k \in Key : active[k] # NoVersion => active[k] \in installed[k]

Init ==
    /\ TypeOK
    /\ ActiveInstalled

Install(k, v) ==
    /\ installed' = [installed EXCEPT ![k] = @ \cup {v}]
    /\ UNCHANGED <<active, fallback>>

(* Only a version that is not the active one may be taken away. *)
Retire(k, v) ==
    /\ v # active[k]
    /\ installed' = [installed EXCEPT ![k] = @ \ {v}]
    /\ UNCHANGED <<active, fallback>>

Forget(k) ==
    /\ fallback' = [fallback EXCEPT ![k] = NoVersion]
    /\ UNCHANGED <<installed, active>>

(* The fallback is never anything but what has been active. *)
Remember(k) ==
    /\ active[k] # NoVersion
    /\ fallback' = [fallback EXCEPT ![k] = active[k]]
    /\ UNCHANGED <<installed, active>>

(* Only an installed version becomes active; none becomes inactive but by  *)
(* another taking its place.                                               *)
Activate(k, v) ==
    /\ v \in installed[k]
    /\ active' = [active EXCEPT ![k] = v]
    /\ UNCHANGED <<installed, fallback>>

Next ==
    \E k \in Key :
        \/ \E v \in Version : Install(k, v) \/ Retire(k, v) \/ Activate(k, v)
        \/ Forget(k)
        \/ Remember(k)

Spec == Init /\ [][Next]_vars
=============================================================================
