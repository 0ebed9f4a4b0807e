--------------------------- MODULE ComponentStore --------------------------
(***************************************************************************)
(* The persistent store /edgi/system: one directory per component, which   *)
(* holds a directory per installed version, the symbolic links `current`   *)
(* and `previous`, and what an upgrade leaves there while it is at work:   *)
(* the link `current.tmp`, a temporary directory and `<version>.old`.      *)
(*                                                                         *)
(* The operators of the second part are the file-system calls of           *)
(* CopyComponent (pkg/system/component.go), one call each, with the        *)
(* condition under which the kernel and Go's os package let it succeed.    *)
(***************************************************************************)
EXTENDS Naturals, Sequences, FiniteSets

CONSTANTS
    Key,        \* the components
    Version,    \* names of versions, the names of their directories
    NoVersion,  \* the absence of a link
    Shipped     \* the components whose directory this installation has

ASSUME NoVersionAssumption == NoVersion \notin Version
ASSUME ShippedAssumption   == Shipped \subseteq Key

(* What a version's directory holds: nothing (there is none), the whole    *)
(* tree but still in the page cache, the whole tree on disk, or what a     *)
(* loss of power left of it.                                               *)
Content == {"absent", "cached", "stable", "torn"}

VARIABLES
    dir,        \* [Key -> [Version -> Content]], <key>/<version>
    old,        \* [Key -> [Version -> Content]], <key>/<version>.old
    current,    \* [Key -> target of the link <key>/current]
    previous,   \* [Key -> target of the link <key>/previous]
    curTmp,     \* [Key -> target of the link <key>/current.tmp]
    litter      \* the components with an abandoned temporary directory

storeVars == <<dir, old, current, previous, curTmp, litter>>

Link == Version \cup {NoVersion}

StoreTypeOK ==
    /\ dir      \in [Key -> [Version -> Content]]
    /\ old      \in [Key -> [Version -> Content]]
    /\ current  \in [Key -> Link]
    /\ previous \in [Key -> Link]
    /\ curTmp   \in [Key -> Link]
    /\ litter   \in SUBSET Key

(* As the installer leaves it: every component it ships with one version,  *)
(* on disk and current.                                                    *)
StoreInit ==
    \E base \in [Shipped -> Version] :
        /\ dir = [k \in Key |-> [v \in Version |->
                    IF k \in Shipped /\ v = base[k] THEN "stable" ELSE "absent"]]
        /\ old = [k \in Key |-> [v \in Version |-> "absent"]]
        /\ current  = [k \in Key |-> IF k \in Shipped THEN base[k] ELSE NoVersion]
        /\ previous = [k \in Key |-> NoVersion]
        /\ curTmp   = [k \in Key |-> NoVersion]
        /\ litter   = {}

(* All that a stat of the directory tells: one that a loss of power has    *)
(* torn is there as well.                                                  *)
Present(k, v) == v # NoVersion /\ dir[k][v] # "absent"

(* StatComponentVersion: a link that leads to a directory names a version. *)
Resolve(link, k) == IF Present(k, link[k]) THEN link[k] ELSE NoVersion

-----------------------------------------------------------------------------
(* The calls.  CanX is when call X succeeds, X what it does then.          *)

(* symlink("<v>", "current.tmp"): fails if the component has no directory  *)
(* or the name is taken, whatever it points to.                            *)
CanLinkTmp(k) == k \in Shipped /\ curTmp[k] = NoVersion

LinkTmp(k, v) ==
    /\ curTmp' = [curTmp EXCEPT ![k] = v]
    /\ UNCHANGED <<dir, old, current, previous, litter>>

(* Mutant of UnlinkTmp: the deferred os.Remove is missing.                 *)
UnlinkTmpMissing(k) == UNCHANGED <<dir, old, current, previous, curTmp, litter>>

UnlinkTmp(k) ==
    /\ curTmp' = [curTmp EXCEPT ![k] = NoVersion]
    /\ UNCHANGED <<dir, old, current, previous, litter>>

(* os.Rename("<v>", "<v>.old"): Go refuses a destination that is a         *)
(* directory already.                                                      *)
CanMoveAside(k, v) == old[k][v] = "absent"

(* Mutant of MoveAside: the directory is removed instead of renamed.       *)
RemoveExisting(k, v) ==
    /\ dir' = [dir EXCEPT ![k][v] = "absent"]
    /\ UNCHANGED <<old, current, previous, curTmp, litter>>

MoveAside(k, v) ==
    /\ old' = [old EXCEPT ![k][v] = dir[k][v]]
    /\ dir' = [dir EXCEPT ![k][v] = "absent"]
    /\ UNCHANGED <<current, previous, curTmp, litter>>

(* The way back, refused when <v> has been replaced in the meantime.       *)
CanMoveBack(k, v) == dir[k][v] = "absent" /\ old[k][v] # "absent"

MoveBack(k, v) ==
    /\ dir' = [dir EXCEPT ![k][v] = old[k][v]]
    /\ old' = [old EXCEPT ![k][v] = "absent"]
    /\ UNCHANGED <<current, previous, curTmp, litter>>

(* os.Rename(<temporary directory>, "<v>").                                *)
CanSwapIn(k, v) == dir[k][v] = "absent"

SwapIn(k, v) ==
    /\ dir' = [dir EXCEPT ![k][v] = "cached"]
    /\ UNCHANGED <<old, current, previous, curTmp, litter>>

CanDropPrevious(k) == previous[k] # NoVersion

DropPrevious(k) ==
    /\ previous' = [previous EXCEPT ![k] = NoVersion]
    /\ UNCHANGED <<dir, old, current, curTmp, litter>>

(* copy.Copy of a link makes a link to the same target; the name must be   *)
(* free.                                                                   *)
CanRemember(k) == current[k] # NoVersion /\ previous[k] = NoVersion

(* Mutant of Remember: the link that is about to become current is copied. *)
RememberIncoming(k) ==
    /\ previous' = [previous EXCEPT ![k] = curTmp[k]]
    /\ UNCHANGED <<dir, old, current, curTmp, litter>>

Remember(k) ==
    /\ previous' = [previous EXCEPT ![k] = current[k]]
    /\ UNCHANGED <<dir, old, current, curTmp, litter>>

(* os.Rename("current.tmp", "current") replaces the link in one step.      *)
CanFlip(k) == curTmp[k] # NoVersion

Flip(k) ==
    /\ current' = [current EXCEPT ![k] = curTmp[k]]
    /\ curTmp'  = [curTmp EXCEPT ![k] = NoVersion]
    /\ UNCHANGED <<dir, old, previous, litter>>

(* sync(2): all that is cached reaches the disk.                           *)
Flushed(tree) ==
    [k \in Key |-> [v \in Version |->
        IF tree[k][v] = "cached" THEN "stable" ELSE tree[k][v]]]

(* Mutant of Sync: the call is missing.                                    *)
SyncMissing == UNCHANGED <<dir, old, current, previous, curTmp>>

Sync ==
    /\ dir' = Flushed(dir)
    /\ old' = Flushed(old)
    /\ UNCHANGED <<current, previous, curTmp>>

(* A loss of power tears some of what was cached; the rest has made it to  *)
(* the disk.                                                               *)
Cached(tree) == {kv \in Key \X Version : tree[kv[1]][kv[2]] = "cached"}

Torn(tree, lost) ==
    [k \in Key |-> [v \in Version |->
        IF tree[k][v] # "cached" THEN tree[k][v]
        ELSE IF <<k, v>> \in lost THEN "torn" ELSE "stable"]]

LosePower ==
    /\ \E lost \in SUBSET Cached(dir) : dir' = Torn(dir, lost)
    /\ \E lost \in SUBSET Cached(old) : old' = Torn(old, lost)
    /\ UNCHANGED <<current, previous, curTmp>>
=============================================================================
