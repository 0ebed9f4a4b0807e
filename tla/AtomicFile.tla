----------------------------- MODULE AtomicFile ------------------------------
(***************************************************************************)
(* What those who replace a file promise to its readers and to their own   *)
(* callers: the file changes once per call, from what it was to all that   *)
(* was asked for; a call that says so has done it, and a call that reports *)
(* an error has done nothing.                                              *)
(***************************************************************************)
CONSTANTS
    Writer,     \* those who replace the file
    Request,    \* what the file may be asked to be
    NoFile      \* no file, nothing asked for

VARIABLES
    file,       \* what a reader finds
    asked,      \* [Writer -> what its call is to put there]
    replaced,   \* the writers that have done it
    answer      \* [Writer -> how its last call ended]

vars == <<file, asked, replaced, answer>>

Answer == {"none", "done", "error"}

Init ==
    /\ file \in Request \cup {NoFile}
    /\ asked = [w \in Writer |-> NoFile]
    /\ replaced = {}
    /\ answer = [w \in Writer |-> "none"]

Ask(w, r) ==
    /\ asked[w] = NoFile
    /\ asked'  = [asked EXCEPT ![w] = r]
    /\ answer' = [answer EXCEPT ![w] = "none"]
    /\ UNCHANGED <<file, replaced>>

Replace(w) ==
    /\ asked[w] # NoFile /\ w \notin replaced
    /\ file' = asked[w]
    /\ replaced' = replaced \cup {w}
    /\ UNCHANGED <<asked, answer>>

Answered(w, a) ==
    /\ asked[w] # NoFile
    /\ a = "done"  => w \in replaced
    /\ a = "error" => w \notin replaced
    /\ asked'    = [asked EXCEPT ![w] = NoFile]
    /\ replaced' = replaced \ {w}
    /\ answer'   = [answer EXCEPT ![w] = a]
    /\ UNCHANGED file

(* A caller that is killed gets no answer.                                 *)
Next ==
    \E w \in Writer :
        \/ \E r \in Request : Ask(w, r)
        \/ Replace(w)
        \/ \E a \in Answer : Answered(w, a)

Spec == Init /\ [][Next]_vars
=============================================================================
