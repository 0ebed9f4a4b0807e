--------------------------- MODULE FileWriteProofs ---------------------------
(***************************************************************************)
(* Proofs about FileWrite, for any number of writers and any contents: the *)
(* inductive invariant IInv, and from it that every step is one the        *)
(* abstract AtomicFile allows, or one its readers do not see.              *)
(***************************************************************************)
EXTENDS FileWrite, TLAPS

LEMMA InitProgress == Init => IInv
BY NoCallAssumption DEF Init, IInv, TypeOK, Progress, Sensible, Call, Asked, File, Steps, Stray

(* The steps of one writer leave the others as they are.                   *)
LEMMA OthersWait ==
    ASSUME IInv, NEW w \in Writer,
           \A u \in Writer \ {w} : /\ pc'[u] = pc[u] /\ call'[u] = call[u]
                                   /\ temp'[u] = temp[u] /\ err'[u] = err[u]
                                   /\ answer'[u] = answer[u]
    PROVE  \A u \in Writer \ {w} : Progress(u)'
BY DEF IInv, Progress

LEMMA FailProgress ==
    ASSUME IInv, NEW w \in Writer, pc[w] \in Steps, Fail(w),
           NEW t \in File \cup {NoFile}, temp' = [temp EXCEPT ![w] = t]
    PROVE  IInv'
<1> USE DEF IInv, TypeOK, Fail, Goto
<1>1. TypeOK'
  OBVIOUS
<1>2. Progress(w)'
  BY DEF Progress, Steps
<1>3. \A u \in Writer \ {w} : Progress(u)'
  BY OthersWait
<1>4. QED
  BY <1>1, <1>2, <1>3

LEMMA LeaveProgress ==
    ASSUME IInv, NEW w \in Writer, NEW by \in {"kill", "remove", "return"},
           NEW left, left = {} \/ (left = Left(w, by) /\ pc[w] # "idle"), Leave(w, left),
           NEW a \in {"none", "done", "error"}, answer' = [answer EXCEPT ![w] = a]
    PROVE  IInv'
<1> USE DEF IInv, TypeOK, Leave, Goto
<1>1. strays' \subseteq Stray
  <2>1. call[w] \in Call \/ left = {}
    BY DEF Left, Progress
  <2>2. QED
    BY <2>1 DEF Left, Stray, Call
<1>2. TypeOK'
  BY <1>1
<1>3. Progress(w)'
  BY DEF Progress
<1>4. \A u \in Writer \ {w} : Progress(u)'
  BY OthersWait
<1>5. QED
  BY <1>2, <1>3, <1>4

LEMMA StepProgress ==
    ASSUME IInv, NEW w \in Writer,
           NEW l \in Steps \cup {"idle", "end"}, pc' = [pc EXCEPT ![w] = l],
           TypeOK', Progress(w)',
           \A u \in Writer \ {w} : /\ call'[u] = call[u] /\ temp'[u] = temp[u]
                                   /\ err'[u] = err[u] /\ answer'[u] = answer[u]
    PROVE  IInv'
BY OthersWait DEF IInv, TypeOK

(* Every action keeps IInv.                                                *)
LEMMA NextProgress == IInv /\ [Next]_vars => IInv'
<1> SUFFICES ASSUME IInv, [Next]_vars PROVE IInv'
  OBVIOUS
<1> USE DEF IInv, TypeOK
<1>1. ASSUME NEW w \in Writer, Begin(w) PROVE IInv'
  <2>1. PICK c \in Sensible : call' = [call EXCEPT ![w] = c]
                              /\ Goto(w, IF c.atomic THEN "tempfile" ELSE "directory")
    BY <1>1 DEF Begin
  <2>2. TypeOK'
    BY <1>1, <2>1 DEF Begin, Goto, Sensible, Steps
  <2>3. c # NoCall /\ c \in Call
    BY NoCallAssumption DEF Sensible
  <2>4. Progress(w)'
    BY <1>1, <2>1, <2>3 DEF Begin, Goto, Progress, Steps
  <2>5. QED
    BY <1>1, <2>1, <2>2, <2>4, StepProgress DEF Begin, Goto, Steps
<1>2. ASSUME NEW w \in Writer, Directory(w) PROVE IInv'
  <2>1. CASE Fail(w) /\ UNCHANGED temp
    BY <1>2, <2>1, FailProgress DEF Directory, Steps
  <2>2. CASE pc' = [pc EXCEPT ![w] = "tempfile"] /\ there' = TRUE
             /\ UNCHANGED <<file, call, temp, err, answer, strays>>
    <3>1. TypeOK' /\ Progress(w)'
      BY <1>2, <2>2 DEF Directory, Progress, Steps
    <3>2. QED
      BY <2>2, <3>1, StepProgress DEF Steps
  <2>3. CASE pc' = [pc EXCEPT ![w] = "end"] /\ there' = TRUE
             /\ err' = [err EXCEPT ![w] = TRUE]
             /\ UNCHANGED <<file, call, temp, answer, strays>>
    <3>1. TypeOK' /\ Progress(w)'
      BY <1>2, <2>3 DEF Directory, Progress, Steps
    <3>2. QED
      BY <2>3, <3>1, StepProgress DEF Steps
  <2>4. QED
    BY <1>2, <2>1, <2>2, <2>3 DEF Directory, Goto
<1>3. ASSUME NEW w \in Writer, TempFile(w) PROVE IInv'
  <2>1. CASE Fail(w) /\ UNCHANGED temp
    BY <1>3, <2>1, FailProgress DEF TempFile, Steps
  <2>2. CASE /\ there
             /\ temp' = [temp EXCEPT ![w] = [data |-> call[w].data, part |-> "empty",
                                             mode |-> "private", owner |-> "root"]]
             /\ pc' = [pc EXCEPT ![w] = "write"]
             /\ UNCHANGED <<file, there, call, err, answer, strays>>
    <3>1. call[w] \in Call
      BY <1>3 DEF TempFile, Progress
    <3>2. temp'[w] \in File
      BY <2>2, <3>1 DEF File, Call
    <3>3. TypeOK'
      BY <2>2, <3>2 DEF Steps
    <3>4. Progress(w)'
      BY <1>3, <2>2, <3>1, <3>2 DEF TempFile, Progress, Steps
    <3>5. QED
      BY <2>2, <3>3, <3>4, StepProgress DEF Steps
  <2>3. QED
    BY <1>3, <2>1, <2>2 DEF TempFile, Goto
<1>4. ASSUME NEW w \in Writer, Write(w) PROVE IInv'
  <2>1. temp[w] \in File
    BY <1>4 DEF Write, Progress
  <2>2. ASSUME NEW p \in {"empty", "some"}, temp' = [temp EXCEPT ![w].part = p], Fail(w)
        PROVE  IInv'
    <3>1. [temp[w] EXCEPT !.part = p] \in File
      BY <2>1 DEF File
    <3>2. QED
      BY <1>4, <2>2, <3>1, FailProgress DEF Write, Steps
  <2>3. CASE temp' = [temp EXCEPT ![w].part = "all"] /\ pc' = [pc EXCEPT ![w] = "close"]
             /\ UNCHANGED <<file, there, call, err, answer, strays>>
    <3>1. [temp[w] EXCEPT !.part = "all"] \in File
      BY <2>1 DEF File
    <3>2. TypeOK' /\ Progress(w)'
      BY <1>4, <2>1, <2>3, <3>1 DEF Write, Progress, Steps, File
    <3>3. QED
      BY <2>3, <3>2, StepProgress DEF Steps
  <2>4. QED
    BY <1>4, <2>2, <2>3 DEF Write, Goto
<1>5. ASSUME NEW w \in Writer, Close(w) PROVE IInv'
  <2>1. CASE Fail(w)
    BY <1>5, <2>1, FailProgress DEF Close, Steps
  <2>2. CASE pc' = [pc EXCEPT ![w] = "chmod"]
             /\ UNCHANGED <<file, there, call, temp, err, answer, strays>>
    <3>1. TypeOK' /\ Progress(w)'
      BY <1>5, <2>2 DEF Close, Progress, Steps
    <3>2. QED
      BY <2>2, <3>1, StepProgress DEF Steps
  <2>3. QED
    BY <1>5, <2>1, <2>2 DEF Close, Goto
<1>6. ASSUME NEW w \in Writer, Chmod(w) PROVE IInv'
  <2>1. CASE Fail(w) /\ UNCHANGED temp
    BY <1>6, <2>1, FailProgress DEF Chmod, Steps
  <2>2. CASE temp' = [temp EXCEPT ![w].mode = "asked"]
             /\ Goto(w, IF call[w].owned THEN "chown" ELSE "rename")
             /\ UNCHANGED <<file, there, call, err, answer, strays>>
    <3>1. [temp[w] EXCEPT !.mode = "asked"] \in File
      BY <1>6 DEF Chmod, Progress, File
    <3>2. TypeOK' /\ Progress(w)'
      BY <1>6, <2>2, <3>1 DEF Chmod, Goto, Progress, Steps, File
    <3>3. QED
      BY <2>2, <3>2, StepProgress DEF Goto, Steps
  <2>3. QED
    BY <1>6, <2>1, <2>2 DEF Chmod
<1>7. ASSUME NEW w \in Writer, Chown(w) PROVE IInv'
  <2>1. CASE Fail(w) /\ UNCHANGED temp
    BY <1>7, <2>1, FailProgress DEF Chown, Steps
  <2>2. CASE temp' = [temp EXCEPT ![w].owner = "asked"] /\ pc' = [pc EXCEPT ![w] = "rename"]
             /\ UNCHANGED <<file, there, call, err, answer, strays>>
    <3>1. [temp[w] EXCEPT !.owner = "asked"] \in File
      BY <1>7 DEF Chown, Progress, File
    <3>2. TypeOK' /\ Progress(w)'
      BY <1>7, <2>2, <3>1 DEF Chown, Progress, Steps, File
    <3>3. QED
      BY <2>2, <3>2, StepProgress DEF Steps
  <2>3. QED
    BY <1>7, <2>1, <2>2 DEF Chown, Goto
<1>8. ASSUME NEW w \in Writer, Rename(w) PROVE IInv'
  <2>1. CASE Fail(w) /\ UNCHANGED temp
    BY <1>8, <2>1, FailProgress DEF Rename, Steps
  <2>2. CASE file' = temp[w] /\ temp' = [temp EXCEPT ![w] = NoFile]
             /\ pc' = [pc EXCEPT ![w] = "end"]
             /\ UNCHANGED <<there, call, err, answer, strays>>
    <3>1. TypeOK' /\ Progress(w)'
      BY <1>8, <2>2 DEF Rename, Progress, Steps
    <3>2. QED
      BY <2>2, <3>1, StepProgress DEF Steps
  <2>3. QED
    BY <1>8, <2>1, <2>2 DEF Rename, Goto
<1>9. ASSUME NEW w \in Writer, End(w) PROVE IInv'
  BY <1>9, LeaveProgress DEF End
<1>10. ASSUME NEW w \in Writer, Kill(w) PROVE IInv'
  BY <1>10, LeaveProgress DEF Kill
<1>11. CASE UNCHANGED vars
  BY <1>11 DEF vars, Progress
<1>12. QED
  BY <1>1, <1>2, <1>3, <1>4, <1>5, <1>6, <1>7, <1>8, <1>9, <1>10, <1>11 DEF Next

(* os.Rename is only ever reached with a temporary file that is complete,  *)
(* whatever other writers do and wherever calls fail or processes die.     *)
THEOREM CompleteBeforeRename == Spec => []IInv
BY InitProgress, NextProgress, PTL DEF Spec

-----------------------------------------------------------------------------
(* The refinement mapping, by name.                                        *)
AskedOf(w) == IF call[w] = NoCall THEN NoFile ELSE Asked(call[w])
Replaced   == {w \in Writer : pc[w] = "end" /\ ~err[w]}

LEMMA AskedIsFile == \A c \in Call : Asked(c) \in File /\ Asked(c) # NoFile
BY NoFileAssumption DEF Call, Asked, File

LEMMA InitAtOnce == Init => Atomic!Init
BY NoCallAssumption DEF Init, Atomic!Init, Sensible

(* A step that keeps the file, the calls, the answers and who has replaced *)
(* the file is not seen.                                                   *)
LEMMA UnseenStep ==
    ASSUME UNCHANGED <<file, call, answer>>, Replaced' = Replaced
    PROVE  UNCHANGED Atomic!vars
BY DEF Atomic!vars, Replaced

LEMMA FailUnseen ==
    ASSUME IInv, NEW w \in Writer, pc[w] \in Steps, Fail(w)
    PROVE  UNCHANGED Atomic!vars
<1>1. Replaced' = Replaced
  BY DEF IInv, TypeOK, Fail, Goto, Replaced, Steps
<1>2. QED
  BY <1>1, UnseenStep DEF Fail

(* A step from one label to another, neither being the end.                *)
LEMMA GoUnseen ==
    ASSUME IInv, NEW w \in Writer, pc[w] \in Steps, NEW l \in Steps, Goto(w, l),
           UNCHANGED <<file, call, err, answer>>
    PROVE  UNCHANGED Atomic!vars
<1>1. Replaced' = Replaced
  BY DEF IInv, TypeOK, Goto, Replaced, Steps
<1>2. QED
  BY <1>1, UnseenStep

(* The end of a call is an answer that AtomicFile allows.                  *)
LEMMA LeaveIsAnswered ==
    ASSUME IInv, NEW w \in Writer, pc[w] # "idle", NEW left, Leave(w, left),
           NEW a \in {"none", "done", "error"},
           a = "done"  => w \in Replaced,
           a = "error" => w \notin Replaced,
           answer' = [answer EXCEPT ![w] = a]
    PROVE  Atomic!Answered(w, a)
<1>1. call[w] \in Call
  BY DEF IInv, TypeOK, Progress
<1>2. AskedOf(w) # NoFile
  BY <1>1, AskedIsFile, NoCallAssumption DEF AskedOf
<1>3. [u \in Writer |-> AskedOf(u)]' = [[u \in Writer |-> AskedOf(u)] EXCEPT ![w] = NoFile]
  BY DEF IInv, TypeOK, Leave, AskedOf
<1>4. Replaced' = Replaced \ {w}
  BY DEF IInv, TypeOK, Leave, Goto, Replaced
<1>5. QED
  BY <1>2, <1>3, <1>4 DEF Atomic!Answered, AskedOf, Replaced, Leave

(* Every step is a step of AtomicFile or not seen.                         *)
LEMMA NextAtOnce == IInv /\ [Next]_vars => [Atomic!Next]_(Atomic!vars)
<1> SUFFICES ASSUME IInv, [Next]_vars PROVE [Atomic!Next]_(Atomic!vars)
  OBVIOUS
<1>1. ASSUME NEW w \in Writer, Begin(w) PROVE Atomic!Next
  <2>1. PICK c \in Sensible : call' = [call EXCEPT ![w] = c]
                              /\ Goto(w, IF c.atomic THEN "tempfile" ELSE "directory")
    BY <1>1 DEF Begin
  <2>2. c \in Call /\ c # NoCall
    BY NoCallAssumption DEF Sensible
  <2>3. AskedOf(w) = NoFile
    BY <1>1 DEF IInv, Progress, Begin, AskedOf
  <2>4. [u \in Writer |-> AskedOf(u)]' = [[u \in Writer |-> AskedOf(u)] EXCEPT ![w] = Asked(c)]
    BY <2>1, <2>2 DEF IInv, TypeOK, AskedOf
  <2>5. Replaced' = Replaced
    BY <1>1, <2>1 DEF IInv, TypeOK, Begin, Goto, Replaced
  <2>6. Atomic!Ask(w, Asked(c))
    BY <1>1, <2>3, <2>4, <2>5 DEF Begin, Atomic!Ask, AskedOf, Replaced
  <2>7. QED
    BY <2>6 DEF Atomic!Next
<1>2. ASSUME NEW w \in Writer, Directory(w) PROVE UNCHANGED Atomic!vars
  <2>1. CASE Fail(w)
    BY <1>2, <2>1, FailUnseen DEF Directory, Steps
  <2>2. CASE Goto(w, "tempfile") /\ UNCHANGED <<file, call, err, answer>>
    BY <1>2, <2>2, GoUnseen DEF Directory, Steps
  <2>3. CASE Goto(w, "end") /\ err' = [err EXCEPT ![w] = TRUE] /\ UNCHANGED <<file, call, answer>>
    <3>1. Replaced' = Replaced
      BY <1>2, <2>3 DEF IInv, TypeOK, Directory, Goto, Replaced
    <3>2. QED
      BY <2>3, <3>1, UnseenStep
  <2>4. QED
    BY <1>2, <2>1, <2>2, <2>3 DEF Directory
<1>3. ASSUME NEW w \in Writer, TempFile(w) PROVE UNCHANGED Atomic!vars
  BY <1>3, FailUnseen, GoUnseen DEF TempFile, Steps
<1>4. ASSUME NEW w \in Writer, Write(w) PROVE UNCHANGED Atomic!vars
  BY <1>4, FailUnseen, GoUnseen DEF Write, Steps
<1>5. ASSUME NEW w \in Writer, Close(w) PROVE UNCHANGED Atomic!vars
  BY <1>5, FailUnseen, GoUnseen DEF Close, Steps
<1>6. ASSUME NEW w \in Writer, Chmod(w) PROVE UNCHANGED Atomic!vars
  <2>1. CASE Fail(w)
    BY <1>6, <2>1, FailUnseen DEF Chmod, Steps
  <2>2. CASE ~Fail(w)
    <3>1. (IF call[w].owned THEN "chown" ELSE "rename") \in Steps
      BY DEF Steps
    <3>2. QED
      BY <1>6, <2>2, <3>1, GoUnseen DEF Chmod, Steps
  <2>3. QED
    BY <2>1, <2>2
<1>7. ASSUME NEW w \in Writer, Chown(w) PROVE UNCHANGED Atomic!vars
  BY <1>7, FailUnseen, GoUnseen DEF Chown, Steps
<1>8. ASSUME NEW w \in Writer, Rename(w) PROVE Atomic!Next \/ UNCHANGED Atomic!vars
  <2>1. CASE Fail(w)
    BY <1>8, <2>1, FailUnseen DEF Rename, Steps
  <2>2. CASE ~Fail(w)
    <3>1. call[w] \in Call /\ call[w] # NoCall
      BY <1>8, NoCallAssumption DEF Rename, IInv, TypeOK, Progress
    <3>2. temp[w] = AskedOf(w)
      <4>1. /\ temp[w] \in File /\ temp[w].data = call[w].data
            /\ temp[w].part = "all" /\ temp[w].mode = "asked"
            /\ temp[w].owner = IF call[w].owned THEN "asked" ELSE "root"
        BY <1>8 DEF Rename, IInv, Progress
      <4>2. QED
        BY <3>1, <4>1 DEF File, AskedOf, Asked
    <3>3. Replaced' = Replaced \cup {w} /\ w \notin Replaced
      BY <1>8, <2>2 DEF IInv, TypeOK, Progress, Rename, Goto, Replaced
    <3>4. AskedOf(w) # NoFile
      BY <3>1, AskedIsFile DEF AskedOf
    <3>5. Atomic!Replace(w)
      BY <1>8, <2>2, <3>2, <3>3, <3>4 DEF Rename, Atomic!Replace, AskedOf, Replaced
    <3>6. QED
      BY <3>5 DEF Atomic!Next
  <2>3. QED
    BY <2>1, <2>2
<1>9. ASSUME NEW w \in Writer, End(w) PROVE Atomic!Next
  <2>1. \E left : Leave(w, left)
    BY <1>9 DEF End
  <2>2. CASE err[w]
    <3>1. answer' = [answer EXCEPT ![w] = "error"] /\ w \notin Replaced
      BY <1>9, <2>2 DEF End, Replaced
    <3>2. Atomic!Answered(w, "error")
      BY <1>9, <2>1, <3>1, LeaveIsAnswered DEF End
    <3>3. QED
      BY <3>2 DEF Atomic!Next, Atomic!Answer
  <2>3. CASE ~err[w]
    <3>1. answer' = [answer EXCEPT ![w] = "done"] /\ w \in Replaced
      BY <1>9, <2>3 DEF End, Replaced
    <3>2. Atomic!Answered(w, "done")
      BY <1>9, <2>1, <3>1, LeaveIsAnswered DEF End
    <3>3. QED
      BY <3>2 DEF Atomic!Next, Atomic!Answer
  <2>4. QED
    BY <2>2, <2>3
<1>10. ASSUME NEW w \in Writer, Kill(w) PROVE Atomic!Next
  <2>1. CASE answer[w] = "none"
    <3>1. answer' = [answer EXCEPT ![w] = "none"]
      BY <1>10, <2>1 DEF Kill, IInv, TypeOK
    <3>2. QED
      BY <1>10, <3>1, LeaveIsAnswered DEF Kill, Atomic!Next, Atomic!Answer
  <2>2. QED
    BY <1>10, <2>1 DEF Kill, IInv, Progress
<1>11. CASE UNCHANGED vars
  BY <1>11 DEF vars, Atomic!vars
<1>12. QED
  BY <1>1, <1>2, <1>3, <1>4, <1>5, <1>6, <1>7, <1>8, <1>9, <1>10, <1>11 DEF Next

(* A reader of the file never sees anything but what one call asked for,   *)
(* as a whole, and no caller is told otherwise.                            *)
THEOREM WritersImplementAtomicFile == Spec => ReplacesAtOnce
<1>1. Spec => []IInv
  BY CompleteBeforeRename
<1>2. QED
  BY InitAtOnce, NextAtOnce, <1>1, PTL DEF Spec, ReplacesAtOnce, Atomic!Spec

-----------------------------------------------------------------------------
LEMMA NextNoStrays == IInv /\ NoStrays /\ [Next]_vars => NoStrays'
<1> SUFFICES ASSUME IInv, NoStrays, [Next]_vars PROVE NoStrays'
  OBVIOUS
<1>1. ASSUME NEW w \in Writer, End(w) PROVE NoStrays'
  <2>1. CASE call[w].atomic
    <3>1. \A s \in Left(w, "remove") : s.by = "remove"
      BY DEF Left
    <3>2. QED
      BY <1>1, <2>1, <3>1 DEF End, Leave, Removes, NoStrays
  <2>2. CASE ~call[w].atomic
    <3>1. temp[w] = NoFile \/ err[w]
      BY <1>1 DEF End, IInv, Progress
    <3>2. \A s \in Left(w, "return") : ~s.atomic /\ s.err
      BY <2>2, <3>1 DEF Left, IInv, TypeOK
    <3>3. QED
      BY <1>1, <2>2, <3>2 DEF End, Leave, Removes, NoStrays
  <2>3. QED
    BY <2>1, <2>2
<1>2. ASSUME NEW w \in Writer, Kill(w) PROVE NoStrays'
  BY <1>2 DEF Kill, Leave, Left, NoStrays
<1>3. CASE strays' = strays
  BY <1>3 DEF NoStrays
<1>4. QED
  BY <1>1, <1>2, <1>3 DEF Next, Begin, Directory, TempFile, Write, Close, Chmod, Chown,
                          Rename, Fail, vars

(* No call that succeeds, and no WriteFileAtomic that gets to its os.Remove *)
(* and is obeyed, leaves a temporary file.                                 *)
THEOREM StraysHaveCause == Spec => []NoStrays
<1>1. Init => NoStrays
  BY DEF Init, NoStrays
<1>2. QED
  BY <1>1, NextNoStrays, CompleteBeforeRename, PTL DEF Spec
=============================================================================
