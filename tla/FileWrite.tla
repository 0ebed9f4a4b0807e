------------------------------ MODULE FileWrite ------------------------------
(***************************************************************************)
(* The two ways in which the programs replace a file: WriteFileAtomic of   *)
(* pkg/util, for authorized_keys, and WriteFile of pkg/writefile, for the  *)
(* files of write_files.  Both fill a temporary file next to the           *)
(* destination and rename it; they differ in the owner, the directory and  *)
(* in what becomes of the temporary file after an error.                   *)
(*                                                                         *)
(* Several processes replace one file; any call may fail and any process   *)
(* may be killed at any time.  Names of temporary files are never the same *)
(* (ioutil.TempFile: a random number and O_EXCL).                          *)
(***************************************************************************)
EXTENDS Naturals

CONSTANTS
    Writer,     \* processes
    Data,       \* contents
    NoFile,     \* no file
    NoCall      \* no call

Call == [atomic : BOOLEAN, owned : BOOLEAN, data : Data]

ASSUME NoFileAssumption ==
    NoFile \notin [data : Data, part : {"empty", "some", "all"},
                   mode : {"private", "asked"}, owner : {"root", "asked"}]
ASSUME NoCallAssumption == NoCall \notin Call

VARIABLES
    file,       \* the destination
    there,      \* its directory exists
    pc,         \* [Writer -> the call it makes next]
    call,       \* [Writer -> the call it executes]
    temp,       \* [Writer -> its temporary file]
    err,        \* [Writer -> the error it will return]
    answer,     \* [Writer -> how its last call ended]
    strays      \* the temporary files that nobody will remove

vars == <<file, there, pc, call, temp, err, answer, strays>>

File == [data : Data, part : {"empty", "some", "all"},
         mode : {"private", "asked"}, owner : {"root", "asked"}]
Stray == [atomic : BOOLEAN, err : BOOLEAN, by : {"kill", "remove", "return"}]

(* The file that a call is to put in place.                                *)
Asked(c) == [data |-> c.data, part |-> "all", mode |-> "asked",
             owner |-> IF c.owned THEN "asked" ELSE "root"]

Steps == {"directory", "tempfile", "write", "close", "chmod", "chown", "rename"}

TypeOK ==
    /\ file \in File \cup {NoFile}
    /\ there \in BOOLEAN
    /\ pc \in [Writer -> Steps \cup {"idle", "end"}]
    /\ call \in [Writer -> Call \cup {NoCall}]
    /\ temp \in [Writer -> File \cup {NoFile}]
    /\ err \in [Writer -> BOOLEAN]
    /\ answer \in [Writer -> {"none", "done", "error"}]
    /\ strays \subseteq Stray

(* WriteFileAtomic knows no owner.                                         *)
Sensible == {c \in Call : c.atomic => ~c.owned}

Init ==
    /\ there \in BOOLEAN
    /\ file \in {NoFile} \cup (IF there THEN {Asked(c) : c \in Sensible} ELSE {})
    /\ pc = [w \in Writer |-> "idle"]
    /\ call = [w \in Writer |-> NoCall]
    /\ temp = [w \in Writer |-> NoFile]
    /\ err = [w \in Writer |-> FALSE]
    /\ answer = [w \in Writer |-> "none"]
    /\ strays = {}

-----------------------------------------------------------------------------
Goto(w, label) == pc' = [pc EXCEPT ![w] = label]

(* Any call may fail; the function then returns, by way of its deferred    *)
(* calls.                                                                  *)
Fail(w) ==
    /\ Goto(w, "end")
    /\ err' = [err EXCEPT ![w] = TRUE]
    /\ UNCHANGED <<file, there, call, answer, strays>>

Begin(w) ==
    /\ pc[w] = "idle"
    /\ \E c \in Sensible :
          /\ call' = [call EXCEPT ![w] = c]
          /\ Goto(w, IF c.atomic THEN "tempfile" ELSE "directory")
    /\ answer' = [answer EXCEPT ![w] = "none"]
    /\ UNCHANGED <<file, there, temp, err, strays>>

(* DecodeContent, EnsureDirectoryExists, Permissions: the contents and the *)
(* permissions may not be understood, the directory is made if need be.    *)
Directory(w) ==
    /\ pc[w] = "directory"
    /\ \/ /\ there' = TRUE
          /\ Goto(w, "tempfile")
          /\ UNCHANGED <<file, call, temp, err, answer, strays>>
       \/ /\ there' = TRUE
          /\ Goto(w, "end")
          /\ err' = [err EXCEPT ![w] = TRUE]
          /\ UNCHANGED <<file, call, temp, answer, strays>>
       \/ Fail(w) /\ UNCHANGED temp

(* ioutil.TempFile.                                                        *)
TempFile(w) ==
    /\ pc[w] = "tempfile"
    /\ \/ /\ there
          /\ temp' = [temp EXCEPT ![w] = [data |-> call[w].data, part |-> "empty",
                                          mode |-> "private", owner |-> "root"]]
          /\ Goto(w, "write")
          /\ UNCHANGED <<file, there, call, err, answer, strays>>
       \/ Fail(w) /\ UNCHANGED temp

(* A disk that is full takes some of the data.                             *)
Write(w) ==
    /\ pc[w] = "write"
    /\ \/ /\ temp' = [temp EXCEPT ![w].part = "all"]
          /\ Goto(w, "close")
          /\ UNCHANGED <<file, there, call, err, answer, strays>>
       \/ \E p \in {"empty", "some"} :
              temp' = [temp EXCEPT ![w].part = p] /\ Fail(w)

(* Mutant of Close: the permissions are forgotten.                         *)
CloseUnchanged(w) ==
    /\ pc[w] = "close"
    /\ \/ Goto(w, "rename") /\ UNCHANGED <<file, there, call, err, answer, strays>>
       \/ Fail(w)
    /\ UNCHANGED temp

Close(w) ==
    /\ pc[w] = "close"
    /\ \/ Goto(w, "chmod") /\ UNCHANGED <<file, there, call, err, answer, strays>>
       \/ Fail(w)
    /\ UNCHANGED temp

Chmod(w) ==
    /\ pc[w] = "chmod"
    /\ \/ /\ temp' = [temp EXCEPT ![w].mode = "asked"]
          /\ Goto(w, IF call[w].owned THEN "chown" ELSE "rename")
          /\ UNCHANGED <<file, there, call, err, answer, strays>>
       \/ Fail(w) /\ UNCHANGED temp

(* Mutant of Chown: an owner there is not is no error.                     *)
ChownIgnored(w) ==
    /\ pc[w] = "chown"
    /\ \E done \in BOOLEAN :
          temp' = [temp EXCEPT ![w].owner = IF done THEN "asked" ELSE @]
    /\ Goto(w, "rename")
    /\ UNCHANGED <<file, there, call, err, answer, strays>>

Chown(w) ==
    /\ pc[w] = "chown"
    /\ \/ /\ temp' = [temp EXCEPT ![w].owner = "asked"]
          /\ Goto(w, "rename")
          /\ UNCHANGED <<file, there, call, err, answer, strays>>
       \/ Fail(w) /\ UNCHANGED temp

Rename(w) ==
    /\ pc[w] = "rename"
    /\ \/ /\ file' = temp[w]
          /\ temp' = [temp EXCEPT ![w] = NoFile]
          /\ Goto(w, "end")
          /\ UNCHANGED <<there, call, err, answer, strays>>
       \/ Fail(w) /\ UNCHANGED temp

-----------------------------------------------------------------------------
(* A process that ends its call, or that is killed, leaves the temporary   *)
(* file it has, if it has one.                                             *)
Left(w, by) ==
    IF temp[w] = NoFile THEN {}
    ELSE {[atomic |-> call[w].atomic, err |-> err[w], by |-> by]}

Leave(w, left) ==
    /\ strays' = strays \cup left
    /\ temp' = [temp EXCEPT ![w] = NoFile]
    /\ call' = [call EXCEPT ![w] = NoCall]
    /\ err'  = [err EXCEPT ![w] = FALSE]
    /\ Goto(w, "idle")
    /\ UNCHANGED <<file, there>>

(* Mutant of Removes: no deferred os.Remove.                               *)
RemovesMissing(w) == FALSE

(* Only WriteFileAtomic removes what it has made.                          *)
Removes(w) == call[w].atomic

(* The deferred os.Remove, whose own error nobody sees, and the return.    *)
End(w) ==
    /\ pc[w] = "end"
    /\ IF Removes(w) THEN Leave(w, {}) \/ Leave(w, Left(w, "remove"))
                     ELSE Leave(w, Left(w, "return"))
    /\ answer' = [answer EXCEPT ![w] = IF err[w] THEN "error" ELSE "done"]

Kill(w) ==
    /\ pc[w] # "idle"
    /\ Leave(w, Left(w, "kill"))
    /\ UNCHANGED answer

Next ==
    \E w \in Writer :
        \/ Begin(w) \/ Directory(w) \/ TempFile(w) \/ Write(w) \/ Close(w)
        \/ Chmod(w) \/ Chown(w) \/ Rename(w) \/ End(w) \/ Kill(w)

Spec == Init /\ [][Next]_vars

-----------------------------------------------------------------------------
(* How far a temporary file is when its writer is about to take a step.    *)
Progress(w) ==
    /\ pc[w] = "idle" <=> call[w] = NoCall
    /\ pc[w] \in {"idle", "directory", "tempfile"} => temp[w] = NoFile
    /\ pc[w] # "end" => ~err[w]
    /\ pc[w] = "chown" => call[w].owned
    /\ pc[w] # "idle" => answer[w] = "none"
    /\ pc[w] \in {"write", "close", "chmod", "chown", "rename"} =>
          /\ temp[w] \in File /\ temp[w].data = call[w].data
          /\ pc[w] # "write" => temp[w].part = "all"
          /\ pc[w] \in {"chown", "rename"} => temp[w].mode = "asked"
          /\ temp[w].owner = IF pc[w] = "rename" /\ call[w].owned THEN "asked" ELSE "root"
    /\ pc[w] = "end" /\ ~err[w] => temp[w] = NoFile

(* A writer that comes to os.Rename has a file that is all its call asked  *)
(* for: contents, permissions and owner.                                   *)
IInv == TypeOK /\ \A w \in Writer : Progress(w)

(* A temporary file is left behind only by a process that was killed, by a *)
(* WriteFileAtomic whose os.Remove failed, and by a WriteFile that returns *)
(* an error, never by a call that succeeds.                                *)
NoStrays ==
    \A s \in strays : s.by \in {"kill", "remove"} \/ (~s.atomic /\ s.err)

(* Every reader finds the file as it was or as one call asked for it, a    *)
(* call that succeeds has replaced it, and one that returns an error has   *)
(* left it as it was.                                                      *)
Atomic ==
    INSTANCE AtomicFile WITH
        Request  <- {Asked(c) : c \in Sensible},
        asked    <- [w \in Writer |-> IF call[w] = NoCall THEN NoFile ELSE Asked(call[w])],
        replaced <- {w \in Writer : pc[w] = "end" /\ ~err[w]}

ReplacesAtOnce == Atomic!Spec
=============================================================================
