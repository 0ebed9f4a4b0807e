--------------------------- MODULE EnterRootProofs ---------------------------
(***************************************************************************)
(* Proofs about EnterRoot, for any programs with anything next to them,    *)
(* any root in memory, any magic, any size of a block and any number of    *)
(* loop devices: its types, that the root is moved whole, that each pass   *)
(* enters its own image, and that no device stays attached for nothing.    *)
(***************************************************************************)
EXTENDS EnterRoot, TLAPS

Pcs == {"start", "dirs", "walk", "move", "ensure", "find", "scan", "attach", "launch",
        "mount", "pivot", "init", "up", "detach", "ended", "dead"}
Before  == {"start", "dirs", "walk", "move", "ensure", "find", "scan"}
Program == layout[pass].program

(* A container has one pass; the parent of a child is not process 1.       *)
Processes ==
    /\ pc \in Pcs /\ cmdline \in {None, "given"}
    /\ ~pid1 => pass = "initrd"
    /\ pc \in {"detach", "ended"} => ~pid1

(* The environment names what the pass wants, and never what an earlier    *)
(* one has left; the device it names has what is wanted, or the mount came *)
(* too late.                                                               *)
Named ==
    /\ pc \in Before \cup {"attach"} => env.device = None
    /\ pc \in Before => env.root = (IF pass = "initrd" THEN cmdline ELSE None)
    /\ pc = "init" => env.root = None /\ env.device = None
    /\ pc \in {"attach", "launch", "mount"} => env.root = Wanted
    /\ pc = "attach" => Wanted \in {"file", "self"}
    /\ pc \in {"launch", "mount"} /\ env.device # None =>
           /\ env.device = dev /\ Wanted \in {"file", "self"}
           /\ IF loop[dev] \in Attached
              THEN loop[dev].pass = pass /\ loop[dev].place = Wanted /\ loop[dev].offset = offset
              ELSE "slow" \in blame

(* What inFile has found so far ends where it looks; a plain program has   *)
(* nothing to be found in, and the magic after it is found from the start. *)
Searching ==
    /\ scan.at = NotFound
    /\ scan.found <= scan.offset /\ scan.offset + scan.left <= Len(File)
    /\ \A j \in 1..scan.found : File[scan.offset - scan.found + j] = Magic[j]
    /\ Plain(Program) =>
           /\ scan.offset < ImageStart(Program)
           /\ scan.offset >= Len(Program) => scan.found = scan.offset - Len(Program)

Scanning ==
    /\ pc = "scan" => Wanted = "self" /\ Searching
    /\ pc \in {"attach", "launch", "mount"} /\ Wanted = "self" /\ Plain(Program) =>
           offset = ImageStart(Program)

Entered ==
    /\ pc \in {"pivot", "init", "up"} => entered # None
    /\ pc = "detach" /\ entered = None /\ blame = {} => Wanted = "self" /\ ~Plain(Program)

(* A pass has one device, and the initrd's of process 1 is the first; once *)
(* the second pass has begun that clears itself.                           *)
Owned ==
    /\ \A d \in Loop : loop[d] \in Attached =>
           \/ loop[d].pass = pass /\ d = dev /\ pc \notin Before \cup {"attach"}
           \/ /\ pass = "disk" /\ loop[d].pass = "initrd"
              /\ blame = {} => loop[d].mounted /\ loop[d].auto
    /\ pid1 /\ pass = "initrd" =>
           \A d \in Loop : loop[d] = Cleared \/ (d = 0 /\ pc \notin Before \cup {"attach"})

IInv ==
    /\ TypeOK /\ Processes /\ RootMoved /\ Named /\ Scanning
    /\ EntersItsImage /\ Entered /\ Owned /\ DevicesFreed

-----------------------------------------------------------------------------
(* Types.                                                                  *)

LEMMA Devices ==
    /\ Cleared \notin Attached /\ Other \notin Attached /\ Cleared # Other
    /\ \A d \in Attached : /\ d.pass \in Pass /\ d.place \in Place /\ d.offset \in Nat
                           /\ d.auto \in BOOLEAN /\ d.mounted \in BOOLEAN
                           /\ \A b \in BOOLEAN : [d EXCEPT !.auto = b] \in Attached
                                              /\ [d EXCEPT !.mounted = b] \in Attached
<1>1. \A d \in Attached : DOMAIN d = {"pass", "place", "offset", "auto", "mounted"}
  BY DEF Attached
<1>2. DOMAIN Cleared = {"free"} /\ DOMAIN Other = {"free"}
  BY DEF Cleared, Other
<1>3. Cleared \notin Attached /\ Other \notin Attached
  BY <1>1, <1>2
<1>4. Cleared # Other
  BY DEF Cleared, Other
<1>5. QED
  BY <1>3, <1>4 DEF Attached

LEMMA ScanTypes ==
    /\ ScanStart \in ScanState
    /\ \A s \in ScanState :
           /\ \A n \in 1..Block : ScanRead(s, n) \in ScanState
           /\ \A b : s.left > 0 => ScanByte(s, b) \in ScanState
<1>1. Len(Magic) \in Nat \ {0}
  BY MagicAssumption
<1>2. ScanStart \in ScanState
  BY <1>1, BlockAssumption DEF ScanStart, ScanState, NotFound
<1>3. ASSUME NEW s \in ScanState, NEW n \in 1..Block
      PROVE  ScanRead(s, n) \in ScanState
  BY BlockAssumption DEF ScanRead, ScanState
<1>4. ASSUME NEW s \in ScanState, NEW b, s.left > 0
      PROVE  ScanByte(s, b) \in ScanState
  <2> DEFINE found == IF b = Magic[s.found + 1] THEN s.found + 1 ELSE 0
             more  == IF found = Len(Magic) THEN 0 ELSE found
             at    == IF found = Len(Magic) THEN s.offset + 1 ELSE NotFound
  <2>1. more \in 0..(Len(Magic) - 1) /\ at \in Nat /\ s.offset + 1 \in Nat
        /\ s.left - 1 \in 0..Block
    BY <1>1, <1>4, BlockAssumption DEF ScanState, NotFound
  <2>2. ScanByte(s, b) = [found |-> more, offset |-> s.offset + 1, left |-> s.left - 1, at |-> at]
    BY DEF ScanByte
  <2> HIDE DEF more, at
  <2>3. QED
    BY <2>1, <2>2 DEF ScanState
<1>5. QED
  BY <1>2, <1>3, <1>4

EnvType == [relocated : BOOLEAN, root : Place \cup {None}, device : Loop \cup {None}]

(* One more file in the tmpfs.                                             *)
LEMMA PutIs ==
    ASSUME NEW f \in DOMAIN tree, Put(f), tree \in Trees,
           DOMAIN new \subseteq DOMAIN tree, \A g \in DOMAIN new : new[g] \in Kind
    PROVE  DOMAIN new' \subseteq DOMAIN tree /\ \A g \in DOMAIN new' : new'[g] \in Kind
BY TreesAssumption DEF Put, Made, Kind, Range

LEMMA UnmountedIs ==
    ASSUME loop \in [Loop -> Attached \cup {Cleared, Other}], NEW devices
    PROVE  /\ Unmounted(devices) \in [Loop -> Attached \cup {Cleared, Other}]
           /\ \A d \in Loop :
                  \/ Unmounted(devices)[d] = loop[d]
                     /\ ~(d \in devices /\ loop[d] \in Attached /\ loop[d].mounted)
                  \/ /\ d \in devices /\ loop[d] \in Attached /\ loop[d].mounted
                     /\ IF loop[d].auto THEN Unmounted(devices)[d] = Cleared
                        ELSE Unmounted(devices)[d] = [loop[d] EXCEPT !.mounted = FALSE]
<1>1. ASSUME NEW d \in Loop
      PROVE  Unmounted(devices)[d] \in Attached \cup {Cleared, Other}
  BY <1>1, Devices DEF Unmounted
<1>2. QED
  BY <1>1 DEF Unmounted

Dev == Attached \cup {Cleared, Other}
Faults == {"call", "slow", "socket"}

LEMMA InitTypes ==
    ASSUME Init
    PROVE  TypeOK
<1>1. scan \in ScanState
  BY ScanTypes DEF Init
<1>2. env \in EnvType
  BY DEF Init, EnvType, Place
<1>3. loop \in [Loop -> Attached \cup {Cleared, Other}]
  BY DEF Init
<1>4. QED
  BY <1>1, <1>2, <1>3, LayoutsAssumption DEF Init, TypeOK, EnvType, Pass

LEMMA TypesKept ==
    ASSUME TypeOK, Named, [Next]_vars
    PROVE  TypeOK'
<1>0. /\ env \in EnvType /\ scan \in ScanState /\ loop \in [Loop -> Dev]
      /\ pass \in Pass /\ blame \subseteq Faults
  BY DEF TypeOK, EnvType, Dev, Faults
<1> DEFINE NewIs == DOMAIN new \subseteq DOMAIN tree /\ \A f \in DOMAIN new : new[f] \in Kind
           Env   == env' \in EnvType
           Scan  == scan' \in ScanState /\ offset' \in Nat
           Loops_ == loop' \in [Loop -> Dev] /\ dev' \in Loop \cup {None} /\ nodes' \subseteq Loop
                    /\ timer' \in Loop \cup {None}
           Rest  == /\ layout' \in [Pass -> LayoutType] /\ memory' \in BOOLEAN /\ pid1' \in BOOLEAN
                    /\ tree' \in Trees /\ old' \subseteq DOMAIN tree' /\ NewIs'
                    /\ pass' \in Pass /\ entered' \in Image \cup {None} /\ blame' \subseteq Faults
<1> SUFFICES Env /\ Scan /\ Loops_ /\ Rest
  BY DEF TypeOK, EnvType, Dev, Faults
<1> USE DEF given, rootVars, foundVars, loopVars, Goto, Die
<1>1. CASE Relocate \/ MoveRoot \/ Pivot
  <2>1. Env /\ UNCHANGED foundVars
    <3>1. UNCHANGED foundVars
      BY <1>1 DEF Relocate, MoveRoot, Pivot
    <3>2. \/ \E b \in BOOLEAN : env' = [env EXCEPT !.relocated = b]
          \/ env' = env \/ env' = [env EXCEPT !.root = None, !.device = None]
      BY <1>1 DEF Relocate, MoveRoot, Again, Pivot, Leave
    <3>3. QED
      BY <1>0, <3>1, <3>2 DEF EnvType
  <2>2. Loops_
    <3>1. UNCHANGED <<dev, nodes, timer>> /\ loop' \in {loop, Unmounted(Loop)}
      BY <1>1 DEF Relocate, MoveRoot, Pivot, Stop
    <3>2. Unmounted(Loop) \in [Loop -> Dev]
      BY <1>0, UnmountedIs DEF Dev
    <3>3. QED
      BY <1>0, <3>1, <3>2 DEF TypeOK
  <2>3. Rest
    BY <1>0, <1>1 DEF Relocate, MoveRoot, Pivot, TypeOK, Faults
  <2>4. QED
    BY <2>1, <2>2, <2>3 DEF TypeOK
<1>2. CASE CopyDirs \/ CopyFile \/ Clean
  <2>1. Env /\ Scan /\ Loops_
    BY <1>0, <1>2 DEF CopyDirs, Passes, CopyFile, Clean, TypeOK
  <2>2. CASE CopyDirs
    BY <1>0, <2>1, <2>2 DEF CopyDirs, Passes, TypeOK, Faults
  <2>3. CASE CopyFile
    <3>1. old' \subseteq DOMAIN tree' /\ blame' \subseteq Faults /\ UNCHANGED tree
      BY <1>0, <2>3 DEF CopyFile, TypeOK, Faults
    <3>2. UNCHANGED new \/ \E f \in DOMAIN tree : Put(f)
      BY <2>3 DEF CopyFile
    <3>3. NewIs'
      BY <3>1, <3>2, PutIs DEF TypeOK
    <3>4. QED
      BY <1>0, <2>1, <2>3, <3>1, <3>3 DEF CopyFile, TypeOK
  <2>4. CASE Clean
    BY <1>0, <2>1, <2>4 DEF Clean, TypeOK, Faults
  <2>5. QED
    BY <1>2, <2>2, <2>3, <2>4
<1>3. CASE EnsureLoop
  BY <1>0, <1>3 DEF EnsureLoop, TypeOK, Faults
<1>4. CASE FindRoot
  <2>1. Env
    <3>1. layout[pass].side \in Place \cup {"none"}
      BY <1>0 DEF TypeOK, LayoutType, Place
    <3>2. PICK root \in Place \cup {None} : env' \in {env, [env EXCEPT !.root = root]}
      <4>1. env.root \in Place \cup {None}
        BY <1>0 DEF EnvType
      <4>2. QED
        BY <1>4, <3>1, <4>1 DEF FindRoot
    <3>3. QED
      BY <1>0, <3>2 DEF EnvType
  <2>2. Scan
    BY <1>0, <1>4, ScanTypes DEF FindRoot, TypeOK
  <2>3. QED
    BY <1>0, <1>4, <2>1, <2>2 DEF FindRoot, TypeOK, Faults
<1>5. CASE Read \/ Look
  <2>1. Scan
    <3>1. scan' \in ScanState
      BY <1>0, <1>5, ScanTypes DEF Read, Look
    <3>2. offset' \in {offset, scan'.at}
      BY <1>5 DEF Read, Look
    <3>3. QED
      BY <3>1, <3>2 DEF ScanState, TypeOK
  <2>2. Env
    <3>1. env' \in {env, [env EXCEPT !.root = "self"]}
      BY <1>5 DEF Read, Look
    <3>2. QED
      BY <1>0, <3>1 DEF EnvType, Place
  <2>3. QED
    BY <1>0, <1>5, <2>1, <2>2 DEF Read, Look, TypeOK, Faults
<1>6. CASE Attach
  <2> DEFINE a == [pass |-> pass, place |-> env.root, offset |-> offset,
                   auto |-> FALSE, mounted |-> FALSE]
             d == Min({e \in Loop : loop[e] = Cleared})
  <2>1. a \in Attached
    BY <1>0, <1>6 DEF Attach, Named, Place, TypeOK, Attached
  <2> HIDE DEF a
  <2>2. \/ d \in Loop /\ loop' = [loop EXCEPT ![d] = a]
           /\ env' = [env EXCEPT !.device = d] /\ dev' = d /\ timer' = d
        \/ UNCHANGED <<loop, env, dev, timer>>
    BY <1>6 DEF Attach, a, TypeOK
  <2> HIDE DEF d
  <2>3. Loops_
    <3>1. a \in Dev /\ nodes' = nodes
      BY <1>6, <2>1 DEF Dev, Attach
    <3>2. QED
      BY <1>0, <2>2, <3>1 DEF TypeOK
  <2>4. Env
    BY <1>0, <2>2 DEF EnvType
  <2>5. QED
    BY <1>0, <1>6, <2>3, <2>4 DEF Attach, TypeOK, Faults
<1>7. CASE Timer
  <2>1. loop' \in [Loop -> Dev]
    BY <1>0, <1>7, Devices DEF Timer, Dev
  <2>2. QED
    BY <1>0, <1>7, <2>1 DEF Timer, TypeOK, Faults
<1>8. CASE Launch
  BY <1>0, <1>8 DEF Launch, TypeOK, Faults
<1>9. CASE MountImage
  <2>1. env.root = Wanted /\ Wanted \in Place
    BY <1>0, <1>9 DEF MountImage, Named, Wanted, Place, TypeOK, LayoutType
  <2>2. entered' \in Image \cup {None}
    BY <1>0, <1>9, <2>1, Devices DEF MountImage, HasImage, TypeOK, Image
  <2>3. loop' \in [Loop -> Dev]
    <3>1. Unmounted(Loop) \in [Loop -> Dev]
      BY <1>0, UnmountedIs DEF Dev
    <3>2. CASE Stop
      BY <1>0, <3>1, <3>2 DEF Stop
    <3>3. CASE HasImage(loop[env.device]) /\ loop' = [loop EXCEPT ![env.device].mounted = TRUE]
      BY <1>0, <3>3, Devices DEF HasImage, Dev
    <3>4. QED
      BY <1>0, <1>9, <3>2, <3>3 DEF MountImage
  <2>4. QED
    BY <1>0, <1>9, <2>2, <2>3 DEF MountImage, TypeOK, Faults
<1>10. CASE ToDisk
  <2>1. loop' \in [Loop -> Dev] /\ blame' \subseteq Faults
    BY <1>0, <1>10, Devices DEF ToDisk, LosetupD, Dev, Faults
  <2>2. QED
    BY <1>0, <1>10, <2>1 DEF ToDisk, TypeOK, Pass
<1>11. CASE BootUp \/ InitEnds
  <2>1. loop' \in [Loop -> Dev]
    BY <1>0, <1>11, UnmountedIs DEF BootUp, InitEnds, Dev
  <2>2. QED
    BY <1>0, <1>11, <2>1 DEF BootUp, InitEnds, TypeOK, Faults
<1>12. CASE Detach
  <2>1. loop' \in [Loop -> Dev]
    BY <1>0, <1>12 DEF Detach, Dev
  <2>2. QED
    BY <1>0, <1>12, <2>1 DEF Detach, TypeOK, Faults
<1>13. CASE UNCHANGED vars
  BY <1>0, <1>13 DEF vars, TypeOK
<1> HIDE DEF Env, Scan, Loops_, Rest
<1>14. QED
  BY <1>1, <1>2, <1>3, <1>4, <1>5, <1>6, <1>7, <1>8, <1>9, <1>10, <1>11, <1>12, <1>13 DEF Next

-----------------------------------------------------------------------------
(* The program, the magic and what comes after it.                         *)

LEMMA JoinedIs ==
    ASSUME NEW B, NEW p \in Seq(B), NEW m \in Seq(B), NEW x
    PROVE  /\ Len(p \o m \o <<x>>) = Len(p) + Len(m) + 1
           /\ \A i \in 1..Len(p) : (p \o m \o <<x>>)[i] = p[i] /\ (p \o m)[i] = p[i]
           /\ \A j \in 1..Len(m) : /\ (p \o m \o <<x>>)[Len(p) + j] = m[j]
                                   /\ (p \o m)[Len(p) + j] = m[j]
<1> DEFINE C == B \cup {x}
<1>1. p \in Seq(C) /\ m \in Seq(C) /\ <<x>> \in Seq(C) /\ Len(<<x>>) = 1
  OBVIOUS
<1> HIDE DEF C
<1>2. p \o m \in Seq(C) /\ Len(p \o m) = Len(p) + Len(m)
  BY <1>1
<1>3. Len(p \o m \o <<x>>) = Len(p) + Len(m) + 1
  BY <1>1, <1>2
<1>4. \A i \in 1..(Len(p) + Len(m)) : (p \o m \o <<x>>)[i] = (p \o m)[i]
  BY <1>1, <1>2
<1>5. \A i \in 1..Len(p) : (p \o m)[i] = p[i]
  OBVIOUS
<1>6. \A j \in 1..Len(m) : (p \o m)[Len(p) + j] = m[j]
  OBVIOUS
<1>7. QED
  BY <1>3, <1>4, <1>5, <1>6

LEMMA PartIs ==
    ASSUME NEW B, NEW p \in Seq(B), NEW m \in Seq(B), NEW i \in Nat, NEW n \in Nat,
           i + n <= Len(p), n <= Len(m), \A j \in 1..n : p[i + j] = m[j]
    PROVE  SubSeq(p, i + 1, i + n) = SubSeq(m, 1, n)
<1>1. Len(SubSeq(p, i + 1, i + n)) = n /\ SubSeq(p, i + 1, i + n) \in Seq(B)
  OBVIOUS
<1>2. Len(SubSeq(m, 1, n)) = n /\ SubSeq(m, 1, n) \in Seq(B)
  OBVIOUS
<1>3. \A j \in 1..n : SubSeq(p, i + 1, i + n)[j] = p[i + j]
  OBVIOUS
<1>4. \A j \in 1..n : SubSeq(m, 1, n)[j] = m[j]
  OBVIOUS
<1>5. QED
  BY <1>1, <1>2, <1>3, <1>4

LEMMA FileIs ==
    ASSUME TypeOK
    PROVE  /\ Program \in Seq(Byte) /\ Magic \in Seq(Byte)
           /\ Len(Program) \in Nat /\ Len(Magic) \in Nat \ {0}
           /\ ImageStart(Program) = Len(Program) + Len(Magic)
           /\ Len(File) = ImageStart(Program) + 1
           /\ \A i \in 1..Len(Program) : File[i] = Program[i]
           /\ \A j \in 1..Len(Magic) : File[Len(Program) + j] = Magic[j]
           /\ \A i \in 1..(Len(Program) + Len(Magic)) : (Program \o Magic)[i] = File[i]
<1>1. Program \in Seq(Byte) /\ Magic \in Seq(Byte) /\ Len(Magic) # 0
  BY MagicAssumption DEF TypeOK, Program, LayoutType
<1>2. File = Program \o Magic \o <<"image">>
  BY DEF File, Program
<1> HIDE DEF Program
<1>3. /\ Len(File) = Len(Program) + Len(Magic) + 1
      /\ \A i \in 1..Len(Program) : File[i] = Program[i] /\ (Program \o Magic)[i] = Program[i]
      /\ \A j \in 1..Len(Magic) : /\ File[Len(Program) + j] = Magic[j]
                                  /\ (Program \o Magic)[Len(Program) + j] = Magic[j]
  BY <1>1, <1>2, JoinedIs
<1>4. ASSUME NEW i \in 1..(Len(Program) + Len(Magic))
      PROVE  (Program \o Magic)[i] = File[i]
  <2>1. CASE i <= Len(Program)
    BY <1>1, <1>3, <2>1
  <2>2. CASE i > Len(Program)
    <3>1. i - Len(Program) \in 1..Len(Magic) /\ i = Len(Program) + (i - Len(Program))
      BY <1>1, <2>2
    <3>2. QED
      BY <1>3, <3>1
  <2>3. QED
    BY <1>1, <2>1, <2>2
<1>5. QED
  BY <1>1, <1>3, <1>4 DEF ImageStart

(* A plain program hides neither a magic nor the beginning of one that     *)
(* its end would be taken for.                                             *)
LEMMA PlainHidesNone ==
    ASSUME TypeOK, Plain(Program), NEW i \in Nat, NEW n \in 1..Len(Magic),
           i + n <= Len(Program), \A j \in 1..n : File[i + j] = Magic[j]
    PROVE  n # Len(Magic) /\ i + n # Len(Program)
<1>1. /\ Program \in Seq(Byte) /\ Magic \in Seq(Byte) /\ Len(Program) \in Nat
      /\ Len(Magic) \in Nat \ {0}
      /\ \A k \in 1..Len(Program) : File[k] = Program[k]
      /\ \A k \in 1..(Len(Program) + Len(Magic)) : (Program \o Magic)[k] = File[k]
  BY FileIs
<1> HIDE DEF Program, File
<1>2. ASSUME n = Len(Magic)
      PROVE  FALSE
  <2>1. i \in 0..(Len(Program) - 1)
    BY <1>1, <1>2
  <2>2. Program \o Magic \in Seq(Byte) /\ Len(Program \o Magic) = Len(Program) + Len(Magic)
    BY <1>1
  <2>3. \A j \in 1..n : (Program \o Magic)[i + j] = Magic[j]
    BY <1>1
  <2>4. SubSeq(Program \o Magic, i + 1, i + n) = SubSeq(Magic, 1, n)
    BY <1>1, <2>2, <2>3, PartIs
  <2>5. SubSeq(Magic, 1, Len(Magic)) = Magic
    BY <1>1
  <2>6. QED
    BY <1>2, <2>1, <2>4, <2>5 DEF Plain, Occurs
<1>3. ASSUME i + n = Len(Program)
      PROVE  FALSE
  <2>1. \A j \in 1..n : Program[i + j] = Magic[j]
    BY <1>1
  <2>2. SubSeq(Program, i + 1, i + n) = SubSeq(Magic, 1, n)
    BY <1>1, <2>1, PartIs
  <2>3. n <= Len(Program) /\ i + 1 = Len(Program) - n + 1 /\ n \in 1..Len(Magic)
    BY <1>1, <1>3
  <2>4. QED
    BY <1>3, <2>2, <2>3 DEF Plain
<1>4. QED
  BY <1>2, <1>3

-----------------------------------------------------------------------------
(* The environment and the devices.                                        *)

LEMMA ProcessesKept ==
    ASSUME Processes, [Next]_vars
    PROVE  Processes'
<1> USE DEF Processes, Pcs, given, Goto, Die
<1>1. CASE Relocate \/ CopyDirs \/ CopyFile \/ Clean \/ MoveRoot \/ EnsureLoop \/ FindRoot
           \/ Read \/ Look \/ Attach \/ Timer
  BY <1>1 DEF Relocate, CopyDirs, Passes, CopyFile, Clean, MoveRoot, EnsureLoop, FindRoot, Read,
              Look, Attach, Timer
<1>2. CASE Launch \/ MountImage \/ Pivot \/ ToDisk \/ BootUp \/ InitEnds \/ Detach
  BY <1>2 DEF Launch, MountImage, Pivot, Stop, ToDisk, BootUp, InitEnds, Detach
<1>3. CASE UNCHANGED vars
  BY <1>3 DEF vars
<1>4. QED
  BY <1>1, <1>2, <1>3 DEF Next

(* No file is deleted that is not in the tmpfs.                            *)
LEMMA RootKept ==
    ASSUME TypeOK, RootMoved, [Next]_vars
    PROVE  RootMoved'
<1>0. env \in EnvType /\ old \subseteq DOMAIN tree /\ DOMAIN new \subseteq DOMAIN tree
  BY DEF TypeOK, EnvType
<1> USE DEF given, rootVars, Goto, Die
<1>1. CASE Relocate
  <2>1. UNCHANGED <<tree, memory, old, new>> /\ ~env'.relocated
        /\ pc' \in {"dirs", "ensure", "dead"} /\ (pc' = "ensure" => env.relocated \/ ~memory)
    BY <1>0, <1>1 DEF Relocate, EnvType
  <2>2. QED
    BY <2>1 DEF RootMoved
<1>2. CASE CopyDirs
  BY <1>2 DEF CopyDirs, Passes, RootMoved
<1>3. CASE CopyFile
  <2>1. UNCHANGED <<tree, memory, env>> /\ pc' \in {"walk", "dead"} /\ pc = "walk"
    BY <1>3 DEF CopyFile
  <2>2. PICK f \in DOMAIN tree \ DOMAIN new :
            \/ Put(f) /\ old' \in {old, old \ {f}}
            \/ new' = new /\ old' = old
    BY <1>3 DEF CopyFile
  <2>3. CASE Put(f)
    <3>1. /\ f \in DOMAIN new' /\ new'[f] = Made(tree[f])
          /\ \A g \in DOMAIN new \ {f} : g \in DOMAIN new' /\ new'[g] = new[g]
      BY <2>3 DEF Put
    <3>2. DOMAIN new' = DOMAIN new \cup {f}
      BY <2>3 DEF Put
    <3>3. QED
      BY <2>1, <2>2, <3>1, <3>2 DEF RootMoved, Made
  <2>4. CASE new' = new /\ old' = old
    BY <2>1, <2>4 DEF RootMoved
  <2>5. QED
    BY <2>2, <2>3, <2>4
<1>4. CASE Clean
  BY <1>0, <1>4 DEF Clean, RootMoved
<1>5. CASE MoveRoot
  <2>1. UNCHANGED <<tree, memory, old, new>> /\ pc = "move" /\ pc' \in {"start", "dead"}
    BY <1>5 DEF MoveRoot
  <2>2. QED
    BY <1>0, <2>1 DEF RootMoved, TypeOK
<1>6. CASE ToDisk
  BY <1>6 DEF ToDisk, RootMoved
<1>7. CASE EnsureLoop \/ FindRoot \/ Read \/ Look \/ Attach \/ Timer \/ Launch \/ MountImage
           \/ Pivot \/ BootUp \/ InitEnds \/ Detach
  <2>1. UNCHANGED <<tree, memory, old, new>>
    BY <1>7 DEF EnsureLoop, FindRoot, Read, Look, Attach, Timer, Launch, MountImage,
                Pivot, BootUp, InitEnds, Detach
  <2>2. env'.relocated = env.relocated
    <3>1. CASE FindRoot
      <4>1. \E r : env' = [env EXCEPT !.root = r]
        <5>1. env = [env EXCEPT !.root = env.root]
          BY <1>0 DEF EnvType
        <5>2. QED
          BY <3>1, <5>1 DEF FindRoot
      <4>2. QED
        BY <1>0, <4>1 DEF EnvType
    <3>2. CASE Look \/ Attach
      BY <1>0, <3>2 DEF Look, Attach, EnvType
    <3>3. CASE Pivot
      BY <1>0, <3>3 DEF Pivot, Leave, EnvType
    <3>4. CASE EnsureLoop \/ Read \/ Timer \/ Launch \/ MountImage \/ BootUp \/ InitEnds \/ Detach
      BY <3>4 DEF EnsureLoop, Read, Timer, Launch, MountImage, BootUp, InitEnds, Detach
    <3>5. QED
      BY <1>7, <3>1, <3>2, <3>3, <3>4
  <2>3. pc' = pc \/ pc \notin {"start", "dirs", "walk", "dead"}
    BY <1>7 DEF EnsureLoop, FindRoot, Read, Look, Attach, Timer, Launch, MountImage,
                Pivot, BootUp, InitEnds, Detach
  <2>4. QED
    BY <2>1, <2>2, <2>3 DEF RootMoved
<1>8. CASE UNCHANGED vars
  BY <1>8 DEF vars, RootMoved
<1>9. QED
  BY <1>1, <1>2, <1>3, <1>4, <1>5, <1>6, <1>7, <1>8 DEF Next

(* What the device a pass has named holds.                                 *)
Holds(d) ==
    IF loop[d] \in Attached
    THEN loop[d].pass = pass /\ loop[d].place = Wanted /\ loop[d].offset = offset
    ELSE "slow" \in blame

LEMMA NamedKept ==
    ASSUME TypeOK, Processes, Named, Scanning, [Next]_vars
    PROVE  Named'
<1>0. env \in EnvType /\ pass \in Pass /\ layout \in [Pass -> LayoutType] /\ cmdline \in {None, "given"}
      /\ None \notin Place /\ loop \in [Loop -> Dev]
  BY NoneAssumption DEF TypeOK, EnvType, Processes, Dev
<1> USE DEF given, foundVars, loopVars, Goto, Die
<1> DEFINE Root == IF pass = "initrd" THEN cmdline ELSE None
<1>1. ASSUME UNCHANGED <<layout, cmdline, pass>>
      PROVE  Wanted' = Wanted /\ Root' = Root
  BY <1>1 DEF Wanted
<1>2. CASE Relocate \/ MoveRoot
  <2>1. pc \in Before /\ pc' \in Before \cup {"dead"} /\ UNCHANGED <<cmdline, pass>>
    BY <1>2 DEF Relocate, MoveRoot, Before
  <2>2. env'.root = env.root /\ env'.device = env.device
    BY <1>0, <1>2 DEF Relocate, MoveRoot, Again, EnvType
  <2>3. QED
    BY <2>1, <2>2 DEF Named, Before
<1>3. CASE CopyDirs \/ CopyFile \/ Clean \/ EnsureLoop \/ Read
  <2>1. pc \in Before /\ pc' \in Before \cup {"dead"} /\ UNCHANGED <<cmdline, pass, env>>
    BY <1>3 DEF CopyDirs, Passes, CopyFile, Clean, EnsureLoop, Read, Before
  <2>2. QED
    BY <2>1 DEF Named, Before
<1>4. CASE FindRoot
  <2> DEFINE root == IF env.root # None THEN env.root
                     ELSE IF layout[pass].side # "none" THEN layout[pass].side
                     ELSE None
  <2>0. UNCHANGED <<layout, cmdline, pass>> /\ env.root = Root /\ env.device = None
        /\ layout[pass].side \in {"none", "dir", "file"}
    BY <1>0, <1>4 DEF FindRoot, Named, Before, LayoutType
  <2>1. CASE /\ root # None /\ env' = [env EXCEPT !.root = root]
             /\ pc' = (IF root \in {"dir", "given"} THEN "launch" ELSE "attach")
    <3>1. env'.root = root /\ env'.device = None
      BY <1>0, <2>0, <2>1 DEF EnvType
    <3>2. root = Wanted /\ root \in {"dir", "file", "given"}
      BY <1>0, <2>0, <2>1 DEF Wanted, Place
    <3>3. Wanted' = Wanted
      BY <1>1, <2>0
    <3>4. QED
      BY <2>1, <3>1, <3>2, <3>3 DEF Named, Before
  <2>2. CASE UNCHANGED env /\ pc' \in {"scan", "dead"}
    BY <2>0, <2>2 DEF Named, Before
  <2>3. QED
    BY <1>4, <2>1, <2>2 DEF FindRoot
<1>5. CASE Look
  <2>1. UNCHANGED <<layout, cmdline, pass>> /\ Wanted = "self"
    BY <1>5 DEF Look, Scanning
  <2>2. CASE pc' = "scan" /\ env' = env
    BY <1>5, <2>1, <2>2 DEF Look, Named, Before
  <2>3. CASE pc' = "attach" /\ env' = [env EXCEPT !.root = "self"]
    <3>1. env'.root = "self" /\ env'.device = None
      BY <1>0, <1>5, <2>3 DEF Look, Named, Before, EnvType
    <3>2. QED
      BY <1>1, <2>1, <2>3, <3>1 DEF Named, Before
  <2>4. QED
    BY <1>5, <2>2, <2>3 DEF Look
<1>6. CASE Attach
  <2> DEFINE d == Min({e \in Loop : loop[e] = Cleared})
             a == [pass |-> pass, place |-> env.root, offset |-> offset,
                   auto |-> FALSE, mounted |-> FALSE]
  <2>1. UNCHANGED <<layout, cmdline, pass, offset>> /\ env.root = Wanted /\ env.device = None
        /\ Wanted \in {"file", "self"}
    BY <1>6 DEF Attach, Named
  <2>2. CASE pc' = "dead"
    BY <2>2 DEF Named, Before
  <2>3. CASE /\ pc' = "launch" /\ d \in nodes /\ loop' = [loop EXCEPT ![d] = a]
             /\ env' = [env EXCEPT !.device = d] /\ dev' = d
    <3>1. d \in Loop
      BY <2>3 DEF TypeOK
    <3>2. a \in Attached /\ a.pass = pass /\ a.place = Wanted /\ a.offset = offset
      BY <1>0, <2>1 DEF Attached, Place, TypeOK
    <3> HIDE DEF a, d
    <3>3. loop'[dev'] = a /\ env'.device = d /\ env'.root = env.root
      BY <1>0, <2>3, <3>1 DEF EnvType
    <3>4. Wanted' = Wanted
      BY <1>1, <2>1
    <3>5. QED
      BY <2>1, <2>3, <3>2, <3>3, <3>4 DEF Named, Before
  <2>4. QED
    BY <1>6, <2>2, <2>3 DEF Attach
<1>7. CASE Timer
  <2>1. UNCHANGED <<layout, cmdline, pass, env, pc, dev, offset>> /\ blame \subseteq blame'
        /\ timer \in Loop
    BY <1>7 DEF Timer, TypeOK
  <2>2. CASE loop' = loop
    BY <1>1, <2>1, <2>2 DEF Named
  <2>3. CASE loop[timer] \in Attached /\ loop' = [loop EXCEPT ![timer].auto = TRUE]
    <3> DEFINE a == [loop[timer] EXCEPT !.auto = TRUE]
    <3>0. /\ a \in Attached /\ a.pass = loop[timer].pass /\ a.place = loop[timer].place
          /\ a.offset = loop[timer].offset /\ loop' = [loop EXCEPT ![timer] = a]
      BY <2>3 DEF Attached
    <3> HIDE DEF a
    <3>1. \A d \in Loop : /\ loop'[d] \in Attached <=> loop[d] \in Attached
                          /\ loop[d] \in Attached => /\ loop'[d].pass = loop[d].pass
                                                     /\ loop'[d].place = loop[d].place
                                                     /\ loop'[d].offset = loop[d].offset
      BY <1>0, <2>1, <2>3, <3>0
    <3>2. ASSUME env.device # None, env.device = dev
          PROVE  dev \in Loop
      BY <1>0, <3>2 DEF EnvType
    <3>3. QED
      BY <1>1, <2>1, <3>1, <3>2 DEF Named
  <2>4. CASE loop' = [loop EXCEPT ![timer] = Cleared] /\ "slow" \in blame'
    <3>1. \A d \in Loop : loop'[d] = loop[d] \/ (d = timer /\ loop'[d] \notin Attached)
      BY <1>0, <2>1, <2>4, Devices
    <3>2. ASSUME env.device # None, env.device = dev
          PROVE  dev \in Loop
      BY <1>0, <3>2 DEF EnvType
    <3>3. QED
      BY <1>1, <2>1, <2>4, <3>1, <3>2 DEF Named
  <2>5. QED
    BY <1>7, <2>2, <2>3, <2>4 DEF Timer
<1>8. CASE Launch
  <2>1. UNCHANGED <<layout, cmdline, pass, env, dev, loop, offset>> /\ blame \subseteq blame'
        /\ pc' \in {"mount", "detach", "dead"} /\ pc = "launch"
    BY <1>8 DEF Launch
  <2>2. QED
    BY <1>1, <2>1 DEF Named, Before
<1>9. CASE MountImage \/ BootUp \/ InitEnds \/ Detach
  BY <1>9 DEF MountImage, Stop, BootUp, InitEnds, Detach, Named, Before
<1>10. CASE Pivot
  <2>1. CASE pc' = "init" /\ Leave
    BY <1>0, <2>1 DEF Leave, Named, Before, EnvType
  <2>2. CASE Stop
    BY <2>2 DEF Stop, Named, Before
  <2>3. QED
    BY <1>10, <2>1, <2>2 DEF Pivot
<1>11. CASE ToDisk
  <2>1. pc' = "start" /\ env' = env /\ pass' = "disk"
    BY <1>11 DEF ToDisk
  <2>2. env.root = None /\ env.device = None
    BY <1>11 DEF ToDisk, Named
  <2>3. QED
    BY <2>1, <2>2 DEF Named, Before
<1>12. CASE UNCHANGED vars
  BY <1>1, <1>12 DEF vars, Named
<1>13. QED
  BY <1>2, <1>3, <1>4, <1>5, <1>6, <1>7, <1>8, <1>9, <1>10, <1>11, <1>12 DEF Next

(* A pass enters what it wants, and stops without a fault only if it has   *)
(* looked for its image in vain.                                           *)
LEMMA EnteredKept ==
    ASSUME TypeOK, Processes, Named, Scanning, EntersItsImage, Entered, [Next]_vars
    PROVE  EntersItsImage' /\ Entered'
<1>0. /\ pass \in Pass /\ layout \in [Pass -> LayoutType] /\ None \notin Image
      /\ loop \in [Loop -> Dev] /\ env \in EnvType
  BY NoneAssumption DEF TypeOK, Dev, EnvType
<1> USE DEF given, foundVars, Goto, Die
<1>1. ASSUME UNCHANGED <<layout, cmdline, pass>>
      PROVE  Wanted' = Wanted /\ Program' = Program
  BY <1>1 DEF Wanted, Program
<1>2. CASE UNCHANGED <<layout, cmdline, pass, entered>> /\ blame \subseteq blame' /\ pc' = pc
  BY <1>1, <1>2 DEF EntersItsImage, Entered, Program
<1>3. CASE /\ UNCHANGED <<layout, cmdline, pass, entered>> /\ blame \subseteq blame'
           /\ pc' \notin {"pivot", "init", "up"}
           /\ pc' \in {"dead", "ended", "detach"} => blame' # {}
  BY <1>1, <1>3 DEF EntersItsImage, Entered, Program
<1>4. CASE Relocate \/ CopyDirs \/ CopyFile \/ Clean \/ MoveRoot \/ EnsureLoop \/ FindRoot
           \/ Look \/ Attach
  <2>1. /\ UNCHANGED <<layout, cmdline, pass, entered>> /\ blame \subseteq blame'
        /\ pc' \in {"dirs", "walk", "move", "start", "ensure", "find", "scan", "attach",
                    "launch", "dead"}
        /\ pc' = "dead" => blame' # {}
    BY <1>4 DEF Relocate, CopyDirs, Passes, CopyFile, Clean, MoveRoot, EnsureLoop, FindRoot,
                Look, Attach
  <2>2. QED
    BY <1>3, <2>1
<1>5. CASE Read
  <2>1. CASE scan.offset = Len(File) /\ pc' = "dead" /\ UNCHANGED blame
    <3>1. Wanted = "self" /\ Searching /\ UNCHANGED <<layout, cmdline, pass, entered>>
      BY <1>5 DEF Read, Scanning
    <3>2. Len(File) > ImageStart(Program)
      BY FileIs
    <3>3. ImageStart(Program) \in Nat /\ Len(File) \in Nat
      BY FileIs
    <3>4. ~Plain(Program)
      BY <2>1, <3>1, <3>2, <3>3 DEF Searching
    <3>5. QED
      BY <1>1, <2>1, <3>1, <3>4 DEF EntersItsImage, Entered, Program
  <2>2. CASE ~(scan.offset = Len(File) /\ pc' = "dead" /\ UNCHANGED blame)
    <3>1. /\ UNCHANGED <<layout, cmdline, pass, entered>> /\ blame \subseteq blame'
          /\ pc' \in {"scan", "dead"}
          /\ pc' = "dead" => blame' # {}
      BY <1>5, <2>2 DEF Read
    <3>2. QED
      BY <1>3, <3>1
  <2>3. QED
    BY <2>1, <2>2
<1>6. CASE Timer
  <2>1. UNCHANGED <<layout, cmdline, pass, entered>> /\ blame \subseteq blame' /\ pc' = pc
    BY <1>6 DEF Timer
  <2>2. QED
    BY <1>2, <2>1
<1>7. CASE Launch
  <2>1. /\ UNCHANGED <<layout, cmdline, pass, entered>> /\ blame \subseteq blame'
        /\ pc' \in {"mount", "detach", "dead"}
        /\ pc' \in {"detach", "dead"} => blame' # {}
    BY <1>7 DEF Launch
  <2>2. QED
    BY <1>3, <2>1
<1>8. CASE MountImage
  <2>0. UNCHANGED <<layout, cmdline, pass>> /\ env.root = Wanted /\ Wanted \in Place
    BY <1>0, <1>8 DEF MountImage, Named, Wanted, Processes, LayoutType, Place
  <2>1. CASE entered' = [pass |-> pass, place |-> Wanted] /\ pc' = "pivot"
    <3>1. entered' \in Image
      BY <1>0, <2>0, <2>1 DEF Image
    <3>2. QED
      BY <1>0, <1>1, <2>0, <2>1, <3>1 DEF EntersItsImage, Entered
  <2>2. CASE Stop /\ blame' = blame \cup {"call"} /\ UNCHANGED entered
    BY <1>3, <2>0, <2>2 DEF Stop
  <2>3. CASE env.device # None /\ ~HasImage(loop[env.device]) /\ Stop /\ UNCHANGED <<entered, blame>>
    <3>1. env.device = dev /\ Wanted \in {"file", "self"} /\ Holds(dev)
      BY <1>8, <2>3 DEF MountImage, Named, Holds
    <3>2. "slow" \in blame \/ (Wanted = "self" /\ ~Plain(Program))
      BY <1>8, <2>3, <3>1 DEF MountImage, Holds, HasImage, Scanning, Program
    <3>3. QED
      BY <1>1, <2>0, <2>3, <3>2 DEF EntersItsImage, Entered, Stop, Program
  <2>4. CASE env.device # None /\ HasImage(loop[env.device]) /\ pc' = "pivot"
             /\ entered' = [pass |-> loop[env.device].pass, place |-> loop[env.device].place]
    BY <1>8, <2>1, <2>4 DEF MountImage, Named, HasImage
  <2>5. QED
    BY <1>8, <2>0, <2>1, <2>2, <2>3, <2>4 DEF MountImage
<1>9. CASE Pivot
  <2>1. UNCHANGED <<layout, cmdline, pass, entered>> /\ entered # None
        /\ pc' \in {"init", "dead", "detach"}
    BY <1>9 DEF Pivot, Stop, Entered
  <2>2. QED
    BY <1>1, <2>1 DEF EntersItsImage, Entered
<1>10. CASE ToDisk
  BY <1>10 DEF ToDisk, EntersItsImage, Entered
<1>11. CASE BootUp \/ InitEnds
  <2>1. UNCHANGED <<layout, cmdline, pass, entered>> /\ entered # None
        /\ pc' \in {"up", "detach"}
    BY <1>11 DEF BootUp, InitEnds, Entered
  <2>2. QED
    BY <1>1, <2>1 DEF EntersItsImage, Entered
<1>12. CASE Detach
  <2>1. UNCHANGED <<layout, cmdline, pass, entered>> /\ pc = "detach" /\ pc' = "ended"
        /\ blame \subseteq blame'
    BY <1>12 DEF Detach
  <2>2. QED
    BY <1>1, <2>1 DEF EntersItsImage, Entered, Program
<1>13. CASE UNCHANGED vars
  <2>1. UNCHANGED <<layout, cmdline, pass, entered, blame, pc>>
    BY <1>13 DEF vars
  <2>2. QED
    BY <1>2, <2>1
<1>14. QED
  BY <1>4, <1>5, <1>6, <1>7, <1>8, <1>9, <1>10, <1>11, <1>12, <1>13 DEF Next

(* inFile: what is read is in the file; what has been found extends, or    *)
(* starts over, and in a plain program the image is where it is said to be.*)
LEMMA LookFinds ==
    ASSUME TypeOK, Searching, scan.left > 0, scan' = ScanByte(scan, File[scan.offset + 1]),
           UNCHANGED <<layout, pass>>
    PROVE  /\ scan'.at = NotFound => Searching'
           /\ scan'.at # NotFound /\ Plain(Program) => scan'.at = ImageStart(Program)
<1> DEFINE f == scan.found
           o == scan.offset
           b == File[o + 1]
           g == IF b = Magic[f + 1] THEN f + 1 ELSE 0
           M == Len(Magic)
           P == Len(Program)
<1>0. /\ M \in Nat \ {0} /\ P \in Nat /\ ImageStart(Program) = P + M
      /\ Len(File) = P + M + 1 /\ \A j \in 1..M : File[P + j] = Magic[j]
  BY FileIs
<1>1. /\ f \in 0..(M - 1) /\ o \in Nat /\ scan.left \in Nat \ {0} /\ f <= o
      /\ o + scan.left <= Len(File) /\ \A j \in 1..f : File[o - f + j] = Magic[j]
      /\ Plain(Program) => o < P + M /\ (o >= P => f = o - P)
  BY <1>0, BlockAssumption DEF TypeOK, ScanState, Searching
<1>2. /\ scan'.found = (IF g = M THEN 0 ELSE g) /\ scan'.offset = o + 1
      /\ scan'.left = scan.left - 1 /\ scan'.at = (IF g = M THEN o + 1 ELSE NotFound)
  BY DEF ScanByte
<1>3. g \in 0..M /\ g <= o + 1 /\ \A j \in 1..g : File[o + 1 - g + j] = Magic[j]
  <2>1. CASE b = Magic[f + 1]
    <3>1. ASSUME NEW j \in 1..(f + 1)
          PROVE  File[o + 1 - (f + 1) + j] = Magic[j]
      <4>1. o + 1 - (f + 1) + j = o - f + j
        BY <1>1
      <4>2. CASE j = f + 1
        <5>1. o - f + j = o + 1
          BY <1>1, <4>2
        <5>2. QED
          BY <2>1, <4>1, <4>2, <5>1
      <4>3. CASE j # f + 1
        <5>1. j \in 1..f
          BY <1>1, <4>3
        <5>2. QED
          BY <1>1, <4>1, <5>1
      <4>4. QED
        BY <4>2, <4>3
    <3>2. g = f + 1
      BY <2>1
    <3>3. f + 1 \in 0..M /\ f + 1 <= o + 1
      BY <1>0, <1>1
    <3> HIDE DEF g, f, o, M
    <3>4. QED
      BY <3>1, <3>2, <3>3
  <2>2. CASE b # Magic[f + 1]
    BY <1>0, <1>1, <2>2
  <2>3. QED
    BY <2>1, <2>2
<1>4. Program' = Program /\ File' = File
  BY DEF Program, File
<1>5. ASSUME Plain(Program), o < P
      PROVE  g # M /\ (o + 1 >= P => g = 0)
  <2> SUFFICES ASSUME g # 0
               PROVE  g # M /\ o + 1 # P
    BY <1>0, <1>1, <1>5
  <2>1. g \in 1..M /\ o + 1 - g \in Nat /\ (o + 1 - g) + g = o + 1 /\ o + 1 <= P
    <3>1. g \in 0..M /\ g <= o + 1 /\ M \in Nat /\ P \in Nat /\ o \in Nat /\ o < P /\ g # 0
      BY <1>0, <1>1, <1>3, <1>5
    <3> HIDE DEF g, o, M, P
    <3>2. QED
      BY <3>1
  <2> DEFINE i == o + 1 - g
  <2> HIDE DEF g, o, P, f, b
  <2>2. i \in Nat /\ i + g = o + 1 /\ \A j \in 1..g : File[i + j] = Magic[j]
    BY <1>3, <2>1
  <2> HIDE DEF i
  <2>3. i + g <= Len(Program)
    BY <2>1, <2>2 DEF P
  <2>4. g # Len(Magic) /\ i + g # Len(Program)
    BY <1>5, <2>1, <2>2, <2>3, PlainHidesNone
  <2>5. QED
    BY <2>2, <2>4 DEF P
<1>6. ASSUME Plain(Program), o >= P
      PROVE  g = o + 1 - P
  <2>1. f = o - P /\ P + (f + 1) = o + 1 /\ f + 1 \in 1..M
    BY <1>0, <1>1, <1>6
  <2>2. b = Magic[f + 1]
    BY <1>0, <2>1
  <2>3. QED
    BY <1>0, <1>1, <2>1, <2>2
<1> HIDE DEF g, b, f, o, P, M
<1>7. ASSUME scan'.at = NotFound
      PROVE  Searching'
  <2>1. g # M /\ scan'.found = g
    BY <1>1, <1>2, <1>7 DEF NotFound
  <2>2. /\ scan'.found <= scan'.offset /\ scan'.offset + scan'.left <= Len(File)
        /\ \A j \in 1..scan'.found : File[scan'.offset - scan'.found + j] = Magic[j]
    BY <1>0, <1>1, <1>2, <1>3, <2>1
  <2>3. ASSUME Plain(Program)
        PROVE  /\ scan'.offset < ImageStart(Program)
               /\ scan'.offset >= P => scan'.found = scan'.offset - P
    <3>1. CASE o < P
      BY <1>0, <1>1, <1>2, <1>5, <2>1, <2>3, <3>1
    <3>2. CASE o >= P
      BY <1>0, <1>1, <1>2, <1>3, <1>6, <2>1, <2>3, <3>2
    <3>3. QED
      BY <1>0, <1>1, <3>1, <3>2
  <2>4. QED
    BY <1>4, <1>7, <2>2, <2>3 DEF Searching, P
<1>8. ASSUME scan'.at # NotFound, Plain(Program)
      PROVE  scan'.at = ImageStart(Program)
  <2>1. g = M /\ scan'.at = o + 1
    BY <1>2, <1>8
  <2>2. o >= P
    BY <1>0, <1>1, <1>5, <1>8, <2>1
  <2>3. QED
    BY <1>0, <1>1, <1>6, <1>8, <2>1, <2>2
<1>9. QED
  BY <1>7, <1>8

LEMMA ScanningKept ==
    ASSUME TypeOK, Processes, Named, Scanning, [Next]_vars
    PROVE  Scanning'
<1> USE DEF given, foundVars, Goto, Die
<1>1. ASSUME UNCHANGED <<layout, cmdline, pass>>
      PROVE  Wanted' = Wanted /\ Program' = Program /\ File' = File
  BY <1>1 DEF Wanted, Program, File
<1>2. CASE pc' \notin {"scan", "attach", "launch", "mount"}
  BY <1>2 DEF Scanning
<1>3. CASE /\ UNCHANGED <<layout, cmdline, pass, scan, offset>>
           /\ pc' = "scan" => pc = "scan"
           /\ pc' \in {"attach", "launch", "mount"} => pc \in {"attach", "launch", "mount"}
  BY <1>1, <1>3 DEF Scanning, Searching
<1>4. CASE Relocate \/ CopyDirs \/ CopyFile \/ Clean \/ MoveRoot \/ EnsureLoop \/ MountImage
           \/ Pivot \/ ToDisk \/ BootUp \/ InitEnds \/ Detach
  <2>1. pc' \notin {"scan", "attach", "launch", "mount"}
    BY <1>4 DEF Relocate, CopyDirs, Passes, CopyFile, Clean, MoveRoot, EnsureLoop, MountImage,
                Pivot, Stop, ToDisk, BootUp, InitEnds, Detach
  <2>2. QED
    BY <1>2, <2>1
<1>5. CASE Attach \/ Timer \/ Launch
  <2>1. /\ UNCHANGED <<layout, cmdline, pass, scan, offset>>
        /\ pc' = "scan" => pc = "scan"
        /\ pc' \in {"attach", "launch", "mount"} => pc \in {"attach", "launch", "mount"}
    BY <1>5 DEF Attach, Timer, Launch
  <2>2. QED
    BY <1>3, <2>1
<1>6. CASE FindRoot
  <2>0. UNCHANGED <<layout, cmdline, pass>>
        /\ env.root = (IF pass = "initrd" THEN cmdline ELSE None)
        /\ layout[pass].side \in {"none", "dir", "file"} /\ cmdline \in {None, "given"}
    BY <1>6 DEF FindRoot, Named, Before, LayoutType, TypeOK, Processes
  <2>1. CASE pc' = "scan" /\ scan' = ScanStart /\ env.root = None /\ layout[pass].side = "none"
    <3>1. Wanted = "self"
      BY <2>0, <2>1 DEF Wanted
    <3>2. Len(File) \in Nat /\ ImageStart(Program) \in Nat \ {0} /\ Len(Program) \in Nat
      BY FileIs
    <3>3. scan'.found = 0 /\ scan'.offset = 0 /\ scan'.left = 0 /\ scan'.at = NotFound
      BY <2>1 DEF ScanStart
    <3>4. Searching'
      BY <1>1, <2>0, <3>2, <3>3 DEF Searching
    <3>5. QED
      BY <1>1, <2>0, <2>1, <3>1, <3>4 DEF Scanning
  <2>2. CASE env.root # None \/ layout[pass].side # "none"
    <3>1. Wanted # "self" /\ pc' # "scan"
      <4>1. pc' # "scan"
        BY <1>6, <2>0, <2>2, NoneAssumption DEF FindRoot, Place
      <4>2. QED
        BY <2>0, <2>2, <4>1 DEF Wanted
    <3>2. QED
      BY <1>1, <2>0, <3>1 DEF Scanning
  <2>3. CASE pc' = "dead"
    BY <1>2, <2>3
  <2>4. QED
    BY <1>6, <2>1, <2>2, <2>3 DEF FindRoot
<1>7. CASE Read
  <2>0. UNCHANGED <<layout, cmdline, pass>> /\ Wanted = "self" /\ Searching
    BY <1>7 DEF Read, Scanning
  <2>1. CASE /\ \E n \in 1..Block : scan.offset + n <= Len(File) /\ scan' = ScanRead(scan, n)
             /\ pc' = pc
    <3>1. PICK n \in 1..Block : scan.offset + n <= Len(File) /\ scan' = ScanRead(scan, n)
      BY <2>1
    <3>2. /\ scan'.found = scan.found /\ scan'.offset = scan.offset
          /\ scan'.left = n /\ scan'.at = scan.at
      BY <3>1 DEF ScanRead, TypeOK, ScanState
    <3>3. Searching'
      BY <1>1, <2>0, <3>1, <3>2 DEF Searching
    <3>4. pc' = "scan"
      BY <1>7, <2>1 DEF Read
    <3>5. QED
      BY <1>1, <2>0, <3>3, <3>4 DEF Scanning
  <2>2. CASE pc' = "dead"
    BY <1>2, <2>2
  <2>3. QED
    BY <1>7, <2>1, <2>2 DEF Read
<1>8. CASE Look
  <2>0. /\ UNCHANGED <<layout, cmdline, pass>> /\ Wanted = "self" /\ Searching /\ scan.left > 0
        /\ scan' = ScanByte(scan, File[scan.offset + 1])
    BY <1>8 DEF Look, Scanning
  <2>1. /\ scan'.at = NotFound => Searching'
        /\ scan'.at # NotFound /\ Plain(Program) => scan'.at = ImageStart(Program)
    BY <2>0, LookFinds
  <2>2. CASE scan'.at = NotFound /\ pc' = "scan"
    BY <1>1, <2>0, <2>1, <2>2 DEF Scanning
  <2>3. CASE scan'.at # NotFound /\ pc' = "attach" /\ offset' = scan'.at
    BY <1>1, <2>0, <2>1, <2>3 DEF Scanning
  <2>4. QED
    BY <1>8, <2>2, <2>3 DEF Look
<1>9. CASE UNCHANGED vars
  <2>1. UNCHANGED <<layout, cmdline, pass, scan, offset, pc>>
    BY <1>9 DEF vars
  <2>2. QED
    BY <1>3, <2>1
<1>10. QED
  BY <1>4, <1>5, <1>6, <1>7, <1>8, <1>9 DEF Next

-----------------------------------------------------------------------------
(* The devices.                                                            *)

Late == pc \notin Before \cup {"attach"}

LEMMA FirstOfAll ==
    ASSUME Loop # {}
    PROVE  0 \in Loop /\ Min(Loop) = 0
<1>1. 0 \in Loop /\ \A d \in Loop : d \in Nat
  BY LoopAssumption DEF Loop
<1>2. \A d \in Loop : 0 <= d
  BY <1>1
<1>3. ASSUME NEW m \in Loop, \A d \in Loop : m <= d
      PROVE  m = 0
  BY <1>1, <1>3
<1>4. QED
  BY <1>1, <1>2, <1>3 DEF Min

LEMMA OwnedKept ==
    ASSUME TypeOK, Processes, Named, Owned, [Next]_vars
    PROVE  Owned'
<1>0. /\ pass \in Pass /\ loop \in [Loop -> Dev] /\ timer \in Loop \cup {None}
      /\ env.device \in Loop \cup {None}
  BY DEF TypeOK, Dev
<1> USE DEF given, loopVars, Goto, Die
<1>1. CASE UNCHANGED <<loop, pass, dev, pid1>> /\ blame \subseteq blame' /\ (Late => Late')
  BY <1>1 DEF Owned, Late
<1>2. CASE Relocate \/ CopyDirs \/ CopyFile \/ Clean \/ MoveRoot \/ EnsureLoop \/ FindRoot
           \/ Read \/ Look \/ Launch
  <2>1. UNCHANGED <<loop, pass, dev, pid1>> /\ blame \subseteq blame' /\ (Late => Late')
    BY <1>2 DEF Relocate, CopyDirs, Passes, CopyFile, Clean, MoveRoot, EnsureLoop, FindRoot,
                Read, Look, Launch, Late, Before
  <2>2. QED
    BY <1>1, <2>1
<1>3. CASE Attach
  <2> DEFINE free == {d \in Loop : loop[d] = Cleared}
             a == [pass |-> pass, place |-> env.root, offset |-> offset,
                   auto |-> FALSE, mounted |-> FALSE]
             m == Min(free)
  <2>0. ~Late /\ UNCHANGED <<pass, pid1>>
    BY <1>3 DEF Attach, Late
  <2>1. CASE pc' = "dead" /\ UNCHANGED <<loop, dev>> /\ blame \subseteq blame'
    BY <1>1, <2>0, <2>1
  <2>2. CASE /\ free # {} /\ m \in nodes /\ UNCHANGED blame
             /\ loop' = [loop EXCEPT ![m] = a] /\ dev' = m /\ pc' = "launch"
    <3>1. m \in Loop /\ Late' /\ a \in Attached /\ a.pass = pass
      BY <1>0, <1>3, <2>2 DEF TypeOK, Late, Before, Attach, Named, Place, Attached
    <3>2. ASSUME pid1, pass = "initrd"
          PROVE  m = 0
      <4>1. \A d \in Loop : loop[d] = Cleared
        BY <2>0, <3>2 DEF Owned, Late
      <4>2. free = Loop
        BY <4>1
      <4>3. QED
        BY <2>2, <4>2, FirstOfAll
    <3>3. \A d \in Loop : IF d = m THEN loop'[d] = a ELSE loop'[d] = loop[d]
      BY <1>0, <2>2, <3>1
    <3> HIDE DEF free, a, m
    <3>4. QED
      BY <2>0, <2>2, <3>1, <3>2, <3>3 DEF Owned, Late
  <2>3. QED
    BY <1>3, <2>1, <2>2 DEF Attach
<1>4. CASE Timer
  <2>0. UNCHANGED <<pass, pid1, pc, dev>> /\ blame \subseteq blame' /\ timer \in Loop
    BY <1>0, <1>4 DEF Timer
  <2>1. CASE loop' = loop
    BY <1>1, <2>0, <2>1 DEF Late
  <2>2. CASE /\ loop[timer] \in Attached /\ loop[timer].mounted
             /\ loop' = [loop EXCEPT ![timer].auto = TRUE]
    <3> DEFINE a == [loop[timer] EXCEPT !.auto = TRUE]
    <3>1. a \in Attached /\ a.pass = loop[timer].pass /\ a.auto /\ a.mounted
      BY <2>2 DEF Attached
    <3>2. \A d \in Loop : IF d = timer THEN loop'[d] = a ELSE loop'[d] = loop[d]
      BY <1>0, <2>0, <2>2
    <3>3. loop[timer] # Cleared
      BY <2>2, Devices
    <3> HIDE DEF a
    <3>4. QED
      BY <2>0, <2>2, <3>1, <3>2, <3>3 DEF Owned
  <2>3. CASE loop' = [loop EXCEPT ![timer] = Cleared]
    <3>1. \A d \in Loop : loop'[d] = loop[d] \/ loop'[d] = Cleared
      BY <1>0, <2>0, <2>3
    <3>2. QED
      BY <2>0, <3>1, Devices DEF Owned
  <2>4. QED
    BY <1>4, <2>1, <2>2, <2>3 DEF Timer
<1>5. ASSUME NEW devices, loop' = Unmounted(devices), UNCHANGED <<pass, pid1, dev, blame>>, Late',
             \A d \in devices : d \in Loop /\ loop[d] \in Attached =>
                 loop[d].pass = pass \/ (blame = {} => loop[d].auto)
      PROVE  Owned'
  <2>1. ASSUME NEW d \in Loop
        PROVE  \/ loop'[d] = loop[d] \/ loop'[d] = Cleared
               \/ /\ d \in devices /\ loop[d] \in Attached /\ ~loop[d].auto
                  /\ loop'[d] \in Attached /\ loop'[d].pass = loop[d].pass
    <3> DEFINE a == [loop[d] EXCEPT !.mounted = FALSE]
    <3>1. loop[d] \in Attached => a \in Attached /\ a.pass = loop[d].pass
      BY DEF Attached
    <3>2. \/ loop'[d] = loop[d]
          \/ /\ d \in devices /\ loop[d] \in Attached
             /\ IF loop[d].auto THEN loop'[d] = Cleared ELSE loop'[d] = a
      BY <1>0, <1>5, UnmountedIs DEF Dev
    <3> HIDE DEF a
    <3>3. QED
      BY <3>1, <3>2
  <2>2. QED
    BY <1>5, <2>1, Devices DEF Owned, Late
<1>6. ASSUME Stop, UNCHANGED <<pass, pid1, dev>>, pc \in {"mount", "pivot"}, blame \subseteq blame'
      PROVE  Owned'
  <2>0. Late /\ Late'
    BY <1>6 DEF Stop, Late, Before
  <2>1. CASE pid1
    BY <1>1, <1>6, <2>0, <2>1 DEF Stop
  <2>2. CASE ~pid1
    <3>1. pass = "initrd"
      BY <2>2 DEF Processes
    <3>2. ASSUME NEW d \in Loop
          PROVE  loop'[d] \in Attached => loop[d] \in Attached /\ loop'[d].pass = loop[d].pass
      <4>1. CASE loop[d] \in Attached /\ loop'[d] = [loop[d] EXCEPT !.mounted = FALSE]
        BY <4>1 DEF Attached
      <4>2. QED
        BY <1>0, <1>6, <2>2, <4>1, UnmountedIs, Devices DEF Dev, Stop
    <3>3. QED
      BY <1>6, <2>0, <2>2, <3>1, <3>2 DEF Owned, Late
  <2>3. QED
    BY <2>1, <2>2
<1>7. CASE MountImage
  <2>0. UNCHANGED <<pass, pid1, dev>> /\ pc = "mount" /\ blame \subseteq blame'
    BY <1>7 DEF MountImage
  <2>1. CASE Stop
    BY <1>6, <2>0, <2>1
  <2>2. CASE pc' = "pivot" /\ loop' = loop
    BY <1>1, <2>0, <2>2 DEF Late, Before
  <2>3. CASE /\ env.device # None /\ HasImage(loop[env.device]) /\ pc' = "pivot"
             /\ loop' = [loop EXCEPT ![env.device].mounted = TRUE]
    <3> DEFINE e == env.device
               a == [loop[e] EXCEPT !.mounted = TRUE]
    <3>1. e \in Loop /\ loop[e] \in Attached /\ loop' = [loop EXCEPT ![e] = a]
      BY <1>0, <2>3 DEF HasImage
    <3>2. a \in Attached /\ a.pass = loop[e].pass /\ a.auto = loop[e].auto /\ a.mounted
      BY <3>1 DEF Attached
    <3>3. \A d \in Loop : IF d = e THEN loop'[d] = a ELSE loop'[d] = loop[d]
      BY <1>0, <3>1
    <3>4. Late /\ Late' /\ loop[e] # Cleared
      BY <2>0, <2>3, <3>1, Devices DEF Late, Before
    <3> HIDE DEF a, e
    <3>5. QED
      BY <2>0, <3>1, <3>2, <3>3, <3>4 DEF Owned, Late
  <2>4. QED
    BY <1>7, <2>1, <2>2, <2>3 DEF MountImage
<1>8. CASE Pivot
  <2>0. UNCHANGED <<pass, pid1, dev>> /\ pc = "pivot" /\ blame \subseteq blame'
    BY <1>8 DEF Pivot
  <2>1. CASE pc' = "init" /\ UNCHANGED loop
    BY <1>1, <2>0, <2>1 DEF Late, Before
  <2>2. QED
    BY <1>6, <1>8, <2>0, <2>1 DEF Pivot
<1>9. CASE ToDisk
  <2>0. /\ pid1 /\ pass = "initrd" /\ pass' = "disk" /\ UNCHANGED dev
        /\ \A d \in Loop : loop[d] = Cleared \/ d = 0
        /\ \A d \in Loop : loop[d] \in Attached => loop[d].pass = "initrd"
    BY <1>9 DEF ToDisk, Owned
  <2>1. ASSUME NEW d \in Loop, loop'[d] \in Attached
        PROVE  loop'[d].pass = "initrd" /\ (blame' = {} => loop'[d].mounted /\ loop'[d].auto)
    <3>0. d = 0 \/ loop[d] = Cleared
      BY <2>0
    <3>1. CASE blame' = blame \cup {"call"} /\ UNCHANGED loop
      BY <2>0, <2>1, <3>1
    <3>2. CASE loop[0] \notin Attached /\ UNCHANGED loop
      BY <2>1, <3>0, <3>2, Devices
    <3>3. CASE /\ loop[0] \in Attached
               /\ loop' = [loop EXCEPT ![0] = IF @.mounted THEN [@ EXCEPT !.auto = TRUE] ELSE Cleared]
      <4>1. d = 0
        BY <1>0, <2>1, <3>0, <3>3, Devices
      <4>2. loop'[d] = IF loop[0].mounted THEN [loop[0] EXCEPT !.auto = TRUE] ELSE Cleared
        BY <1>0, <3>3, <4>1
      <4>3. loop[0].mounted /\ loop'[d] = [loop[0] EXCEPT !.auto = TRUE]
        BY <2>1, <4>2, Devices
      <4>4. loop'[d].pass = loop[0].pass /\ loop'[d].mounted /\ loop'[d].auto
        BY <3>3, <4>3 DEF Attached
      <4>5. QED
        BY <2>0, <3>3, <4>1, <4>4
    <3>4. QED
      BY <1>9, <3>1, <3>2, <3>3 DEF ToDisk, LosetupD
  <2>2. QED
    BY <2>0, <2>1 DEF Owned
<1>10. CASE BootUp
  <2> DEFINE D == {d \in Loop : loop[d] \in Attached /\ loop[d].pass # pass}
  <2>1. loop' = Unmounted(D) /\ UNCHANGED <<pass, pid1, dev, blame>> /\ Late'
    BY <1>10 DEF BootUp, Late, Before
  <2>2. \A d \in D : blame = {} => loop[d].auto
    BY DEF Owned
  <2>3. QED
    BY <1>5, <2>1, <2>2
<1>11. CASE InitEnds
  <2>1. loop' = Unmounted(Loop) /\ UNCHANGED <<pass, pid1, dev, blame>> /\ Late' /\ ~pid1
    BY <1>11 DEF InitEnds, Late, Before
  <2>2. \A d \in Loop : loop[d] \in Attached => loop[d].pass = pass
    BY <2>1 DEF Owned, Processes
  <2>3. QED
    BY <1>5, <2>1, <2>2
<1>12. CASE Detach
  <2>1. UNCHANGED <<pass, pid1, dev>> /\ Late /\ Late' /\ blame \subseteq blame'
    BY <1>12 DEF Detach, Late, Before
  <2>2. \A d \in Loop : loop'[d] = loop[d] \/ loop'[d] = Cleared
    BY <1>0, <1>12 DEF Detach
  <2>3. QED
    BY <2>1, <2>2, Devices DEF Owned, Late
<1>13. CASE UNCHANGED vars
  BY <1>1, <1>13 DEF vars, Late
<1>14. QED
  BY <1>2, <1>3, <1>4, <1>7, <1>8, <1>9, <1>10, <1>11, <1>12, <1>13 DEF Next

LEMMA FreedKept ==
    ASSUME TypeOK, Processes, Owned, DevicesFreed, [Next]_vars
    PROVE  DevicesFreed'
<1>0. loop \in [Loop -> Dev] /\ timer \in Loop \cup {None}
  BY DEF TypeOK, Dev
<1> USE DEF given, loopVars, Goto, Die
<1>1. CASE pc' \notin {"up", "ended"}
  BY <1>1 DEF DevicesFreed
<1>2. CASE BootUp
  <2> DEFINE D == {d \in Loop : loop[d] \in Attached /\ loop[d].pass # pass}
  <2>0. loop' = Unmounted(D) /\ pass' = pass /\ blame' = blame /\ pc' = "up"
    BY <1>2 DEF BootUp
  <2>1. ASSUME NEW d \in Loop, loop'[d] \in Attached, blame = {}
        PROVE  loop'[d].pass = pass
    <3>1. d \notin D
      <4>1. ASSUME d \in D
            PROVE  loop[d] \in Attached /\ loop[d].mounted /\ loop[d].auto
        BY <2>1, <4>1 DEF Owned
      <4>2. ASSUME d \in D
            PROVE  loop'[d] = Cleared
        <5>1. \/ d \notin D \/ loop[d] \notin Attached \/ ~loop[d].mounted
              \/ IF loop[d].auto THEN loop'[d] = Cleared
                 ELSE loop'[d] = [loop[d] EXCEPT !.mounted = FALSE]
          BY <1>0, <2>0, UnmountedIs DEF Dev
        <5>2. QED
          BY <4>1, <4>2, <5>1
      <4>3. QED
        BY <2>1, <4>2, Devices
    <3>2. loop'[d] = loop[d]
      BY <1>0, <2>0, <3>1, UnmountedIs DEF Dev
    <3>3. QED
      BY <2>1, <3>1, <3>2
  <2>2. QED
    BY <2>0, <2>1 DEF DevicesFreed
<1>3. CASE Timer
  <2>0. UNCHANGED <<pass, pc>> /\ blame \subseteq blame' /\ timer \in Loop
    BY <1>0, <1>3 DEF Timer
  <2>1. ASSUME NEW d \in Loop, loop'[d] \in Attached
        PROVE  loop[d] \in Attached /\ loop'[d].pass = loop[d].pass
    <3>1. CASE loop' = loop
      BY <2>1, <3>1
    <3>2. CASE loop[timer] \in Attached /\ loop' = [loop EXCEPT ![timer].auto = TRUE]
      <4>1. [loop[timer] EXCEPT !.auto = TRUE].pass = loop[timer].pass
        BY <3>2 DEF Attached
      <4>2. \A c \in Loop : IF c = timer THEN loop'[c] = [loop[c] EXCEPT !.auto = TRUE]
                            ELSE loop'[c] = loop[c]
        BY <1>0, <2>0, <3>2
      <4>3. QED
        BY <2>1, <3>2, <4>1, <4>2
    <3>3. CASE loop' = [loop EXCEPT ![timer] = Cleared]
      BY <1>0, <2>0, <2>1, <3>3, Devices
    <3>4. QED
      BY <1>3, <3>1, <3>2, <3>3 DEF Timer
  <2>2. QED
    BY <2>0, <2>1 DEF DevicesFreed
<1>4. CASE Detach
  <2>1. pass = "initrd"
    BY <1>4 DEF Detach, Processes
  <2>2. \A d \in Loop : loop[d] \in Attached => d = dev
    BY <2>1 DEF Owned
  <2>3. ASSUME NEW d \in Loop, loop'[d] \in Attached
        PROVE  blame' # {}
    <3>1. CASE loop' = [c \in Loop |-> IF c = dev /\ loop[c] \in Attached THEN Cleared ELSE loop[c]]
      BY <2>2, <2>3, <3>1, Devices
    <3>2. QED
      BY <1>4, <3>1 DEF Detach
  <2>4. pc' = "ended"
    BY <1>4 DEF Detach
  <2>5. QED
    BY <2>3, <2>4 DEF DevicesFreed
<1>5. CASE Relocate \/ CopyDirs \/ CopyFile \/ Clean \/ MoveRoot \/ EnsureLoop \/ FindRoot
           \/ Read \/ Look \/ Attach \/ Launch
  <2>1. pc' \notin {"up", "ended"}
    BY <1>5 DEF Relocate, CopyDirs, Passes, CopyFile, Clean, MoveRoot, EnsureLoop, FindRoot,
                Read, Look, Attach, Launch
  <2>2. QED
    BY <1>1, <2>1
<1>6. CASE MountImage \/ Pivot \/ ToDisk \/ InitEnds
  <2>1. pc' \notin {"up", "ended"}
    BY <1>6 DEF MountImage, Pivot, Stop, ToDisk, InitEnds
  <2>2. QED
    BY <1>1, <2>1
<1>7. CASE UNCHANGED vars
  BY <1>7 DEF vars, DevicesFreed
<1>8. QED
  BY <1>2, <1>3, <1>4, <1>5, <1>6, <1>7 DEF Next

-----------------------------------------------------------------------------
LEMMA InitIInv ==
    ASSUME Init
    PROVE  IInv
<1>1. TypeOK
  BY InitTypes
<1>2. Processes /\ RootMoved /\ Named /\ Scanning /\ EntersItsImage /\ Entered
  BY DEF Init, Processes, Pcs, RootMoved, Named, Before, Scanning, EntersItsImage, Entered
<1>3. \A d \in Loop : loop[d] \notin Attached /\ (pid1 => loop[d] = Cleared)
  BY Devices DEF Init
<1>4. Owned /\ DevicesFreed
  BY <1>3 DEF Owned, DevicesFreed
<1>5. QED
  BY <1>1, <1>2, <1>4 DEF IInv

LEMMA NextIInv ==
    ASSUME IInv, [Next]_vars
    PROVE  IInv'
<1>1. TypeOK' /\ Processes' /\ RootMoved' /\ Named' /\ Scanning'
  BY TypesKept, ProcessesKept, RootKept, NamedKept, ScanningKept DEF IInv
<1>2. EntersItsImage' /\ Entered' /\ Owned' /\ DevicesFreed'
  BY EnteredKept, OwnedKept, FreedKept DEF IInv
<1>3. QED
  BY <1>1, <1>2 DEF IInv

(* The inductive invariant holds, in particular its parts no run checks by *)
(* name: the device that ENTER_DEVICE names holds what the pass wants or   *)
(* came too late, a pass has one device, and inFile has found as much of   *)
(* the magic as stands before the place where it looks.                    *)
THEOREM EnterInvariant == Spec => []IInv
<1>1. Init => IInv
  BY InitIInv
<1>2. IInv /\ [Next]_vars => IInv'
  BY NextIInv
<1>3. QED
  BY <1>1, <1>2, PTL DEF Spec

(* Every variable keeps its type: no device beyond the kernel's is ever    *)
(* attached, armed or named, and no pass enters anything but an image.     *)
THEOREM EnterTypes == Spec => []TypeOK
<1>1. IInv => TypeOK
  BY DEF IInv
<1>2. QED
  BY <1>1, EnterInvariant, PTL

(* copyFS and the deletion after it lose no file but devices, whichever of *)
(* the calls fail, and the program starts again only with the whole root   *)
(* moved.                                                                  *)
THEOREM RootIsMovedWhole == Spec => []RootMoved
<1>1. IInv => RootMoved
  BY DEF IInv
<1>2. QED
  BY <1>1, EnterInvariant, PTL

(* findRoot, inFile, losetup and run together: a pass mounts its own image *)
(* or stops for a cause, and does so for every program that does not hide  *)
(* the magic, whatever the magic and however the reads cut it.             *)
THEOREM PassEntersItsOwn == Spec => []EntersItsImage
<1>1. IInv => EntersItsImage
  BY DEF IInv
<1>2. QED
  BY <1>1, EnterInvariant, PTL

(* Unless a call has failed, losetup -d of mode disk, the deferred Detach  *)
(* and the goroutine leave no device attached that nobody uses.            *)
THEOREM NoDeviceIsLeft == Spec => []DevicesFreed
<1>1. IInv => DevicesFreed
  BY DEF IInv
<1>2. QED
  BY <1>1, EnterInvariant, PTL
=============================================================================
