------------------------------ MODULE EnterRoot ------------------------------
(***************************************************************************)
(* From the kernel's start of /init, or /sbin/init, to the init of the     *)
(* system: the program moves a root in memory to a tmpfs (transferroot),   *)
(* finds the image appended to itself, attaches it to a loop device,       *)
(* mounts it and pivots into it (enterchroot).  In mode disk the init in   *)
(* it starts the program on the disk, maybe of another version, and all    *)
(* this happens again.  It may also be run as an ordinary process, in a    *)
(* container, where a child does the rest in name spaces of its own.       *)
(***************************************************************************)
EXTENDS ImageScan, FiniteSetsExt

CONSTANTS
    Layouts,        \* how the two programs may be laid out, see LayoutType
    Trees,          \* what may be in the root in memory, see TreeType
    Loops,          \* the number of loop devices of the kernel
    Nodes,          \* the number of device files ensureloop makes (7)
    None            \* no device, no root, nothing entered

Pass == {"initrd", "disk"}

(* program: the bytes before the magic.  side: what there is next to it,   *)
(* under its name with .root or .squashfs appended.                        *)
LayoutType == [program : Seq(Byte), side : {"none", "dir", "file"}]
Kind       == {"regular", "link", "device", "fifo", "socket"}
Loop       == 0..(Loops - 1)

ASSUME LayoutsAssumption == Layouts \subseteq [Pass -> LayoutType]
ASSUME TreesAssumption   == \A t \in Trees : Range(t) \subseteq Kind
ASSUME LoopAssumption    == Loops \in Nat /\ Nodes \in Nat

VARIABLES
    layout,     \* [Pass -> LayoutType], the program that runs in each pass
    memory,     \* is the root file system in memory?
    pid1,       \* does the program run as process 1?
    cmdline,    \* ENTER_ROOT on the kernel command line
    tree,       \* [files of the root in memory -> Kind]
    old,        \* those that are in the root the kernel has made
    new,        \* [files that are in the tmpfs -> Kind]
    pass,       \* which program runs
    pc,         \* where it is
    scan,       \* the search for the image in the program
    offset,     \* where findRoot has found the image
    env,        \* EDGI_RELOCATED, ENTER_ROOT, ENTER_DEVICE
    dev,        \* the device Mount has attached
    nodes,      \* the loop devices that have a device file
    loop,       \* [Loop -> what is attached]
    timer,      \* the device that is to clear itself in 3 seconds
    entered,    \* the image that the pass has mounted
    blame       \* what has gone wrong

given    == <<layout, pid1, cmdline, tree>>
rootVars == <<memory, old, new>>
loopVars == <<dev, nodes, loop, timer>>
foundVars == <<scan, offset>>
vars == <<given, rootVars, pass, pc, foundVars, env, loopVars, entered, blame>>

(* Where an image is: in a program, in the directory or the file next to   *)
(* it, in a directory the kernel command line names.                       *)
Place    == {"self", "dir", "file", "given"}
Image    == [pass : Pass, place : Place]
Attached == [pass : Pass, place : Place, offset : Nat, auto : BOOLEAN, mounted : BOOLEAN]
Cleared  == [free |-> TRUE]
Other    == [free |-> FALSE]        \* attached by somebody else

ASSUME NoneAssumption == None \notin Place \cup Nat \cup Image

TypeOK ==
    /\ layout \in [Pass -> LayoutType] /\ memory \in BOOLEAN /\ pid1 \in BOOLEAN
    /\ tree \in Trees /\ old \subseteq DOMAIN tree
    /\ DOMAIN new \subseteq DOMAIN tree /\ \A f \in DOMAIN new : new[f] \in Kind
    /\ pass \in Pass
    /\ scan \in ScanState /\ offset \in Nat
    /\ env \in [relocated : BOOLEAN, root : Place \cup {None}, device : Loop \cup {None}]
    /\ dev \in Loop \cup {None}
    /\ nodes \subseteq Loop
    /\ loop \in [Loop -> Attached \cup {Cleared, Other}]
    /\ timer \in Loop \cup {None}
    /\ entered \in Image \cup {None}
    /\ blame \subseteq {"call", "slow", "socket"}

(* The parameters of the kernel command line that it does not know itself  *)
(* are in init's environment.  In a container there may be other users of  *)
(* loop devices; /dev may have the device files or not.                    *)
Init ==
    /\ layout \in Layouts /\ tree \in Trees
    /\ memory \in BOOLEAN /\ pid1 \in BOOLEAN
    /\ old = (IF memory THEN DOMAIN tree ELSE {}) /\ new = [f \in {} |-> "regular"]
    /\ pass = "initrd" /\ pc = "start" /\ scan = ScanStart /\ offset = 0
    /\ cmdline \in {None, "given"}
    /\ env = [relocated |-> FALSE, root |-> cmdline, device |-> None]
    /\ dev = None
    /\ nodes \in {{}, Loop}
    /\ \E taken \in {{}, {0}} :
          /\ pid1 => taken = {}
          /\ loop = [d \in Loop |-> IF d \in taken THEN Other ELSE Cleared]
    /\ timer = None /\ entered = None /\ blame = {}

-----------------------------------------------------------------------------
Die(why) == pc' = "dead" /\ blame' = blame \cup {why}
Goto(l)  == pc' = l /\ UNCHANGED blame

(* A step that does nothing else than succeed or fail.                     *)
Passes(from, to) ==
    /\ pc = from
    /\ Goto(to) \/ Die("call")
    /\ UNCHANGED <<given, rootVars, pass, foundVars, env, loopVars, entered>>

(* Relocate: once, and only from a file system in memory.                  *)
Relocate ==
    /\ pc = "start"
    /\ \/ env.relocated /\ Goto("ensure")
       \/ ~env.relocated /\ memory /\ Goto("dirs")
       \/ ~env.relocated /\ ~memory /\ Goto("ensure")
       \/ ~env.relocated /\ Die("call")
    /\ env' = [env EXCEPT !.relocated = FALSE]
    /\ UNCHANGED <<given, rootVars, pass, foundVars, loopVars, entered>>

(* copyFS: the tmpfs and, in a first walk, its directories.                *)
CopyDirs == Passes("dirs", "walk")

(* Mutant of Made: mkfifo does not say what it makes either.               *)
MadeUntyped(kind) == IF kind \in {"device", "fifo"} THEN "regular" ELSE kind

(* A file made anew is of the same kind, but for a device: mknod is given  *)
(* the bits of a Go FileMode, in which the kernel finds no type, and what  *)
(* it makes without one is a regular file.                                 *)
Made(kind) == IF kind = "device" THEN "regular" ELSE kind

Put(f) == new' = [g \in DOMAIN new \cup {f} |-> IF g = f THEN Made(tree[f]) ELSE new[g]]

(* Mutant of CopyFile: what cannot be copied is left out.                  *)
CopyFileSkipping ==
    /\ pc = "walk"
    /\ \E f \in DOMAIN tree \ DOMAIN new :
          /\ old' = IF tree[f] = "regular" THEN old \ {f} ELSE old
          /\ \/ Put(f)
             \/ UNCHANGED new
          /\ UNCHANGED <<pc, blame>>
    /\ UNCHANGED <<given, memory, pass, foundVars, env, loopVars, entered>>

(* The second walk: a regular file is copied and removed, if possible, the *)
(* others are made anew; sockets are not supported.                        *)
CopyFile ==
    /\ pc = "walk"
    /\ \E f \in DOMAIN tree \ DOMAIN new :
          \/ /\ tree[f] # "socket"
             /\ Put(f)
             /\ \/ UNCHANGED old
                \/ tree[f] = "regular" /\ old' = old \ {f}
             /\ Goto("walk") \/ Die("call")
          \/ Die(IF tree[f] = "socket" THEN "socket" ELSE "call") /\ UNCHANGED <<old, new>>
    /\ UNCHANGED <<given, memory, pass, foundVars, env, loopVars, entered>>

(* The third walk: what is left is deleted as far as possible.             *)
Clean ==
    /\ pc = "walk" /\ DOMAIN new = DOMAIN tree
    /\ \/ old' \in SUBSET old /\ Goto("move")
       \/ old' \in SUBSET old /\ Die("call")
    /\ UNCHANGED <<given, memory, new, pass, foundVars, env, loopVars, entered>>

(* Mutant of Again: the second start is not told of the first.             *)
AgainUntold == env' = env

Again == env' = [env EXCEPT !.relocated = TRUE]

(* mount --move, chroot and exec.                                          *)
MoveRoot ==
    /\ pc = "move"
    /\ \/ Goto("start") /\ Again
       \/ Die("call") /\ UNCHANGED env
    /\ UNCHANGED <<given, rootVars, pass, foundVars, loopVars, entered>>

(* ensureloop, after the remount of /.                                     *)
EnsureLoop ==
    /\ pc = "ensure"
    /\ \/ nodes' = nodes \cup {d \in Loop : d < Nodes} /\ Goto("find")
       \/ UNCHANGED nodes /\ Die("call")
    /\ UNCHANGED <<given, rootVars, pass, foundVars, env, dev, loop, timer, entered>>

(* findRoot: the environment, the file or directory next to the program,   *)
(* the program itself.                                                     *)
FindRoot ==
    LET root == IF env.root # None THEN env.root
                ELSE IF layout[pass].side # "none" THEN layout[pass].side
                ELSE None
    IN  /\ pc = "find"
        /\ \/ /\ root # None
              /\ Goto(IF root \in {"dir", "given"} THEN "launch" ELSE "attach")
              /\ env' = [env EXCEPT !.root = root]
              /\ offset' = 0
              /\ UNCHANGED scan
           \/ root = None /\ Goto("scan") /\ scan' = ScanStart /\ UNCHANGED <<env, offset>>
           \/ Die("call") /\ UNCHANGED <<env, foundVars>>
    /\ UNCHANGED <<given, rootVars, pass, loopVars, entered>>

(* inFile: a read of the program, which has the magic and the image at its *)
(* end, returns no more than a block.  Without the magic there is no image.*)
File == layout[pass].program \o Magic \o <<"image">>

Read ==
    /\ pc = "scan" /\ scan.left = 0
    /\ \/ \E n \in 1..Block :
              /\ scan.offset + n <= Len(File)
              /\ scan' = ScanRead(scan, n)
              /\ UNCHANGED <<pc, blame>>
       \/ scan.offset = Len(File) /\ pc' = "dead" /\ UNCHANGED <<scan, blame>>
       \/ Die("call") /\ UNCHANGED scan
    /\ UNCHANGED <<given, rootVars, pass, offset, env, loopVars, entered>>

(* One byte of what was read.                                              *)
Look ==
    /\ pc = "scan" /\ scan.left > 0
    /\ scan' = ScanByte(scan, File[scan.offset + 1])
    /\ IF scan'.at = NotFound
       THEN Goto("scan") /\ UNCHANGED <<env, offset>>
       ELSE /\ Goto("attach")
            /\ env' = [env EXCEPT !.root = "self"]
            /\ offset' = scan'.at
    /\ UNCHANGED <<given, rootVars, pass, loopVars, entered>>

(* Mutant of Attach: a device file is taken to be a device.                *)
AttachBeyond ==
    /\ pc = "attach"
    /\ env' = [env EXCEPT !.device = Nodes] /\ dev' = Nodes /\ timer' = Nodes
    /\ Goto("launch")
    /\ UNCHANGED <<given, rootVars, pass, foundVars, nodes, loop, entered>>

(* losetup.Attach: the first device that is free; the goroutine starts.    *)
Attach ==
    /\ pc = "attach"
    /\ LET free == {d \in Loop : loop[d] = Cleared}
       IN  \/ /\ free # {} /\ Min(free) \in nodes
              /\ loop' = [loop EXCEPT ![Min(free)] =
                             [pass |-> pass, place |-> env.root, offset |-> offset,
                              auto |-> FALSE, mounted |-> FALSE]]
              /\ env' = [env EXCEPT !.device = Min(free)]
              /\ dev' = Min(free) /\ timer' = Min(free)
              /\ Goto("launch")
           \/ Die("call") /\ UNCHANGED <<loop, env, dev, timer>>
    /\ UNCHANGED <<given, rootVars, pass, foundVars, nodes, entered>>

(* The goroutine: a device that is not mounted by then clears itself when  *)
(* the goroutine closes it.                                                *)
Timer ==
    /\ timer # None /\ timer' = None
    /\ \/ UNCHANGED <<loop, blame>>
       \/ /\ loop[timer] \in Attached /\ loop[timer].mounted
          /\ loop' = [loop EXCEPT ![timer].auto = TRUE]
          /\ UNCHANGED blame
       \/ /\ loop[timer] \in Attached /\ ~loop[timer].mounted
          /\ loop' = [loop EXCEPT ![timer] = Cleared]
          /\ blame' = blame \cup {"slow"}
    /\ UNCHANGED <<given, rootVars, pass, pc, foundVars, env, dev, nodes, entered>>

(* Process 1 executes enter-root in its own place, and the goroutine is    *)
(* gone; another process starts a child.                                   *)
Launch ==
    /\ pc = "launch"
    /\ \/ Goto("mount") /\ timer' = (IF pid1 THEN None ELSE timer)
       \/ ~pid1 /\ pc' = "detach" /\ blame' = blame \cup {"call"} /\ UNCHANGED timer
       \/ pid1 /\ Die("call") /\ UNCHANGED timer
    /\ UNCHANGED <<given, rootVars, pass, foundVars, env, dev, nodes, loop, entered>>

(* What becomes of devices when what is mounted from them goes.            *)
Unmounted(devices) ==
    [d \in Loop |-> IF d \in devices /\ loop[d] \in Attached /\ loop[d].mounted
                    THEN IF loop[d].auto THEN Cleared ELSE [loop[d] EXCEPT !.mounted = FALSE]
                    ELSE loop[d]]

(* enter-root ends: process 1 takes the kernel with it, a child returns to *)
(* its parent and its mounts are gone.                                     *)
Stop == /\ pc' = IF pid1 THEN "dead" ELSE "detach"
        /\ loop' = IF pid1 THEN loop ELSE Unmounted(Loop)

(* A device has an image to mount if it begins where one begins.           *)
HasImage(d) ==
    /\ d \in Attached
    /\ d.place = "file" \/ (d.place = "self" /\ d.offset = ImageStart(layout[d.pass].program))

(* run, first half: the root is bound, or the device mounted.              *)
MountImage ==
    /\ pc = "mount"
    /\ \/ /\ env.device = None
          /\ entered' = [pass |-> pass, place |-> env.root]
          /\ Goto("pivot")
          /\ UNCHANGED loop
       \/ /\ env.device # None
          /\ LET d == loop[env.device]
             IN  IF HasImage(d)
                 THEN /\ entered' = [pass |-> d.pass, place |-> d.place]
                      /\ loop' = [loop EXCEPT ![env.device].mounted = TRUE]
                      /\ Goto("pivot")
                 ELSE Stop /\ UNCHANGED <<entered, blame>>
       \/ Stop /\ blame' = blame \cup {"call"} /\ UNCHANGED entered
    /\ UNCHANGED <<given, rootVars, pass, foundVars, env, dev, nodes, timer>>

(* Mutant of Leave: ENTER_DEVICE stays.                                    *)
LeaveDevice == env' = [env EXCEPT !.root = None]

Leave == env' = [env EXCEPT !.root = None, !.device = None]

(* run, second half: links, pivot_root, chroot, and exec of /usr/init.     *)
Pivot ==
    /\ pc = "pivot"
    /\ \/ Goto("init") /\ Leave /\ UNCHANGED loop
       \/ Stop /\ blame' = blame \cup {"call"} /\ UNCHANGED env
    /\ UNCHANGED <<given, rootVars, pass, foundVars, dev, nodes, timer, entered>>

-----------------------------------------------------------------------------
(* Mutant of LosetupD: the device is left alone.                           *)
LosetupDMissing == UNCHANGED <<loop, blame>>

(* losetup -d /dev/loop0 || true: a device in use clears itself later.     *)
LosetupD ==
    \/ /\ loop[0] \in Attached /\ UNCHANGED blame
       /\ loop' = [loop EXCEPT ![0] = IF @.mounted THEN [@ EXCEPT !.auto = TRUE] ELSE Cleared]
    \/ loop[0] \notin Attached /\ UNCHANGED <<loop, blame>>
    \/ blame' = blame \cup {"call"} /\ UNCHANGED loop

(* mode-disk: /sbin/init of the disk is executed.                          *)
ToDisk ==
    /\ pc = "init" /\ pass = "initrd" /\ pid1
    /\ LosetupD
    /\ pass' = "disk" /\ memory' = FALSE
    /\ pc' = "start"
    /\ entered' = None
    /\ UNCHANGED <<given, old, new, foundVars, env, dev, nodes, timer>>

(* The other modes, and mode local on the disk: setup_mounts detaches what *)
(* is below /.base, and with it the root of the pass before.               *)
BootUp ==
    /\ pc = "init"
    /\ Goto("up")
    /\ loop' = Unmounted({d \in Loop : loop[d] \in Attached /\ loop[d].pass # pass})
    /\ UNCHANGED <<given, rootVars, pass, foundVars, env, dev, nodes, timer, entered>>

(* The init of a container ends, its mounts go with it.                    *)
InitEnds ==
    /\ pc \in {"init", "up"} /\ ~pid1
    /\ Goto("detach")
    /\ loop' = Unmounted(Loop)
    /\ UNCHANGED <<given, rootVars, pass, foundVars, env, dev, nodes, timer, entered>>

(* Mutant of Detach: no deferred Detach, the goroutine is to see to it.    *)
DetachMissing ==
    /\ pc = "detach" /\ Goto("ended")
    /\ timer' = None
    /\ UNCHANGED <<given, rootVars, pass, foundVars, env, dev, nodes, loop, entered>>

(* Mount returns: dev.Detach.  The device may have cleared itself.  The    *)
(* goroutine ends with the process.                                        *)
Detach ==
    /\ pc = "detach"
    /\ \/ /\ Goto("ended")
          /\ loop' = [d \in Loop |-> IF d = dev /\ loop[d] \in Attached
                                     THEN Cleared ELSE loop[d]]
       \/ pc' = "ended" /\ blame' = blame \cup {"call"} /\ UNCHANGED loop
    /\ timer' = None
    /\ UNCHANGED <<given, rootVars, pass, foundVars, env, dev, nodes, entered>>

Next ==
    \/ Relocate \/ CopyDirs \/ CopyFile \/ Clean \/ MoveRoot
    \/ EnsureLoop \/ FindRoot \/ Read \/ Look \/ Attach \/ Timer \/ Launch \/ MountImage \/ Pivot
    \/ ToDisk \/ BootUp \/ InitEnds \/ Detach

(* Every step is the program's own, the kernel's or a script's; none waits *)
(* for anything but the one before.                                        *)
Spec == Init /\ [][Next]_vars /\ WF_vars(Next)
-----------------------------------------------------------------------------
(* The root that a pass is to enter: the one the command line names, the   *)
(* one next to the program, the image in the program.                      *)
Wanted == IF pass = "initrd" /\ cmdline # None THEN cmdline
          ELSE IF layout[pass].side # "none" THEN layout[pass].side
          ELSE "self"

(* Whichever way it was started, a pass enters its own image and none that *)
(* an earlier pass, or its environment, has left behind; and it stops only *)
(* because a call failed, the root had a socket, the mount came more than  *)
(* 3 seconds after the device, or the program itself hides the magic.      *)
EntersItsImage ==
    /\ entered # None => entered = [pass |-> pass, place |-> Wanted]
    /\ pc \in {"dead", "ended"} /\ entered = None /\ blame = {} =>
          Wanted = "self" /\ ~Plain(layout[pass].program)

(* Moving the root loses nothing but devices: no file is deleted before it *)
(* is in the tmpfs, what is there is what it was, and the program goes on  *)
(* only with all of them there.  Of a device no more than a regular file   *)
(* of its name is left.                                                    *)
RootMoved ==
    memory =>
        /\ \A f \in DOMAIN tree \ DOMAIN new : f \in old
        /\ \A f \in DOMAIN new : new[f] = tree[f] \/ tree[f] = "device"
        /\ env.relocated \/ pc \notin {"start", "dirs", "walk", "dead"} =>
              DOMAIN new = DOMAIN tree

(* Unless a call fails no device stays attached that nobody uses: not that *)
(* of the first pass, which holds the initrd in memory, once the system on *)
(* the disk is up, and none when a process that is not process 1 ends.     *)
DevicesFreed ==
    \A d \in Loop : loop[d] \in Attached /\ blame = {} =>
        /\ pc = "up" => loop[d].pass = pass
        /\ pc # "ended"

(* Every start comes to an end: the system is up, or the program has       *)
(* stopped with an error, in particular it does not move its root for ever.*)
EntersOrStops == <>(pc \in {"up", "dead", "ended"})
=============================================================================
