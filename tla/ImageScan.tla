------------------------------ MODULE ImageScan ------------------------------
(***************************************************************************)
(* inFile of pkg/enterchroot: the program looks for the file system image  *)
(* that the build has appended to it, after the magic.  The program itself *)
(* has the magic in capitals only (the constant), so as not to find that.  *)
(***************************************************************************)
EXTENDS Naturals, Sequences

CONSTANTS
    Magic,      \* ToLower(magic), a sequence of bytes
    Block       \* bytes per read, at most (8192)

Byte == STRING

ASSUME MagicAssumption == Magic \in Seq(Byte) /\ Magic # <<>>
ASSUME BlockAssumption == Block \in Nat \ {0}

NotFound == 0

(* The search so far: how much of the magic has been matched, how many     *)
(* bytes have been looked at, how many have been read that have not, and   *)
(* where the image is once that is known.                                  *)
ScanState == [found : 0..(Len(Magic) - 1), offset : Nat, left : 0..Block, at : Nat]
ScanStart == [found |-> 0, offset |-> 0, left |-> 0, at |-> NotFound]

(* Mutant of ScanRead: every block is searched on its own.                 *)
ScanReadAlone(s, n) == [s EXCEPT !.left = n, !.found = 0]

ScanRead(s, n) == [s EXCEPT !.left = n]

(* One byte: a byte that does not match starts the search over, without    *)
(* being looked at again.                                                  *)
ScanByte(s, b) ==
    LET found == IF b = Magic[s.found + 1] THEN s.found + 1 ELSE 0
    IN  [found |-> IF found = Len(Magic) THEN 0 ELSE found,
         offset |-> s.offset + 1,
         left |-> s.left - 1,
         at |-> IF found = Len(Magic) THEN s.offset + 1 ELSE NotFound]

-----------------------------------------------------------------------------
(* What inFile is for: the image comes after the first magic.              *)
Occurs(file, i) == SubSeq(file, i + 1, i + Len(Magic)) = Magic

(* A program whose own bytes neither contain the magic nor end with a      *)
(* beginning of it.                                                        *)
Plain(program) ==
    /\ \A i \in 0..(Len(program) - 1) : ~Occurs(program \o Magic, i)
    /\ \A n \in 1..Len(Magic) : n <= Len(program) =>
           SubSeq(program, Len(program) - n + 1, Len(program)) # SubSeq(Magic, 1, n)

ImageStart(program) == Len(program) + Len(Magic)
=============================================================================
