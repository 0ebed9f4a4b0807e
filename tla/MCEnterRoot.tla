---------------------------- MODULE MCEnterRoot ------------------------------
(* A small instance of EnterRoot for TLC: a magic of three bytes, read two *)
(* at a time, so that it lies across reads.                                *)
EXTENDS EnterRoot

ShortMagic == <<"_", "s", "_">>

(* Every program of up to four bytes that may matter to the search.        *)
Programs == UNION {[1..n -> {"_", "s", "S"}] : n \in 0..4}

Plainly == [program |-> <<"_", "S", "_", "x">>, side |-> "none"]

(* Two ordinary programs with anything next to them, and any program in    *)
(* the first pass.                                                         *)
BothLayouts ==
    { [initrd |-> [Plainly EXCEPT !.side = i], disk |-> [Plainly EXCEPT !.side = d]] :
        i, d \in {"none", "dir", "file"} }
    \cup
    { [initrd |-> [Plainly EXCEPT !.program = p], disk |-> Plainly] : p \in Programs }

SmallTrees ==
    { [init |-> "regular", lib |-> "regular", bin |-> "link"],
      [init |-> "regular", tty |-> "device", pipe |-> "fifo"],
      [init |-> "regular", sock |-> "socket"] }
=============================================================================
