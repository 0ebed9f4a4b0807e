---------------------------- MODULE MCFileWrite ------------------------------
(* A small instance of FileWrite for TLC.                                  *)
EXTENDS FileWrite, TLC

CONSTANTS w1, w2, d1, d2

(* Nothing tells two contents apart, nor two writers.                      *)
Symmetric == Permutations({w1, w2}) \cup Permutations({d1, d2})
=============================================================================
