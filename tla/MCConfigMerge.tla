--------------------------- MODULE MCConfigMerge ----------------------------
(* Small instances of ConfigMerge for TLC.                                 *)
EXTENDS ConfigMerge, FiniteSets

AllFields == FieldType

(* Files that have the field in two spellings have it as the same type.    *)
TwoOf(S) == {T \in SUBSET S : Cardinality(T) <= 2}
Types(f) == {"string", f.kind, "number"}

FilesOf(f) ==
    {[kind |-> "file", readable |-> FALSE, text |-> <<>>]} \cup
    {[kind |-> "file", readable |-> TRUE, text |-> [s \in T |-> t]] :
        T \in TwoOf(Spellings(f)), t \in Types(f)}

CmdlinesOf(f) ==
    {[kind |-> "cmdline", names |-> w] :
        w \in UNION {[1..n -> Spellings(f)] : n \in 0..3}}
=============================================================================
