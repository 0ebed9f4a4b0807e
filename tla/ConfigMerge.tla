---------------------------- MODULE ConfigMerge -----------------------------
(***************************************************************************)
(* ReadConfig, for one field of the configuration: sources are read one    *)
(* after the other, each is made to use the field's own name and type, and *)
(* is laid over what there is so far; the result is decoded into the Go    *)
(* structure.  Fields do not influence each other, and nested structures   *)
(* are merged field by field, so that one field is all there is to say.    *)
(*                                                                         *)
(* Lists are lists of strings, maps are from strings to strings; of the    *)
(* keys of a map the command line gives one at a time, all different and   *)
(* without a dot.  Left out are the command lines of which readCmdline     *)
(* makes something else than a map of strings: a map's name with a value   *)
(* but no key, a key given twice and one with dots (a sysctl's), which     *)
(* ToMap makes one string of.                                              *)
(*                                                                         *)
(* A field may be spelled in several ways.  Its name in the structure is   *)
(* in camel case; a source may also have it in snake case, in lower case   *)
(* and, if it is a list or a map, in the singular.                         *)
(***************************************************************************)
EXTENDS Naturals, Sequences, Functions

CONSTANTS
    Fields,         \* fields, see FieldType
    Files(_),       \* what a file may have for a field
    Cmdlines(_),    \* what the command line may have for it
    Rest            \* the sources after the command line

Kind == {"string", "boolean", "list", "map"}

(* camel: does the name have a capital letter?                             *)
FieldType == [kind : Kind, camel : BOOLEAN]

Spellings(f) ==
    {"camel"} \cup (IF f.camel THEN {"snake", "lower"} ELSE {})
              \cup (IF f.kind \in {"list", "map"} THEN {"single"} ELSE {})

(* A value as a source has it: its type there, and where its parts come    *)
(* from, source and place.                                                 *)
RawType == {"string", "list", "map", "boolean", "number"}
Raw     == [type : RawType, from : Seq(Nat \X Nat)]

(* A file: readable or not, with what it says of the field.  The command   *)
(* line: the names in their order, none having a value of its own type.    *)
FileType(f)    == [kind : {"file"}, readable : BOOLEAN,
                   text : UNION {[T -> RawType] : T \in SUBSET Spellings(f)}]
CmdlineType(f) == [kind : {"cmdline"}, names : Seq(Spellings(f))]

ASSUME FieldsAssumption  == Fields \subseteq FieldType
ASSUME SourcesAssumption ==
    \A f \in Fields : Files(f) \subseteq FileType(f) /\ Cmdlines(f) \subseteq CmdlineType(f)
ASSUME RestAssumption    == Rest \in Nat

VARIABLES
    field,
    sources,        \* in the order of ReadConfig
    next,           \* the source to be read
    item,           \* the item of the command line to be read
    line,           \* what it has said so far, by spelling
    data,           \* the values read so far, by spelling
    outcome,        \* "reading", "read" or "refused"
    value           \* the field as it is applied

vars == <<field, sources, next, item, line, data, outcome, value>>

Unset == [type |-> "unset", from |-> <<>>]
Empty == [s \in {} |-> Unset]

IsText(t) == DOMAIN t \subseteq Spellings(field) /\ \A s \in DOMAIN t : t[s] \in Raw

TypeOK ==
    /\ field \in Fields
    /\ sources \in Seq(FileType(field) \cup CmdlineType(field))
    /\ next \in 1..(Len(sources) + 1) /\ item \in Nat \ {0}
    /\ IsText(line) /\ IsText(data)
    /\ outcome \in {"reading", "read", "refused"}
    /\ value = Unset \/ (value \in Raw /\ value.type = field.kind)

(* readers: the system's file, the command line, the other files.          *)
Init ==
    /\ field \in Fields
    /\ \E files \in [(1..(Rest + 2)) \ {2} -> Files(field)], cmdline \in Cmdlines(field) :
           sources = [i \in 1..(Rest + 2) |-> IF i = 2 THEN cmdline ELSE files[i]]
    /\ next = 1 /\ item = 1 /\ line = Empty
    /\ data = Empty /\ outcome = "reading" /\ value = Unset

-----------------------------------------------------------------------------
(* readCmdline: a name that comes again makes a list; each key of a map is *)
(* a name of its own.                                                      *)
Times(k) == IF field.kind = "map" THEN "map" ELSE IF k = 1 THEN "string" ELSE "list"

Before(s) == IF s \in DOMAIN line THEN line[s].from ELSE <<>>

(* Mutants of Parts: of a name that comes again the last place counts;     *)
(* the last place comes first.                                             *)
PartsLast(s)      == << <<next, item>> >>
PartsBackwards(s) == << <<next, item>> >> \o Before(s)

Parts(s) == Append(Before(s), <<next, item>>)

Put(s) ==
    [r \in DOMAIN line \cup {s} |->
        IF r = s THEN [type |-> Times(Len(Parts(s))), from |-> Parts(s)] ELSE line[r]]

ReadItem ==
    /\ outcome = "reading" /\ next <= Len(sources) /\ sources[next].kind = "cmdline"
    /\ item <= Len(sources[next].names)
    /\ line' = Put(sources[next].names[item])
    /\ item' = item + 1
    /\ UNCHANGED <<field, sources, next, data, outcome, value>>

Contents ==
    LET src == sources[next]
    IN  IF src.kind = "cmdline" THEN line
        ELSE [s \in DOMAIN src.text |-> [type |-> src.text[s], from |-> << <<next, 1>> >>]]

(* FuzzyNames: every other spelling is copied to the field's name, in the  *)
(* order in which Go happens to go through a map.                          *)
Named(text) ==
    IF DOMAIN text \subseteq {"camel"} THEN {text}
    ELSE { [s \in DOMAIN text \cup {"camel"} |-> IF s = "camel" THEN text[t] ELSE text[s]] :
              t \in DOMAIN text \ {"camel"} }

(* Mutant of Converted: a single value is not made a list.                 *)
ConvertedBoolOnly(v) ==
    IF v.type = "string" /\ field.kind = "boolean" THEN [v EXCEPT !.type = field.kind] ELSE v

(* ToSlice and ToBool (ToMap leaves a map a map).                          *)
Converted(v) ==
    IF v.type = "string" /\ field.kind \in {"list", "boolean"}
    THEN [v EXCEPT !.type = field.kind] ELSE v

(* ToInternal: the names, then the types; only the field's own name has a  *)
(* type to be converted to.                                                *)
Internal(text) ==
    { [s \in DOMAIN t |-> IF s = "camel" THEN Converted(t[s]) ELSE t[s]] : t \in Named(text) }

(* Mutant of Overlay: what is there stays.                                 *)
OverlayMissing(old, new) ==
    [s \in DOMAIN old \cup DOMAIN new |-> IF s \in DOMAIN old THEN old[s] ELSE new[s]]

(* UpdateMerge.                                                            *)
Overlay(old, new) ==
    [s \in DOMAIN old \cup DOMAIN new |-> IF s \in DOMAIN new THEN new[s] ELSE old[s]]

Readable(n) == sources[n].kind = "file" => sources[n].readable

(* One turn of merge, a reader having returned.                            *)
ReadSource ==
    /\ outcome = "reading" /\ next <= Len(sources) /\ Readable(next)
    /\ sources[next].kind = "cmdline" => item > Len(sources[next].names)
    /\ \E new \in Internal(Contents) : data' = Overlay(data, new)
    /\ next' = next + 1 /\ item' = 1 /\ line' = Empty
    /\ UNCHANGED <<field, sources, outcome, value>>

(* A file that cannot be read or parsed.                                   *)
CannotRead ==
    /\ outcome = "reading" /\ next <= Len(sources) /\ ~Readable(next)
    /\ outcome' = "refused"
    /\ UNCHANGED <<field, sources, next, item, line, data, value>>

(* ToObj goes by JSON, the names in the order of their bytes (capitals,    *)
(* underscore, small letters).  It takes a name that differs in case for   *)
(* the field's: the spelling in small letters comes last and wins.  One    *)
(* value of the wrong type is an error.                                    *)
Matching == DOMAIN data \cap {"camel", "lower"}

(* Mutant of Decode: whatever there is is taken.                           *)
DecodeAny ==
    /\ outcome = "reading" /\ next > Len(sources)
    /\ outcome' = "read"
    /\ value' = IF "lower" \in Matching THEN data["lower"]
                ELSE IF "camel" \in Matching THEN data["camel"] ELSE Unset
    /\ UNCHANGED <<field, sources, next, item, line, data>>

Decode ==
    /\ outcome = "reading" /\ next > Len(sources)
    /\ IF \E s \in Matching : data[s].type # field.kind
       THEN outcome' = "refused" /\ UNCHANGED value
       ELSE /\ outcome' = "read"
            /\ value' = IF "lower" \in Matching THEN data["lower"]
                        ELSE IF "camel" \in Matching THEN data["camel"] ELSE Unset
    /\ UNCHANGED <<field, sources, next, item, line, data>>

Next == ReadItem \/ ReadSource \/ CannotRead \/ Decode

Spec == Init /\ [][Next]_vars

-----------------------------------------------------------------------------
(* What ReadConfig should do, said without its steps.                      *)

Names(n) ==
    IF sources[n].kind = "cmdline" THEN Range(sources[n].names) ELSE DOMAIN sources[n].text

PlacesOf(n, s) ==
    IF sources[n].kind = "cmdline"
    THEN {i \in 1..Len(sources[n].names) : sources[n].names[i] = s} ELSE {1}

Setters == {n \in DOMAIN sources : Names(n) # {}}
Last    == CHOOSE n \in Setters : \A m \in Setters : m <= n

(* The lower-case spelling of a name in camel case is to be avoided.       *)
Clean == \A n \in DOMAIN sources : "lower" \notin Names(n)

(* The last source that has the field is the one that counts, and all of   *)
(* it is from there; if it spells the field in one way only, there is      *)
(* nothing random about it.                                                *)
LastSourceWins ==
    outcome = "read" /\ Clean =>
        IF Setters = {} THEN value = Unset
        ELSE /\ \A i \in DOMAIN value.from : value.from[i][1] = Last
             /\ \A s \in Names(Last) : Names(Last) = {s} =>
                    {value.from[i][2] : i \in DOMAIN value.from} = PlacesOf(Last, s)

(* README.md:294: "If the key is a slice, multiple values are set by       *)
(* repeating the key": all of them, in the order of the command line.      *)
RepeatedKeysInOrder ==
    \A i, j \in DOMAIN value.from : i < j => value.from[i][2] < value.from[j][2]

(* The whole configuration is refused only if a file cannot be read or a   *)
(* value cannot be understood: one of another type, a key that is not a    *)
(* list repeated on the command line, or a single value that is spelled in *)
(* lower case, which is not converted under that name.                     *)
TypeOf(n, s) ==
    IF sources[n].kind = "file" THEN sources[n].text[s]
    ELSE Times(IF \E i, j \in PlacesOf(n, s) : i # j THEN 2 ELSE 1)

Understood(n) ==
    \A s \in Names(n) :
        \/ TypeOf(n, s) = field.kind
        \/ TypeOf(n, s) = "string" /\ field.kind \in {"list", "boolean"} /\ s # "lower"

RefusedWithCause ==
    outcome = "refused" => \E n \in DOMAIN sources : ~Readable(n) \/ ~Understood(n)
=============================================================================
