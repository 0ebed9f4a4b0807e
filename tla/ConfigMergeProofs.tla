-------------------------- MODULE ConfigMergeProofs --------------------------
(***************************************************************************)
(* Proofs about ConfigMerge, for any fields, any number of sources and     *)
(* whatever they have for the field: its types, that the last source       *)
(* decides the field, that repeated keys stay in order, and that the       *)
(* configuration is refused for a cause only.                              *)
(***************************************************************************)
EXTENDS ConfigMerge, TLAPS

(* The parts of a value are what source n has at certain places, in their  *)
(* order.                                                                  *)
Ordered(from) == \A i, j \in DOMAIN from : i < j => from[i][2] < from[j][2]

IsFrom(v, n, places) ==
    /\ \A i \in DOMAIN v.from : v.from[i][1] = n
    /\ {v.from[i][2] : i \in DOMAIN v.from} = places
    /\ Ordered(v.from)

(* What has been read of the command line is what there is up to the item. *)
Upto(s) == {i \in 1..(item - 1) : sources[next].names[i] = s}

Reading ==
    IF next <= Len(sources) /\ sources[next].kind = "cmdline"
    THEN LET names == sources[next].names
         IN  /\ item <= Len(names) + 1
             /\ DOMAIN line = {names[i] : i \in 1..(item - 1)}
             /\ \A s \in DOMAIN line : /\ IsFrom(line[s], next, Upto(s))
                                       /\ line[s].type = Times(Len(line[s].from))
    ELSE item = 1 /\ line = Empty

(* The type of a value after the converters.                               *)
TypeAs(type) == IF type = "string" /\ field.kind \in {"list", "boolean"} THEN field.kind ELSE type

(* A value under the field's own name, or in small letters, is what one    *)
(* source has for it under one name.                                       *)
ComesFrom(v, s, n) ==
    \E t \in Names(n) :
        /\ IsFrom(v, n, PlacesOf(n, t))
        /\ IF s = "lower" THEN t = "lower" /\ v.type = TypeOf(n, t)
                          ELSE v.type = TypeAs(TypeOf(n, t))

(* Under the field's own name that is the last source that has the field.  *)
Merged ==
    /\ (\E n \in 1..(next - 1) : Names(n) # {}) => "camel" \in DOMAIN data
    /\ "camel" \in DOMAIN data =>
           \E n \in 1..(next - 1) : /\ ComesFrom(data["camel"], "camel", n)
                                    /\ \A m \in (n + 1)..(next - 1) : Names(m) = {}
    /\ "lower" \in DOMAIN data => \E n \in 1..(next - 1) : ComesFrom(data["lower"], "lower", n)

IInv == /\ TypeOK /\ Reading /\ Merged
        /\ LastSourceWins /\ RepeatedKeysInOrder /\ RefusedWithCause

-----------------------------------------------------------------------------
Source == FileType(field) \cup CmdlineType(field)

(* What a source may be.                                                   *)
LEMMA SourceIs ==
    ASSUME TypeOK, NEW n \in 1..Len(sources)
    PROVE  /\ sources[n] \in Source /\ sources[n].kind \in {"file", "cmdline"}
           /\ sources[n].kind = "cmdline" =>
                  sources[n].names \in Seq(Spellings(field)) /\ Len(sources[n].names) \in Nat
           /\ sources[n].kind = "file" =>
                  /\ DOMAIN sources[n].text \subseteq Spellings(field)
                  /\ \A s \in DOMAIN sources[n].text : sources[n].text[s] \in RawType
           /\ Names(n) \subseteq Spellings(field)
<1>1. sources[n] \in Source
  BY DEF TypeOK, Source
<1>2. CASE sources[n] \in FileType(field)
  <2>1. sources[n].kind = "file" /\ \E T \in SUBSET Spellings(field) : sources[n].text \in [T -> RawType]
    BY <1>2 DEF FileType
  <2>2. QED
    BY <1>1, <2>1 DEF Names
<1>3. CASE sources[n] \in CmdlineType(field)
  <2>1. sources[n].kind = "cmdline" /\ sources[n].names \in Seq(Spellings(field))
    BY <1>3 DEF CmdlineType
  <2>2. Range(sources[n].names) \subseteq Spellings(field)
    BY <2>1 DEF Range
  <2>3. QED
    BY <1>1, <2>1, <2>2 DEF Names
<1>4. QED
  BY <1>1, <1>2, <1>3 DEF Source

LEMMA InitIInv == Init => IInv
<1> SUFFICES ASSUME Init
             PROVE  IInv
  OBVIOUS
<1>1. PICK files \in [(1..(Rest + 2)) \ {2} -> Files(field)], cmdline \in Cmdlines(field) :
          sources = [i \in 1..(Rest + 2) |-> IF i = 2 THEN cmdline ELSE files[i]]
  BY DEF Init
<1>2. field \in Fields /\ Rest + 2 \in Nat
  BY RestAssumption DEF Init
<1>3. \A i \in 1..(Rest + 2) : sources[i] \in Source
  BY <1>1, <1>2, SourcesAssumption DEF Source
<1>4. sources \in Seq(Source) /\ Len(sources) = Rest + 2
  <2>1. sources \in [1..(Rest + 2) -> Source]
    BY <1>1, <1>3
  <2>2. QED
    BY <1>2, <2>1
<1>5. next = 1 /\ item = 1 /\ line = Empty /\ data = Empty /\ outcome = "reading" /\ value = Unset
  BY DEF Init
<1>6. DOMAIN Empty = {}
  BY DEF Empty
<1>7. TypeOK
  BY <1>2, <1>4, <1>5, <1>6, RestAssumption DEF TypeOK, Source, IsText
<1>8. sources[1].kind = "file"
  <2>1. sources[1] \in FileType(field)
    BY <1>1, <1>2, SourcesAssumption, RestAssumption
  <2>2. QED
    BY <2>1 DEF FileType
<1>9. Reading
  BY <1>5, <1>8 DEF Reading
<1>10. Merged
  BY <1>5, <1>6 DEF Merged
<1>11. LastSourceWins /\ RefusedWithCause
  BY <1>5 DEF LastSourceWins, RefusedWithCause
<1>12. RepeatedKeysInOrder
  <2>1. DOMAIN value.from = {}
    BY <1>5 DEF Unset
  <2>2. QED
    BY <2>1 DEF RepeatedKeysInOrder
<1>13. QED
  BY <1>7, <1>9, <1>10, <1>11, <1>12 DEF IInv

-----------------------------------------------------------------------------
(* readCmdline.                                                            *)

LEMMA Appended ==
    ASSUME NEW from \in Seq(Nat \X Nat), NEW n \in Nat, NEW k \in Nat, NEW places,
           \A i \in DOMAIN from : from[i][1] = n,
           {from[i][2] : i \in DOMAIN from} = places,
           Ordered(from), \A p \in places : p < k
    PROVE  LET new == Append(from, <<n, k>>)
           IN  /\ new \in Seq(Nat \X Nat)
               /\ \A i \in DOMAIN new : new[i][1] = n
               /\ {new[i][2] : i \in DOMAIN new} = places \cup {k}
               /\ Ordered(new)
<1> DEFINE new == Append(from, <<n, k>>)
           L == Len(from)
<1>1. L \in Nat /\ DOMAIN from = 1..L /\ new \in Seq(Nat \X Nat) /\ DOMAIN new = 1..(L + 1)
      /\ \A i \in 1..L : new[i] = from[i]
  OBVIOUS
<1>2. new[L + 1] = <<n, k>>
  OBVIOUS
<1>3. \A i \in DOMAIN from : from[i][2] \in places
  OBVIOUS
<1> HIDE DEF new, L
<1>4. \A i \in DOMAIN new : new[i][1] = n
  BY <1>1, <1>2
<1>5. {new[i][2] : i \in DOMAIN new} = places \cup {k}
  <2>1. 1..(L + 1) = (1..L) \cup {L + 1}
    BY <1>1
  <2>2. {new[i][2] : i \in 1..(L + 1)} = {new[i][2] : i \in 1..L} \cup {new[L + 1][2]}
    BY <2>1
  <2>3. {new[i][2] : i \in 1..L} = {from[i][2] : i \in 1..L}
    BY <1>1
  <2>4. new[L + 1][2] = k
    BY <1>2
  <2>5. QED
    BY <1>1, <2>2, <2>3, <2>4
<1>6. Ordered(new)
  <2>1. ASSUME NEW i \in 1..(L + 1), NEW j \in 1..(L + 1), i < j
        PROVE  new[i][2] < new[j][2]
    <3>1. i \in 1..L
      BY <1>1, <2>1
    <3>2. CASE j \in 1..L
      BY <1>1, <2>1, <3>1, <3>2 DEF Ordered
    <3>3. CASE j = L + 1
      BY <1>1, <1>2, <1>3, <3>1, <3>3
    <3>4. QED
      BY <1>1, <2>1, <3>2, <3>3
  <2>2. QED
    BY <1>1, <2>1 DEF Ordered
<1>7. QED
  BY <1>1, <1>4, <1>5, <1>6 DEF new

LEMMA ItemIsRead ==
    ASSUME TypeOK, Reading, ReadItem
    PROVE  IsText(line)' /\ Reading'
<1> DEFINE names == sources[next].names
           s == names[item]
           parts == Parts(s)
           Now(r) == {i \in 1..item : names[i] = r}
<1>1. /\ next \in 1..Len(sources) /\ sources[next].kind = "cmdline" /\ next \in Nat
      /\ item \in 1..Len(names) /\ item \in Nat \ {0} /\ line' = Put(s) /\ item' = item + 1
      /\ UNCHANGED <<field, sources, next>>
  BY DEF ReadItem, TypeOK
<1>2. names \in Seq(Spellings(field)) /\ Len(names) \in Nat
  BY <1>1, SourceIs
<1>3. s \in Spellings(field)
  BY <1>1, <1>2
<1>4. /\ DOMAIN line = {names[i] : i \in 1..(item - 1)}
      /\ \A r \in DOMAIN line : /\ IsFrom(line[r], next, Upto(r)) /\ line[r] \in Raw
                                /\ line[r].type = Times(Len(line[r].from))
      /\ DOMAIN line \subseteq Spellings(field)
  BY <1>1 DEF Reading, TypeOK, IsText
<1>5. /\ Before(s) \in Seq(Nat \X Nat)
      /\ \A i \in DOMAIN Before(s) : Before(s)[i][1] = next
      /\ {Before(s)[i][2] : i \in DOMAIN Before(s)} = Upto(s)
      /\ Ordered(Before(s))
  <2>1. CASE s \in DOMAIN line
    BY <1>4, <2>1 DEF Before, IsFrom, Raw
  <2>2. CASE s \notin DOMAIN line
    <3>1. Upto(s) = {}
      BY <1>4, <2>2 DEF Upto
    <3>2. Before(s) = <<>> /\ DOMAIN Before(s) = {}
      BY <2>2 DEF Before
    <3>3. QED
      BY <3>1, <3>2 DEF Ordered
  <2>3. QED
    BY <2>1, <2>2
<1>6. \A p \in Upto(s) : p < item
  BY <1>1 DEF Upto
<1>7. /\ parts \in Seq(Nat \X Nat)
      /\ \A i \in DOMAIN parts : parts[i][1] = next
      /\ {parts[i][2] : i \in DOMAIN parts} = Upto(s) \cup {item}
      /\ Ordered(parts)
  BY <1>1, <1>5, <1>6, Appended DEF Parts
<1>8. /\ Now(s) = Upto(s) \cup {item}
      /\ \A r : r # s => Now(r) = Upto(r)
  <2>1. 1..item = (1..(item - 1)) \cup {item}
    BY <1>1
  <2>2. QED
    BY <2>1 DEF Upto
<1> HIDE DEF s
<1> HIDE DEF parts
<1>9. /\ DOMAIN line' = DOMAIN line \cup {s}
      /\ line'[s] = [type |-> Times(Len(parts)), from |-> parts]
      /\ \A r \in DOMAIN line : r # s => line'[r] = line[r]
  BY <1>1 DEF Put, parts
<1>10. line'[s] \in Raw
  BY <1>7, <1>9 DEF Raw, Times, RawType
<1>11. IsFrom(line'[s], next, Now(s)) /\ line'[s].type = Times(Len(line'[s].from))
  BY <1>7, <1>8, <1>9 DEF IsFrom
<1>12. IsText(line)'
  BY <1>1, <1>3, <1>4, <1>9, <1>10 DEF IsText
<1>13. DOMAIN line' = {names[i] : i \in 1..item}
  <2>1. 1..item = (1..(item - 1)) \cup {item} /\ s = names[item]
    BY <1>1 DEF s
  <2>2. QED
    BY <1>4, <1>9, <2>1
<1>14. ASSUME NEW r \in DOMAIN line'
       PROVE  IsFrom(line'[r], next, Now(r)) /\ line'[r].type = Times(Len(line'[r].from))
  <2>1. CASE r = s
    BY <1>11, <2>1
  <2>2. CASE r # s
    <3>1. r \in DOMAIN line /\ line'[r] = line[r] /\ Now(r) = Upto(r)
      BY <1>8, <1>9, <2>2
    <3>2. QED
      BY <1>4, <3>1
  <2>3. QED
    BY <2>1, <2>2
<1>15. item' <= Len(names) + 1 /\ item' - 1 = item
  BY <1>1, <1>2
<1>16. \A r : Upto(r)' = Now(r)
  BY <1>1, <1>15 DEF Upto
<1>17. (next <= Len(sources) /\ sources[next].kind = "cmdline")'
  BY <1>1
<1>18. Reading'
  <2>1. DOMAIN line' = {(sources[next].names)'[i] : i \in 1..(item' - 1)}
    BY <1>1, <1>13, <1>15
  <2>2. item' <= Len((sources[next].names)') + 1
    BY <1>1, <1>15
  <2>3. \A r \in DOMAIN line' : /\ IsFrom(line'[r], next', Upto(r)')
                                /\ line'[r].type = (Times(Len(line[r].from)))'
    BY <1>1, <1>14, <1>16 DEF Times
  <2> HIDE DEF Now, names
  <2>4. QED
    BY <1>17, <2>1, <2>2, <2>3 DEF Reading
<1>19. QED
  BY <1>12, <1>18

LEMMA ReadingKept ==
    ASSUME TypeOK, Reading, [Next]_vars
    PROVE  Reading'
<1>1. CASE ReadItem
  BY <1>1, ItemIsRead
<1>2. CASE ReadSource
  <2>1. item' = 1 /\ line' = Empty /\ UNCHANGED <<field, sources>> /\ next' \in Nat
    BY <1>2 DEF ReadSource, TypeOK
  <2>2. DOMAIN Empty = {} /\ 1..(item' - 1) = {}
    BY <2>1 DEF Empty
  <2>3. next' \in 1..Len(sources) /\ sources[next'].kind = "cmdline" =>
            item' <= Len(sources[next'].names) + 1
    BY <2>1, SourceIs
  <2>4. next' >= 1 /\ Len(sources) \in Nat
    BY <1>2 DEF ReadSource, TypeOK
  <2>5. QED
    BY <2>1, <2>2, <2>3, <2>4 DEF Reading
<1>3. CASE CannotRead \/ Decode \/ UNCHANGED vars
  <2>1. UNCHANGED <<field, sources, next, item, line>>
    BY <1>3 DEF CannotRead, Decode, vars
  <2>2. QED
    BY <2>1 DEF Reading, IsFrom, Ordered, Upto, Times
<1>4. QED
  BY <1>1, <1>2, <1>3 DEF Next

-----------------------------------------------------------------------------
(* ToInternal.                                                             *)

LEMMA ContentsAre ==
    ASSUME TypeOK, Reading, ReadSource
    PROVE  /\ DOMAIN Contents = Names(next)
           /\ \A t \in Names(next) : /\ Contents[t] \in Raw
                                     /\ IsFrom(Contents[t], next, PlacesOf(next, t))
                                     /\ Contents[t].type = TypeOf(next, t)
<1>0. next \in 1..Len(sources) /\ next \in Nat /\ sources[next].kind \in {"file", "cmdline"}
  BY SourceIs DEF ReadSource, TypeOK
<1>1. CASE sources[next].kind = "file"
  <2> DEFINE text == sources[next].text
  <2>1. /\ DOMAIN Contents = DOMAIN text
        /\ \A t \in DOMAIN text : Contents[t] = [type |-> text[t], from |-> << <<next, 1>> >>]
    BY <1>1 DEF Contents
  <2>2. \A t \in DOMAIN text : text[t] \in RawType
    BY <1>0, <1>1, SourceIs
  <2>3. Names(next) = DOMAIN text
    BY <1>1 DEF Names
  <2>4. ASSUME NEW t \in DOMAIN text
        PROVE  /\ Contents[t] \in Raw /\ IsFrom(Contents[t], next, PlacesOf(next, t))
               /\ Contents[t].type = TypeOf(next, t)
    <3> DEFINE from == << <<next, 1>> >>
    <3>1. from \in Seq(Nat \X Nat) /\ DOMAIN from = {1} /\ from[1] = <<next, 1>>
      BY <1>0
    <3>2. Contents[t].from = from /\ Contents[t].type = text[t] /\ Contents[t] \in Raw
      <4>1. text[t] \in RawType /\ Contents[t] = [type |-> text[t], from |-> from]
        BY <2>1, <2>2
      <4> HIDE DEF text, from
      <4>2. QED
        BY <3>1, <4>1 DEF Raw
    <3> HIDE DEF from
    <3>3. from[1][1] = next /\ from[1][2] = 1
      BY <3>1
    <3>4. Ordered(from) /\ {from[i][2] : i \in DOMAIN from} = {1}
      BY <3>1, <3>3 DEF Ordered
    <3>5. IsFrom(Contents[t], next, {1})
      BY <3>1, <3>2, <3>3, <3>4 DEF IsFrom
    <3>6. QED
      BY <1>1, <3>2, <3>5 DEF PlacesOf, TypeOf
  <2>5. QED
    BY <2>1, <2>3, <2>4
<1>2. CASE sources[next].kind = "cmdline"
  <2> DEFINE names == sources[next].names
  <2>1. names \in Seq(Spellings(field)) /\ Len(names) \in Nat /\ item \in Nat
    BY <1>0, <1>2, SourceIs DEF TypeOK
  <2>2. item = Len(names) + 1
    BY <1>0, <1>2, <2>1 DEF ReadSource, Reading
  <2>3. Contents = line
    BY <1>2 DEF Contents
  <2>4. /\ DOMAIN line = {names[i] : i \in 1..Len(names)}
        /\ \A t \in DOMAIN line : /\ IsFrom(line[t], next, Upto(t)) /\ line[t] \in Raw
                                  /\ line[t].type = Times(Len(line[t].from))
    BY <1>0, <1>2, <2>1, <2>2 DEF Reading, TypeOK, IsText
  <2>5. Names(next) = DOMAIN line
    BY <1>2, <2>1, <2>4 DEF Names, Range
  <2>6. \A t : Upto(t) = PlacesOf(next, t)
    BY <1>2, <2>1, <2>2 DEF Upto, PlacesOf
  <2>7. ASSUME NEW t \in DOMAIN line
        PROVE  line[t].type = TypeOf(next, t)
    <3> DEFINE from == line[t].from
               L == Len(from)
    <3>1. from \in Seq(Nat \X Nat) /\ L \in Nat /\ DOMAIN from = 1..L
      BY <2>4 DEF Raw
    <3>2. /\ {from[i][2] : i \in 1..L} = PlacesOf(next, t)
          /\ \A i, j \in 1..L : i < j => from[i][2] < from[j][2]
          /\ \A i \in 1..L : from[i][2] \in Nat
      <4>1. IsFrom(line[t], next, PlacesOf(next, t))
        BY <2>4, <2>6
      <4>2. \A i \in 1..L : from[i] \in Nat \X Nat
        BY <3>1
      <4>3. \A i \in 1..L : from[i][2] \in Nat
        BY <4>2
      <4>4. Ordered(from) /\ {from[i][2] : i \in DOMAIN from} = PlacesOf(next, t)
        BY <4>1 DEF IsFrom
      <4> HIDE DEF from, L
      <4>5. QED
        BY <3>1, <4>3, <4>4 DEF Ordered
    <3>3. PlacesOf(next, t) # {}
      BY <1>2, <2>4 DEF PlacesOf
    <3> HIDE DEF from, L
    <3>4. L >= 1
      BY <3>1, <3>2, <3>3
    <3>5. L = 1 <=> ~\E i, j \in PlacesOf(next, t) : i # j
      <4>1. CASE L = 1
        BY <3>2, <4>1
      <4>2. CASE L > 1
        <5>1. from[1][2] \in PlacesOf(next, t) /\ from[2][2] \in PlacesOf(next, t)
          BY <3>1, <3>2, <4>2
        <5>2. from[1][2] # from[2][2]
          BY <3>1, <3>2, <4>2
        <5>3. QED
          BY <4>2, <5>1, <5>2
      <4>3. QED
        BY <3>1, <3>4, <4>1, <4>2
    <3>6. line[t].type = Times(L)
      BY <2>4 DEF from, L
    <3>7. QED
      BY <1>2, <3>1, <3>4, <3>5, <3>6 DEF TypeOf, Times
  <2>8. QED
    BY <2>3, <2>4, <2>5, <2>6, <2>7
<1>3. QED
  BY <1>0, <1>1, <1>2

LEMMA ConvertedIs ==
    ASSUME NEW v \in Raw, field \in Fields
    PROVE  Converted(v) \in Raw /\ Converted(v).from = v.from /\ Converted(v).type = TypeAs(v.type)
BY DEF Converted, TypeAs, Raw, RawType

LEMMA InternalAre ==
    ASSUME NEW text, NEW new \in Internal(text)
    PROVE  /\ DOMAIN new = IF DOMAIN text = {} THEN {} ELSE DOMAIN text \cup {"camel"}
           /\ "camel" \in DOMAIN new => \E t \in DOMAIN text : new["camel"] = Converted(text[t])
           /\ \A s \in DOMAIN text : s # "camel" => new[s] = text[s]
<1>1. PICK t \in Named(text) : new = [s \in DOMAIN t |-> IF s = "camel" THEN Converted(t[s]) ELSE t[s]]
  BY DEF Internal
<1>2. CASE DOMAIN text \subseteq {"camel"}
  <2>1. t = text
    BY <1>2 DEF Named
  <2>2. QED
    BY <1>1, <1>2, <2>1
<1>3. CASE ~(DOMAIN text \subseteq {"camel"})
  <2>1. PICK u \in DOMAIN text \ {"camel"} :
            t = [s \in DOMAIN text \cup {"camel"} |-> IF s = "camel" THEN text[u] ELSE text[s]]
    BY <1>3 DEF Named
  <2>2. QED
    BY <1>1, <1>3, <2>1
<1>4. QED
  BY <1>2, <1>3

-----------------------------------------------------------------------------
(* merge and the decoding.                                                 *)

LEMMA TypesKept ==
    ASSUME TypeOK, Reading, [Next]_vars
    PROVE  TypeOK'
<1>1. CASE ReadItem
  <2>1. UNCHANGED <<field, sources, next, data, outcome, value>> /\ item' \in Nat \ {0}
    BY <1>1 DEF ReadItem, TypeOK
  <2>2. IsText(line)'
    BY <1>1, ItemIsRead
  <2>3. QED
    BY <2>1, <2>2 DEF TypeOK, IsText
<1>2. CASE ReadSource
  <2>1. UNCHANGED <<field, sources, outcome, value>> /\ item' = 1 /\ line' = Empty
        /\ next' \in 1..(Len(sources) + 1)
    BY <1>2 DEF ReadSource, TypeOK
  <2>2. PICK new \in Internal(Contents) : data' = Overlay(data, new)
    BY <1>2 DEF ReadSource
  <2>3. next \in 1..Len(sources)
    BY <1>2 DEF ReadSource, TypeOK
  <2>4. DOMAIN new \subseteq Spellings(field) /\ \A s \in DOMAIN new : new[s] \in Raw
    <3>1. DOMAIN Contents = Names(next) /\ \A t \in Names(next) : Contents[t] \in Raw
      BY <1>2, ContentsAre
    <3>2. Names(next) \subseteq Spellings(field) /\ "camel" \in Spellings(field)
      BY <2>3, SourceIs DEF Spellings
    <3>3. field \in Fields
      BY DEF TypeOK
    <3>4. \A t \in Names(next) : Converted(Contents[t]) \in Raw
      BY <3>1, <3>3, ConvertedIs
    <3>5. DOMAIN new \subseteq DOMAIN Contents \cup {"camel"}
      BY InternalAre
    <3>6. /\ "camel" \in DOMAIN new => \E t \in DOMAIN Contents : new["camel"] = Converted(Contents[t])
          /\ \A s \in DOMAIN Contents : s # "camel" => new[s] = Contents[s]
      BY InternalAre
    <3>7. QED
      BY <3>1, <3>2, <3>4, <3>5, <3>6
  <2>5. IsText(data)'
    BY <2>1, <2>2, <2>4 DEF Overlay, TypeOK, IsText
  <2>6. IsText(line)'
    BY <2>1 DEF IsText, Empty
  <2>7. QED
    BY <2>1, <2>5, <2>6 DEF TypeOK
<1>3. CASE CannotRead
  BY <1>3 DEF CannotRead, TypeOK, IsText
<1>4. CASE Decode
  <2>1. UNCHANGED <<field, sources, next, item, line, data>> /\ outcome' \in {"read", "refused"}
    BY <1>4 DEF Decode
  <2>2. value' = Unset \/ (value' \in Raw /\ value'.type = field.kind)
    BY <1>4 DEF Decode, Matching, TypeOK, IsText
  <2>3. QED
    BY <2>1, <2>2 DEF TypeOK, IsText
<1>5. CASE UNCHANGED vars
  BY <1>5 DEF vars, TypeOK, IsText
<1>6. QED
  BY <1>1, <1>2, <1>3, <1>4, <1>5 DEF Next

(* What the sources say does not change.                                   *)
LEMMA SourcesStay ==
    ASSUME [Next]_vars
    PROVE  /\ UNCHANGED <<field, sources>>
           /\ \A n : /\ Names(n)' = Names(n) /\ Readable(n)' = Readable(n)
                     /\ Understood(n)' = Understood(n)
           /\ \A v, s, n : ComesFrom(v, s, n)' = ComesFrom(v, s, n)
           /\ \A n, s : PlacesOf(n, s)' = PlacesOf(n, s)
           /\ Setters' = Setters /\ Last' = Last /\ Clean' = Clean
<1>1. UNCHANGED <<field, sources>>
  BY DEF Next, vars, ReadItem, ReadSource, CannotRead, Decode
<1>2. \A n, s : PlacesOf(n, s)' = PlacesOf(n, s) /\ TypeOf(n, s)' = TypeOf(n, s)
  BY <1>1 DEF PlacesOf, TypeOf, Times
<1>3. \A n : Names(n)' = Names(n) /\ Readable(n)' = Readable(n)
  BY <1>1 DEF Names, Readable
<1>4. \A n : Understood(n)' = Understood(n)
  BY <1>1, <1>2, <1>3 DEF Understood
<1>5. \A v, s, n : ComesFrom(v, s, n)' = ComesFrom(v, s, n)
  BY <1>1, <1>2, <1>3 DEF ComesFrom, IsFrom, Ordered, TypeAs
<1>6. Setters' = Setters
  BY <1>1, <1>3 DEF Setters
<1>7. Last' = Last
  BY <1>6 DEF Last
<1>8. Clean' = Clean
  BY <1>1, <1>3 DEF Clean
<1>9. QED
  BY <1>1, <1>2, <1>3, <1>4, <1>5, <1>6, <1>7, <1>8

LEMMA MergedKept ==
    ASSUME TypeOK, Reading, Merged, [Next]_vars
    PROVE  Merged'
<1>1. CASE ReadSource
  <2>1. PICK new \in Internal(Contents) : data' = Overlay(data, new)
    BY <1>1 DEF ReadSource
  <2>2. next \in Nat /\ next >= 1 /\ next' = next + 1
    BY <1>1 DEF ReadSource, TypeOK
  <2>3. /\ DOMAIN data' = DOMAIN data \cup DOMAIN new
        /\ \A s \in DOMAIN data' : data'[s] = IF s \in DOMAIN new THEN new[s] ELSE data[s]
    BY <2>1 DEF Overlay
  <2>4. /\ DOMAIN Contents = Names(next)
        /\ \A t \in Names(next) : /\ Contents[t] \in Raw
                                  /\ IsFrom(Contents[t], next, PlacesOf(next, t))
                                  /\ Contents[t].type = TypeOf(next, t)
    BY <1>1, ContentsAre
  <2>5. /\ DOMAIN new = IF Names(next) = {} THEN {} ELSE Names(next) \cup {"camel"}
        /\ "camel" \in DOMAIN new => \E t \in Names(next) : new["camel"] = Converted(Contents[t])
        /\ \A s \in Names(next) : s # "camel" => new[s] = Contents[s]
    <3> DEFINE c == Contents
    <3> HIDE DEF c
    <3>1. new \in Internal(c)
      BY DEF c
    <3>2. /\ DOMAIN new = IF DOMAIN c = {} THEN {} ELSE DOMAIN c \cup {"camel"}
          /\ "camel" \in DOMAIN new => \E t \in DOMAIN c : new["camel"] = Converted(c[t])
          /\ \A s \in DOMAIN c : s # "camel" => new[s] = c[s]
      BY <3>1, InternalAre
    <3>3. QED
      BY <2>4, <3>2 DEF c
  <2>6. "camel" \in DOMAIN new => ComesFrom(new["camel"], "camel", next)
    <3>1. SUFFICES ASSUME NEW t \in Names(next), new["camel"] = Converted(Contents[t])
                   PROVE  ComesFrom(new["camel"], "camel", next)
      BY <2>5
    <3>2. /\ new["camel"].from = Contents[t].from
          /\ new["camel"].type = TypeAs(TypeOf(next, t))
      BY <2>4, <3>1, ConvertedIs DEF TypeOK
    <3>3. IsFrom(new["camel"], next, PlacesOf(next, t))
      BY <2>4, <3>2 DEF IsFrom
    <3>4. QED
      BY <3>2, <3>3 DEF ComesFrom
  <2>7. "lower" \in DOMAIN new => ComesFrom(new["lower"], "lower", next)
    BY <2>4, <2>5 DEF ComesFrom
  <2>8. 1..(next' - 1) = (1..(next - 1)) \cup {next}
    BY <2>2
  <2>9. Names(next) # {} <=> "camel" \in DOMAIN new
    BY <2>5
  <2>10. (\E n \in 1..(next' - 1) : Names(n) # {}) => "camel" \in DOMAIN data'
    BY <2>3, <2>8, <2>9 DEF Merged
  <2>11. ASSUME "camel" \in DOMAIN data'
         PROVE  \E n \in 1..(next' - 1) : /\ ComesFrom(data'["camel"], "camel", n)
                                          /\ \A m \in (n + 1)..(next' - 1) : Names(m) = {}
    <3>1. CASE "camel" \in DOMAIN new
      <4>1. ComesFrom(data'["camel"], "camel", next)
        BY <2>3, <2>6, <3>1
      <4>2. (next + 1)..(next' - 1) = {}
        BY <2>2
      <4>3. QED
        BY <2>8, <4>1, <4>2
    <3>2. CASE "camel" \notin DOMAIN new
      <4>1. "camel" \in DOMAIN data /\ data'["camel"] = data["camel"]
        BY <2>3, <2>11, <3>2
      <4>2. PICK n \in 1..(next - 1) : /\ ComesFrom(data["camel"], "camel", n)
                                       /\ \A m \in (n + 1)..(next - 1) : Names(m) = {}
        BY <4>1 DEF Merged
      <4>3. \A m \in (n + 1)..(next' - 1) : m \in (n + 1)..(next - 1) \/ m = next
        BY <2>2
      <4>4. Names(next) = {}
        BY <2>9, <3>2
      <4>5. QED
        BY <2>8, <4>1, <4>2, <4>3, <4>4
    <3>3. QED
      BY <3>1, <3>2
  <2>12. ASSUME "lower" \in DOMAIN data'
         PROVE  \E n \in 1..(next' - 1) : ComesFrom(data'["lower"], "lower", n)
    BY <2>3, <2>7, <2>8, <2>12 DEF Merged
  <2>13. QED
    BY <2>10, <2>11, <2>12, SourcesStay DEF Merged
<1>2. CASE ~ReadSource
  <2>1. UNCHANGED <<next, data>>
    BY <1>2 DEF Next, vars, ReadItem, CannotRead, Decode
  <2>2. QED
    BY <2>1, SourcesStay DEF Merged
<1>3. QED
  BY <1>1, <1>2

(* What is decoded is from the last source, whole and in order; what is    *)
(* refused has a source that is not understood.                            *)
LEMMA Decoded ==
    ASSUME TypeOK, Merged, RepeatedKeysInOrder, Decode
    PROVE  LastSourceWins' /\ RepeatedKeysInOrder' /\ RefusedWithCause'
<1>0. /\ next = Len(sources) + 1 /\ Len(sources) \in Nat /\ DOMAIN sources = 1..Len(sources)
      /\ Matching \subseteq {"camel", "lower"}
      /\ \A s : s \in Matching <=> s \in {"camel", "lower"} /\ s \in DOMAIN data
  BY DEF Decode, TypeOK, Matching
<1> DEFINE N == Len(sources)
<1>1. \A s \in Matching : \E n \in 1..N : ComesFrom(data[s], s, n)
  BY <1>0 DEF Merged
<1>2. [Next]_vars
  BY DEF Next
<1>3. RefusedWithCause'
  <2>1. SUFFICES ASSUME outcome' = "refused"
                 PROVE  \E n \in DOMAIN sources : ~Understood(n)
    BY <1>2, SourcesStay DEF RefusedWithCause
  <2>2. PICK s \in Matching : data[s].type # field.kind
    BY <2>1 DEF Decode
  <2>3. PICK n \in 1..N : ComesFrom(data[s], s, n)
    BY <1>1
  <2>4. PICK t \in Names(n) : IF s = "lower" THEN t = "lower" /\ data[s].type = TypeOf(n, t)
                                             ELSE data[s].type = TypeAs(TypeOf(n, t))
    BY <2>3 DEF ComesFrom
  <2>5. ~Understood(n)
    BY <2>2, <2>4 DEF Understood, TypeAs
  <2>6. QED
    BY <1>0, <2>5
<1>4. CASE outcome' = "refused"
  <2>1. UNCHANGED value /\ outcome = "reading"
    BY <1>4 DEF Decode
  <2>2. QED
    BY <1>3, <1>4, <2>1 DEF LastSourceWins, RepeatedKeysInOrder
<1>5. CASE outcome' = "read" /\ Matching = {}
  <2>1. value' = Unset
    BY <1>5 DEF Decode
  <2>2. RepeatedKeysInOrder'
    BY <2>1 DEF RepeatedKeysInOrder, Unset
  <2>3. Setters = {}
    BY <1>0, <1>5 DEF Merged, Setters
  <2>4. LastSourceWins'
    BY <1>2, <2>1, <2>3, SourcesStay DEF LastSourceWins
  <2>5. QED
    BY <1>3, <2>2, <2>4
<1>6. CASE outcome' = "read" /\ Matching # {}
  <2>1. PICK s \in Matching : value' = data[s] /\ (s # "lower" => s = "camel" /\ "lower" \notin Matching)
    BY <1>0, <1>6 DEF Decode
  <2>2. RepeatedKeysInOrder'
    BY <1>1, <2>1 DEF ComesFrom, IsFrom, Ordered, RepeatedKeysInOrder
  <2>3. ASSUME Clean
        PROVE  /\ Setters # {} /\ \A i \in DOMAIN value'.from : value'.from[i][1] = Last
               /\ \A t \in Names(Last) : Names(Last) = {t} =>
                      {value'.from[i][2] : i \in DOMAIN value'.from} = PlacesOf(Last, t)
    <3>1. s = "camel"
      <4>1. SUFFICES ASSUME s = "lower"
                     PROVE  FALSE
        BY <2>1
      <4>2. PICK n \in 1..N : ComesFrom(data["lower"], "lower", n)
        BY <1>1, <4>1
      <4>3. "lower" \in Names(n)
        BY <4>2 DEF ComesFrom
      <4>4. QED
        BY <1>0, <2>3, <4>3 DEF Clean
    <3>2. PICK n \in 1..N : /\ ComesFrom(data["camel"], "camel", n)
                            /\ \A m \in (n + 1)..N : Names(m) = {}
      BY <1>0, <2>1, <3>1 DEF Merged
    <3>3. PICK t \in Names(n) : IsFrom(data["camel"], n, PlacesOf(n, t))
      BY <3>2 DEF ComesFrom
    <3>4. n \in Setters /\ \A m \in Setters : m <= n
      BY <1>0, <3>2, <3>3 DEF Setters
    <3>5. Last = n
      <4>1. Last \in Setters /\ \A m \in Setters : m <= Last
        BY <3>4 DEF Last
      <4>2. \A m \in Setters : m \in Nat
        BY <1>0 DEF Setters
      <4>3. QED
        BY <3>4, <4>1, <4>2
    <3>6. QED
      BY <2>1, <3>1, <3>3, <3>4, <3>5 DEF IsFrom
  <2>4. LastSourceWins'
    BY <1>2, <2>3, SourcesStay DEF LastSourceWins
  <2>5. QED
    BY <1>3, <2>2, <2>4
<1>7. QED
  BY <1>4, <1>5, <1>6 DEF Decode

LEMMA NextIInv == IInv /\ [Next]_vars => IInv'
<1> SUFFICES ASSUME IInv, [Next]_vars
             PROVE  IInv'
  OBVIOUS
<1>1. TypeOK' /\ Reading' /\ Merged'
  BY TypesKept, ReadingKept, MergedKept DEF IInv
<1>2. LastSourceWins' /\ RepeatedKeysInOrder' /\ RefusedWithCause'
  <2>1. CASE Decode
    BY <2>1, Decoded DEF IInv
  <2>2. CASE CannotRead
    <3>1. /\ next \in DOMAIN sources /\ ~Readable(next) /\ outcome' = "refused" /\ UNCHANGED value
      BY <2>2 DEF CannotRead, IInv, TypeOK
    <3>2. QED
      BY <3>1, SourcesStay DEF IInv, LastSourceWins, RepeatedKeysInOrder, RefusedWithCause
  <2>3. CASE ReadItem \/ ReadSource \/ UNCHANGED vars
    <3>1. UNCHANGED <<outcome, value>>
      BY <2>3 DEF ReadItem, ReadSource, vars
    <3>2. QED
      BY <3>1, SourcesStay DEF IInv, LastSourceWins, RepeatedKeysInOrder, RefusedWithCause
  <2>4. QED
    BY <2>1, <2>2, <2>3 DEF Next
<1>3. QED
  BY <1>1, <1>2 DEF IInv

-----------------------------------------------------------------------------
(* The invariant holds: what has been read of the command line is what it  *)
(* says up to there, and what has been merged under the field's own name   *)
(* is what the last source has that has the field.                         *)
THEOREM MergeInvariant == Spec => []IInv
BY InitIInv, NextIInv, PTL DEF Spec

(* Every variable stays in its type: among others, the field is decoded as *)
(* what it is in CloudConfig or not at all.                                *)
THEOREM MergeTypes == Spec => []TypeOK
<1>1. IInv => TypeOK
  BY DEF IInv
<1>2. QED
  BY <1>1, MergeInvariant, PTL

(* merge: however many sources there are, the last one that has the field  *)
(* decides it, as a whole.                                                 *)
THEOREM TheLastSourceWins == Spec => []LastSourceWins
<1>1. IInv => LastSourceWins
  BY DEF IInv
<1>2. QED
  BY <1>1, MergeInvariant, PTL

(* readCmdline: a key that is repeated, however often and with whatever in *)
(* between, gives all its values in their order.                           *)
THEOREM RepeatedKeysStayInOrder == Spec => []RepeatedKeysInOrder
<1>1. IInv => RepeatedKeysInOrder
  BY DEF IInv
<1>2. QED
  BY <1>1, MergeInvariant, PTL

(* ReadConfig returns an error only if there is a file it cannot read or a *)
(* value that nothing makes one of the field's type.                       *)
THEOREM RefusesWithCause == Spec => []RefusedWithCause
<1>1. IInv => RefusedWithCause
  BY DEF IInv
<1>2. QED
  BY <1>1, MergeInvariant, PTL
=============================================================================
