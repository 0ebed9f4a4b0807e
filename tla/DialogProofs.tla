---------------------------- MODULE DialogProofs ----------------------------
(***************************************************************************)
(* Proofs about Dialog, for any modes, disks and settings on the kernel    *)
(* command line and any length of a password: install.sh is started for    *)
(* what was agreed to, with the password that was typed, and what the      *)
(* questions use on the way does not stay behind.                          *)
(***************************************************************************)
EXTENDS Dialog, FiniteSetTheorems, TLAPS

(* How many characters more than backspaces there are from a key to the    *)
(* last one is how many characters of the password stand behind the one    *)
(* the key has typed, that one included.                                   *)
SpelledAt(at, p, keys) ==
    /\ {at[n] : n \in 1..Len(p)} = {i \in 1..Len(keys) : Counts(keys, i)}
    /\ \A m, n \in 1..Len(p) : m < n => at[m] < at[n]
    /\ \A n \in 1..Len(p) :
           /\ p[n] = keys[at[n]]
           /\ (Len(keys) - at[n] + 1) - 2 * Backspaces(keys, at[n], Len(keys)) = Len(p) - n + 1

Spelled(p, keys) == \E at \in [1..Len(p) -> 1..Len(keys)] : SpelledAt(at, p, keys)

-----------------------------------------------------------------------------
(* MaskPassword.                                                           *)

LEMMA BackspacesAre ==
    ASSUME NEW keys \in Seq(Keystroke), NEW k \in Keystroke, NEW i \in 1..(Len(keys) + 1)
    PROVE  /\ \A j \in i..Len(keys) : /\ Backspaces(keys, i, j) \in Nat
                                      /\ Backspaces(Append(keys, k), i, j) = Backspaces(keys, i, j)
           /\ Backspaces(keys, i, Len(keys)) \in Nat
           /\ Backspaces(Append(keys, k), i, Len(keys) + 1) =
                  Backspaces(keys, i, Len(keys)) + (IF k = "del" THEN 1 ELSE 0)
           /\ i = Len(keys) + 1 => Backspaces(keys, i, Len(keys)) = 0
<1> DEFINE L == Len(keys)
           new == Append(keys, k)
           D(s, j) == {l \in i..j : s[l] = "del"}
<1>0. L \in Nat /\ new \in Seq(Keystroke) /\ \A l \in 1..L : new[l] = keys[l]
  OBVIOUS
<1>1. new[L + 1] = k
  OBVIOUS
<1>2. \A j \in Nat : IsFiniteSet(D(keys, j))
  <2>1. ASSUME NEW j \in Nat
        PROVE  IsFiniteSet(i..j) /\ D(keys, j) \subseteq i..j
    <3>1. i \in Int /\ j \in Int
      BY <1>0
    <3>2. IsFiniteSet(i..j)
      BY <3>1, FS_Interval
    <3>3. D(keys, j) \subseteq i..j
      OBVIOUS
    <3>4. QED
      BY <3>2, <3>3
  <2>2. QED
    BY <2>1, FS_Subset
<1>3. \A j \in Nat : Cardinality(D(keys, j)) \in Nat
  BY <1>2, FS_CardinalityType
<1> HIDE DEF new
<1>4. \A j \in 1..L : D(new, j) = D(keys, j)
  BY <1>0
<1>5. D(new, L) = D(keys, L)
  BY <1>0
<1>6. D(new, L + 1) = IF k = "del" THEN D(keys, L) \cup {L + 1} ELSE D(keys, L)
  <2>1. D(new, L + 1) = D(new, L) \cup {l \in {L + 1} : new[l] = "del"}
    BY <1>0
  <2>2. {l \in {L + 1} : new[l] = "del"} = IF k = "del" THEN {L + 1} ELSE {}
    BY <1>1
  <2>3. QED
    BY <1>5, <2>1, <2>2
<1>7. L + 1 \notin D(keys, L)
  BY <1>0
<1>8. i = L + 1 => D(keys, L) = {}
  BY <1>0
<1>9. Cardinality(D(new, L + 1)) = Cardinality(D(keys, L)) + (IF k = "del" THEN 1 ELSE 0)
  <2>1. L \in Nat
    BY <1>0
  <2>2. IsFiniteSet(D(keys, L))
    BY <1>2, <2>1
  <2>3. Cardinality(D(keys, L) \cup {L + 1}) = Cardinality(D(keys, L)) + 1
    BY <1>7, <2>2, FS_AddElement
  <2>4. Cardinality(D(keys, L)) \in Nat
    BY <1>3, <2>1
  <2> HIDE DEF D, L
  <2>5. QED
    BY <1>6, <2>3, <2>4
<1>10. i = L + 1 => Cardinality(D(keys, L)) = 0
  BY <1>8, FS_EmptySet
<1>11. \A s : \A j : Backspaces(s, i, j) = Cardinality(D(s, j))
  BY DEF Backspaces
<1> HIDE DEF D
<1>12. \A j \in i..L : Backspaces(keys, i, j) \in Nat /\ Backspaces(new, i, j) = Backspaces(keys, i, j)
  <2>1. ASSUME NEW j \in i..L
        PROVE  j \in 1..L /\ j \in Nat
    BY <1>0
  <2>2. QED
    BY <1>3, <1>4, <1>11, <2>1
<1>13. Backspaces(keys, i, L) \in Nat
  BY <1>0, <1>3, <1>11
<1>14. Backspaces(new, i, L + 1) = Backspaces(keys, i, L) + (IF k = "del" THEN 1 ELSE 0)
  BY <1>9, <1>11
<1>15. i = L + 1 => Backspaces(keys, i, L) = 0
  BY <1>10, <1>11
<1>16. QED
  BY <1>12, <1>13, <1>14, <1>15 DEF new

(* Which keys count after one more.                                        *)
LEMMA CountsAre ==
    ASSUME NEW keys \in Seq(Keystroke), NEW k \in Keystroke
    PROVE  /\ \A i \in 1..Len(keys) :
                  /\ Backspaces(keys, i, Len(keys)) \in Nat
                  /\ Counts(keys, i) =>
                         2 * Backspaces(keys, i, Len(keys)) < Len(keys) - i + 1
                  /\ Counts(Append(keys, k), i) <=>
                         /\ Counts(keys, i)
                         /\ k = "del" => 2 * Backspaces(keys, i, Len(keys)) < Len(keys) - i
           /\ Counts(Append(keys, k), Len(keys) + 1) <=> k # "del"
<1> DEFINE L == Len(keys)
           new == Append(keys, k)
<1>0. L \in Nat /\ Len(new) = L + 1
  OBVIOUS
<1>1. ASSUME NEW i \in 1..L
      PROVE  /\ Backspaces(keys, i, L) \in Nat
             /\ Counts(keys, i) => 2 * Backspaces(keys, i, L) < L - i + 1
             /\ Counts(new, i) <=>
                    /\ Counts(keys, i)
                    /\ k = "del" => 2 * Backspaces(keys, i, L) < L - i
  <2> DEFINE b == Backspaces(keys, i, L)
             c == Backspaces(new, i, L + 1)
  <2>1. i \in 1..(L + 1) /\ i \in 1..L /\ L \in i..L
    BY <1>0
  <2>2. /\ \A j \in i..L : Backspaces(new, i, j) = Backspaces(keys, i, j)
        /\ b \in Nat /\ c = b + (IF k = "del" THEN 1 ELSE 0)
    BY <2>1, BackspacesAre
  <2> HIDE DEF b, c
  <2>3. Counts(keys, i) <=> \A j \in i..L : 2 * Backspaces(keys, i, j) < j - i + 1
    BY DEF Counts
  <2>4. Counts(new, i) <=> /\ \A j \in i..L : 2 * Backspaces(new, i, j) < j - i + 1
                           /\ 2 * c < (L + 1) - i + 1
    <3>1. i..(L + 1) = (i..L) \cup {L + 1}
      BY <1>0, <2>1
    <3>2. Counts(new, i) <=> \A j \in i..(L + 1) : 2 * Backspaces(new, i, j) < j - i + 1
      BY <1>0 DEF Counts
    <3>3. QED
      BY <3>1, <3>2 DEF c
  <2>5. Counts(new, i) <=> Counts(keys, i) /\ 2 * c < (L + 1) - i + 1
    BY <2>2, <2>3, <2>4
  <2>6. Counts(keys, i) => 2 * b < L - i + 1
    BY <2>1, <2>3 DEF b
  <2>7. ASSUME 2 * b < L - i + 1
        PROVE  2 * c < (L + 1) - i + 1 <=> (k = "del" => 2 * b < L - i)
    <3> HIDE DEF L
    <3>1. L \in Nat /\ i \in Nat
      BY <1>0, <2>1
    <3>2. QED
      BY <2>2, <2>7, <3>1
  <2>8. QED
    BY <2>2, <2>5, <2>6, <2>7 DEF b
<1>2. Counts(new, L + 1) <=> k # "del"
  <2> DEFINE c == Backspaces(new, L + 1, L + 1)
  <2>1. c = IF k = "del" THEN 1 ELSE 0
    <3>1. L + 1 \in 1..(L + 1)
      BY <1>0
    <3>2. c = Backspaces(keys, L + 1, L) + (IF k = "del" THEN 1 ELSE 0)
          /\ Backspaces(keys, L + 1, L) = 0
      BY <3>1, BackspacesAre
    <3>3. QED
      BY <3>2
  <2>2. (L + 1)..(L + 1) = {L + 1}
    BY <1>0
  <2>3. Counts(new, L + 1) <=> 2 * c < (L + 1) - (L + 1) + 1
    BY <1>0, <2>2 DEF Counts
  <2> HIDE DEF c
  <2>4. QED
    BY <1>0, <2>1, <2>3
<1>3. QED
  BY <1>1, <1>2

LEMMA LastGoes ==
    ASSUME NEW B, NEW p \in Seq(B), p # <<>>
    PROVE  /\ Len(Front(p)) = Len(p) - 1
           /\ \A n \in 1..(Len(p) - 1) : Front(p)[n] = p[n]
<1>1. Len(p) \in Nat \ {0}
  OBVIOUS
<1> DEFINE l == Len(p) - 1
<1>2. Front(p) = SubSeq(p, 1, l)
  BY DEF Front
<1>3. l \in Nat /\ l <= Len(p)
  BY <1>1
<1> HIDE DEF l
<1>4. Len(SubSeq(p, 1, l)) = l /\ \A n \in 1..l : SubSeq(p, 1, l)[n] = p[n]
  BY <1>3
<1>5. QED
  BY <1>2, <1>4 DEF l

LEMMA SpelledNothing == Spelled(<<>>, <<>>)
<1>1. Len(<<>>) = 0
  OBVIOUS
<1>2. 1..0 = {}
  OBVIOUS
<1>3. [n \in {} |-> n] \in [1..Len(<<>>) -> 1..Len(<<>>)]
  BY <1>1, <1>2
<1>4. QED
  BY <1>1, <1>2, <1>3 DEF Spelled, SpelledAt

LEMMA SpelledCharacter ==
    ASSUME NEW keys \in Seq(Keystroke), NEW p \in Seq(Char), Spelled(p, keys), NEW k \in Char
    PROVE  Spelled(Append(p, k), Append(keys, k))
<1> DEFINE L == Len(keys)
           N == Len(p)
           newKeys == Append(keys, k)
           newP == Append(p, k)
<1>1. PICK at \in [1..N -> 1..L] :
          /\ {at[n] : n \in 1..N} = {i \in 1..L : Counts(keys, i)}
          /\ \A m, n \in 1..N : m < n => at[m] < at[n]
          /\ \A n \in 1..N : /\ p[n] = keys[at[n]]
                             /\ (L - at[n] + 1) - 2 * Backspaces(keys, at[n], L) = N - n + 1
  BY DEF Spelled, SpelledAt
<1> DEFINE new == [n \in 1..(N + 1) |-> IF n = N + 1 THEN L + 1 ELSE at[n]]
<1>2. /\ N \in Nat /\ L \in Nat /\ Len(newKeys) = L + 1 /\ Len(newP) = N + 1
      /\ k \in Keystroke /\ k # "del"
      /\ \A n \in 1..N : newP[n] = p[n]
      /\ \A i \in 1..L : newKeys[i] = keys[i]
      /\ newP[N + 1] = k /\ newKeys[L + 1] = k
  BY DEF Keystroke, Char
<1>3. /\ \A i \in 1..L : Counts(newKeys, i) <=> Counts(keys, i)
      /\ Counts(newKeys, L + 1)
  BY <1>2, CountsAre
<1>4. /\ \A i \in 1..L : /\ Backspaces(keys, i, L) \in Nat
                         /\ Backspaces(newKeys, i, L + 1) = Backspaces(keys, i, L)
      /\ Backspaces(newKeys, L + 1, L + 1) = 0
  <2>1. ASSUME NEW i \in 1..(L + 1)
        PROVE  /\ Backspaces(keys, i, L) \in Nat
               /\ Backspaces(newKeys, i, L + 1) = Backspaces(keys, i, L)
               /\ i = L + 1 => Backspaces(keys, i, L) = 0
    BY <1>2, BackspacesAre
  <2>2. (\A i \in 1..L : i \in 1..(L + 1)) /\ L + 1 \in 1..(L + 1)
    BY <1>2
  <2>3. QED
    BY <2>1, <2>2
<1> HIDE DEF newKeys, newP, L, N
<1>5. new \in [1..(N + 1) -> 1..(L + 1)]
  BY <1>2
<1>6. /\ new[N + 1] = L + 1
      /\ \A n \in 1..N : new[n] = at[n] /\ at[n] \in 1..L
  BY <1>2
<1> HIDE DEF new
<1>7. {new[n] : n \in 1..(N + 1)} = {i \in 1..(L + 1) : Counts(newKeys, i)}
  <2>1. 1..(N + 1) = (1..N) \cup {N + 1} /\ 1..(L + 1) = (1..L) \cup {L + 1}
    BY <1>2
  <2>2. {new[n] : n \in 1..(N + 1)} = {at[n] : n \in 1..N} \cup {L + 1}
    BY <1>6, <2>1
  <2>3. {i \in 1..(L + 1) : Counts(newKeys, i)} = {i \in 1..L : Counts(keys, i)} \cup {L + 1}
    BY <1>3, <2>1
  <2>4. QED
    BY <1>1, <2>2, <2>3
<1>8. ASSUME NEW m \in 1..(N + 1), NEW n \in 1..(N + 1), m < n
      PROVE  new[m] < new[n]
  <2>1. CASE n = N + 1
    <3>1. m \in 1..N
      BY <1>2, <1>8, <2>1
    <3>2. QED
      BY <1>2, <1>6, <2>1, <3>1
  <2>2. CASE n # N + 1
    <3>1. m \in 1..N /\ n \in 1..N
      BY <1>2, <1>8, <2>2
    <3>2. QED
      BY <1>1, <1>6, <1>8, <3>1
  <2>3. QED
    BY <2>1, <2>2
<1>9. ASSUME NEW n \in 1..(N + 1)
      PROVE  /\ newP[n] = newKeys[new[n]]
             /\ ((L + 1) - new[n] + 1) - 2 * Backspaces(newKeys, new[n], L + 1) = (N + 1) - n + 1
  <2>1. CASE n = N + 1
    BY <1>2, <1>4, <1>6, <2>1
  <2>2. CASE n # N + 1
    <3>1. n \in 1..N
      BY <1>2, <2>2
    <3>2. /\ new[n] = at[n] /\ at[n] \in 1..L /\ p[n] = keys[at[n]]
          /\ (L - at[n] + 1) - 2 * Backspaces(keys, at[n], L) = N - n + 1
          /\ Backspaces(keys, at[n], L) \in Nat
          /\ Backspaces(newKeys, at[n], L + 1) = Backspaces(keys, at[n], L)
      BY <1>1, <1>4, <1>6, <3>1
    <3>3. newP[n] = newKeys[new[n]]
      BY <1>2, <3>1, <3>2
    <3>4. ((L + 1) - at[n] + 1) - 2 * Backspaces(keys, at[n], L) = (N + 1) - n + 1
      <4> DEFINE a == at[n]
                 b == Backspaces(keys, at[n], L)
      <4>1. a \in Nat /\ n \in Nat /\ b \in Nat /\ L \in Nat /\ N \in Nat
            /\ (L - a + 1) - 2 * b = N - n + 1
        BY <1>2, <3>1, <3>2
      <4> HIDE DEF a, b
      <4>2. ((L + 1) - a + 1) - 2 * b = (N + 1) - n + 1
        BY <4>1
      <4>3. QED
        BY <4>2 DEF a, b
    <3>5. QED
      BY <3>2, <3>3, <3>4
  <2>3. QED
    BY <2>1, <2>2
<1>10. Len(newP) = N + 1 /\ Len(newKeys) = L + 1
  BY <1>2
<1>11. SpelledAt(new, newP, newKeys)
  <2>1. {new[n] : n \in 1..Len(newP)} = {i \in 1..Len(newKeys) : Counts(newKeys, i)}
    BY <1>7, <1>10
  <2>2. \A m, n \in 1..Len(newP) : m < n => new[m] < new[n]
    BY <1>8, <1>10
  <2>3. \A n \in 1..Len(newP) :
            /\ newP[n] = newKeys[new[n]]
            /\ (Len(newKeys) - new[n] + 1) - 2 * Backspaces(newKeys, new[n], Len(newKeys)) =
                   Len(newP) - n + 1
    <3>1. ASSUME NEW n \in 1..(N + 1)
          PROVE  /\ newP[n] = newKeys[new[n]]
                 /\ ((L + 1) - new[n] + 1) - 2 * Backspaces(newKeys, new[n], L + 1) = (N + 1) - n + 1
      BY <1>9
    <3>2. QED
      BY <1>10, <3>1, Zenon
  <2>4. QED
    BY <2>1, <2>2, <2>3 DEF SpelledAt
<1>12. Spelled(newP, newKeys)
  BY <1>5, <1>10, <1>11 DEF Spelled
<1>13. QED
  BY <1>12 DEF newP, newKeys

LEMMA SpelledBackspace ==
    ASSUME NEW keys \in Seq(Keystroke), NEW p \in Seq(Char), Spelled(p, keys)
    PROVE  Spelled(Backspace(p), Append(keys, "del"))
<1> DEFINE L == Len(keys)
           N == Len(p)
           M == IF N = 0 THEN 0 ELSE N - 1
           newKeys == Append(keys, "del")
           newP == Backspace(p)
<1>1. PICK at \in [1..N -> 1..L] :
          /\ {at[n] : n \in 1..N} = {i \in 1..L : Counts(keys, i)}
          /\ \A m, n \in 1..N : m < n => at[m] < at[n]
          /\ \A n \in 1..N : /\ p[n] = keys[at[n]]
                             /\ (L - at[n] + 1) - 2 * Backspaces(keys, at[n], L) = N - n + 1
  BY DEF Spelled, SpelledAt
<1> DEFINE new == [n \in 1..M |-> at[n]]
<1>2. /\ N \in Nat /\ L \in Nat /\ Len(newKeys) = L + 1 /\ "del" \in Keystroke
      /\ \A i \in 1..L : newKeys[i] = keys[i]
  BY DEF Keystroke
<1>3. Len(newP) = M /\ \A n \in 1..M : newP[n] = p[n]
  <2>1. CASE p = <<>>
    BY <2>1 DEF Backspace
  <2>2. CASE p # <<>>
    <3>1. N # 0 /\ N \in Nat
      BY <2>2
    <3>2. newP = Front(p) /\ M = N - 1
      BY <2>2, <3>1 DEF Backspace
    <3>3. Len(Front(p)) = N - 1 /\ \A n \in 1..(N - 1) : Front(p)[n] = p[n]
      BY <2>2, LastGoes
    <3> HIDE DEF newP, M, N
    <3>4. QED
      BY <3>2, <3>3
  <2>3. QED
    BY <2>1, <2>2
<1>4. /\ \A i \in 1..L :
             Counts(newKeys, i) <=> Counts(keys, i) /\ 2 * Backspaces(keys, i, L) < L - i
      /\ ~Counts(newKeys, L + 1)
  BY <1>2, CountsAre
<1>5. \A i \in 1..L : /\ Backspaces(keys, i, L) \in Nat
                      /\ Backspaces(newKeys, i, L + 1) = Backspaces(keys, i, L) + 1
  <2>1. \A i \in 1..L : i \in 1..(L + 1)
    BY <1>2
  <2>2. QED
    BY <1>2, <2>1, BackspacesAre
<1> HIDE DEF newKeys, newP, L, N
<1>6. M \in Nat /\ \A n \in 1..M : n \in 1..N /\ n + 1 <= N
  BY <1>2
<1>7. new \in [1..M -> 1..(L + 1)] /\ \A n \in 1..M : new[n] = at[n] /\ at[n] \in 1..L
  BY <1>2, <1>6
<1> HIDE DEF new
<1>8. \A n \in 1..N : 2 * Backspaces(keys, at[n], L) < L - at[n] <=> n \in 1..M
  <2>1. ASSUME NEW n \in 1..N
        PROVE  2 * Backspaces(keys, at[n], L) < L - at[n] <=> n \in 1..M
    <3>1. at[n] \in 1..L /\ Backspaces(keys, at[n], L) \in Nat
          /\ (L - at[n] + 1) - 2 * Backspaces(keys, at[n], L) = N - n + 1
      BY <1>1, <1>5
    <3>2. QED
      BY <1>2, <3>1
  <2>2. QED
    BY <2>1
<1> HIDE DEF M
<1>9. {new[n] : n \in 1..M} = {i \in 1..(L + 1) : Counts(newKeys, i)}
  <2>1. 1..(L + 1) = (1..L) \cup {L + 1}
    BY <1>2
  <2>2. {i \in 1..(L + 1) : Counts(newKeys, i)} =
            {i \in 1..L : Counts(keys, i) /\ 2 * Backspaces(keys, i, L) < L - i}
    BY <1>4, <2>1
  <2>3. ASSUME NEW n \in 1..M
        PROVE  new[n] \in 1..L /\ Counts(keys, new[n]) /\ 2 * Backspaces(keys, new[n], L) < L - new[n]
    BY <1>1, <1>6, <1>7, <1>8
  <2>4. ASSUME NEW i \in 1..L, Counts(keys, i), 2 * Backspaces(keys, i, L) < L - i
        PROVE  \E n \in 1..M : i = new[n]
    <3>1. PICK n \in 1..N : i = at[n]
      BY <1>1, <2>4
    <3>2. n \in 1..M
      BY <1>8, <2>4, <3>1
    <3>3. QED
      BY <1>7, <3>1, <3>2
  <2>5. QED
    BY <2>2, <2>3, <2>4
<1>10. ASSUME NEW m \in 1..M, NEW n \in 1..M, m < n
       PROVE  new[m] < new[n]
  BY <1>1, <1>6, <1>7, <1>10
<1>11. ASSUME NEW n \in 1..M
       PROVE  /\ newP[n] = newKeys[new[n]]
              /\ ((L + 1) - new[n] + 1) - 2 * Backspaces(newKeys, new[n], L + 1) = M - n + 1
  <2>1. /\ new[n] = at[n] /\ at[n] \in 1..L /\ p[n] = keys[at[n]] /\ n \in 1..N
        /\ (L - at[n] + 1) - 2 * Backspaces(keys, at[n], L) = N - n + 1
        /\ Backspaces(keys, at[n], L) \in Nat
        /\ Backspaces(newKeys, at[n], L + 1) = Backspaces(keys, at[n], L) + 1
    BY <1>1, <1>5, <1>6, <1>7
  <2>2. newP[n] = newKeys[new[n]]
    BY <1>2, <1>3, <2>1
  <2>3. M = N - 1
    BY <1>2, <2>1 DEF M
  <2>4. ((L + 1) - at[n] + 1) - 2 * (Backspaces(keys, at[n], L) + 1) = M - n + 1
    <3> DEFINE a == at[n]
               b == Backspaces(keys, at[n], L)
    <3>1. a \in Nat /\ n \in Nat /\ b \in Nat /\ L \in Nat /\ N \in Nat
          /\ (L - a + 1) - 2 * b = N - n + 1
      BY <1>2, <2>1
    <3> HIDE DEF a, b
    <3>2. ((L + 1) - a + 1) - 2 * (b + 1) = N - 1 - n + 1
      BY <3>1
    <3>3. QED
      BY <2>3, <3>2 DEF a, b
  <2>5. QED
    BY <2>1, <2>2, <2>4
<1>12. Len(newP) = M /\ Len(newKeys) = L + 1
  BY <1>2, <1>3
<1>13. SpelledAt(new, newP, newKeys)
  <2>1. {new[n] : n \in 1..Len(newP)} = {i \in 1..Len(newKeys) : Counts(newKeys, i)}
    BY <1>9, <1>12
  <2>2. \A m, n \in 1..Len(newP) : m < n => new[m] < new[n]
    BY <1>10, <1>12
  <2>3. \A n \in 1..Len(newP) :
            /\ newP[n] = newKeys[new[n]]
            /\ (Len(newKeys) - new[n] + 1) - 2 * Backspaces(newKeys, new[n], Len(newKeys)) =
                   Len(newP) - n + 1
    <3>1. ASSUME NEW n \in 1..(M)
          PROVE  /\ newP[n] = newKeys[new[n]]
                 /\ ((L + 1) - new[n] + 1) - 2 * Backspaces(newKeys, new[n], L + 1) = M - n + 1
      BY <1>11
    <3>2. QED
      BY <1>12, <3>1, Zenon
  <2>4. QED
    BY <2>1, <2>2, <2>3 DEF SpelledAt
<1>14. Spelled(newP, newKeys)
  BY <1>7, <1>12, <1>13 DEF Spelled
<1>15. QED
  BY <1>14 DEF newP, newKeys

LEMMA SpelledIsTyped ==
    ASSUME NEW keys, NEW p, Spelled(p, keys)
    PROVE  Typed(p, keys)
BY DEF Spelled, SpelledAt, Typed

-----------------------------------------------------------------------------
(* The invariant.                                                          *)

Fields == DOMAIN Unset

Line == [first : Seq(Char) \cup {None}, firstKeys : Seq(Keystroke),
         p : Seq(Char), keys : Seq(Keystroke)]

(* Nothing but a question changes the configuration.                       *)
Configured ==
    /\ preset \in Presets /\ disks \in DiskSets
    /\ cfg = [f \in Fields |-> cfg[f]]
    /\ cfg.keys \in BOOLEAN /\ cfg.token \in BOOLEAN
    /\ cfg.silent = preset.silent

(* What has been read of the password is what the keys spell.              *)
Reading ==
    /\ entry \in Line
    /\ Spelled(entry.p, entry.keys)
    /\ entry.first # None => Spelled(entry.first, entry.firstKeys)

(* From the second entry on both are the same; it is hashed before it is   *)
(* taken over, and taken over only if that went well.                      *)
Hashing ==
    /\ pc \in {"mode", "device", "url", "github", "password", "typing", "shadow", "chpasswd", "hash"} =>
           cfg.password = preset.password
    /\ pc \in {"shadow", "chpasswd", "hash", "restore"} => entry.first = entry.p
    /\ pc = "hash" /\ listed => shadow = entry.p
    /\ pc = "restore" /\ ~err /\ listed => cfg.password = entry.p
    /\ cfg.password # preset.password => cfg.password = entry.p /\ entry.first = entry.p

(* The copy of /etc/shadow is the original, and the temporary file is left *)
(* only while there is somebody to remove it.                              *)
Keeping ==
    ~fault =>
        /\ pc \in {"chpasswd", "hash", "restore"} => saved = Original
        /\ temp # None => pc \in {"write", "run", "installing", "killed"}

(* Where an installation is asked for, and where it is about to begin.     *)
Begins == {"consent", "tempfile", "write", "run"}
InRole == install /\ pc \in {"role", "token"}

(* What has been asked for by then: the device, a way to log in, a token.  *)
Asked ==
    /\ pc \in {"mode", "device"} => cfg.device = preset.device
    /\ InRole \/ pc \in Begins \cup {"url", "github", "password", "typing", "shadow", "chpasswd",
                                     "hash", "restore", "wifi"} =>
           preset.silent \/ cfg.device \in (disks \cup {preset.device}) \ {None}
    /\ InRole \/ pc \in Begins \cup {"wifi"} =>
           preset.silent \/ cfg.url = "given" \/ (listed => HasLogin)
    /\ role = "agent" /\ pc \notin {"token", "failed", "killed"} => cfg.token

(* What has been agreed to, and where the configuration is.                *)
Agreed ==
    /\ pc \notin {"write", "run", "installing", "done", "failed", "killed"} => cfg.url \in {None, "given"}
    /\ pc = "write" => cfg.url = "temp"
    /\ pc = "run" => cfg.url \in {"given", "temp"} /\ (cfg.url = "temp" => temp = "config")
    /\ pc \in {"tempfile", "write", "run"} =>
           preset.silent \/ consent = [device |-> cfg.device,
                                       url |-> IF cfg.url = "temp" THEN None ELSE cfg.url]
    /\ installer # None => pc \in {"installing", "done", "failed", "killed"}

IInv == /\ Configured /\ Reading /\ Hashing /\ Keeping /\ Asked /\ Agreed
        /\ InstallsAsAnswered /\ LeavesNothing

-----------------------------------------------------------------------------
(* Each part is kept.                                                      *)

LEMMA FieldsAre ==
    /\ Fields = {"silent", "device", "url", "keys", "password", "wifi", "server", "token"}
    /\ \A p \in Presets : /\ p = [f \in Fields |-> p[f]] /\ p.url \in {None, "given"}
                          /\ p.keys \in BOOLEAN /\ p.token \in BOOLEAN
BY PresetsAssumption DEF Fields, Unset

(* An answer sets its field and no other.                                  *)
LEMMA SetIs ==
    ASSUME cfg = [f \in Fields |-> cfg[f]], NEW field \in Fields, NEW v, Set(field, v)
    PROVE  /\ cfg' = [f \in Fields |-> cfg'[f]]
           /\ cfg'[field] = v
           /\ \A f \in Fields \ {field} : cfg'[f] = cfg[f]
BY DEF Set

(* What a step may do to the configuration.                                *)
LEMMA AnswersAre ==
    ASSUME Configured, [Next]_vars
    PROVE  /\ cfg' = [f \in Fields |-> cfg'[f]] /\ UNCHANGED given
           /\ \/ UNCHANGED cfg
              \/ /\ pc = "device" /\ UNCHANGED <<cfg.silent, cfg.url, cfg.keys, cfg.password, cfg.token>>
                 /\ cfg'.device \in disks
              \/ /\ pc = "url" /\ UNCHANGED <<cfg.silent, cfg.device, cfg.keys, cfg.password, cfg.token>>
                 /\ cfg.url = None /\ cfg'.url = "given" /\ pc' = "consent"
              \/ /\ pc = "github" /\ UNCHANGED <<cfg.silent, cfg.device, cfg.url, cfg.password, cfg.token>>
                 /\ cfg'.keys \in BOOLEAN /\ pc' = "password"
              \/ /\ pc \in {"wifi", "role"}
                 /\ UNCHANGED <<cfg.silent, cfg.device, cfg.url, cfg.keys, cfg.password, cfg.token>>
              \/ /\ pc = "token" /\ UNCHANGED <<cfg.silent, cfg.device, cfg.url, cfg.keys, cfg.password>>
                 /\ cfg'.token \in BOOLEAN /\ (role = "agent" => cfg'.token)
              \/ /\ pc = "hash" /\ UNCHANGED <<cfg.silent, cfg.device, cfg.url, cfg.keys, cfg.token>>
                 /\ listed /\ cfg'.password = shadow
              \/ /\ pc = "tempfile"
                 /\ UNCHANGED <<cfg.silent, cfg.device, cfg.keys, cfg.password, cfg.token>>
                 /\ cfg.url = None /\ cfg'.url = "temp" /\ pc' = "write"
<1>0. cfg = [f \in Fields |-> cfg[f]]
  BY DEF Configured
<1> USE FieldsAre
<1>1. CASE AskDevice
  <2>1. UNCHANGED cfg \/ \E d \in disks : Set("device", d)
    BY <1>1 DEF AskDevice, Question
  <2>2. pc = "device" /\ UNCHANGED given
    BY <1>1 DEF AskDevice, Question, given
  <2>3. QED
    BY <1>0, <2>1, <2>2, SetIs
<1>2. CASE AskConfigURL
  <2>1. \/ UNCHANGED cfg
        \/ Set("url", "given") /\ cfg.url = None /\ pc' = "consent"
    BY <1>2 DEF AskConfigURL, Question
  <2>2. pc = "url" /\ UNCHANGED given
    BY <1>2 DEF AskConfigURL, Question, given
  <2>3. QED
    BY <1>0, <2>1, <2>2, SetIs
<1>3. CASE AskGithub
  <2>1. UNCHANGED cfg \/ (pc' = "password" /\ \E yes \in BOOLEAN : Set("keys", yes))
    BY <1>3 DEF AskGithub, Question
  <2>2. pc = "github" /\ UNCHANGED given
    BY <1>3 DEF AskGithub, Question, given
  <2>3. QED
    BY <1>0, <2>1, <2>2, SetIs
<1>4. CASE AskWifi
  <2>1. UNCHANGED cfg \/ \E yes \in BOOLEAN : Set("wifi", yes)
    BY <1>4 DEF AskWifi, Question
  <2>2. pc = "wifi" /\ UNCHANGED given
    BY <1>4 DEF AskWifi, Question, given
  <2>3. QED
    BY <1>0, <2>1, <2>2, SetIs
<1>5. CASE AskRole
  <2>1. UNCHANGED cfg \/ Set("server", TRUE)
    BY <1>5 DEF AskRole
  <2>2. pc = "role" /\ UNCHANGED given
    BY <1>5 DEF AskRole, given
  <2>3. QED
    BY <1>0, <2>1, <2>2, SetIs
<1>6. CASE AskToken
  <2>1. UNCHANGED cfg \/ \E yes \in BOOLEAN : (role = "agent" => yes) /\ Set("token", yes)
    BY <1>6 DEF AskToken, Question
  <2>2. pc = "token" /\ UNCHANGED given
    BY <1>6 DEF AskToken, Question, given
  <2>3. QED
    BY <1>0, <2>1, <2>2, SetIs
<1>7. CASE ReadHash
  <2>1. (UNCHANGED cfg \/ (listed /\ Set("password", shadow))) /\ pc = "hash" /\ UNCHANGED given
    BY <1>7 DEF ReadHash, given
  <2>2. QED
    BY <1>0, <2>1, SetIs
<1>8. CASE MakeTemp
  <2>1. UNCHANGED cfg \/ (Set("url", "temp") /\ cfg.url = None /\ pc' = "write")
    BY <1>8 DEF MakeTemp
  <2>2. pc = "tempfile" /\ UNCHANGED given
    BY <1>8 DEF MakeTemp, given
  <2>3. QED
    BY <1>0, <2>1, <2>2, SetIs
<1>9. CASE AskMode \/ AskModeFails \/ Silent \/ StartPassword \/ Type \/ Enter \/ ReadShadow \/ Chpasswd
           \/ Restore \/ AskConsent \/ WriteTemp \/ RunInstaller \/ InstallerEnds
           \/ CreateSystem \/ SaveSystem \/ Apply \/ Kill \/ UNCHANGED vars
  <2>1. UNCHANGED <<cfg, given>>
    BY <1>9 DEF AskMode, AskModeFails, Silent, StartPassword, Type, Enter, ReadShadow, Chpasswd,
                Restore, AskConsent, WriteTemp, RunInstaller, InstallerEnds, CreateSystem,
                SaveSystem, Apply, Kill, vars, given
  <2>2. QED
    BY <1>0, <2>1
<1>10. QED
  BY <1>1, <1>2, <1>3, <1>4, <1>5, <1>6, <1>7, <1>8, <1>9 DEF Next

LEMMA ConfiguredKept ==
    ASSUME Configured, [Next]_vars
    PROVE  Configured'
BY AnswersAre DEF Configured, given

(* The password is typed at one place.                                     *)
LEMMA TypingIs ==
    ASSUME [Next]_vars, ~StartPassword, ~Type, ~Enter
    PROVE  UNCHANGED entry
BY DEF Next, vars, pwVars, AskMode, AskModeFails, Silent, AskDevice, AskConfigURL, AskGithub, AskWifi,
       AskRole, AskToken, Question, ReadShadow, Chpasswd, ReadHash, Restore, AskConsent, MakeTemp,
       WriteTemp, RunInstaller, InstallerEnds, CreateSystem, SaveSystem, Apply, Kill

LEMMA EmptyLine == NoEntry \in Line /\ Spelled(NoEntry.p, NoEntry.keys) /\ NoEntry.first = None
BY SpelledNothing DEF NoEntry, Line

LEMMA ReadingKept ==
    ASSUME Reading, [Next]_vars
    PROVE  Reading'
<1>1. CASE StartPassword
  <2>1. entry' = NoEntry
    BY <1>1 DEF StartPassword
  <2>2. QED
    BY <2>1, EmptyLine DEF Reading
<1>2. CASE Type
  <2> DEFINE keys(k) == Append(entry.keys, k)
             p(k) == IF k = "del" THEN Backspace(entry.p) ELSE Append(entry.p, k)
  <2>1. PICK k \in Keystroke :
            entry' = [entry EXCEPT !.keys = keys(k), !.p = p(k)]
    BY <1>2 DEF Type
  <2>2. entry.keys \in Seq(Keystroke) /\ entry.p \in Seq(Char) /\ Spelled(entry.p, entry.keys)
        /\ entry.first \in Seq(Char) \cup {None} /\ entry.firstKeys \in Seq(Keystroke)
        /\ entry = [first |-> entry.first, firstKeys |-> entry.firstKeys, p |-> entry.p, keys |-> entry.keys]
    BY DEF Reading, Line
  <2>3. keys(k) \in Seq(Keystroke)
    BY <2>2
  <2>4. p(k) \in Seq(Char) /\ Spelled(p(k), keys(k))
    <3>1. CASE k = "del"
      <4>1. Backspace(entry.p) \in Seq(Char)
        <5>1. CASE entry.p = <<>>
          BY <2>2, <5>1 DEF Backspace
        <5>2. CASE entry.p # <<>>
          BY <2>2, <5>2 DEF Backspace, Front
        <5>3. QED
          BY <5>1, <5>2
      <4>2. QED
        BY <2>2, <3>1, <4>1, SpelledBackspace
    <3>2. CASE k # "del"
      <4>1. k \in Char
        BY <3>2 DEF Keystroke
      <4>2. QED
        BY <2>2, <3>2, <4>1, SpelledCharacter
    <3>3. QED
      BY <3>1, <3>2
  <2> HIDE DEF keys, p
  <2>5. entry' = [first |-> entry.first, firstKeys |-> entry.firstKeys, p |-> p(k), keys |-> keys(k)]
    BY <2>1, <2>2
  <2>6. entry' \in Line /\ entry'.p = p(k) /\ entry'.keys = keys(k) /\ entry'.first = entry.first
        /\ entry'.firstKeys = entry.firstKeys
    BY <2>2, <2>3, <2>4, <2>5 DEF Line
  <2>7. QED
    BY <2>4, <2>6 DEF Reading
<1>3. CASE Enter
  <2>1. CASE UNCHANGED entry
    BY <2>1 DEF Reading
  <2>2. CASE entry' = NoEntry
    BY <2>2, EmptyLine DEF Reading
  <2>3. CASE entry' = [NoEntry EXCEPT !.first = entry.p, !.firstKeys = entry.keys]
    <3>1. entry' = [first |-> entry.p, firstKeys |-> entry.keys, p |-> <<>>, keys |-> <<>>]
      BY <2>3 DEF NoEntry
    <3>2. entry.keys \in Seq(Keystroke) /\ entry.p \in Seq(Char) /\ Spelled(entry.p, entry.keys)
      BY DEF Reading, Line
    <3>3. entry' \in Line
      BY <3>1, <3>2 DEF Line
    <3>4. QED
      BY <3>1, <3>2, <3>3, SpelledNothing DEF Reading
  <2>4. QED
    BY <1>3, <2>1, <2>2, <2>3 DEF Enter
<1>4. QED
  BY <1>1, <1>2, <1>3, TypingIs DEF Reading

Asking == {"mode", "device", "url", "github", "password", "typing", "shadow", "chpasswd", "hash"}

LEMMA HashingKept ==
    ASSUME Configured, Hashing, [Next]_vars
    PROVE  Hashing'
<1>0. UNCHANGED <<preset, mode, disks, listed>>
  BY AnswersAre DEF given
<1>1. cfg'.password = cfg.password \/ pc = "hash"
  BY AnswersAre
<1> USE DEF Hashing, pwVars
<1>2. CASE AskMode \/ AskModeFails \/ Silent \/ AskDevice \/ AskConfigURL \/ AskGithub
  <2>1. pc \in Asking /\ pc' \notin {"shadow", "chpasswd", "hash", "restore"}
        /\ UNCHANGED entry /\ cfg'.password = cfg.password
    BY <1>1, <1>2 DEF AskMode, AskModeFails, Silent, AskDevice, AskConfigURL, AskGithub, Question, Asking,
                      Failed
  <2>2. QED
    BY <1>0, <2>1 DEF Asking
<1>3. CASE AskWifi \/ AskRole \/ AskToken \/ AskConsent \/ MakeTemp \/ WriteTemp \/ RunInstaller
           \/ InstallerEnds \/ CreateSystem \/ SaveSystem \/ Apply \/ Kill
  <2>1. UNCHANGED entry /\ pc' \notin Asking \cup {"restore"}
    BY <1>3 DEF AskWifi, AskRole, AskToken, Question, Failed, AfterRole, AskConsent, Consent, MakeTemp,
                WriteTemp, RunInstaller, InstallerEnds, CreateSystem, SaveSystem, Apply, Kill, Asking
  <2>2. cfg'.password = cfg.password
    BY <1>1, <1>3 DEF AskWifi, AskRole, AskToken, Question, AskConsent, MakeTemp,
                WriteTemp, RunInstaller, InstallerEnds, CreateSystem, SaveSystem, Apply, Kill
  <2>3. QED
    BY <1>0, <2>1, <2>2 DEF Asking
<1>4. CASE StartPassword \/ Type \/ Enter
  <2>1. pc \in {"password", "typing"} /\ UNCHANGED cfg
        /\ pc' \in {"wifi", "typing", "failed", "shadow"}
    BY <1>4 DEF StartPassword, Type, Enter
  <2>2. pc' = "shadow" => entry'.first = entry'.p
    BY <1>4 DEF StartPassword, Type, Enter, Same
  <2>3. QED
    BY <1>0, <2>1, <2>2
<1>5. CASE ReadShadow \/ Chpasswd
  BY <1>0, <1>5 DEF ReadShadow, Chpasswd
<1>6. CASE ReadHash
  <2>1. pc = "hash" /\ pc' = "restore" /\ UNCHANGED entry
    BY <1>6 DEF ReadHash
  <2>2. CASE UNCHANGED cfg /\ (~listed \/ err')
    BY <1>0, <2>1, <2>2
  <2>3. CASE listed /\ Set("password", shadow)
    <3>1. cfg'.password = shadow
      BY <2>3, SetIs, FieldsAre DEF Configured
    <3>2. QED
      BY <1>0, <2>1, <2>3, <3>1
  <2>4. QED
    BY <1>6, <2>2, <2>3 DEF ReadHash
<1>7. CASE Restore
  <2>1. pc' \in {"failed", "wifi"} /\ UNCHANGED <<cfg, entry>>
    BY <1>7 DEF Restore
  <2>2. QED
    BY <1>0, <2>1
<1>8. CASE UNCHANGED vars
  <2>1. UNCHANGED <<pc, cfg, entry, shadow, err>>
    BY <1>8 DEF vars
  <2>2. QED
    BY <1>0, <2>1
<1>9. QED
  BY <1>2, <1>3, <1>4, <1>5, <1>6, <1>7, <1>8 DEF Next

LEMMA KeepingKept ==
    ASSUME Keeping, LeavesNothing, [Next]_vars
    PROVE  Keeping' /\ LeavesNothing'
<1> USE DEF Keeping, LeavesNothing, pwVars, endVars
<1>1. CASE AskMode \/ AskModeFails \/ Silent \/ AskDevice \/ AskConfigURL \/ AskGithub \/ AskWifi
           \/ AskRole \/ AskToken \/ StartPassword \/ Type \/ Enter \/ AskConsent
           \/ CreateSystem \/ SaveSystem \/ Apply
  <2>1. UNCHANGED <<shadow, temp, fault>>
        /\ pc \notin {"chpasswd", "hash", "restore", "write", "run", "installing", "killed"}
        /\ pc' \notin {"chpasswd", "hash", "restore", "killed"}
    <3>1. CASE AskMode \/ AskModeFails \/ Silent \/ StartPassword \/ Type \/ Enter
      BY <3>1 DEF AskMode, AskModeFails, Silent, StartPassword, Type, Enter, Failed
    <3>2. CASE AskDevice \/ AskConfigURL \/ AskGithub \/ AskWifi \/ AskToken
      BY <3>2 DEF AskDevice, AskConfigURL, AskGithub, AskWifi, AskToken, Question, Failed, AfterRole
    <3>3. CASE AskRole \/ AskConsent \/ CreateSystem \/ SaveSystem \/ Apply
      BY <3>3 DEF AskRole, AskConsent, Consent, CreateSystem, SaveSystem, Apply, Failed, AfterRole
    <3>4. QED
      BY <1>1, <3>1, <3>2, <3>3
  <2>2. QED
    BY <2>1
<1>2. CASE ReadShadow \/ Chpasswd \/ ReadHash
  BY <1>2 DEF ReadShadow, Chpasswd, ReadHash
<1>3. CASE Restore
  BY <1>3 DEF Restore, Restored
<1>4. CASE MakeTemp \/ WriteTemp
  BY <1>4 DEF MakeTemp, WriteTemp
<1>5. CASE RunInstaller \/ InstallerEnds
  BY <1>5 DEF RunInstaller, InstallerEnds
<1>6. CASE Kill
  BY <1>6 DEF Kill
<1>7. CASE UNCHANGED vars
  BY <1>7 DEF vars
<1>8. QED
  BY <1>1, <1>2, <1>3, <1>4, <1>5, <1>6, <1>7 DEF Next

(* An answer that changes the configuration leads to the next question.    *)
AnswerLeadsOn ==
    /\ UNCHANGED install
    /\ pc \notin {"role"} => UNCHANGED role
    /\ pc = "device"   => pc' = "url"
    /\ pc = "url"      => pc' = "consent"
    /\ pc = "github"   => pc' = "password"
    /\ pc = "wifi"     => pc' = "role"
    /\ pc = "role"     => pc' = "token"
    /\ pc = "token"    => pc' = AfterRole
    /\ pc = "hash"     => pc' = "restore"
    /\ pc = "tempfile" => pc' = "write"

LEMMA AnswerIsTaken ==
    ASSUME [Next]_vars, cfg' # cfg
    PROVE  AnswerLeadsOn
<1>1. AskDevice \/ AskConfigURL \/ AskGithub \/ AskWifi \/ AskRole \/ AskToken \/ ReadHash \/ MakeTemp
  BY DEF Next, vars, AskMode, AskModeFails, Silent, StartPassword, Type, Enter, ReadShadow, Chpasswd,
         Restore, AskConsent, WriteTemp, RunInstaller, InstallerEnds, CreateSystem, SaveSystem, Apply, Kill
<1>2. CASE AskDevice \/ AskConfigURL
  BY <1>2 DEF AskDevice, AskConfigURL, Question, AnswerLeadsOn
<1>3. CASE AskGithub \/ AskWifi
  BY <1>3 DEF AskGithub, AskWifi, Question, AnswerLeadsOn
<1>4. CASE AskRole
  BY <1>4 DEF AskRole, AnswerLeadsOn
<1>5. CASE AskToken
  BY <1>5 DEF AskToken, Question, AnswerLeadsOn, AfterRole
<1>6. CASE ReadHash \/ MakeTemp
  BY <1>6 DEF ReadHash, MakeTemp, AnswerLeadsOn
<1>7. QED
  BY <1>1, <1>2, <1>3, <1>4, <1>5, <1>6

(* What the questions have found out when the consent is asked for.        *)
Placed    == preset.silent \/ cfg.device \in (disks \cup {preset.device}) \ {None}
MayIn     == preset.silent \/ cfg.url = "given" \/ (listed => HasLogin)
WithPlace == Begins \cup {"url", "github", "password", "typing", "shadow", "chpasswd", "hash",
                          "restore", "wifi"}
WithLogin == Begins \cup {"wifi"}

LEMMA AskedKept ==
    ASSUME Configured, Reading, Hashing, Asked, Agreed, [Next]_vars
    PROVE  Asked'
<1>0. /\ UNCHANGED <<preset, disks, listed>> /\ cfg.silent = preset.silent
      /\ None \notin disks /\ None \notin Seq(Char)
      /\ None # "given" /\ None # "temp" /\ None # "agent"
  BY AnswersAre, NoneAssumption DEF Configured, given
<1>1. /\ pc \in {"mode", "device"} => cfg.device = preset.device
      /\ InRole \/ pc \in WithPlace => Placed
      /\ InRole \/ pc \in WithLogin => MayIn
      /\ role = "agent" /\ pc \notin {"token", "failed", "killed"} => cfg.token
  BY DEF Asked, Placed, MayIn, WithPlace, WithLogin
<1> SUFFICES /\ pc' \in {"mode", "device"} => cfg'.device = preset.device
             /\ InRole' \/ pc' \in WithPlace => Placed'
             /\ InRole' \/ pc' \in WithLogin => MayIn'
             /\ role' = "agent" /\ pc' \notin {"token", "failed", "killed"} => cfg'.token
  BY <1>0 DEF Asked, Placed, MayIn, WithPlace, WithLogin
<1>2. CASE UNCHANGED cfg
  <2>0. Placed' = Placed /\ MayIn' = MayIn /\ cfg'.device = cfg.device /\ cfg'.token = cfg.token
    BY <1>0, <1>2 DEF Placed, MayIn, HasLogin
  <2>1. CASE AskMode
    <3>1. pc = "mode" /\ UNCHANGED role /\ pc' = (IF install' THEN "device" ELSE "role")
      BY <2>1 DEF AskMode
    <3>2. ~InRole' /\ pc' \notin WithPlace \cup WithLogin
      BY <3>1 DEF InRole, WithPlace, WithLogin, Begins
    <3>3. QED
      BY <1>1, <2>0, <3>1, <3>2
  <2>2. CASE Silent
    BY <1>0, <1>1, <2>0, <2>2 DEF Silent, InRole, Placed, MayIn
  <2>3. CASE AskDevice
    <3>1. /\ pc = "device" /\ pc' \in {"url", "failed"} /\ UNCHANGED <<role, install>>
          /\ pc' = "url" => cfg.device # None
      <4>1. (\E d \in disks : Set("device", d)) => cfg'.device # None
        BY <1>0, SetIs, FieldsAre DEF Configured
      <4>2. QED
        BY <1>2, <2>3, <4>1 DEF AskDevice, Question, Failed
    <3>2. pc' = "url" => Placed
      BY <1>1, <3>1 DEF Placed
    <3>3. QED
      BY <1>1, <2>0, <3>1, <3>2 DEF InRole, WithLogin, WithPlace, Begins
  <2>4. CASE AskConfigURL
    <3>1. /\ pc = "url" /\ pc' \in {"consent", "github", "failed"} /\ UNCHANGED <<role, install>>
          /\ pc' = "consent" => cfg.url # None
      <4>1. Set("url", "given") => cfg'.url # None
        BY <1>0, SetIs, FieldsAre DEF Configured
      <4>2. QED
        BY <1>2, <2>4, <4>1 DEF AskConfigURL, Question, Failed
    <3>2. pc' = "consent" => MayIn
      BY <3>1 DEF MayIn, Agreed
    <3>3. QED
      BY <1>1, <2>0, <3>1, <3>2 DEF InRole, WithLogin, WithPlace, Begins
  <2>5. CASE AskGithub
    <3>1. pc = "github" /\ pc' \in {"password", "failed"} /\ UNCHANGED <<role, install>>
      BY <2>5 DEF AskGithub, Question, Failed
    <3>2. QED
      BY <1>1, <2>0, <3>1 DEF InRole, WithLogin, WithPlace, Begins
  <2>6. CASE AskWifi
    <3>1. pc = "wifi" /\ pc' \in {"role", "failed"} /\ UNCHANGED <<role, install>>
      BY <2>6 DEF AskWifi, Question, Failed
    <3>2. QED
      BY <1>1, <2>0, <3>1 DEF InRole, WithLogin, WithPlace, Begins
  <2>7. CASE AskRole
    <3>1. /\ pc = "role" /\ UNCHANGED install /\ pc' \in {"token", "failed", AfterRole}
          /\ pc' = "token" \/ UNCHANGED role
      BY <2>7 DEF AskRole, Failed
    <3>2. QED
      BY <1>1, <2>0, <3>1 DEF InRole, WithLogin, WithPlace, Begins, AfterRole
  <2>8. CASE AskToken
    <3>1. /\ pc = "token" /\ UNCHANGED <<role, install>> /\ pc' \in {"failed", AfterRole}
          /\ pc' = "failed" \/ (role = "agent" => cfg.token)
      <4>1. ASSUME NEW yes \in BOOLEAN, role = "agent" => yes, Set("token", yes)
            PROVE  role = "agent" => cfg'.token
        BY <4>1, SetIs, FieldsAre DEF Configured
      <4>2. QED
        BY <1>2, <2>8, <4>1 DEF AskToken, Question, Failed
    <3>2. QED
      BY <1>1, <2>0, <3>1 DEF InRole, WithLogin, WithPlace, Begins, AfterRole
  <2>9. CASE StartPassword
    BY <1>1, <2>0, <2>9 DEF StartPassword, MayIn, InRole, WithLogin, WithPlace, Begins
  <2>10. CASE Type \/ Enter \/ ReadShadow \/ Chpasswd \/ ReadHash
    <3>1. /\ pc \in {"typing", "shadow", "chpasswd", "hash"} /\ UNCHANGED <<role, install>>
          /\ pc' \in {"typing", "shadow", "chpasswd", "hash", "restore", "failed"}
      BY <2>10 DEF Type, Enter, ReadShadow, Chpasswd, ReadHash
    <3>2. QED
      BY <1>1, <2>0, <3>1 DEF InRole, WithLogin, WithPlace, Begins
  <2>11. CASE Restore
    <3>1. pc' = "wifi" => MayIn
      BY <1>0, <2>11 DEF Restore, Hashing, Reading, Line, MayIn, HasLogin
    <3>2. QED
      BY <1>1, <2>0, <2>11, <3>1 DEF Restore, InRole, WithLogin, WithPlace, Begins
  <2>12. CASE AskConsent \/ MakeTemp \/ WriteTemp \/ RunInstaller
    <3>1. pc \in Begins /\ pc' \in Begins \cup {"failed", "done", "installing"}
          /\ UNCHANGED <<role, install>>
      BY <2>12 DEF AskConsent, Consent, MakeTemp, WriteTemp, RunInstaller, Begins, Failed
    <3>2. QED
      BY <1>1, <2>0, <3>1 DEF InRole, WithLogin, WithPlace, Begins
  <2>13. CASE AskModeFails \/ InstallerEnds \/ CreateSystem \/ SaveSystem \/ Apply \/ Kill
    <3>1. pc' \in {"failed", "done", "save", "apply", "killed"} /\ UNCHANGED <<role, install>>
          /\ (pc' \in {"failed", "killed"} \/ pc \notin {"token", "failed", "killed"})
      BY <2>13 DEF AskModeFails, InstallerEnds, CreateSystem, SaveSystem, Apply, Kill, Failed
    <3>2. QED
      BY <1>1, <2>0, <3>1 DEF InRole, WithLogin, WithPlace, Begins
  <2>14. CASE UNCHANGED vars
    <3>1. UNCHANGED <<pc, role, install>>
      BY <2>14 DEF vars
    <3>2. QED
      BY <1>1, <2>0, <3>1 DEF InRole
  <2>15. QED
    BY <2>1, <2>2, <2>3, <2>4, <2>5, <2>6, <2>7, <2>8, <2>9, <2>10, <2>11, <2>12, <2>13, <2>14 DEF Next
<1>3. CASE cfg' # cfg
  <2>1. AnswerLeadsOn
    BY <1>3, AnswerIsTaken
  <2>2. CASE pc = "device" /\ cfg'.device \in disks /\ UNCHANGED cfg.token
    BY <1>0, <1>1, <2>1, <2>2 DEF AnswerLeadsOn, Placed, InRole, WithLogin, WithPlace, Begins
  <2>3. CASE pc = "url" /\ cfg'.url = "given" /\ UNCHANGED <<cfg.device, cfg.token>>
    BY <1>0, <1>1, <2>1, <2>3 DEF AnswerLeadsOn, Placed, MayIn, InRole, WithLogin, WithPlace, Begins
  <2>4. CASE pc = "github" /\ UNCHANGED <<cfg.device, cfg.token>>
    BY <1>0, <1>1, <2>1, <2>4 DEF AnswerLeadsOn, Placed, InRole, WithLogin, WithPlace, Begins
  <2>5. CASE /\ pc \in {"wifi", "role"}
             /\ UNCHANGED <<cfg.device, cfg.url, cfg.keys, cfg.password, cfg.token>>
    <3>1. UNCHANGED Placed /\ UNCHANGED MayIn
      BY <1>0, <2>5 DEF Placed, MayIn, HasLogin
    <3>2. QED
      BY <1>1, <2>1, <2>5, <3>1 DEF AnswerLeadsOn, InRole, WithLogin, WithPlace, Begins
  <2>6. CASE /\ pc = "token" /\ UNCHANGED <<cfg.device, cfg.url, cfg.keys, cfg.password>>
             /\ (role = "agent" => cfg'.token)
    <3>1. UNCHANGED Placed /\ UNCHANGED MayIn
      BY <1>0, <2>6 DEF Placed, MayIn, HasLogin
    <3>2. QED
      BY <1>1, <2>1, <2>6, <3>1 DEF AnswerLeadsOn, InRole, WithLogin, WithPlace, Begins, AfterRole
  <2>7. CASE pc = "hash" /\ UNCHANGED <<cfg.device, cfg.token>>
    BY <1>0, <1>1, <2>1, <2>7 DEF AnswerLeadsOn, Placed, InRole, WithLogin, WithPlace, Begins
  <2>8. CASE pc = "tempfile" /\ cfg.url = None
             /\ UNCHANGED <<cfg.device, cfg.keys, cfg.password, cfg.token>>
    <3>1. UNCHANGED Placed /\ (MayIn => MayIn')
      BY <1>0, <2>8 DEF Placed, MayIn, HasLogin
    <3>2. QED
      BY <1>1, <2>1, <2>8, <3>1 DEF AnswerLeadsOn, InRole, WithLogin, WithPlace, Begins
  <2>9. QED
    BY <1>3, <2>2, <2>3, <2>4, <2>5, <2>6, <2>7, <2>8, AnswersAre
<1>4. QED
  BY <1>2, <1>3

Late == {"tempfile", "write", "run", "installing", "done", "failed", "killed"}

LEMMA AgreedKept ==
    ASSUME Configured, Agreed, [Next]_vars
    PROVE  Agreed'
<1>0. /\ None # "given" /\ None # "temp" /\ None # "agent"
      /\ UNCHANGED preset /\ cfg.silent = preset.silent
  BY AnswersAre, NoneAssumption DEF Configured, given
<1>1. CASE \/ AskMode \/ AskModeFails \/ Silent \/ AskDevice \/ AskConfigURL \/ AskGithub \/ AskWifi
           \/ AskRole \/ AskToken \/ StartPassword \/ Type \/ Enter \/ ReadShadow \/ Chpasswd
           \/ ReadHash \/ Restore \/ CreateSystem \/ SaveSystem \/ Apply
  <2>1. pc \notin Late /\ pc' \notin Late \ {"done", "failed"} /\ UNCHANGED installer
    <3>1. CASE AskMode \/ AskModeFails \/ Silent \/ StartPassword \/ Type \/ Enter \/ ReadShadow
               \/ Chpasswd \/ ReadHash \/ Restore
      BY <3>1 DEF AskMode, AskModeFails, Silent, StartPassword, Type, Enter, ReadShadow, Chpasswd,
                  ReadHash, Restore, Failed, Late, endVars
    <3>2. CASE AskDevice \/ AskConfigURL \/ AskGithub \/ AskWifi \/ AskToken
      BY <3>2 DEF AskDevice, AskConfigURL, AskGithub, AskWifi, AskToken, Question, Failed, AfterRole,
                  Late, endVars
    <3>3. CASE AskRole \/ CreateSystem \/ SaveSystem \/ Apply
      BY <3>3 DEF AskRole, CreateSystem, SaveSystem, Apply, Failed, AfterRole, Late, endVars
    <3>4. QED
      BY <1>1, <3>1, <3>2, <3>3
  <2>2. cfg'.url \in {cfg.url, "given"}
    BY <2>1, AnswersAre DEF Late
  <2>3. QED
    BY <2>1, <2>2 DEF Agreed, Late
<1>2. CASE AskConsent
  <2>1. /\ pc = "consent" /\ pc' \in {"tempfile", "done", "failed"} /\ UNCHANGED <<cfg, installer>>
        /\ pc' = "tempfile" => preset.silent \/ consent' = [device |-> cfg.device, url |-> cfg.url]
    BY <1>0, <1>2 DEF AskConsent, Consent, Failed
  <2>2. QED
    BY <1>0, <2>1 DEF Agreed
<1>3. CASE MakeTemp
  <2>1. pc = "tempfile" /\ pc' \in {"run", "write", "failed"} /\ UNCHANGED <<consent, installer>>
    BY <1>3 DEF MakeTemp
  <2>2. CASE pc' = "run"
    <3>1. UNCHANGED cfg /\ cfg.url # None
      BY <1>3, <2>2 DEF MakeTemp
    <3>2. QED
      BY <1>0, <2>1, <2>2, <3>1 DEF Agreed
  <2>3. CASE pc' = "write"
    <3>1. cfg.url = None /\ Set("url", "temp")
      BY <1>3, <2>3 DEF MakeTemp
    <3>2. cfg'.url = "temp" /\ cfg'.device = cfg.device
      BY <3>1, SetIs, FieldsAre DEF Configured
    <3>3. preset.silent \/ consent = [device |-> cfg.device, url |-> None]
      BY <1>0, <2>1, <3>1 DEF Agreed
    <3>4. QED
      BY <1>0, <2>1, <2>3, <3>2, <3>3 DEF Agreed
  <2>4. CASE pc' = "failed"
    BY <2>1, <2>4 DEF Agreed
  <2>5. QED
    BY <2>1, <2>2, <2>3, <2>4
<1>4. CASE WriteTemp
  BY <1>0, <1>4 DEF WriteTemp, Agreed
<1>5. CASE RunInstaller \/ InstallerEnds
  BY <1>0, <1>5 DEF RunInstaller, InstallerEnds, Agreed
<1>6. CASE Kill
  BY <1>6 DEF Kill, Agreed, endVars
<1>7. CASE UNCHANGED vars
  BY <1>7 DEF vars, endVars, given, Agreed
<1>8. QED
  BY <1>1, <1>2, <1>3, <1>4, <1>5, <1>6, <1>7 DEF Next

(* What install.sh is started with is looked at no more.                   *)
LEMMA InstallsKept ==
    ASSUME IInv, [Next]_vars
    PROVE  InstallsAsAnswered'
<1>0. /\ None # "given" /\ None # "temp" /\ None # "agent" /\ None \notin Seq(Char)
      /\ UNCHANGED <<preset, disks, listed>> /\ cfg.silent = preset.silent
  BY AnswersAre, NoneAssumption DEF IInv, Configured, given
<1>1. CASE installer # None
  <2>1. pc \in {"installing", "done", "failed", "killed"}
    BY <1>1 DEF IInv, Agreed
  <2>2. UNCHANGED cfg
    BY <2>1, AnswersAre DEF IInv
  <2>3. InstallerEnds \/ Kill \/ UNCHANGED vars
    BY <2>1 DEF Next, AskMode, AskModeFails, Silent, AskDevice, AskConfigURL, AskGithub, AskWifi,
                AskRole, AskToken, Question, StartPassword, Type, Enter, ReadShadow, Chpasswd, ReadHash,
                Restore, AskConsent, MakeTemp, WriteTemp, RunInstaller, CreateSystem, SaveSystem, Apply
  <2>4. UNCHANGED <<role, entry, consent, installer>>
    BY <2>3 DEF InstallerEnds, Kill, vars, pwVars, endVars
  <2>5. QED
    BY <1>0, <2>2, <2>4 DEF IInv, InstallsAsAnswered, HasLogin
<1>2. CASE installer = None /\ RunInstaller /\ installer' # None
  <2>1. /\ pc = "run" /\ UNCHANGED <<cfg, role, entry, consent>>
        /\ installer' = [device |-> cfg.device, url |-> cfg.url, config |-> temp]
    BY <1>2 DEF RunInstaller, pwVars
  <2>2. Placed /\ MayIn /\ (role = "agent" => cfg.token)
    BY <2>1 DEF IInv, Asked, Placed, MayIn, Begins
  <2>3. preset.silent \/ consent = [device |-> cfg.device,
                                    url |-> IF cfg.url = "temp" THEN None ELSE cfg.url]
    BY <2>1 DEF IInv, Agreed
  <2>4. cfg.url = "temp" => temp = "config"
    BY <2>1 DEF IInv, Agreed
  <2>5. ASSUME cfg.password # preset.password
        PROVE  \A keys \in {entry.firstKeys, entry.keys} : Typed(cfg.password, keys)
    <3>1. cfg.password = entry.p /\ entry.first = entry.p
      BY <2>5 DEF IInv, Hashing
    <3>2. /\ entry.p \in Seq(Char) /\ entry.keys \in Seq(Keystroke) /\ entry.firstKeys \in Seq(Keystroke)
          /\ Spelled(entry.p, entry.keys) /\ (entry.first # None => Spelled(entry.first, entry.firstKeys))
      BY DEF IInv, Reading, Line
    <3>3. Spelled(entry.p, entry.firstKeys)
      BY <1>0, <3>1, <3>2
    <3>4. QED
      BY <3>1, <3>2, <3>3, SpelledIsTyped
  <2>6. InstallsAsAnswered'
    <3>1. \/ preset.silent
          \/ /\ consent = [device |-> installer'.device,
                           url |-> IF installer'.url = "temp" THEN None ELSE installer'.url]
             /\ installer'.device \in (disks \cup {preset.device}) \ {None}
      BY <2>1, <2>2, <2>3 DEF Placed
    <3>2. installer'.url = "temp" =>
              /\ installer'.config = "config"
              /\ preset.silent \/ ((listed => HasLogin) /\ (role = "agent" => cfg.token))
      BY <1>0, <2>1, <2>2, <2>4 DEF MayIn
    <3>3. HasLogin' = HasLogin
      BY <2>1, <1>0 DEF HasLogin
    <3>4. QED
      BY <1>0, <2>1, <2>5, <3>1, <3>2, <3>3 DEF InstallsAsAnswered
  <2>7. QED
    BY <2>6
<1>3. CASE installer = None /\ ~(RunInstaller /\ installer' # None)
  <2>1. installer' = None
    BY <1>3 DEF Next, vars, endVars, AskMode, AskModeFails, Silent, AskDevice, AskConfigURL, AskGithub,
                AskWifi, AskRole, AskToken, Question, StartPassword, Type, Enter, ReadShadow, Chpasswd,
                ReadHash, Restore, AskConsent, MakeTemp, WriteTemp, InstallerEnds, CreateSystem,
                SaveSystem, Apply, Kill
  <2>2. QED
    BY <2>1 DEF InstallsAsAnswered
<1>4. QED
  BY <1>1, <1>2, <1>3

-----------------------------------------------------------------------------
LEMMA InitIInv == Init => IInv
<1> SUFFICES ASSUME Init
             PROVE  IInv
  OBVIOUS
<1>1. /\ preset \in Presets /\ disks \in DiskSets /\ pc = "mode" /\ install = FALSE /\ cfg = preset
      /\ role = None /\ entry = NoEntry /\ shadow = Original /\ temp = None /\ installer = None
  BY DEF Init
<1>2. None # "agent"
  BY NoneAssumption
<1>3. Configured
  BY <1>1, FieldsAre DEF Configured
<1>4. Reading
  BY <1>1, EmptyLine DEF Reading
<1>5. Hashing /\ Keeping
  BY <1>1 DEF Hashing, Keeping
<1>6. Asked
  BY <1>1, <1>2 DEF Asked, InRole, Begins
<1>7. Agreed
  BY <1>1, FieldsAre DEF Agreed
<1>8. InstallsAsAnswered /\ LeavesNothing
  BY <1>1 DEF InstallsAsAnswered, LeavesNothing
<1>9. QED
  BY <1>3, <1>4, <1>5, <1>6, <1>7, <1>8 DEF IInv

LEMMA NextIInv == IInv /\ [Next]_vars => IInv'
<1> SUFFICES ASSUME IInv, [Next]_vars
             PROVE  IInv'
  OBVIOUS
<1>1. Configured /\ Reading /\ Hashing /\ Keeping /\ Asked /\ Agreed /\ LeavesNothing
  BY DEF IInv
<1>2. Configured' /\ Reading' /\ Hashing' /\ Keeping' /\ LeavesNothing'
  BY <1>1, ConfiguredKept, ReadingKept, HashingKept, KeepingKept
<1>3. Asked' /\ Agreed' /\ InstallsAsAnswered'
  BY <1>1, AskedKept, AgreedKept, InstallsKept
<1>4. QED
  BY <1>2, <1>3 DEF IInv

(* What the questions rely on is never lost: what is set is what was       *)
(* answered, what is read of a password is what its keys spell, and the    *)
(* copy of /etc/shadow is the original, whatever fails and wherever the    *)
(* program is killed.                                                      *)
THEOREM DialogInvariant == Spec => []IInv
BY InitIInv, NextIInv, PTL DEF Spec

(* install.sh is started for nothing but the disk and the source in the    *)
(* summary that was agreed to, with the configuration in the file it is    *)
(* told of, an agent's token, and a way to log in unless /etc/shadow knows *)
(* no edgi; a password that is set is what was typed, both times,          *)
(* backspaces and all, however long it is.                                 *)
(* (AskInstall, AskPassword, MaskPassword and runInstall.)                 *)
THEOREM InstallsWhatWasAnswered == Spec => []InstallsAsAnswered
<1>1. IInv => InstallsAsAnswered
  BY DEF IInv
<1>2. QED
  BY <1>1, DialogInvariant, PTL

(* Asking leaves no trace: unless a call fails that cleans up, /etc/shadow *)
(* holds edgi's own password again once AskPassword is over, and no file   *)
(* with the configuration is left when the program ends.  (AskPassword's   *)
(* and runInstall's deferred calls.)                                       *)
THEOREM AskingLeavesNothing == Spec => []LeavesNothing
<1>1. IInv => LeavesNothing
  BY DEF IInv
<1>2. QED
  BY <1>1, DialogInvariant, PTL
=============================================================================
