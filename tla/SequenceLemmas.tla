--------------------------- MODULE SequenceLemmas ---------------------------
(***************************************************************************)
(* What the proofs about the stores and the forwarder's queue use of       *)
(* sequences: their elements as sets, and ascending sequences of naturals  *)
(* (mails in the order of their arrival).                                  *)
(***************************************************************************)
EXTENDS Integers, Sequences, SequencesExt, FiniteSets, FiniteSetTheorems,
        SequenceTheorems, TLAPS

(***************************************************************************)
(* What RemoveAt does to a sequence, index by index.                       *)
(***************************************************************************)
LEMMA RemoveAtProperties ==
  ASSUME NEW S, NEW s \in Seq(S), NEW i \in 1..Len(s)
  PROVE  /\ RemoveAt(s, i) \in Seq(S)
         /\ Len(RemoveAt(s, i)) = Len(s) - 1
         /\ \A j \in 1..(Len(s) - 1) :
              RemoveAt(s, i)[j] = IF j < i THEN s[j] ELSE s[j + 1]
<1> DEFINE front == SubSeq(s, 1, i - 1)
           back == SubSeq(s, i + 1, Len(s))
<1>1. /\ front \in Seq(S) /\ Len(front) = i - 1
      /\ \A j \in 1..(i - 1) : front[j] = s[j]
  OBVIOUS
<1>2. /\ back \in Seq(S) /\ Len(back) = Len(s) - i
      /\ \A j \in 1..(Len(s) - i) : back[j] = s[i + j]
  OBVIOUS
<1>3. RemoveAt(s, i) = front \o back
  BY DEF RemoveAt
<1> HIDE DEF front, back
<1>4. /\ front \o back \in Seq(S)
      /\ Len(front \o back) = Len(front) + Len(back)
      /\ \A j \in 1..(Len(front) + Len(back)) :
           (front \o back)[j] = IF j <= Len(front) THEN front[j]
                                ELSE back[j - Len(front)]
  BY <1>1, <1>2, ConcatProperties
<1>5. ASSUME NEW j \in 1..(Len(s) - 1)
      PROVE  (front \o back)[j] = IF j < i THEN s[j] ELSE s[j + 1]
  <2>1. CASE j < i
    BY <2>1, <1>1, <1>2, <1>4
  <2>2. CASE ~(j < i)
    <3>1. j - (i - 1) \in 1..(Len(s) - i) /\ i + (j - (i - 1)) = j + 1
      BY <2>2
    <3>2. (front \o back)[j] = back[j - (i - 1)]
      BY <2>2, <1>1, <1>2, <1>4
    <3>3. back[j - (i - 1)] = s[j + 1]
      BY <3>1, <1>2
    <3>4. QED
      BY <2>2, <3>2, <3>3
  <2>3. QED
    BY <2>1, <2>2
<1>6. QED
  BY <1>1, <1>2, <1>3, <1>4, <1>5

(***************************************************************************)
(* The elements of a sequence over S are in S.                             *)
(***************************************************************************)
LEMMA ElementsOfSeq ==
  ASSUME NEW S, NEW s \in Seq(S)
  PROVE  ToSet(s) \subseteq S
<1>1. \A i \in DOMAIN s : s[i] \in S
  OBVIOUS
<1>2. QED
  BY <1>1 DEF ToSet

(***************************************************************************)
(* Append adds one element.                                                *)
(***************************************************************************)
LEMMA AppendElements ==
  ASSUME NEW S, NEW s \in Seq(S), NEW e \in S
  PROVE  ToSet(Append(s, e)) = ToSet(s) \cup {e}
<1> DEFINE a == Append(s, e)
<1>1. /\ DOMAIN a = 1..(Len(s) + 1)
      /\ \A i \in 1..Len(s) : a[i] = s[i]
      /\ a[Len(s) + 1] = e
  BY AppendProperties
<1> HIDE DEF a
<1>2. ASSUME NEW x \in ToSet(a) PROVE x \in ToSet(s) \cup {e}
  <2>1. PICK i \in 1..(Len(s) + 1) : x = a[i]
    BY <1>1, <1>2 DEF ToSet
  <2>2. i \in 1..Len(s) \/ i = Len(s) + 1
    OBVIOUS
  <2>3. QED
    BY <1>1, <2>1, <2>2 DEF ToSet
<1>3. ASSUME NEW x \in ToSet(s) PROVE x \in ToSet(a)
  BY <1>1, <1>3 DEF ToSet
<1>4. e \in ToSet(a)
  BY <1>1 DEF ToSet
<1>5. ToSet(a) = ToSet(s) \cup {e}
  BY <1>2, <1>3, <1>4
<1>6. QED
  BY <1>5 DEF a

(***************************************************************************)
(* The elements of a sequence are those of its tail and the first.         *)
(***************************************************************************)
LEMMA TailElements ==
  ASSUME NEW S, NEW s \in Seq(S), Len(s) > 0
  PROVE  ToSet(s) = ToSet(Tail(s)) \cup {s[1]}
<1>1. ASSUME NEW i \in 1..Len(s), i # 1 PROVE s[i] \in ToSet(Tail(s))
  <2>1. i - 1 \in DOMAIN Tail(s) /\ s[i] = Tail(s)[i - 1]
    BY <1>1
  <2>2. QED
    BY <2>1 DEF ToSet
<1>2. ASSUME NEW i \in DOMAIN Tail(s) PROVE Tail(s)[i] \in ToSet(s)
  <2>1. i + 1 \in 1..Len(s) /\ Tail(s)[i] = s[i + 1]
    BY <1>2
  <2>2. QED
    BY <2>1 DEF ToSet
<1>3. QED
  BY <1>1, <1>2 DEF ToSet

(***************************************************************************)
(* The elements of a sequence are those that RemoveAt leaves and the one   *)
(* that it takes.                                                          *)
(***************************************************************************)
LEMMA RemoveAtElements ==
  ASSUME NEW S, NEW s \in Seq(S), NEW i \in 1..Len(s)
  PROVE  ToSet(s) = ToSet(RemoveAt(s, i)) \cup {s[i]}
<1> DEFINE r == RemoveAt(s, i)
<1>1. /\ r \in Seq(S) /\ Len(r) = Len(s) - 1
      /\ \A j \in 1..(Len(s) - 1) : r[j] = IF j < i THEN s[j] ELSE s[j + 1]
  BY RemoveAtProperties
<1> HIDE DEF r
<1>2. ASSUME NEW j \in 1..Len(s), j # i PROVE s[j] \in ToSet(r)
  <2>1. CASE j < i
    BY <2>1, <1>1 DEF ToSet
  <2>2. CASE j > i
    <3>1. j - 1 \in DOMAIN r /\ r[j - 1] = s[j]
      BY <2>2, <1>1
    <3>2. QED
      BY <3>1 DEF ToSet
  <2>3. QED
    BY <1>2, <2>1, <2>2
<1>3. ASSUME NEW j \in DOMAIN r PROVE r[j] \in ToSet(s)
  <2>1. j \in 1..(Len(s) - 1)
    BY <1>1, <1>3
  <2>2. r[j] = s[j] \/ r[j] = s[j + 1]
    BY <2>1, <1>1
  <2>3. QED
    BY <2>1, <2>2 DEF ToSet
<1>4. ToSet(s) = ToSet(r) \cup {s[i]}
  BY <1>2, <1>3 DEF ToSet
<1>5. QED
  BY <1>4 DEF r
-----------------------------------------------------------------------------
(* Ascending sequences.                                                    *)

Ascending(s) == \A i, j \in 1..Len(s) : i < j => s[i] < s[j]

Earlier(S, m) == {k \in S : k < m}

(***************************************************************************)
(* In an ascending sequence the place of an element tells how many are     *)
(* smaller.                                                                *)
(***************************************************************************)
LEMMA PlaceIsCount ==
  ASSUME NEW s \in Seq(Nat), Ascending(s), NEW i \in 1..Len(s)
  PROVE  Cardinality(Earlier(ToSet(s), s[i])) = i - 1
<1> DEFINE f == [j \in 1..(i - 1) |-> s[j]]
           B == Earlier(ToSet(s), s[i])
<1>1. Len(s) \in Nat /\ i \in Nat /\ \A j \in 1..Len(s) : s[j] \in Nat
  OBVIOUS
<1>2. \A j \in 1..(i - 1) : j \in 1..Len(s) /\ j < i
  BY <1>1
<1>3. ASSUME NEW j \in 1..(i - 1) PROVE f[j] \in B
  BY <1>2 DEF Ascending, Earlier, ToSet
<1>4. ASSUME NEW k \in B PROVE \E j \in 1..(i - 1) : f[j] = k
  <2>1. PICK j \in 1..Len(s) : s[j] = k
    BY DEF Earlier, ToSet
  <2>2. j < i
    BY <1>1, <2>1 DEF Ascending, Earlier
  <2>3. j \in 1..(i - 1)
    BY <1>1, <2>2
  <2>4. QED
    BY <2>1, <2>3
<1>5. ASSUME NEW j \in 1..(i - 1), NEW k \in 1..(i - 1), f[j] = f[k] PROVE j = k
  <2>1. s[j] = s[k] /\ j \in 1..Len(s) /\ k \in 1..Len(s) /\ s[j] \in Nat
    BY <1>1, <1>2, <1>5
  <2>2. ~(j < k) /\ ~(k < j)
    BY <1>1, <2>1 DEF Ascending
  <2>3. QED
    BY <2>2
<1>6. f \in [1..(i - 1) -> B]
  BY <1>3
<1> HIDE DEF f, B
<1>7. f \in Bijection(1..(i - 1), B)
  BY <1>4, <1>5, <1>6 DEF Bijection, Injection, Surjection, IsInjective
<1>8. ExistsBijection(1..(i - 1), B)
  BY <1>7 DEF ExistsBijection
<1>9. i - 1 \in Int /\ 1 \in Int /\ (1 > i - 1 => i - 1 = 0)
  BY <1>1
<1>10. /\ IsFiniteSet(1..(i - 1))
       /\ Cardinality(1..(i - 1)) = IF 1 > i - 1 THEN 0 ELSE (i - 1) - 1 + 1
  BY <1>9, FS_Interval
<1>11. Cardinality(B) = Cardinality(1..(i - 1))
  BY <1>8, <1>10, FS_Bijection
<1>12. Cardinality(B) = i - 1
  BY <1>9, <1>10, <1>11
<1>13. QED
  BY <1>12 DEF B

(***************************************************************************)
(* An ascending sequence is as long as the set of its elements.            *)
(***************************************************************************)
LEMMA LengthIsCount ==
  ASSUME NEW s \in Seq(Nat), Ascending(s)
  PROVE  IsFiniteSet(ToSet(s)) /\ Cardinality(ToSet(s)) = Len(s)
<1>1. Len(s) \in Nat /\ \A j \in 1..Len(s) : s[j] \in Nat
  OBVIOUS
<1>2. \A i, j \in 1..Len(s) : s[i] = s[j] => i = j
  <2> SUFFICES ASSUME NEW i \in 1..Len(s), NEW j \in 1..Len(s), s[i] = s[j]
               PROVE  i = j
    OBVIOUS
  <2>1. ~(i < j) /\ ~(j < i)
    BY <1>1 DEF Ascending
  <2>2. QED
    BY <1>1, <2>1
<1>3. s \in [1..Len(s) -> ToSet(s)] /\ \A m \in ToSet(s) : \E i \in 1..Len(s) : s[i] = m
  BY DEF ToSet
<1>4. s \in Bijection(1..Len(s), ToSet(s))
  BY <1>2, <1>3 DEF Bijection, Injection, Surjection, IsInjective
<1>5. ExistsBijection(1..Len(s), ToSet(s))
  BY <1>4 DEF ExistsBijection
<1>6. 1 \in Int /\ Len(s) \in Int /\ (1 > Len(s) => Len(s) = 0)
  BY <1>1
<1>7. /\ IsFiniteSet(1..Len(s))
      /\ Cardinality(1..Len(s)) = IF 1 > Len(s) THEN 0 ELSE Len(s) - 1 + 1
  BY <1>6, FS_Interval
<1>8. IsFiniteSet(ToSet(s)) /\ Cardinality(ToSet(s)) = Cardinality(1..Len(s))
  BY <1>5, <1>7, FS_Bijection
<1>9. QED
  BY <1>6, <1>7, <1>8

(***************************************************************************)
(* There is only one ascending sequence of given elements.                 *)
(***************************************************************************)
LEMMA OneAscending ==
  ASSUME NEW s \in Seq(Nat), NEW t \in Seq(Nat), Ascending(s), Ascending(t),
         ToSet(s) = ToSet(t)
  PROVE  s = t
<1>1. Len(s) = Len(t) /\ Len(s) \in Nat
  <2>1. Cardinality(ToSet(s)) = Len(s) /\ Cardinality(ToSet(t)) = Len(t)
    BY LengthIsCount
  <2>2. QED
    BY <2>1
<1>2. ASSUME NEW i \in 1..Len(s) PROVE s[i] = t[i]
  <2>1. s[i] \in ToSet(t)
    <3>1. s[i] \in ToSet(s)
      BY DEF ToSet
    <3>2. QED
      BY <3>1
  <2>2. PICK j \in 1..Len(t) : t[j] = s[i]
    BY <2>1 DEF ToSet
  <2>3. Cardinality(Earlier(ToSet(s), s[i])) = i - 1
    BY PlaceIsCount
  <2>4. Cardinality(Earlier(ToSet(t), t[j])) = j - 1
    BY PlaceIsCount
  <2>5. i - 1 = j - 1
    BY <2>2, <2>3, <2>4
  <2>6. i = j
    BY <2>5
  <2>7. QED
    BY <2>2, <2>6
<1>3. QED
  BY <1>1, <1>2, SeqEqual

(***************************************************************************)
(* Every finite set of naturals has an ascending sequence.                 *)
(***************************************************************************)
LEMMA AscendingExists ==
  ASSUME NEW S \in SUBSET Nat, IsFiniteSet(S)
  PROVE  \E s \in [1..Cardinality(S) -> S] :
           \A i, j \in DOMAIN s : i < j => s[i] < s[j]
<1> DEFINE n == Cardinality(S)
           rank == [m \in S |-> Cardinality(Earlier(S, m)) + 1]
           list == [i \in 1..n |-> CHOOSE m \in S : rank[m] = i]
<1>1. n \in Nat
  BY FS_CardinalityType
<1>2. IsFiniteSet(1..n) /\ Cardinality(1..n) = n
  <2>1. 1 \in Int /\ n \in Int /\ (1 > n => n = 0)
    BY <1>1
  <2>2. IsFiniteSet(1..n) /\ Cardinality(1..n) = IF 1 > n THEN 0 ELSE n - 1 + 1
    BY <2>1, FS_Interval
  <2>3. QED
    BY <2>1, <2>2
<1>3. ASSUME NEW m \in S
      PROVE  /\ IsFiniteSet(Earlier(S, m)) /\ m \notin Earlier(S, m)
             /\ Cardinality(Earlier(S, m)) \in 0..(n - 1)
  <2>1. m \notin Earlier(S, m) /\ Earlier(S, m) \in SUBSET (S \ {m})
    BY DEF Earlier
  <2>2. IsFiniteSet(S \ {m}) /\ Cardinality(S \ {m}) = n - 1
    BY FS_RemoveElement
  <2>3. IsFiniteSet(Earlier(S, m)) /\ Cardinality(Earlier(S, m)) <= n - 1
    BY <2>1, <2>2, FS_Subset
  <2>4. Cardinality(Earlier(S, m)) \in Nat
    BY <2>3, FS_CardinalityType
  <2>5. QED
    BY <1>1, <2>1, <2>3, <2>4
<1>4. ASSUME NEW k \in S, NEW m \in S, k < m
      PROVE  Cardinality(Earlier(S, k)) < Cardinality(Earlier(S, m))
  <2>1. Earlier(S, k) \in SUBSET Earlier(S, m)
    <3>1. k \in Nat /\ m \in Nat /\ \A x \in S : x \in Nat
      OBVIOUS
    <3>2. \A x \in S : x < k => x < m
      BY <1>4, <3>1
    <3>3. QED
      BY <3>2 DEF Earlier
  <2>2. k \in Earlier(S, m) /\ k \notin Earlier(S, k)
    BY <1>3, <1>4 DEF Earlier
  <2>3. /\ Cardinality(Earlier(S, k)) <= Cardinality(Earlier(S, m))
        /\ Cardinality(Earlier(S, k)) = Cardinality(Earlier(S, m))
             => Earlier(S, k) = Earlier(S, m)
    BY <1>3, <2>1, FS_Subset
  <2>4. Cardinality(Earlier(S, k)) \in Int /\ Cardinality(Earlier(S, m)) \in Int
    BY <1>3
  <2>5. QED
    BY <2>2, <2>3, <2>4
<1>5. /\ \A m \in S : rank[m] \in 1..n
      /\ \A k, m \in S : k < m => rank[k] < rank[m]
  <2>1. ASSUME NEW m \in S PROVE rank[m] \in 1..n
    BY <1>1, <1>3
  <2>2. ASSUME NEW k \in S, NEW m \in S, k < m PROVE rank[k] < rank[m]
    <3>1. Cardinality(Earlier(S, k)) \in Int /\ Cardinality(Earlier(S, m)) \in Int
      BY <1>3
    <3>2. QED
      BY <1>4, <2>2, <3>1
  <2>3. QED
    BY <2>1, <2>2
<1>6. rank \in [S -> 1..n]
  BY <1>5
<1> HIDE DEF rank
<1>7. \A k, m \in S : rank[k] = rank[m] => k = m
  <2>1. \A m \in S : m \in Nat /\ rank[m] \in Int
    BY <1>5
  <2>2. QED
    BY <1>5, <2>1
<1>8. rank \in Injection(S, 1..n)
  BY <1>6, <1>7 DEF Injection, IsInjective
<1>9. rank \in Surjection(S, 1..n)
  BY <1>2, <1>8, FS_Injection
<1>10. ASSUME NEW i \in 1..n PROVE list[i] \in S /\ rank[list[i]] = i
  <2>1. \E m \in S : rank[m] = i
    BY <1>9 DEF Surjection
  <2>2. QED
    BY <2>1
<1>11. list \in [1..n -> S]
  BY <1>10
<1> HIDE DEF list
<1>12. \A i, j \in 1..n : i < j => list[i] < list[j]
  <2> SUFFICES ASSUME NEW i \in 1..n, NEW j \in 1..n, i < j
               PROVE  list[i] < list[j]
    OBVIOUS
  <2>1. list[i] \in Nat /\ list[j] \in Nat /\ list[i] \in S /\ list[j] \in S
    BY <1>10
  <2>2. list[i] # list[j]
    BY <1>1, <1>10
  <2>3. ~(list[j] < list[i])
    BY <1>1, <1>5, <1>10, <2>1
  <2>4. QED
    BY <2>1, <2>2, <2>3
<1>13. QED
  BY <1>11, <1>12

(***************************************************************************)
(* With a larger element at its end a sequence is still ascending.         *)
(***************************************************************************)
LEMMA AppendAscends ==
  ASSUME NEW s \in Seq(Nat), Ascending(s), NEW m \in Nat,
         \A k \in ToSet(s) : k < m
  PROVE  Append(s, m) \in Seq(Nat) /\ Ascending(Append(s, m))
<1> DEFINE a == Append(s, m)
<1>1. /\ a \in Seq(Nat) /\ Len(a) = Len(s) + 1 /\ Len(s) \in Nat
      /\ \A i \in 1..Len(s) : a[i] = s[i] /\ a[i] < m
      /\ a[Len(s) + 1] = m
  BY AppendProperties DEF ToSet
<1> HIDE DEF a
<1>2. ASSUME NEW i \in 1..Len(a), NEW j \in 1..Len(a), i < j PROVE a[i] < a[j]
  <2>1. i \in 1..Len(s)
    BY <1>1, <1>2
  <2>2. CASE j \in 1..Len(s)
    BY <1>1, <1>2, <2>1, <2>2 DEF Ascending
  <2>3. CASE j = Len(s) + 1
    BY <1>1, <2>1, <2>3
  <2>4. QED
    BY <1>1, <2>2, <2>3
<1>3. QED
  BY <1>1, <1>2 DEF a, Ascending

(***************************************************************************)
(* RemoveAt takes one element out of an ascending sequence.                *)
(***************************************************************************)
LEMMA RemoveAtAscends ==
  ASSUME NEW s \in Seq(Nat), Ascending(s), NEW i \in 1..Len(s)
  PROVE  /\ RemoveAt(s, i) \in Seq(Nat) /\ Ascending(RemoveAt(s, i))
         /\ ToSet(RemoveAt(s, i)) = ToSet(s) \ {s[i]}
<1> DEFINE r == RemoveAt(s, i)
           from(j) == IF j < i THEN j ELSE j + 1
<1>1. /\ r \in Seq(Nat) /\ Len(r) = Len(s) - 1 /\ Len(s) \in Nat
      /\ \A j \in 1..Len(r) : r[j] = s[from(j)]
  <2>1. /\ r \in Seq(Nat) /\ Len(r) = Len(s) - 1
        /\ \A j \in 1..(Len(s) - 1) : r[j] = IF j < i THEN s[j] ELSE s[j + 1]
    BY RemoveAtProperties
  <2> HIDE DEF r
  <2>2. \A j \in 1..Len(r) : r[j] = s[from(j)]
    BY <2>1
  <2>3. QED
    BY <2>1, <2>2
<1>2. ToSet(s) = ToSet(r) \cup {s[i]}
  BY RemoveAtElements
<1>3. \A j \in 1..(Len(s) - 1) : from(j) \in 1..Len(s) /\ from(j) # i
  OBVIOUS
<1>4. \A j, k \in 1..(Len(s) - 1) : j < k => from(j) < from(k)
  OBVIOUS
<1>5. \A j \in 1..Len(s) : s[j] \in Nat
  OBVIOUS
<1> HIDE DEF r, from
<1>6. Ascending(r)
  BY <1>1, <1>3, <1>4 DEF Ascending
<1>7. s[i] \notin ToSet(r)
  <2> SUFFICES ASSUME NEW j \in 1..Len(r), r[j] = s[i]
               PROVE  FALSE
    BY DEF ToSet
  <2>1. from(j) \in 1..Len(s) /\ from(j) # i /\ s[from(j)] = s[i]
    BY <1>1, <1>3
  <2>2. from(j) < i \/ i < from(j)
    BY <2>1
  <2>3. s[from(j)] < s[i] \/ s[i] < s[from(j)]
    BY <2>1, <2>2 DEF Ascending
  <2>4. QED
    BY <1>5, <2>1, <2>3
<1>8. QED
  BY <1>1, <1>2, <1>6, <1>7 DEF r

(***************************************************************************)
(* The last k elements of an ascending sequence ascend.                    *)
(***************************************************************************)
LEMMA EndAscends ==
  ASSUME NEW s \in Seq(Nat), Ascending(s), NEW k \in 0..Len(s)
  PROVE  LET e == SubSeq(s, Len(s) - k + 1, Len(s))
         IN  /\ e \in Seq(Nat) /\ Ascending(e) /\ Len(e) = k
             /\ ToSet(e) = {s[i] : i \in (Len(s) - k + 1)..Len(s)}
<1> DEFINE n == Len(s)
           e == SubSeq(s, n - k + 1, n)
<1>1. n \in Nat /\ k \in Nat /\ k <= n
  OBVIOUS
<1>2. \A i \in (n - k + 1)..n : s[i] \in Nat
  BY <1>1, ElementOfSeq
<1>3. /\ e \in Seq(Nat)
      /\ Len(e) = IF n - k + 1 <= n THEN n - (n - k + 1) + 1 ELSE 0
      /\ \A i \in 1..(n - (n - k + 1) + 1) : e[i] = s[(n - k + 1) + i - 1]
  BY <1>1, <1>2, SubSeqProperties
<1> HIDE DEF e, n
<1>4. Len(e) = k /\ \A i \in 1..k : e[i] = s[(n - k) + i]
  <2>1. n - (n - k + 1) + 1 = k
    BY <1>1
  <2>2. \A i \in 1..k : (n - k + 1) + i - 1 = (n - k) + i
    BY <1>1
  <2>3. Len(e) = k
    BY <1>1, <1>3, <2>1
  <2>4. QED
    BY <1>3, <2>1, <2>2, <2>3
<1>5. Ascending(e)
  <2> SUFFICES ASSUME NEW i \in 1..k, NEW j \in 1..k, i < j
               PROVE  e[i] < e[j]
    BY <1>4 DEF Ascending
  <2>1. (n - k) + i \in 1..n /\ (n - k) + j \in 1..n /\ (n - k) + i < (n - k) + j
    BY <1>1
  <2>2. s[(n - k) + i] < s[(n - k) + j]
    BY <2>1 DEF Ascending, n
  <2>3. QED
    BY <1>4, <2>2
<1>6. ToSet(e) = {s[i] : i \in (n - k + 1)..n}
  <2>1. DOMAIN e = 1..k
    BY <1>3, <1>4, LenProperties
  <2>2. ASSUME NEW i \in 1..k PROVE e[i] \in {s[h] : h \in (n - k + 1)..n}
    <3>1. (n - k) + i \in (n - k + 1)..n
      BY <1>1
    <3>2. QED
      BY <1>4, <3>1
  <2>3. ASSUME NEW h \in (n - k + 1)..n PROVE \E i \in 1..k : s[h] = e[i]
    <3>1. h - (n - k) \in 1..k /\ (n - k) + (h - (n - k)) = h
      BY <1>1
    <3>2. QED
      BY <1>4, <3>1
  <2>4. QED
    BY <2>1, <2>2, <2>3 DEF ToSet
<1>7. QED
  BY <1>3, <1>4, <1>5, <1>6 DEF e, n
=============================================================================
