-------------------------- MODULE MemoryStore_proofs --------------------------
(***************************************************************************)
(* Proofs about the in-memory backend, for any number of tasks, any        *)
(* capacity and any number of pushes.                                      *)
(***************************************************************************)
EXTENDS MemoryStore, SequenceLemmas, SequenceTheorems, TLAPS

(***************************************************************************)
(* Every variable keeps its type: in particular the Vec holds only mails   *)
(* that were pushed.                                                       *)
(***************************************************************************)
LEMMA TypeStep == TypeOK /\ [Next]_storeVars => TypeOK'
<1> SUFFICES ASSUME TypeOK, [Next]_storeVars PROVE TypeOK'
  OBVIOUS
<1> USE BoundAssumption DEF TypeOK, Location, Goto
<1>1. ASSUME NEW t \in Task, PushInsert(t) PROVE TypeOK'
  <2>1. pushed' = pushed + 1 /\ pushed' \in 0..MaxPush
    BY <1>1 DEF PushInsert
  <2>2. emails \in Seq(1..pushed')
    BY <2>1, SeqMonotonic, 1..pushed \subseteq 1..pushed'
  <2>3. emails' \in Seq(1..pushed')
    BY <1>1, <2>1, <2>2 DEF PushInsert
  <2>4. QED
    BY <1>1, <2>1, <2>3 DEF PushInsert
<1>2. ASSUME NEW t \in Task, PushEvict(t) PROVE TypeOK'
  <2>1. Tail(emails) \in Seq(1..pushed)
    BY <1>2, HeadTailProperties DEF PushEvict
  <2>2. QED
    BY <1>2, <2>1 DEF PushEvict
<1>3. ASSUME NEW t \in Task, PushUnlock(t) PROVE TypeOK'
  BY <1>3 DEF PushUnlock
<1>4. ASSUME NEW t \in Task, Clear(t) PROVE TypeOK'
  <2>1. ToSet(emails) \subseteq 1..pushed
    BY DEF ToSet
  <2>2. deleted' \subseteq 1..pushed'
    BY <1>4, <2>1 DEF Clear
  <2>3. emails' \in Seq(1..pushed')
    BY <1>4, EmptySeq DEF Clear
  <2>4. QED
    BY <1>4, <2>2, <2>3 DEF Clear
<1>5. ASSUME NEW t \in Task, NEW i \in DOMAIN emails, RemoveFound(t, i)
      PROVE TypeOK'
  <2>1. RemoveAt(emails, i) \in Seq(1..pushed) /\ emails[i] \in 1..pushed
    BY RemoveAtProperties
  <2>2. /\ emails' = RemoveAt(emails, i) /\ deleted' = deleted \cup {emails[i]}
        /\ pc' \in [Task -> Location] /\ UNCHANGED <<writer, pushed, snapshot>>
    BY <1>5 DEF RemoveFound
  <2>3. QED
    BY <2>1, <2>2
<1>6. ASSUME NEW t \in Task, GetAll(t) PROVE TypeOK'
  <2>1. emails \in Seq(1..MaxPush)
    BY SeqMonotonic, 1..pushed \subseteq 1..MaxPush
  <2>2. QED
    BY <1>6, <2>1 DEF GetAll
<1>7. ASSUME NEW t \in Task, Notify(t) PROVE TypeOK'
  BY <1>7 DEF Notify
<1>8. CASE UNCHANGED storeVars
  BY <1>8 DEF storeVars
<1>9. QED
  BY <1>1, <1>2, <1>3, <1>4, <1>5, <1>6, <1>7, <1>8 DEF Next, StoreStep

THEOREM TypeCorrect == Spec => []TypeOK
<1>1. Init => TypeOK
  BY BoundAssumption DEF Init, TypeOK, Location
<1>2. QED
  BY <1>1, TypeStep, PTL DEF Spec
-----------------------------------------------------------------------------
(***************************************************************************)
(* StoreInv holds at the start and is preserved by every step.  Of its     *)
(* parts only LockInv concerns the tasks; the other two follow the Vec.    *)
(***************************************************************************)
LEMMA StoreInvInit == Init => StoreInv
BY TaskAssumption, BoundAssumption
   DEF Init, StoreInv, LockInv, InArrivalOrder, Dated

LEMMA StoreInvStep ==
  TypeOK /\ StoreInv /\ [Next]_storeVars => StoreInv'
<1> SUFFICES ASSUME TypeOK, StoreInv, [Next]_storeVars PROVE StoreInv'
  OBVIOUS
<1> USE TaskAssumption, BoundAssumption
<1>1. ASSUME NEW t \in Task, PushInsert(t) PROVE StoreInv'
  <2> DEFINE a == Append(emails, pushed + 1)
  <2>1. /\ Len(a) = Len(emails) + 1 /\ DOMAIN a = 1..(Len(emails) + 1)
        /\ \A i \in 1..Len(emails) : a[i] = emails[i] /\ emails[i] \in 1..pushed
        /\ a[Len(emails) + 1] = pushed + 1
        /\ Len(emails) \in Nat /\ pushed \in Nat
    BY DEF TypeOK
  <2>2. emails' = a /\ pushed' = pushed + 1
    BY <1>1 DEF PushInsert
  <2> HIDE DEF a
  <2>3. LockInv'
    BY <1>1 DEF PushInsert, Goto, TypeOK, StoreInv, LockInv
  <2>4. InArrivalOrder'
    <3> SUFFICES ASSUME NEW i \in DOMAIN a, NEW j \in DOMAIN a, i < j
                 PROVE  a[i] < a[j]
      BY <2>2 DEF InArrivalOrder
    <3>1. i \in 1..Len(emails) /\ (j \in 1..Len(emails) \/ j = Len(emails) + 1)
      BY <2>1
    <3>2. QED
      BY <2>1, <3>1 DEF StoreInv, InArrivalOrder
  <2>5. Dated'
    <3> SUFFICES ASSUME NEW i \in DOMAIN a
                 PROVE  a[i] + (Len(a) - i) <= pushed + 1
      BY <2>2 DEF Dated
    <3>1. CASE i \in 1..Len(emails)
      <4>1. emails[i] + (Len(emails) - i) <= pushed
        BY <3>1 DEF StoreInv, Dated
      <4>2. QED
        BY <2>1, <3>1, <4>1
    <3>2. CASE i = Len(emails) + 1
      BY <2>1, <3>2
    <3>3. QED
      BY <2>1, <3>1, <3>2
  <2>6. QED
    BY <2>3, <2>4, <2>5 DEF StoreInv
<1>2. ASSUME NEW t \in Task, PushEvict(t) PROVE StoreInv'
  <2> DEFINE r == Tail(emails)
  <2>1. /\ Len(r) = Len(emails) - 1 /\ DOMAIN r = 1..(Len(emails) - 1)
        /\ \A i \in 1..(Len(emails) - 1) :
             r[i] = emails[i + 1] /\ emails[i + 1] \in 1..pushed
        /\ Len(emails) \in Nat \ {0} /\ pushed \in Nat
    BY <1>2 DEF PushEvict, TypeOK
  <2>2. emails' = r /\ UNCHANGED <<writer, pc, pushed>>
    BY <1>2 DEF PushEvict
  <2> HIDE DEF r
  <2>3. LockInv'
    <3>1. writer # NoTask
      BY <1>2 DEF PushEvict, StoreInv, LockInv
    <3>2. QED
      BY <2>2, <3>1 DEF StoreInv, LockInv
  <2>4. InArrivalOrder'
    <3> SUFFICES ASSUME NEW i \in DOMAIN r, NEW j \in DOMAIN r, i < j
                 PROVE  r[i] < r[j]
      BY <2>2 DEF InArrivalOrder
    <3>1. emails[i + 1] < emails[j + 1]
      BY <2>1 DEF StoreInv, InArrivalOrder
    <3>2. QED
      BY <2>1, <3>1
  <2>5. Dated'
    <3> SUFFICES ASSUME NEW i \in DOMAIN r
                 PROVE  r[i] + (Len(r) - i) <= pushed
      BY <2>2 DEF Dated
    <3>1. emails[i + 1] + (Len(emails) - (i + 1)) <= pushed
      BY <2>1 DEF StoreInv, Dated
    <3>2. QED
      BY <2>1, <3>1
  <2>6. QED
    BY <2>3, <2>4, <2>5 DEF StoreInv
<1>3. ASSUME NEW t \in Task, PushUnlock(t) PROVE StoreInv'
  <2>1. writer = t
    BY <1>3 DEF PushUnlock, Goto, StoreInv, LockInv
  <2>2. LockInv'
    BY <1>3, <2>1 DEF PushUnlock, Goto, TypeOK, StoreInv, LockInv
  <2>3. QED
    BY <1>3, <2>2 DEF PushUnlock, StoreInv, InArrivalOrder, Dated
<1>4. ASSUME NEW t \in Task, Clear(t) PROVE StoreInv'
  <2>1. emails' = <<>> /\ writer' = NoTask /\ writer = NoTask
    BY <1>4 DEF Clear
  <2>2. LockInv'
    BY <1>4, <2>1 DEF Clear, Goto, TypeOK, StoreInv, LockInv
  <2>3. QED
    BY <2>1, <2>2 DEF StoreInv, InArrivalOrder, Dated
<1>5. ASSUME NEW t \in Task, NEW k \in DOMAIN emails, RemoveFound(t, k)
      PROVE StoreInv'
  <2> DEFINE r == RemoveAt(emails, k)
  <2>1. emails \in Seq(1..pushed) /\ k \in 1..Len(emails)
    BY DEF TypeOK
  <2>2. /\ r \in Seq(1..pushed) /\ Len(r) = Len(emails) - 1
        /\ \A j \in 1..(Len(emails) - 1) :
             r[j] = IF j < k THEN emails[j] ELSE emails[j + 1]
    BY <2>1, RemoveAtProperties
  <2>3. /\ emails' = r
        /\ writer = NoTask /\ UNCHANGED <<writer, pushed>>
    BY <1>5 DEF RemoveFound
  <2>4. /\ Len(emails) \in Nat /\ pushed \in Nat /\ k \in 1..Len(emails)
        /\ \A i \in 1..Len(emails) : emails[i] \in 1..pushed
        /\ DOMAIN emails = 1..Len(emails)
    BY DEF TypeOK
  <2> DEFINE at(j) == IF j < k THEN j ELSE j + 1
  <2>5. ASSUME NEW j \in 1..(Len(emails) - 1)
        PROVE  at(j) \in 1..Len(emails) /\ j <= at(j) /\ at(j) <= j + 1
    BY <2>4
  <2>6. ASSUME NEW j \in 1..(Len(emails) - 1) PROVE r[j] = emails[at(j)]
    <3>1. r[j] = IF j < k THEN emails[j] ELSE emails[j + 1]
      BY <2>2
    <3> HIDE DEF r
    <3>2. QED
      BY <3>1
  <2>7. \A i, j \in 1..(Len(emails) - 1) : i < j => at(i) < at(j)
    BY <2>4
  <2> HIDE DEF r, at
  <2>8. LockInv'
    <3>1. Len(r) <= MaxMails
      BY <2>2, <2>3, <2>4 DEF StoreInv, LockInv
    <3>2. \A u \in Task : pc'[u] = "evicting" <=> pc[u] = "evicting"
      BY <1>5 DEF RemoveFound, Goto, TypeOK
    <3>3. QED
      BY <2>3, <3>1, <3>2 DEF StoreInv, LockInv
  <2>9. InArrivalOrder'
    <3> SUFFICES ASSUME NEW i \in DOMAIN r, NEW j \in DOMAIN r, i < j
                 PROVE  r[i] < r[j]
      BY <2>3 DEF InArrivalOrder
    <3>1. i \in 1..(Len(emails) - 1) /\ j \in 1..(Len(emails) - 1)
      BY <2>2, <2>4
    <3>2. \A p, q \in 1..Len(emails) : p < q => emails[p] < emails[q]
      BY <2>4 DEF StoreInv, InArrivalOrder
    <3>3. QED
      BY <2>5, <2>6, <2>7, <3>1, <3>2
  <2>10. Dated'
    <3> SUFFICES ASSUME NEW i \in DOMAIN r
                 PROVE  r[i] + (Len(r) - i) <= pushed
      BY <2>3 DEF Dated
    <3>1. i \in 1..(Len(emails) - 1)
      BY <2>2, <2>4
    <3>2. /\ at(i) \in 1..Len(emails) /\ i <= at(i) /\ at(i) <= i + 1
          /\ r[i] = emails[at(i)] /\ emails[at(i)] \in 1..pushed
      BY <2>4, <2>5, <2>6, <3>1
    <3>3. emails[at(i)] + (Len(emails) - at(i)) <= pushed
      BY <2>4, <3>2 DEF StoreInv, Dated
    <3>4. \A x, n, q, m \in Nat :
            x + (n - q) <= m /\ q <= i + 1 => x + ((n - 1) - i) <= m
      BY <3>1
    <3>5. r[i] + ((Len(emails) - 1) - i) <= pushed
      BY <2>4, <3>2, <3>3, <3>4
    <3>6. QED
      BY <2>2, <3>5
  <2>11. QED
    BY <2>8, <2>9, <2>10 DEF StoreInv
<1>6. ASSUME NEW t \in Task, GetAll(t) PROVE StoreInv'
  BY <1>6 DEF GetAll, StoreInv, LockInv, InArrivalOrder, Dated
<1>7. ASSUME NEW t \in Task, Notify(t) PROVE StoreInv'
  <2>1. LockInv'
    BY <1>7 DEF Notify, Goto, TypeOK, StoreInv, LockInv
  <2>2. QED
    BY <1>7, <2>1 DEF Notify, StoreInv, InArrivalOrder, Dated
<1>8. CASE UNCHANGED storeVars
  BY <1>8 DEF storeVars, StoreInv, LockInv, InArrivalOrder, Dated
<1>9. QED
  BY <1>1, <1>2, <1>3, <1>4, <1>5, <1>6, <1>7, <1>8 DEF Next, StoreStep

THEOREM StoreInvariant == Spec => []StoreInv
<1>1. Init => TypeOK
  BY BoundAssumption DEF Init, TypeOK, Location
<1>2. QED
  BY <1>1, TypeStep, StoreInvInit, StoreInvStep, PTL DEF Spec
-----------------------------------------------------------------------------
(***************************************************************************)
(* No reader ever gets more than MaxMails mails (store.rs:51-63): the lock *)
(* is free only when the Vec is within its capacity.                       *)
(***************************************************************************)
THEOREM ReadersSeeNoOverflow == Spec => []SnapshotBounded
<1>1. Init => SnapshotBounded
  BY BoundAssumption DEF Init, SnapshotBounded
<1>2. StoreInv /\ TypeOK /\ SnapshotBounded /\ [Next]_storeVars
        => SnapshotBounded'
  <2> SUFFICES ASSUME StoreInv, TypeOK, SnapshotBounded, [Next]_storeVars
               PROVE  SnapshotBounded'
    OBVIOUS
  <2>1. ASSUME NEW t \in Task, GetAll(t) PROVE SnapshotBounded'
    <3>1. Len(emails) <= MaxMails
      BY <2>1 DEF GetAll, StoreInv, LockInv
    <3>2. QED
      BY <2>1, <3>1 DEF GetAll, SnapshotBounded, TypeOK
  <2>2. CASE UNCHANGED snapshot
    BY <2>2 DEF SnapshotBounded
  <2>3. QED
    BY <2>1, <2>2 DEF Next, StoreStep, PushInsert, PushEvict, PushUnlock,
                      Clear, RemoveFound, Notify, storeVars
<1>3. QED
  BY <1>1, <1>2, TypeCorrect, StoreInvariant, PTL DEF Spec

(***************************************************************************)
(* The two promises of the ring buffer, for every interleaving of pushes   *)
(* and deletions: it loses its oldest mails first, and only to make room.  *)
(* They need the order of the Vec: an eviction takes out the first mail,   *)
(* which is the oldest because the Vec is sorted by arrival, and which is  *)
(* at least MaxMails arrivals old because of Dated.                        *)
(***************************************************************************)
RingInv == LosesOldestFirst /\ EvictsOnlyWhenFull

LEMMA RingStep ==
  TypeOK /\ StoreInv /\ RingInv /\ [Next]_storeVars => RingInv'
<1> SUFFICES ASSUME TypeOK, StoreInv, RingInv, [Next]_storeVars PROVE RingInv'
  OBVIOUS
<1> USE BoundAssumption DEF RingInv
<1>0. pushed \in Nat /\ ToSet(emails) \subseteq 1..pushed
  BY DEF TypeOK, ToSet
<1>1. ASSUME NEW t \in Task, PushInsert(t) PROVE RingInv'
  <2>1. /\ ToSet(emails') = ToSet(emails) \cup {pushed + 1}
        /\ pushed' = pushed + 1 /\ deleted' = deleted
    <3>1. emails \in Seq(Nat) /\ pushed + 1 \in Nat
      BY <1>0, SeqMonotonic, 1..pushed \subseteq Nat DEF TypeOK
    <3>2. QED
      BY <1>1, <3>1, AppendElements DEF PushInsert
  <2>2. LosesOldestFirst'
    <3> SUFFICES ASSUME NEW new \in 1..(pushed + 1), NEW old \in 1..(new - 1),
                        old \in ToSet(emails) \cup {pushed + 1}, new \notin deleted
                 PROVE  new \in ToSet(emails) \cup {pushed + 1}
      BY <2>1 DEF LosesOldestFirst
    <3>1. old \in ToSet(emails)
      BY <1>0
    <3>2. CASE new \in 1..pushed
      BY <3>1, <3>2 DEF LosesOldestFirst
    <3>3. QED
      BY <1>0, <3>2
  <2>3. EvictsOnlyWhenFull'
    <3> SUFFICES ASSUME NEW m \in 1..(pushed + 1),
                        m \notin ToSet(emails) \cup {pushed + 1} \cup deleted
                 PROVE  (pushed + 1) - m >= MaxMails
      BY <2>1 DEF EvictsOnlyWhenFull
    <3>1. m \in 1..pushed
      BY <1>0
    <3>2. pushed - m >= MaxMails
      BY <3>1 DEF EvictsOnlyWhenFull
    <3>3. QED
      BY <1>0, <3>1, <3>2
  <2>4. QED
    BY <2>2, <2>3
<1>2. ASSUME NEW t \in Task, PushEvict(t) PROVE RingInv'
  <2>1. /\ Len(emails) > MaxMails /\ emails' = Tail(emails)
        /\ UNCHANGED <<pushed, deleted>>
    BY <1>2 DEF PushEvict
  <2>2. ToSet(emails) = ToSet(emails') \cup {emails[1]}
    BY <2>1, TailElements DEF TypeOK
  <2>3. \A m \in ToSet(emails') : emails[1] < m
    <3> SUFFICES ASSUME NEW m \in ToSet(emails') PROVE emails[1] < m
      OBVIOUS
    <3>1. PICK i \in DOMAIN emails' : m = emails'[i]
      BY DEF ToSet
    <3>2. i + 1 \in DOMAIN emails /\ 1 \in DOMAIN emails /\ m = emails[i + 1] /\ 1 < i + 1
      BY <2>1, <3>1 DEF TypeOK
    <3>3. QED
      BY <3>2 DEF StoreInv, InArrivalOrder
  <2>4. pushed - emails[1] >= MaxMails
    <3>1. 1 \in DOMAIN emails /\ emails[1] \in Nat /\ Len(emails) \in Nat
      BY <2>1 DEF TypeOK
    <3>2. emails[1] + (Len(emails) - 1) <= pushed
      BY <3>1 DEF StoreInv, Dated
    <3>3. QED
      BY <1>0, <2>1, <3>1, <3>2
  <2>5. LosesOldestFirst'
    <3> SUFFICES ASSUME NEW new \in 1..pushed, NEW old \in 1..(new - 1),
                        old \in ToSet(emails'), new \notin deleted
                 PROVE  new \in ToSet(emails')
      BY <2>1 DEF LosesOldestFirst
    <3>1. new \in ToSet(emails)
      BY <2>2 DEF LosesOldestFirst
    <3>2. emails[1] < old /\ old < new /\ emails[1] \in Nat
      BY <1>0, <2>2, <2>3
    <3>3. QED
      BY <2>2, <3>1, <3>2
  <2>6. EvictsOnlyWhenFull'
    <3> SUFFICES ASSUME NEW m \in 1..pushed, m \notin ToSet(emails') \cup deleted
                 PROVE  pushed - m >= MaxMails
      BY <2>1 DEF EvictsOnlyWhenFull
    <3>1. CASE m = emails[1]
      BY <2>4, <3>1
    <3>2. CASE m # emails[1]
      BY <2>2, <3>2 DEF EvictsOnlyWhenFull
    <3>3. QED
      BY <3>1, <3>2
  <2>7. QED
    BY <2>5, <2>6
<1>3. ASSUME NEW t \in Task, Clear(t) PROVE RingInv'
  <2>1. /\ emails' = <<>> /\ ToSet(emails') = {} /\ pushed' = pushed
        /\ deleted' = deleted \cup ToSet(emails)
    BY <1>3 DEF Clear, ToSet
  <2>2. QED
    BY <2>1 DEF LosesOldestFirst, EvictsOnlyWhenFull
<1>4. ASSUME NEW t \in Task, NEW i \in DOMAIN emails, RemoveFound(t, i)
      PROVE RingInv'
  <2>1. /\ emails' = RemoveAt(emails, i) /\ pushed' = pushed
        /\ deleted' = deleted \cup {emails[i]}
    BY <1>4 DEF RemoveFound
  <2>2. emails \in Seq(1..pushed) /\ i \in 1..Len(emails)
    BY DEF TypeOK
  <2>3. ToSet(emails) = ToSet(emails') \cup {emails[i]}
    BY <2>1, <2>2, RemoveAtElements
  <2>4. QED
    BY <2>1, <2>3 DEF LosesOldestFirst, EvictsOnlyWhenFull
<1>5. CASE UNCHANGED <<emails, pushed, deleted>>
  BY <1>5 DEF LosesOldestFirst, EvictsOnlyWhenFull
<1>6. QED
  BY <1>1, <1>2, <1>3, <1>4, <1>5
     DEF Next, StoreStep, PushUnlock, GetAll, Notify, storeVars

THEOREM RingBuffer == Spec => [](LosesOldestFirst /\ EvictsOnlyWhenFull)
<1>1. Init => RingInv
  BY DEF Init, RingInv, LosesOldestFirst, EvictsOnlyWhenFull
<1>2. Spec => []RingInv
  BY <1>1, RingStep, TypeCorrect, StoreInvariant, PTL DEF Spec
<1>3. RingInv => LosesOldestFirst /\ EvictsOnlyWhenFull
  BY DEF RingInv
<1>4. QED
  BY <1>2, <1>3, PTL

(***************************************************************************)
(* No mail is evicted (store.rs:54-56) before as many later ones as --max  *)
(* have arrived.                                                           *)
(***************************************************************************)
THEOREM NoneEvictedEarly == Spec => []EvictsOnlyWhenFull
BY RingBuffer, PTL
-----------------------------------------------------------------------------
(***************************************************************************)
(* The backend keeps the trait's promise.  A push takes effect when it     *)
(* takes the lock: from then on the mails that count are the newest        *)
(* MaxMails, and an eviction changes the Vec without changing them.  All   *)
(* other calls run while the lock is free, when the Vec is what counts.    *)
(***************************************************************************)
LEMMA TailKeepsNewest ==
  ASSUME NEW S, NEW s \in Seq(S), NEW max \in Nat, Len(s) > max
  PROVE  SubSeq(Tail(s), Len(Tail(s)) - max + 1, Len(Tail(s)))
           = SubSeq(s, Len(s) - max + 1, Len(s))
<1> DEFINE r == Tail(s)
<1>1. /\ r \in Seq(S) /\ Len(s) \in Nat \ {0} /\ Len(r) = Len(s) - 1
      /\ \A i \in 1..(Len(s) - 1) : r[i] = s[i + 1] /\ r[i] \in S
      /\ \A i \in 1..Len(s) : s[i] \in S
  BY HeadTailProperties, ElementOfSeq
<1> HIDE DEF r
<1> DEFINE kept == SubSeq(s, Len(s) - max + 1, Len(s))
           keptOfTail == SubSeq(r, Len(s) - max, Len(s) - 1)
<1>2. /\ kept \in Seq(S) /\ Len(kept) = max
      /\ \A i \in 1..max : kept[i] = s[(Len(s) - max) + i]
  <2>1. \A i \in (Len(s) - max + 1)..Len(s) : s[i] \in S
    BY <1>1
  <2>2. /\ Len(kept) = IF Len(s) - max + 1 <= Len(s) THEN max ELSE 0
        /\ kept \in Seq(S)
        /\ \A i \in 1..max : kept[i] = s[(Len(s) - max + 1) + i - 1]
    BY <1>1, <2>1, SubSeqProperties
  <2>3. \A i \in 1..max : (Len(s) - max + 1) + i - 1 = (Len(s) - max) + i
    BY <1>1
  <2> HIDE DEF kept
  <2>4. QED
    BY <1>1, <2>2, <2>3
<1>3. /\ keptOfTail \in Seq(S) /\ Len(keptOfTail) = max
      /\ \A i \in 1..max : keptOfTail[i] = s[(Len(s) - max) + i]
  <2>1. \A i \in (Len(s) - max)..(Len(s) - 1) : r[i] \in S
    BY <1>1
  <2>2. /\ Len(keptOfTail) = IF Len(s) - max <= Len(s) - 1 THEN max ELSE 0
        /\ keptOfTail \in Seq(S)
        /\ \A i \in 1..max : keptOfTail[i] = r[(Len(s) - max) + i - 1]
    BY <1>1, <2>1, SubSeqProperties
  <2>3. \A i \in 1..max : r[(Len(s) - max) + i - 1] = s[(Len(s) - max) + i]
    BY <1>1
  <2> HIDE DEF keptOfTail
  <2>4. QED
    BY <1>1, <2>2, <2>3
<1>4. keptOfTail = kept
  <2> HIDE DEF kept, keptOfTail
  <2>1. QED
    BY <1>2, <1>3, SeqEqual
<1>5. Len(r) - max + 1 = Len(s) - max
  BY <1>1
<1>6. QED
  BY <1>1, <1>4, <1>5 DEF r

LEMMA EvictionInvisible ==
  TypeOK /\ Len(emails) > MaxMails /\ emails' = Tail(emails)
    => Retained' = Retained
<1> SUFFICES ASSUME TypeOK, Len(emails) > MaxMails, emails' = Tail(emails)
             PROVE  Retained' = Retained
  OBVIOUS
<1> DEFINE r == Tail(emails)
<1>1. /\ emails \in Seq(1..pushed) /\ MaxMails \in Nat
      /\ r \in Seq(1..pushed) /\ Len(r) = Len(emails) - 1
  BY BoundAssumption, HeadTailProperties DEF TypeOK
<1> HIDE DEF r
<1>2. SubSeq(r, Len(r) - MaxMails + 1, Len(r)) = Retained
  BY <1>1, TailKeepsNewest DEF Retained, r
<1>3. emails' = r
  BY DEF r
<1>4. CASE Len(r) > MaxMails
  <2>1. ~(Len(r) <= MaxMails)
    BY <1>1, <1>4
  <2>2. Retained' = SubSeq(r, Len(r) - MaxMails + 1, Len(r))
    BY <1>3, <2>1 DEF Retained
  <2>3. QED
    BY <1>2, <2>2
<1>5. CASE Len(r) = MaxMails
  <2>1. Retained' = r
    BY <1>3, <1>5 DEF Retained
  <2>2. SubSeq(r, 1, Len(r)) = r
    BY <1>1, SubSeqFull
  <2>3. Len(r) - MaxMails + 1 = 1
    BY <1>1, <1>5
  <2>4. QED
    BY <1>2, <2>1, <2>2, <2>3
<1>6. QED
  BY <1>1, <1>4, <1>5

THEOREM Refinement == Spec => ImplementsStorage
<1> USE BoundAssumption
<1>1. Init => Storage!Init
  BY DEF Init, Storage!Init, Retained
<1>2. TypeOK /\ StoreInv /\ [Next]_storeVars => [Storage!Next]_Storage!vars
  <2> SUFFICES ASSUME TypeOK, StoreInv, [Next]_storeVars
               PROVE  [Storage!Next]_Storage!vars
    OBVIOUS
  <2> USE DEF Storage!Next, Storage!vars
  <2>1. writer = NoTask => Retained = emails
    BY DEF StoreInv, LockInv, Retained
  <2>2. ASSUME NEW t \in Task, PushInsert(t) PROVE Storage!Push
    <3>1. Retained' = Storage!Newest(Append(Retained, pushed + 1))
      BY <2>1, <2>2 DEF PushInsert, Retained, Storage!Newest
    <3>2. QED
      BY <2>2, <3>1 DEF PushInsert, Storage!Push
  <2>3. ASSUME NEW t \in Task, PushEvict(t) PROVE UNCHANGED Storage!vars
    BY <2>3, EvictionInvisible DEF PushEvict
  <2>4. ASSUME NEW t \in Task, PushUnlock(t) \/ Notify(t)
        PROVE  UNCHANGED Storage!vars
    BY <2>4 DEF PushUnlock, Notify, Retained
  <2>5. ASSUME NEW t \in Task, Clear(t) PROVE Storage!Clear
    BY <2>5 DEF Clear, Storage!Clear, Retained
  <2>6. ASSUME NEW t \in Task, NEW i \in DOMAIN emails, RemoveFound(t, i)
        PROVE  i \in DOMAIN Retained /\ Storage!RemoveMail(i)
    <3>1. Retained = emails /\ emails' = RemoveAt(emails, i)
      BY <2>1, <2>6 DEF RemoveFound
    <3>2. Len(emails) <= MaxMails /\ Len(emails) \in Nat
      BY <2>6 DEF RemoveFound, StoreInv, LockInv, TypeOK
    <3>3. emails \in Seq(1..pushed) /\ i \in 1..Len(emails)
      BY DEF TypeOK
    <3>4. Len(RemoveAt(emails, i)) = Len(emails) - 1
      BY <3>3, RemoveAtProperties
    <3>5. Len(emails') <= MaxMails
      BY <3>1, <3>2, <3>4
    <3>6. Retained' = RemoveAt(Retained, i)
      BY <3>1, <3>5 DEF Retained
    <3>7. QED
      BY <2>6, <3>1, <3>6 DEF RemoveFound, Storage!RemoveMail, RemoveAt,
                               Storage!RemoveAt
  <2>7. ASSUME NEW t \in Task, GetAll(t) PROVE Storage!GetAll(t)
    BY <2>1, <2>7 DEF GetAll, Storage!GetAll, Retained
  <2>8. CASE UNCHANGED storeVars
    BY <2>8 DEF storeVars, Retained
  <2>9. QED
    BY <2>2, <2>3, <2>4, <2>5, <2>6, <2>7, <2>8 DEF Next, StoreStep
<1>3. QED
  BY <1>1, <1>2, TypeCorrect, StoreInvariant, PTL
     DEF Spec, ImplementsStorage, Storage!Spec
=============================================================================
