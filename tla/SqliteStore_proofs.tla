-------------------------- MODULE SqliteStore_proofs --------------------------
(***************************************************************************)
(* Proofs about the persistent backend, for any number of tasks, pushes,   *)
(* attachments and faults and any values of --max.                         *)
(***************************************************************************)
EXTENDS SqliteStore, SequenceLemmas, FiniteSetTheorems, TLAPS

USE DEF Location

(***************************************************************************)
(* The arithmetic-free part of a row: what an attachment leaves alone.     *)
(***************************************************************************)
LEMMA AttachedRow ==
  ASSUME NEW r \in Row, r.parts < Attachments
  PROVE  LET a == [r EXCEPT !.parts = @ + 1] IN
         /\ a \in Row
         /\ a.mail = r.mail /\ a.at = r.at /\ a.parts = r.parts + 1
BY BoundAssumption DEF Row

(***************************************************************************)
(* While a task is in push, the attachments stored and those to be stored  *)
(* add up to no more than there are.  This is what bounds a row's count.   *)
(***************************************************************************)
AttachInv ==
  holder # NoTask =>
    /\ pushed # 0
    /\ \A r \in rows : r.mail = pushed => r.parts + todo <= Attachments

(***************************************************************************)
(* The types hold in every state the store can reach                       *)
(* (sqlite_store.rs:19-74, 127-190, 288-311), and with them the primary    *)
(* key and the lock.                                                       *)
(***************************************************************************)
LEMMA TypeInitially == Init => TypeOK /\ AttachInv
<1> SUFFICES ASSUME Init PROVE TypeOK /\ AttachInv
  OBVIOUS
<1> USE DEF Init
<1>1. AttachInv
  BY DEF AttachInv
<1>2. pc \in [Task -> Location] /\ listed \in [Task -> SUBSET (1..pushed)]
  OBVIOUS
<1>3. \A t \in Task : pc[t] = "pushing" <=> holder = t
  BY TaskAssumption
<1>4. 0 \in 0..MaxPush /\ 0 \in 0..MaxTime /\ 0 \in 0..Attachments
  BY BoundAssumption
<1>5. Mails = {}
  BY DEF Mails
<1>6. QED
  BY <1>1, <1>2, <1>3, <1>4, <1>5 DEF TypeOK

LEMMA TypePreserved ==
  ASSUME TypeOK, AttachInv, [Next]_vars
  PROVE  TypeOK' /\ AttachInv'
<1> USE DEF TypeOK, AttachInv, Mails
<1>1. ASSUME NEW t \in Task, PushInsert(t)
      PROVE  TypeOK' /\ AttachInv'
  <2> DEFINE new == [mail |-> pushed + 1, at |-> clock, parts |-> 0]
  <2>1. pushed + 1 \in 1..MaxPush /\ pushed' = pushed + 1 /\ pushed' \in 0..MaxPush
    BY <1>1, BoundAssumption DEF PushInsert
  <2>2. new \in Row
    BY <2>1, BoundAssumption DEF Row
  <2>3. rows' = rows \cup {new} /\ \A r \in rows : r.mail # pushed + 1
    BY <1>1 DEF PushInsert
  <2>4. rows' \subseteq Row /\ Mails' \subseteq 1..pushed'
    BY <2>1, <2>2, <2>3
  <2>5. \A q, r \in rows' : q.mail = r.mail => q = r
    BY <2>3
  <2>6. listed' \in [Task -> SUBSET (1..pushed')]
    <3>1. (1..pushed) \subseteq 1..pushed' /\ listed' = listed
      BY <1>1, <2>1 DEF PushInsert
    <3>2. QED
      BY <3>1
  <2>7. /\ pc' \in [Task -> Location]
        /\ \A u \in Task : pc'[u] = "pushing" <=> holder' = u
    BY <1>1, TaskAssumption DEF PushInsert, Free, Goto
  <2>8. AttachInv'
    BY <1>1, <2>3, BoundAssumption DEF PushInsert
  <2>9. QED
    BY <1>1, <2>1, <2>4, <2>5, <2>6, <2>7, <2>8, BoundAssumption DEF PushInsert, Free
<1>2. ASSUME NEW t \in Task, PushInsertFails(t)
      PROVE  TypeOK' /\ AttachInv'
  <2>1. pushed' = pushed + 1 /\ pushed' \in 0..MaxPush /\ faults' \subseteq Faults
    BY <1>2, BoundAssumption DEF PushInsertFails, Fault
  <2>2. (1..pushed) \subseteq 1..pushed' /\ pushed + 1 \in 1..pushed'
    BY <2>1
  <2>3. /\ pc' \in [Task -> Location]
        /\ \A u \in Task : pc'[u] = "pushing" <=> holder' = u
    BY <1>2, TaskAssumption DEF PushInsertFails, Free, Goto
  <2>4. listed' \in [Task -> SUBSET (1..pushed')]
    BY <1>2, <2>2 DEF PushInsertFails
  <2>5. QED
    BY <1>2, <2>1, <2>2, <2>3, <2>4 DEF PushInsertFails, Free
<1>3. ASSUME NEW t \in Task, PushAttach(t)
      PROVE  TypeOK' /\ AttachInv'
  <2>1. PICK r \in rows :
          r.mail = pushed /\ rows' = (rows \ {r}) \cup {[r EXCEPT !.parts = @ + 1]}
    BY <1>3 DEF PushAttach
  <2> DEFINE a == [r EXCEPT !.parts = @ + 1]
  <2>2. r \in Row /\ r.parts < Attachments
    BY <1>3, <2>1, TaskAssumption, BoundAssumption DEF PushAttach, Row
  <2>3. a \in Row /\ a.mail = r.mail /\ a.parts = r.parts + 1
    BY <2>2, AttachedRow
  <2>4. rows' \subseteq Row /\ Mails' \subseteq 1..pushed'
    <3>1. \A q \in rows' : q \in Row /\ q.mail \in 1..pushed
      BY <2>1, <2>3
    <3>2. pushed' = pushed
      BY <1>3 DEF PushAttach, historyVars
    <3>3. QED
      BY <3>1, <3>2
  <2>5. \A p, q \in rows' : p.mail = q.mail => p = q
    BY <2>1, <2>3
  <2>6. todo' \in 0..Attachments /\ todo' = todo - 1
    BY <1>3, BoundAssumption DEF PushAttach
  <2>7. AttachInv'
    <3>1. \A q \in rows' : q.mail = pushed => q = a
      BY <2>1, <2>3
    <3>2. a.parts + todo' <= Attachments
      BY <1>3, <2>1, <2>2, <2>3, <2>6, TaskAssumption, BoundAssumption DEF PushAttach, Row
    <3>3. pushed' = pushed /\ holder' = holder /\ holder # NoTask
      BY <1>3, TaskAssumption DEF PushAttach, historyVars
    <3>4. \A q \in rows' : q.mail = pushed' => q.parts + todo' <= Attachments
      BY <3>1, <3>2, <3>3
    <3>5. QED
      BY <3>3, <3>4
  <2>8. QED
    BY <1>3, <2>4, <2>5, <2>6, <2>7 DEF PushAttach, historyVars
<1>4. ASSUME NEW t \in Task, PushAttachFails(t)
      PROVE  TypeOK' /\ AttachInv'
  <2>1. todo' \in 0..Attachments /\ todo' < todo /\ faults' \subseteq Faults
    BY <1>4, BoundAssumption DEF PushAttachFails, Fault
  <2>2. AttachInv'
    BY <1>4, <2>1, BoundAssumption DEF PushAttachFails, historyVars, Row
  <2>3. QED
    BY <1>4, <2>1, <2>2 DEF PushAttachFails, historyVars
<1>5. ASSUME NEW t \in Task, PushEnforce(t)
      PROVE  TypeOK' /\ AttachInv'
  <2>1. rows' \subseteq rows /\ faults' \subseteq Faults
    BY <1>5, BoundAssumption DEF PushEnforce, Fault
  <2>2. rows' \subseteq Row /\ Mails' \subseteq 1..pushed'
    BY <1>5, <2>1 DEF PushEnforce
  <2>3. pushed \in 1..pushed
    <3>1. holder # NoTask
      BY <1>5, TaskAssumption DEF PushEnforce
    <3>2. QED
      BY <3>1
  <2>4. /\ pc' \in [Task -> Location]
        /\ \A u \in Task : pc'[u] = "pushing" <=> holder' = u
    BY <1>5, TaskAssumption DEF PushEnforce, Goto
  <2>5. QED
    BY <1>5, <2>1, <2>2, <2>3, <2>4 DEF PushEnforce
<1>6. ASSUME NEW t \in Task, Clear(t)
      PROVE  TypeOK' /\ AttachInv'
  <2>1. faults' \subseteq Faults
    BY <1>6, BoundAssumption DEF Clear, Fault
  <2>2. rows' \subseteq rows /\ deleted' \subseteq 1..pushed
    BY <1>6 DEF Clear
  <2>3. /\ pc' \in [Task -> Location]
        /\ \A u \in Task : pc'[u] = "pushing" <=> holder' = u
    BY <1>6, TaskAssumption DEF Clear, Free, Goto
  <2>4. QED
    BY <1>6, <2>1, <2>2, <2>3 DEF Clear, Free
<1>7. ASSUME NEW t \in Task, NEW r \in rows, RemoveFound(t, r)
      PROVE  TypeOK' /\ AttachInv'
  <2>1. rows' \subseteq rows /\ deleted' \subseteq 1..pushed
    BY <1>7 DEF RemoveFound
  <2>2. /\ pc' \in [Task -> Location]
        /\ \A u \in Task : pc'[u] = "pushing" <=> holder' = u
    BY <1>7, TaskAssumption DEF RemoveFound, Free, Goto
  <2>3. QED
    BY <1>7, <2>1, <2>2 DEF RemoveFound, Free
<1>8. ASSUME NEW t \in Task, GetAll(t)
      PROVE  TypeOK' /\ AttachInv'
  <2>1. faults' \subseteq Faults /\ listed' \in [Task -> SUBSET (1..pushed)]
    BY <1>8, BoundAssumption DEF GetAll, Fault
  <2>2. QED
    BY <1>8, <2>1 DEF GetAll, historyVars
<1>9. ASSUME NEW t \in Task, Notify(t)
      PROVE  TypeOK' /\ AttachInv'
  BY <1>9 DEF Notify, Goto, historyVars
<1>10. ASSUME NEW m \in Maxima, Open(m)
       PROVE  TypeOK' /\ AttachInv'
  BY <1>10 DEF Open, callVars, historyVars
<1>11. ASSUME Close
       PROVE  TypeOK' /\ AttachInv'
  BY <1>11, TaskAssumption DEF Close, historyVars
<1>12. ASSUME Crash
       PROVE  TypeOK' /\ AttachInv'
  <2>1. faults' \subseteq Faults
    BY <1>12, BoundAssumption DEF Crash, Fault
  <2>2. pc' \in [Task -> Location] /\ \A t \in Task : pc'[t] # "pushing" /\ holder' # t
    BY <1>12, TaskAssumption DEF Crash
  <2>3. up' = FALSE /\ holder' = NoTask /\ todo' = 0 /\ todo' \in 0..Attachments
    BY <1>12, BoundAssumption DEF Crash
  <2>4. UNCHANGED <<rows, max, clock, listed, pushed, accepted, refused, deleted>>
    BY <1>12 DEF Crash, historyVars
  <2>5. QED
    BY <2>1, <2>2, <2>3, <2>4
<1>13. ASSUME Tick
       PROVE  TypeOK' /\ AttachInv'
  BY <1>13, BoundAssumption DEF Tick, callVars, historyVars
<1>14. ASSUME ClockSetBack
       PROVE  TypeOK' /\ AttachInv'
  BY <1>14, BoundAssumption DEF ClockSetBack, Fault, callVars, historyVars
<1>15. ASSUME UNCHANGED vars
       PROVE  TypeOK' /\ AttachInv'
  BY <1>15 DEF vars, callVars, historyVars
<1>16. ASSUME NEW t \in Task, Call(t)
       PROVE  TypeOK' /\ AttachInv'
  <2> HIDE DEF TypeOK, AttachInv, Mails
  <2>1. CASE \E r \in rows : RemoveFound(t, r)
    BY <2>1, <1>7
  <2>2. CASE PushInsert(t) \/ PushInsertFails(t) \/ PushAttach(t) \/ PushAttachFails(t)
    BY <2>2, <1>1, <1>2, <1>3, <1>4
  <2>3. CASE PushEnforce(t) \/ Clear(t) \/ GetAll(t) \/ Notify(t)
    BY <2>3, <1>5, <1>6, <1>8, <1>9
  <2>4. QED
    BY <1>16, <2>1, <2>2, <2>3 DEF Call
<1> HIDE DEF TypeOK, AttachInv, Mails
<1>17. QED
  BY <1>10, <1>11, <1>12, <1>13, <1>14, <1>15, <1>16 DEF Next

THEOREM TypeCorrect == Spec => []TypeOK
<1>1. Init => TypeOK /\ AttachInv
  BY TypeInitially
<1>2. TypeOK /\ AttachInv /\ [Next]_vars => (TypeOK /\ AttachInv)'
  BY TypePreserved
<1>3. QED
  BY <1>1, <1>2, PTL DEF Spec
(***************************************************************************)
(* What holds of every step: it forgets no fault, and it leaves the table  *)
(* finite.                                                                 *)
(***************************************************************************)
LEMMA FaultsAreRemembered ==
  ASSUME [Next]_vars
  PROVE  faults \subseteq faults'
<1>1. ASSUME NEW t \in Task, Call(t)
      PROVE  faults \subseteq faults'
  BY <1>1 DEF Call, PushInsert, PushInsertFails, PushAttach, PushAttachFails,
              PushEnforce, Clear, RemoveFound, GetAll, Notify, Fault
<1>2. CASE UNCHANGED vars \/ (\E m \in Maxima : Open(m)) \/ Close \/ Crash
           \/ Tick \/ ClockSetBack
  BY <1>2 DEF vars, Open, Close, Crash, Tick, ClockSetBack, Fault
<1>3. QED
  BY <1>1, <1>2 DEF Next

LEMMA RowsStayFinite ==
  ASSUME IsFiniteSet(rows), [Next]_vars
  PROVE  IsFiniteSet(rows')
<1>1. ASSUME rows' \in SUBSET rows
      PROVE  IsFiniteSet(rows')
  BY <1>1, FS_Subset
<1>2. ASSUME NEW t \in Task, PushInsert(t)
      PROVE  IsFiniteSet(rows')
  BY <1>2, FS_AddElement DEF PushInsert
<1>3. ASSUME NEW t \in Task, PushAttach(t)
      PROVE  IsFiniteSet(rows')
  <2>1. PICK r \in rows :
          rows' = (rows \ {r}) \cup {[r EXCEPT !.parts = @ + 1]}
    BY <1>3 DEF PushAttach
  <2>2. IsFiniteSet(rows \ {r})
    BY FS_RemoveElement
  <2>3. QED
    BY <2>1, <2>2, FS_AddElement
<1>4. ASSUME NEW t \in Task, Call(t)
      PROVE  IsFiniteSet(rows')
  <2>1. CASE PushInsertFails(t) \/ PushAttachFails(t) \/ PushEnforce(t)
             \/ GetAll(t) \/ Notify(t)
    BY <2>1, <1>1 DEF PushInsertFails, PushAttachFails, PushEnforce, GetAll, Notify
  <2>2. CASE Clear(t) \/ \E r \in rows : RemoveFound(t, r)
    BY <2>2, <1>1 DEF Clear, RemoveFound
  <2>3. QED
    BY <1>2, <1>3, <1>4, <2>1, <2>2 DEF Call
<1>5. CASE UNCHANGED vars \/ (\E m \in Maxima : Open(m)) \/ Close \/ Crash
           \/ Tick \/ ClockSetBack
  BY <1>1, <1>5 DEF vars, Open, Close, Crash, Tick, ClockSetBack
<1>6. QED
  BY <1>4, <1>5 DEF Next

-----------------------------------------------------------------------------
(***************************************************************************)
(* Without failing statements: while a task is in push, its mail is not    *)
(* accepted, and what is stored of it and what is left to store make up    *)
(* the whole mail.                                                         *)
(***************************************************************************)
WholeInv ==
  /\ holder # NoTask =>
       /\ pushed \notin accepted
       /\ \A r \in rows : r.mail = pushed => r.parts + todo = Attachments
  /\ WholeOnceAccepted

(***************************************************************************)
(* No crash, restart or deletion leaves an accepted mail without one of    *)
(* its attachments, although push stores them one by one without a         *)
(* transaction (sqlite_store.rs:133-163): only a failing statement can.    *)
(***************************************************************************)
LEMMA WholePreserved ==
  ASSUME TypeOK, WholeInv, [Next]_vars,
         "disk" \notin faults, "disk" \notin faults'
  PROVE  WholeInv'
<1> USE DEF WholeInv, WholeOnceAccepted
<1>1. ASSUME NEW t \in Task, PushInsert(t)
      PROVE  WholeInv'
  <2> DEFINE new == [mail |-> pushed + 1, at |-> clock, parts |-> 0]
  <2>1. rows' = rows \cup {new} /\ pushed' = pushed + 1 /\ todo' = Attachments
        /\ accepted' = accepted
    BY <1>1 DEF PushInsert
  <2>2. pushed + 1 \notin accepted /\ \A r \in rows : r.mail # pushed + 1
    BY DEF TypeOK, Mails
  <2>3. \A r \in rows' : r.mail = pushed' => r.parts + todo' = Attachments
    BY <2>1, <2>2, BoundAssumption
  <2>4. \A r \in rows' : r.mail \in accepted' => r.parts = Attachments
    BY <2>1, <2>2
  <2>5. QED
    BY <2>1, <2>2, <2>3, <2>4
<1>2. ASSUME NEW t \in Task, PushAttach(t)
      PROVE  WholeInv'
  <2>1. PICK r \in rows :
          r.mail = pushed /\ rows' = (rows \ {r}) \cup {[r EXCEPT !.parts = @ + 1]}
    BY <1>2 DEF PushAttach
  <2> DEFINE a == [r EXCEPT !.parts = @ + 1]
  <2>2. /\ holder # NoTask /\ todo > 0 /\ todo' = todo - 1
        /\ holder' = holder /\ pushed' = pushed /\ accepted' = accepted
    BY <1>2, TaskAssumption DEF PushAttach, historyVars
  <2>3. r \in Row /\ todo \in Nat /\ r.parts \in Nat /\ r.parts + todo = Attachments
    BY <2>1, <2>2, BoundAssumption DEF TypeOK, Row
  <2>4. a.mail = r.mail /\ a.parts = r.parts + 1
    BY <2>2, <2>3, AttachedRow, BoundAssumption
  <2>5. \A q \in rows' : q.mail = pushed => q = a
    BY <2>1, <2>4 DEF TypeOK
  <2>6. \A q \in rows' : q.mail # pushed => q \in rows
    BY <2>1, <2>4
  <2>7. a.parts + todo' = Attachments
    BY <2>2, <2>3, <2>4
  <2>8. QED
    BY <2>2, <2>5, <2>6, <2>7
<1>3. ASSUME NEW t \in Task, PushEnforce(t)
      PROVE  WholeInv'
  <2>1. rows' \subseteq rows /\ accepted' = accepted \cup {pushed} /\ holder' = NoTask
    BY <1>3 DEF PushEnforce, Fault
  <2>2. holder # NoTask /\ todo = 0
    BY <1>3, TaskAssumption DEF PushEnforce
  <2>3. \A r \in rows : r.mail = pushed => r.parts = Attachments
    BY <2>2, BoundAssumption DEF TypeOK, Row
  <2>4. QED
    BY <2>1, <2>3
<1>4. ASSUME rows' \subseteq rows, accepted' = accepted,
             holder' = NoTask \/ UNCHANGED <<holder, todo, pushed>>
      PROVE  WholeInv'
  BY <1>4
<1>5. ASSUME NEW t \in Task, Call(t)
      PROVE  WholeInv'
  <2>1. CASE \E r \in rows : RemoveFound(t, r)
    BY <2>1, <1>4 DEF RemoveFound
  <2>2. CASE PushInsertFails(t) \/ PushAttachFails(t)
    BY <2>2 DEF PushInsertFails, PushAttachFails, Fault
  <2>3. CASE Clear(t) \/ GetAll(t) \/ Notify(t)
    BY <2>3, <1>4 DEF Clear, GetAll, Notify, historyVars
  <2> HIDE DEF WholeInv
  <2>4. QED
    BY <1>1, <1>2, <1>3, <1>5, <2>1, <2>2, <2>3 DEF Call
<1>6. CASE UNCHANGED vars \/ (\E m \in Maxima : Open(m)) \/ Close \/ Crash
           \/ Tick \/ ClockSetBack
  BY <1>4, <1>6 DEF vars, callVars, historyVars, Open, Close, Crash, Tick, ClockSetBack
<1> HIDE DEF WholeInv
<1>7. QED
  BY <1>5, <1>6 DEF Next

THEOREM AcceptedMailsAreWhole == Spec => []WholeOnceAccepted
<1> DEFINE Inv == "disk" \notin faults => WholeInv
<1>1. Init => Inv
  BY DEF Init, WholeInv, WholeOnceAccepted
<1>2. TypeOK /\ Inv /\ [Next]_vars => Inv'
  BY WholePreserved, FaultsAreRemembered
<1>3. Inv => WholeOnceAccepted
  BY DEF WholeInv, WholeOnceAccepted
<1> HIDE DEF Inv
<1>4. QED
  BY <1>1, <1>2, <1>3, TypeCorrect, PTL DEF Spec
-----------------------------------------------------------------------------
(***************************************************************************)
(* Until the clock is set back created_at grows with the arrival, so       *)
(* what enforce_max takes first has arrived first.                         *)
(***************************************************************************)
OrderInv ==
  /\ IsFiniteSet(rows)
  /\ \A r \in rows : r.at <= clock
  /\ \A q, r \in rows : q.mail < r.mail => q.at <= r.at
  /\ LosesOldestFirst

(***************************************************************************)
(* What enforce_max deletes (sqlite_store.rs:70) is closed towards the     *)
(* older rows: with a row it takes every row before it.                    *)
(***************************************************************************)
LEMMA OldestIsClosed ==
  ASSUME IsFiniteSet(rows), rows \subseteq Row, NEW k \in Nat,
         NEW r \in Oldest(k), NEW q \in rows, Before(q, r)
  PROVE  q \in Oldest(k)
<1> DEFINE older(x) == {p \in rows : Before(p, x)}
<1>1. r \in rows /\ Cardinality(older(r)) < k
  BY DEF Oldest
<1>2. \A p \in rows : Before(p, q) => Before(p, r)
  <2>1. \A p \in rows : p.at \in Int /\ p.mail \in Int
    BY BoundAssumption DEF Row
  <2>2. QED
    BY <1>1, <2>1 DEF Before
<1>3. older(q) \in SUBSET older(r) /\ older(r) \in SUBSET rows
  BY <1>2
<1>4. IsFiniteSet(older(r))
  BY <1>3, FS_Subset
<1>5. IsFiniteSet(older(q)) /\ Cardinality(older(q)) <= Cardinality(older(r))
  BY <1>3, <1>4, FS_Subset
<1>6. Cardinality(older(q)) \in Nat /\ Cardinality(older(r)) \in Nat
  BY <1>4, <1>5, FS_CardinalityType
<1>7. Cardinality(older(q)) < k
  BY <1>1, <1>5, <1>6
<1>8. QED
  BY <1>7 DEF Oldest

(***************************************************************************)
(* push's deletion loses the oldest first (sqlite_store.rs:62-74).         *)
(***************************************************************************)
LEMMA EnforceKeepsOrder ==
  ASSUME TypeOK, OrderInv, "clock" \notin faults, NEW t \in Task, PushEnforce(t)
  PROVE  OrderInv'
<1>1. /\ rows' = rows \ Oldest(Excess) \/ rows' = rows
      /\ UNCHANGED <<clock, pushed, deleted, refused>>
  BY DEF PushEnforce
<1>2. rows' \in SUBSET rows
  BY <1>1
<1>3. IsFiniteSet(rows')
  BY <1>2, FS_Subset DEF OrderInv
<1>4. Excess \in Nat
  BY FS_CardinalityType, MaximaAssumption DEF OrderInv, TypeOK, Excess
<1>5. ASSUME NEW new \in 1..pushed, NEW old \in 1..(new - 1),
             old \in Mails', new \notin deleted \cup refused
      PROVE  new \in Mails'
  <2>1. PICK q \in rows' : q.mail = old
    BY <1>5 DEF Mails
  <2>2. new \in Mails
    BY <1>2, <1>5, <2>1 DEF OrderInv, LosesOldestFirst, Mails
  <2>3. PICK r \in rows : r.mail = new
    BY <2>2 DEF Mails
  <2>4. q \in rows /\ q.mail < r.mail /\ q.at \in Int /\ r.at \in Int
    BY <1>2, <1>5, <2>1, <2>3, BoundAssumption DEF TypeOK, Row
  <2>5. Before(q, r)
    BY <2>4, <2>3 DEF OrderInv, Before
  <2>6. r \in rows'
    <3>1. r \in Oldest(Excess) => q \in Oldest(Excess)
      BY <1>4, <2>3, <2>4, <2>5, OldestIsClosed DEF OrderInv, TypeOK
    <3>2. QED
      BY <1>1, <2>1, <2>3, <3>1
  <2>7. QED
    BY <2>3, <2>6 DEF Mails
<1>6. LosesOldestFirst'
  BY <1>1, <1>5 DEF LosesOldestFirst
<1>7. QED
  BY <1>1, <1>2, <1>3, <1>6 DEF OrderInv

LEMMA OrderPreserved ==
  ASSUME TypeOK, OrderInv, [Next]_vars,
         "clock" \notin faults, "clock" \notin faults'
  PROVE  OrderInv'
<1>1. ASSUME NEW t \in Task, PushInsert(t)
      PROVE  OrderInv'
  <2> DEFINE new == [mail |-> pushed + 1, at |-> clock, parts |-> 0]
  <2>1. /\ rows' = rows \cup {new} /\ pushed' = pushed + 1
        /\ UNCHANGED <<clock, refused, deleted>>
    BY <1>1 DEF PushInsert
  <2>2. IsFiniteSet(rows')
    BY <2>1, FS_AddElement DEF OrderInv
  <2>3. /\ \A r \in rows : r.mail \in 1..pushed /\ r.at <= clock
        /\ pushed \in Nat /\ clock \in Nat
    BY BoundAssumption DEF TypeOK, Mails, OrderInv
  <2>4. \A r \in rows' : r.at <= clock'
    BY <2>1, <2>3
  <2>5. \A q, r \in rows' : q.mail < r.mail => q.at <= r.at
    BY <2>1, <2>3 DEF OrderInv
  <2>6. Mails' = Mails \cup {pushed + 1}
    <3>1. new.mail = pushed + 1
      OBVIOUS
    <3> HIDE DEF new
    <3>2. QED
      BY <2>1, <3>1 DEF Mails
  <2>7. LosesOldestFirst'
    <3>1. ASSUME NEW n \in 1..pushed', NEW o \in 1..(n - 1),
                 o \in Mails', n \notin deleted \cup refused
          PROVE  n \in Mails'
      <4>1. CASE n = pushed + 1
        BY <4>1, <2>6
      <4>2. CASE n # pushed + 1
        <5>1. n \in 1..pushed /\ o # pushed + 1
          BY <4>2, <2>1, <2>3
        <5>2. QED
          BY <5>1, <3>1, <2>6 DEF OrderInv, LosesOldestFirst
      <4>3. QED
        BY <4>1, <4>2
    <3>2. QED
      BY <2>1, <3>1 DEF LosesOldestFirst
  <2>8. QED
    BY <2>2, <2>4, <2>5, <2>7 DEF OrderInv
<1>2. ASSUME NEW t \in Task, PushInsertFails(t)
      PROVE  OrderInv'
  <2>1. /\ rows' = rows /\ clock' = clock /\ deleted' = deleted
        /\ pushed' = pushed + 1 /\ refused' = refused \cup {pushed + 1}
    BY <1>2 DEF PushInsertFails
  <2>2. Mails' = Mails /\ Mails \subseteq 1..pushed /\ pushed \in Nat
    BY <2>1, BoundAssumption DEF Mails, TypeOK
  <2>3. \A n \in 1..pushed' : n \notin refused' => n \in 1..pushed
    BY <2>1, <2>2
  <2>4. LosesOldestFirst'
    BY <2>1, <2>2, <2>3 DEF OrderInv, LosesOldestFirst
  <2>5. QED
    BY <2>1, <2>4 DEF OrderInv
<1>3. ASSUME NEW t \in Task, PushAttach(t)
      PROVE  OrderInv'
  <2>1. PICK r \in rows :
          r.mail = pushed /\ rows' = (rows \ {r}) \cup {[r EXCEPT !.parts = @ + 1]}
    BY <1>3 DEF PushAttach
  <2> DEFINE a == [r EXCEPT !.parts = @ + 1]
  <2>2. a.mail = r.mail /\ a.at = r.at
    BY <2>1 DEF TypeOK, Row
  <2>3. UNCHANGED <<clock, pushed, deleted, refused>>
    BY <1>3 DEF PushAttach, historyVars
  <2>4. IsFiniteSet(rows \ {r})
    BY FS_RemoveElement DEF OrderInv
  <2>5. IsFiniteSet(rows')
    BY <2>1, <2>4, FS_AddElement
  <2>6. Mails' = Mails
    BY <2>1, <2>2 DEF Mails
  <2>7. \A q \in rows' : \E p \in rows : q.mail = p.mail /\ q.at = p.at
    BY <2>1, <2>2
  <2>8. /\ \A q \in rows' : q.at <= clock
        /\ \A p, q \in rows' : p.mail < q.mail => p.at <= q.at
    BY <2>7 DEF OrderInv
  <2>9. LosesOldestFirst'
    BY <2>3, <2>6 DEF OrderInv, LosesOldestFirst
  <2>10. QED
    BY <2>3, <2>5, <2>8, <2>9 DEF OrderInv
<1>4. ASSUME NEW t \in Task, NEW r \in rows, RemoveFound(t, r)
      PROVE  OrderInv'
  <2>1. /\ rows' = rows \ {r} /\ deleted' = deleted \cup {r.mail}
        /\ UNCHANGED <<clock, pushed, refused>>
    BY <1>4 DEF RemoveFound
  <2>2. IsFiniteSet(rows')
    BY <2>1, FS_RemoveElement DEF OrderInv
  <2>3. Mails' \subseteq Mails /\ \A n \in Mails : n # r.mail => n \in Mails'
    BY <2>1 DEF Mails
  <2>4. LosesOldestFirst'
    BY <2>1, <2>3 DEF OrderInv, LosesOldestFirst
  <2>5. QED
    BY <2>1, <2>2, <2>4 DEF OrderInv
<1>5. ASSUME NEW t \in Task, Clear(t)
      PROVE  OrderInv'
  <2>1. CASE rows' = rows /\ deleted' = deleted
    BY <1>5, <2>1 DEF Clear, OrderInv, LosesOldestFirst, Mails
  <2>2. CASE rows' = {}
    BY <2>2, FS_EmptySet DEF OrderInv, LosesOldestFirst, Mails
  <2>3. QED
    BY <1>5, <2>1, <2>2 DEF Clear
<1>6. ASSUME UNCHANGED <<rows, pushed, deleted, refused>>, clock' \in Int, clock' >= clock
      PROVE  OrderInv'
  <2>1. \A r \in rows : r.at \in Int /\ r.at <= clock /\ clock \in Int
    BY BoundAssumption DEF TypeOK, Row, OrderInv
  <2>2. \A r \in rows' : r.at <= clock'
    BY <1>6, <2>1
  <2>3. QED
    BY <1>6, <2>2 DEF OrderInv, LosesOldestFirst, Mails
<1>7. clock \in Int /\ clock >= clock
  BY BoundAssumption DEF TypeOK
<1>8. ASSUME NEW t \in Task, Call(t)
      PROVE  OrderInv'
  <2>1. CASE PushAttachFails(t) \/ GetAll(t) \/ Notify(t)
    BY <2>1, <1>6, <1>7 DEF PushAttachFails, GetAll, Notify, historyVars
  <2>2. CASE \E r \in rows : RemoveFound(t, r)
    BY <2>2, <1>4
  <2>3. QED
    BY <1>1, <1>2, <1>3, <1>5, <1>8, <2>1, <2>2, EnforceKeepsOrder DEF Call
<1>9. CASE UNCHANGED vars \/ (\E m \in Maxima : Open(m)) \/ Close \/ Crash
  BY <1>6, <1>7, <1>9 DEF vars, callVars, historyVars, Open, Close, Crash
<1>10. CASE Tick
  BY <1>6, <1>7, <1>10 DEF Tick, historyVars
<1>11. CASE ClockSetBack
  BY <1>11 DEF ClockSetBack, Fault
<1>12. QED
  BY <1>8, <1>9, <1>10, <1>11 DEF Next

(* OrderInv, for as long as the clock is not set back. *)
TableInv == IsFiniteSet(rows) /\ ("clock" \notin faults => OrderInv)

(***************************************************************************)
(* The table stays finite, and until the clock is set back its rows are in *)
(* order (sqlite_store.rs:62-74, 133-149).                                 *)
(***************************************************************************)
LEMMA TableInvariant == Spec => []TableInv
<1>1. Init => TableInv
  BY FS_EmptySet DEF Init, OrderInv, LosesOldestFirst, Mails, TableInv
<1>2. TypeOK /\ TableInv /\ [Next]_vars => TableInv'
  <2>1. [Next]_vars => ("clock" \in faults => "clock" \in faults')
    BY FaultsAreRemembered
  <2>2. QED
    BY <2>1, OrderPreserved, RowsStayFinite DEF TableInv
<1>3. QED
  BY <1>1, <1>2, TypeCorrect, PTL DEF Spec

(***************************************************************************)
(* Until the clock is set back, the database loses its oldest mails first, *)
(* whatever crashes, restarts with another --max and failing statements    *)
(* there are (sqlite_store.rs:62-74, 127-170).                             *)
(***************************************************************************)
THEOREM OldestLostFirst == Spec => []LosesOldestFirst
<1>1. TableInv => LosesOldestFirst
  BY DEF TableInv, OrderInv, LosesOldestFirst
<1>2. QED
  BY <1>1, TableInvariant, PTL
-----------------------------------------------------------------------------
(* The mails stored after mail m. *)
Later(m) == ((m + 1)..pushed) \ refused

(* EvictsOnlyWhenFull, whatever the clock has done. *)
Followed ==
  \A m \in 1..pushed :
    m \notin Mails \cup deleted \cup refused =>
      \E n \in Maxima : Cardinality(Later(m)) >= n

(* A mail whose INSERT failed is nowhere in the table, so every row of a    *)
(* later mail counts among those that have followed.                        *)
EvictInv == Followed /\ \A r \in rows : r.mail \notin refused

(***************************************************************************)
(* What a mail has been followed by only grows, so a step that takes out   *)
(* no mail without recording it as deleted keeps the promise.              *)
(***************************************************************************)
LEMMA FollowedStays ==
  ASSUME TypeOK, Followed,
         pushed' \in Nat, pushed' >= pushed, deleted \subseteq deleted',
         refused \subseteq refused',
         \A m \in 1..pushed : m \in refused' => m \in refused,
         \A m \in 1..pushed' : m \notin Mails' \cup deleted' \cup refused' =>
            m \in 1..pushed /\ m \notin Mails
  PROVE  Followed'
<1> SUFFICES ASSUME NEW m \in 1..pushed',
                    m \notin Mails' \cup deleted' \cup refused'
             PROVE  \E n \in Maxima : Cardinality(Later(m)') >= n
  BY DEF Followed
<1>1. pushed \in Nat /\ m \in 1..pushed
  BY BoundAssumption DEF TypeOK
<1>2. PICK n \in Maxima : Cardinality(Later(m)) >= n
  BY <1>1 DEF Followed
<1>3. Later(m) \in SUBSET Later(m)'
  BY <1>1 DEF Later
<1>4. IsFiniteSet((m + 1)..pushed')
  BY <1>1, FS_Interval
<1>5. IsFiniteSet(Later(m)')
  <2>1. Later(m)' \in SUBSET ((m + 1)..pushed')
    BY DEF Later
  <2>2. QED
    BY <1>4, <2>1, FS_Subset
<1>6. IsFiniteSet(Later(m)) /\ Cardinality(Later(m)) <= Cardinality(Later(m)')
  BY <1>3, <1>5, FS_Subset
<1>7. Cardinality(Later(m)) \in Nat /\ Cardinality(Later(m)') \in Nat /\ n \in Nat
  BY <1>5, <1>6, FS_CardinalityType, MaximaAssumption
<1>8. QED
  BY <1>2, <1>6, <1>7

(***************************************************************************)
(* What enforce_max deletes (sqlite_store.rs:62-74) it deletes for max     *)
(* rows that stay, and those are of later mails.                           *)
(***************************************************************************)
LEMMA OldestIsFollowed ==
  ASSUME TypeOK, OrderInv, EvictInv, NEW r \in Oldest(Excess)
  PROVE  Cardinality(Later(r.mail)) >= max
<1> DEFINE older == {q \in rows : Before(q, r)}
           newer == (rows \ older) \ {r}
           mailOf == [q \in newer |-> q.mail]
<1>1. r \in rows /\ Cardinality(older) < Excess /\ IsFiniteSet(rows)
  BY DEF Oldest, OrderInv
<1>2. \A q \in rows : q.at \in Int /\ q.mail \in Int /\ q.mail \in 1..pushed
  BY BoundAssumption DEF TypeOK, Row, Mails
<1>3. max \in Nat /\ pushed \in Nat
  BY MaximaAssumption, BoundAssumption DEF TypeOK
<1>4. r \notin older
  BY <1>1, <1>2 DEF Before
<1>5. Cardinality(newer) >= max
  <2>1. rows \cap older = older /\ older \in SUBSET rows
    OBVIOUS
  <2>2. IsFiniteSet(older)
    BY <1>1, <2>1, FS_Subset
  <2>3. /\ IsFiniteSet(rows \ older)
        /\ Cardinality(rows \ older) = Cardinality(rows) - Cardinality(older)
    <3>1. /\ IsFiniteSet(rows \ older)
          /\ Cardinality(rows \ older) = Cardinality(rows) - Cardinality(rows \cap older)
      BY <1>1, FS_Difference
    <3>2. QED
      BY <2>1, <3>1
  <2>4. Cardinality(newer) = Cardinality(rows \ older) - 1
    BY <1>1, <1>4, <2>3, FS_RemoveElement
  <2>5. Cardinality(rows) \in Nat /\ Cardinality(older) \in Nat
    BY <1>1, <2>2, FS_CardinalityType
  <2>6. Excess = Cardinality(rows) - max
    BY <1>1, <1>3, <2>5 DEF Excess
  <2>7. QED
    BY <1>1, <1>3, <2>3, <2>4, <2>5, <2>6
<1>6. ASSUME NEW q \in newer
      PROVE  q.mail \in Later(r.mail)
  <2>1. q \in rows /\ q # r /\ ~Before(q, r)
    OBVIOUS
  <2>2. q.mail # r.mail
    BY <1>1, <2>1 DEF TypeOK
  <2>3. ~(q.mail < r.mail)
    BY <1>1, <1>2, <2>1 DEF OrderInv, Before
  <2>4. q.mail \in (r.mail + 1)..pushed
    BY <1>1, <1>2, <1>3, <2>1, <2>2, <2>3
  <2>5. QED
    BY <2>1, <2>4 DEF EvictInv, Later
<1>7. mailOf \in Injection(newer, Later(r.mail))
  <2>1. mailOf \in [newer -> Later(r.mail)]
    BY <1>6
  <2>2. \A p, q \in newer : mailOf[p] = mailOf[q] => p = q
    BY DEF TypeOK
  <2>3. QED
    BY <2>1, <2>2 DEF Injection, IsInjective
<1>8. IsFiniteSet(Later(r.mail))
  <2>1. IsFiniteSet((r.mail + 1)..pushed)
    BY <1>1, <1>2, <1>3, FS_Interval
  <2>2. Later(r.mail) \in SUBSET ((r.mail + 1)..pushed)
    BY DEF Later
  <2>3. QED
    BY <2>1, <2>2, FS_Subset
<1>9. IsFiniteSet(newer) /\ Cardinality(newer) <= Cardinality(Later(r.mail))
  <2> HIDE DEF newer, mailOf
  <2>1. QED
    BY <1>7, <1>8, FS_Injection
<1>10. Cardinality(newer) \in Nat /\ Cardinality(Later(r.mail)) \in Nat
  BY <1>8, <1>9, FS_CardinalityType
<1>11. QED
  BY <1>3, <1>5, <1>9, <1>10

(***************************************************************************)
(* Every step keeps the promise that only a full table loses a mail, as    *)
(* long as the order of created_at is that of the arrivals.                *)
(***************************************************************************)
LEMMA EvictPreserved ==
  ASSUME TypeOK, TypeOK', OrderInv, EvictInv, [Next]_vars,
         "clock" \notin faults, "clock" \notin faults'
  PROVE  EvictInv'
<1>0. pushed \in Nat /\ Followed /\ \A r \in rows : r.mail \in 1..pushed
  BY BoundAssumption DEF TypeOK, Mails, EvictInv
<1>1. ASSUME NEW t \in Task, PushInsert(t)
      PROVE  EvictInv'
  <2> DEFINE new == [mail |-> pushed + 1, at |-> clock, parts |-> 0]
  <2>1. /\ rows' = rows \cup {new} /\ pushed' = pushed + 1
        /\ UNCHANGED <<refused, deleted>>
    BY <1>1 DEF PushInsert
  <2>2. new.mail = pushed + 1
    OBVIOUS
  <2> HIDE DEF new
  <2>3. Mails' = Mails \cup {pushed + 1}
    BY <2>1, <2>2 DEF Mails
  <2>4. \A m \in 1..pushed' : m \notin Mails' => m \in 1..pushed /\ m \notin Mails
    BY <1>0, <2>1, <2>3
  <2>5. Followed'
    BY <1>0, <2>1, <2>4, FollowedStays
  <2>6. pushed + 1 \notin refused
    BY <1>0 DEF TypeOK
  <2>7. \A r \in rows' : r.mail \notin refused'
    BY <2>1, <2>2, <2>6 DEF EvictInv
  <2>8. QED
    BY <2>5, <2>7 DEF EvictInv
<1>2. ASSUME NEW t \in Task, PushInsertFails(t)
      PROVE  EvictInv'
  <2>1. /\ rows' = rows /\ deleted' = deleted
        /\ pushed' = pushed + 1 /\ refused' = refused \cup {pushed + 1}
    BY <1>2 DEF PushInsertFails
  <2>2. /\ \A m \in 1..pushed : m # pushed + 1
        /\ \A m \in 1..pushed' : m \notin refused' => m \in 1..pushed
    BY <1>0, <2>1
  <2>3. Followed'
    BY <1>0, <2>1, <2>2, FollowedStays DEF Mails
  <2>4. QED
    BY <1>0, <2>1, <2>2, <2>3 DEF EvictInv
<1>3. ASSUME UNCHANGED <<pushed, refused>>, deleted \subseteq deleted',
             \A r \in rows' : \E q \in rows : r.mail = q.mail,
             \A m \in Mails : m \in Mails' \cup deleted'
      PROVE  EvictInv'
  <2>1. Followed'
    BY <1>0, <1>3, FollowedStays
  <2>2. QED
    BY <1>3, <2>1 DEF EvictInv
<1>4. ASSUME NEW t \in Task, PushAttach(t)
      PROVE  EvictInv'
  <2>1. PICK r \in rows :
          r.mail = pushed /\ rows' = (rows \ {r}) \cup {[r EXCEPT !.parts = @ + 1]}
    BY <1>4 DEF PushAttach
  <2> DEFINE a == [r EXCEPT !.parts = @ + 1]
  <2>2. a.mail = r.mail
    BY <2>1 DEF TypeOK, Row
  <2>3. UNCHANGED <<pushed, deleted, refused>>
    BY <1>4 DEF PushAttach, historyVars
  <2>4. Mails' = Mails
    BY <2>1, <2>2 DEF Mails
  <2>5. \A q \in rows' : \E p \in rows : q.mail = p.mail
    BY <2>1, <2>2
  <2>6. QED
    BY <1>3, <2>3, <2>4, <2>5
<1>5. ASSUME NEW t \in Task, PushEnforce(t)
      PROVE  EvictInv'
  <2>1. /\ rows' = rows \ Oldest(Excess) \/ rows' = rows
        /\ UNCHANGED <<pushed, deleted, refused>>
    BY <1>5 DEF PushEnforce
  <2>2. CASE rows' = rows
    BY <1>3, <2>1, <2>2 DEF Mails
  <2>3. CASE rows' = rows \ Oldest(Excess)
    <3>1. ASSUME NEW m \in 1..pushed, m \notin Mails' \cup deleted \cup refused
          PROVE  \E n \in Maxima : Cardinality(Later(m)) >= n
      <4>1. CASE m \notin Mails
        BY <1>0, <3>1, <4>1 DEF Followed
      <4>2. CASE m \in Mails
        <5>1. PICK r \in rows : r.mail = m
          BY <4>2 DEF Mails
        <5>2. r \in Oldest(Excess)
          BY <2>3, <3>1, <5>1 DEF Mails
        <5>3. QED
          BY <5>1, <5>2, OldestIsFollowed DEF TypeOK
      <4>3. QED
        BY <4>1, <4>2
    <3>2. Followed'
      BY <2>1, <3>1 DEF Followed, Later
    <3>3. QED
      BY <2>1, <2>3, <3>2 DEF EvictInv
  <2>4. QED
    BY <2>1, <2>2, <2>3
<1>6. ASSUME NEW t \in Task, Call(t)
      PROVE  EvictInv'
  <2>1. CASE PushAttachFails(t) \/ GetAll(t) \/ Notify(t)
    BY <2>1, <1>3 DEF PushAttachFails, GetAll, Notify, historyVars, Mails
  <2>2. CASE \E r \in rows : RemoveFound(t, r)
    BY <2>2, <1>3 DEF RemoveFound, Mails
  <2>3. CASE Clear(t)
    BY <2>3, <1>3 DEF Clear, Mails
  <2>4. QED
    BY <1>1, <1>2, <1>4, <1>5, <1>6, <2>1, <2>2, <2>3 DEF Call
<1>7. CASE UNCHANGED vars \/ (\E m \in Maxima : Open(m)) \/ Close \/ Crash
           \/ Tick \/ ClockSetBack
  BY <1>3, <1>7 DEF vars, callVars, historyVars, Open, Close, Crash, Tick,
                    ClockSetBack, Mails
<1>8. QED
  BY <1>6, <1>7 DEF Next

(***************************************************************************)
(* Until the clock is set back, a mail that is gone without having been    *)
(* deleted or refused has been followed by as many stored mails as the     *)
(* smallest --max in use, whatever crashes and failing statements there    *)
(* are (sqlite_store.rs:62-74, 127-170).                                   *)
(***************************************************************************)
THEOREM NoneEvictedEarly == Spec => []EvictsOnlyWhenFull
<1> DEFINE Inv == IsFiniteSet(rows) /\ ("clock" \notin faults => OrderInv /\ EvictInv)
<1>1. Init => Inv
  BY FS_EmptySet DEF Init, OrderInv, LosesOldestFirst, EvictInv, Followed, Mails
<1>2. TypeOK /\ TypeOK' /\ Inv /\ [Next]_vars => Inv'
  <2>1. [Next]_vars => ("clock" \in faults => "clock" \in faults')
    BY FaultsAreRemembered
  <2>2. QED
    BY <2>1, OrderPreserved, EvictPreserved, RowsStayFinite
<1>3. Inv => EvictsOnlyWhenFull
  BY DEF EvictInv, Followed, Later, EvictsOnlyWhenFull
<1> HIDE DEF Inv
<1>4. QED
  BY <1>1, <1>2, <1>3, TypeCorrect, PTL DEF Spec
-----------------------------------------------------------------------------
(***************************************************************************)
(* ORDER BY created_at ASC LIMIT k (sqlite_store.rs:69-72) yields k rows:  *)
(* the number of rows before a row is another for every row.               *)
(***************************************************************************)
LEMMA OldestCounts ==
  ASSUME TypeOK, IsFiniteSet(rows), NEW k \in 0..Cardinality(rows)
  PROVE  IsFiniteSet(Oldest(k)) /\ Cardinality(Oldest(k)) = k
<1> DEFINE n == Cardinality(rows)
           older(r) == {q \in rows : Before(q, r)}
           rank == [r \in rows |-> Cardinality(older(r))]
           part == [r \in Oldest(k) |-> rank[r]]
<1>0. ASSUME NEW i \in Nat
      PROVE  IsFiniteSet(0..(i - 1)) /\ Cardinality(0..(i - 1)) = i
  <2>1. i - 1 \in Int /\ 0 \in Int /\ (0 > i - 1 <=> i = 0)
    OBVIOUS
  <2>2. /\ IsFiniteSet(0..(i - 1))
        /\ Cardinality(0..(i - 1)) = IF 0 > i - 1 THEN 0 ELSE (i - 1) - 0 + 1
    BY <2>1, FS_Interval
  <2>3. QED
    BY <2>1, <2>2
<1>1. n \in Nat /\ k \in Nat /\ k <= n
  BY FS_CardinalityType
<1>2. \A q \in rows : q.at \in Int /\ q.mail \in Int
  BY BoundAssumption DEF TypeOK, Row
<1>3. ASSUME NEW r \in rows
      PROVE  IsFiniteSet(older(r)) /\ r \notin older(r) /\ Cardinality(older(r)) \in 0..(n - 1)
  <2>1. r \notin older(r)
    BY <1>2 DEF Before
  <2>2. older(r) \in SUBSET (rows \ {r})
    BY <2>1
  <2>3. IsFiniteSet(rows \ {r}) /\ Cardinality(rows \ {r}) = n - 1
    BY FS_RemoveElement
  <2>4. IsFiniteSet(older(r)) /\ Cardinality(older(r)) <= n - 1
    BY <2>2, <2>3, FS_Subset
  <2>5. Cardinality(older(r)) \in Nat
    BY <2>4, FS_CardinalityType
  <2>6. QED
    BY <1>1, <2>1, <2>4, <2>5
<1>4. ASSUME NEW r \in rows, NEW s \in rows, Before(r, s)
      PROVE  Cardinality(older(r)) # Cardinality(older(s))
  <2>1. older(r) \in SUBSET older(s)
    BY <1>2, <1>4 DEF Before
  <2>2. r \in older(s) /\ r \notin older(r) /\ IsFiniteSet(older(s))
    BY <1>3, <1>4
  <2> HIDE DEF older
  <2>3. QED
    BY <2>1, <2>2, FS_Subset
<1>5. \A r, s \in rows : r # s => Before(r, s) \/ Before(s, r)
  BY <1>2 DEF TypeOK, Before
<1>6. rank \in [rows -> 0..(n - 1)]
  BY <1>3
<1>7. \A r, s \in rows : rank[r] = rank[s] => r = s
  BY <1>4, <1>5
<1>8. rank \in Injection(rows, 0..(n - 1))
  <2> HIDE DEF rank
  <2>1. QED
    BY <1>6, <1>7 DEF Injection, IsInjective
<1>9. rank \in Surjection(rows, 0..(n - 1))
  <2>1. IsFiniteSet(0..(n - 1)) /\ Cardinality(0..(n - 1)) = n
    BY <1>0, <1>1
  <2> HIDE DEF rank
  <2>2. QED
    BY <1>8, <2>1, FS_Injection
<1>10. \A i \in 0..(n - 1) : \E r \in rows : rank[r] = i
  <2> HIDE DEF rank
  <2>1. QED
    BY <1>9 DEF Surjection
<1>11. Oldest(k) \in SUBSET rows /\ \A r \in rows : r \in Oldest(k) <=> rank[r] < k
  BY DEF Oldest
<1> HIDE DEF rank
<1>12. part \in [Oldest(k) -> 0..(k - 1)]
  <2>1. \A r \in Oldest(k) : rank[r] \in 0..(k - 1)
    BY <1>1, <1>6, <1>11
  <2>2. QED
    BY <2>1
<1>13. \A i \in 0..(k - 1) : \E r \in Oldest(k) : part[r] = i
  BY <1>1, <1>10, <1>11
<1>14. \A r, s \in Oldest(k) : part[r] = part[s] => r = s
  BY <1>7, <1>11
<1> HIDE DEF part
<1>15. part \in Injection(Oldest(k), 0..(k - 1)) /\ part \in Surjection(Oldest(k), 0..(k - 1))
  BY <1>12, <1>13, <1>14 DEF Injection, IsInjective, Surjection
<1>16. IsFiniteSet(0..(k - 1)) /\ Cardinality(0..(k - 1)) = k
  BY <1>0, <1>1
<1>17. QED
  BY <1>15, <1>16, FS_Injection

(***************************************************************************)
(* What enforce_max deletes (sqlite_store.rs:62-74) brings the table down  *)
(* to max, from however many rows.                                         *)
(***************************************************************************)
LEMMA EnforceTrims ==
  ASSUME TypeOK, IsFiniteSet(rows)
  PROVE  Cardinality(rows \ Oldest(Excess)) <= max
<1>1. Cardinality(rows) \in Nat /\ max \in Nat
  BY FS_CardinalityType, MaximaAssumption DEF TypeOK
<1>2. Excess \in 0..Cardinality(rows)
  BY <1>1 DEF Excess
<1>3. IsFiniteSet(Oldest(Excess)) /\ Cardinality(Oldest(Excess)) = Excess
  BY <1>2, OldestCounts
<1>4. rows \cap Oldest(Excess) = Oldest(Excess)
  BY DEF Oldest
<1>5. Cardinality(rows \ Oldest(Excess))
        = Cardinality(rows) - Cardinality(rows \cap Oldest(Excess))
  BY <1>3, FS_Difference
<1>6. Cardinality(rows \ Oldest(Excess)) = Cardinality(rows) - Excess
  BY <1>3, <1>4, <1>5
<1>7. QED
  BY <1>1, <1>6 DEF Excess

(***************************************************************************)
(* However many mails too many there are, a push in which no statement     *)
(* fails leaves no more than max (sqlite_store.rs:62-74).                  *)
(***************************************************************************)
THEOREM EveryPushTrims == Spec => PushTrims
<1>1. Init => IsFiniteSet(rows)
  BY FS_EmptySet DEF Init
<1>2. IsFiniteSet(rows) /\ [Next]_vars => IsFiniteSet(rows)'
  BY RowsStayFinite
<1>3. ASSUME TypeOK, IsFiniteSet(rows), Next,
             accepted' # accepted, "disk" \notin faults'
      PROVE  Cardinality(rows') <= max
  <2>1. PICK t \in Task : PushEnforce(t) \/ PushInsertFails(t)
    BY <1>3 DEF Next, Call, PushInsert, PushAttach, PushAttachFails, Clear,
       RemoveFound, GetAll, Notify, Open, Close, Crash, Tick, ClockSetBack,
       historyVars
  <2>2. rows' = rows \ Oldest(Excess)
    BY <1>3, <2>1 DEF PushEnforce, PushInsertFails, Fault
  <2>3. QED
    BY <1>3, <2>2, EnforceTrims
<1>4. TypeOK /\ IsFiniteSet(rows) /\ [Next]_vars
        => [accepted' # accepted /\ "disk" \notin faults' => Cardinality(rows') <= max]_vars
  BY <1>3
<1>5. QED
  BY <1>1, <1>2, <1>4, TypeCorrect, PTL DEF Spec, PushTrims
-----------------------------------------------------------------------------
(***************************************************************************)
(* The backend keeps the trait's promise until something goes wrong.  A    *)
(* list of mails in the order of their arrival is the only ascending       *)
(* sequence of its mails, so what a call does to the list can be read off  *)
(* what it does to the set of rows.                                        *)
(***************************************************************************)
LEMMA ListOfMails ==
  ASSUME NEW S \in SUBSET Nat, IsFiniteSet(S)
  PROVE  LET s == InArrivalOrder(S)
         IN  /\ s \in Seq(Nat) /\ Ascending(s) /\ ToSet(s) = S
             /\ Len(s) = Cardinality(S)
<1> DEFINE s == InArrivalOrder(S)
           n == Cardinality(S)
<1>1. n \in Nat
  BY FS_CardinalityType
<1>2. s \in [1..n -> S] /\ \A i, j \in DOMAIN s : i < j => s[i] < s[j]
  BY AscendingExists DEF InArrivalOrder
<1> HIDE DEF s, n
<1>3. s \in Seq(Nat) /\ Len(s) = n /\ Ascending(s) /\ ToSet(s) \in SUBSET S
  <2>1. s \in [1..n -> Nat] /\ DOMAIN s = 1..n
    BY <1>2
  <2>2. s \in Seq(Nat)
    BY <1>1, <2>1
  <2>3. Len(s) = n
    BY <1>1, <2>1, <2>2, LenProperties
  <2>4. QED
    BY <1>2, <2>1, <2>2, <2>3 DEF Ascending, ToSet
<1>4. Cardinality(ToSet(s)) = n
  BY <1>3, LengthIsCount
<1>5. ToSet(s) = S
  BY <1>3, <1>4, FS_Subset DEF n
<1>6. QED
  BY <1>3, <1>5 DEF s, n

(***************************************************************************)
(* An empty table has an empty list.                                       *)
(***************************************************************************)
LEMMA NoMailsNoList == InArrivalOrder({}) = <<>>
<1>1. IsFiniteSet({}) /\ Cardinality({}) = 0
  BY FS_EmptySet
<1>2. InArrivalOrder({}) \in Seq(Nat) /\ Len(InArrivalOrder({})) = 0
  BY <1>1, ListOfMails
<1>3. QED
  BY <1>2

(***************************************************************************)
(* An ascending sequence is the list of its mails.                         *)
(***************************************************************************)
LEMMA ListOfItsMails ==
  ASSUME NEW s \in Seq(Nat), Ascending(s)
  PROVE  InArrivalOrder(ToSet(s)) = s
<1>1. IsFiniteSet(ToSet(s))
  BY LengthIsCount
<1>2. ToSet(s) \in SUBSET Nat
  BY DEF ToSet
<1>3. QED
  BY <1>1, <1>2, ListOfMails, OneAscending

(***************************************************************************)
(* The mail is the table's primary key: there are as many mails as rows.   *)
(***************************************************************************)
LEMMA AsManyMailsAsRows ==
  ASSUME TypeOK, NEW Q \in SUBSET rows, IsFiniteSet(Q)
  PROVE  /\ IsFiniteSet({q.mail : q \in Q})
         /\ Cardinality({q.mail : q \in Q}) = Cardinality(Q)
<1> DEFINE mailsOf == {q.mail : q \in Q}
           f == [q \in Q |-> q.mail]
<1>1. f \in [Q -> mailsOf] /\ \A m \in mailsOf : \E q \in Q : f[q] = m
  OBVIOUS
<1>2. \A q, r \in Q : f[q] = f[r] => q = r
  BY DEF TypeOK
<1> HIDE DEF f, mailsOf
<1>3. f \in Bijection(Q, mailsOf)
  BY <1>1, <1>2 DEF Bijection, Injection, Surjection, IsInjective
<1>4. ExistsBijection(Q, mailsOf)
  BY <1>3 DEF ExistsBijection
<1>5. IsFiniteSet(mailsOf) /\ Cardinality(mailsOf) = Cardinality(Q)
  BY <1>4, FS_Bijection
<1>6. QED
  BY <1>5 DEF mailsOf

(***************************************************************************)
(* What push's deletion leaves (sqlite_store.rs:62-74), until the clock is *)
(* set back, is the newest max mails.                                      *)
(***************************************************************************)
LEMMA NewestStay ==
  ASSUME TypeOK, OrderInv, Cardinality(rows) > max
  PROVE  LET s == InArrivalOrder(Mails)
         IN  /\ Len(s) = Cardinality(rows)
             /\ InArrivalOrder({r.mail : r \in rows \ Oldest(Excess)})
                  = SubSeq(s, Len(s) - max + 1, Len(s))
<1> DEFINE s == InArrivalOrder(Mails)
           n == Cardinality(rows)
           left == {r.mail : r \in rows \ Oldest(Excess)}
           kept == SubSeq(s, n - max + 1, n)
<1>1. n \in Nat /\ max \in Nat /\ n > max /\ Excess = n - max /\ IsFiniteSet(rows)
  BY FS_CardinalityType, MaximaAssumption DEF TypeOK, OrderInv, Excess
<1>2. \A r \in rows : r.mail \in Nat /\ r.at \in Int
  BY BoundAssumption DEF TypeOK, Row
<1>3. IsFiniteSet(Mails) /\ Cardinality(Mails) = n
  BY <1>1, AsManyMailsAsRows DEF Mails
<1>4. Mails \in SUBSET Nat
  BY <1>2 DEF Mails
<1>5. s \in Seq(Nat) /\ Ascending(s) /\ ToSet(s) = Mails /\ Len(s) = n
  BY <1>3, <1>4, ListOfMails
<1> HIDE DEF s, n
<1>6. ASSUME NEW r \in rows, NEW i \in 1..n, s[i] = r.mail
      PROVE  r \in Oldest(Excess) <=> i < n - max + 1
  <2> DEFINE before == {q \in rows : Before(q, r)}
  <2>1. \A q \in rows : Before(q, r) <=> q.mail < r.mail
    BY <1>2 DEF OrderInv, TypeOK, Before
  <2>2. {q.mail : q \in before} = Earlier(Mails, r.mail)
    BY <2>1 DEF Earlier, Mails
  <2>3. IsFiniteSet(before) /\ before \in SUBSET rows
    BY <1>1, FS_Subset
  <2>4. Cardinality(before) = Cardinality({q.mail : q \in before})
    BY <2>3, AsManyMailsAsRows
  <2>5. Cardinality(Earlier(ToSet(s), s[i])) = i - 1
    BY <1>5, PlaceIsCount
  <2>6. Cardinality(before) = i - 1
    BY <1>5, <1>6, <2>2, <2>4, <2>5
  <2>7. r \in Oldest(Excess) <=> Cardinality(before) < Excess
    BY DEF Oldest
  <2> HIDE DEF before
  <2>8. QED
    BY <1>1, <2>6, <2>7
<1>7. left = {s[i] : i \in (n - max + 1)..n}
  <2>1. ASSUME NEW r \in rows \ Oldest(Excess)
        PROVE  \E i \in (n - max + 1)..n : r.mail = s[i]
    <3>1. PICK i \in 1..n : s[i] = r.mail
      BY <1>5 DEF Mails, ToSet
    <3>2. i \in (n - max + 1)..n
      BY <1>1, <1>6, <3>1
    <3>3. QED
      BY <3>1, <3>2
  <2>2. ASSUME NEW i \in (n - max + 1)..n PROVE s[i] \in left
    <3>1. i \in 1..n
      BY <1>1
    <3>2. s[i] \in Mails
      BY <1>5, <3>1 DEF ToSet
    <3>3. PICK r \in rows : r.mail = s[i]
      BY <3>2 DEF Mails
    <3>4. r \notin Oldest(Excess)
      BY <1>1, <1>6, <3>1, <3>3
    <3>5. QED
      BY <3>3, <3>4
  <2>3. QED
    BY <2>1, <2>2
<1>8. kept \in Seq(Nat) /\ Ascending(kept) /\ ToSet(kept) = {s[i] : i \in (n - max + 1)..n}
  <2>1. max \in 0..Len(s)
    BY <1>1, <1>5
  <2>2. QED
    BY <1>5, <2>1, EndAscends
<1>9. InArrivalOrder(left) = kept
  BY <1>7, <1>8, ListOfItsMails
<1>10. QED
  BY <1>5, <1>9 DEF s, n

(***************************************************************************)
(* The list is as long as the table when no push is under way, and a push  *)
(* that is counts for what it will leave.                                  *)
(***************************************************************************)
LEMMA ListOfTable ==
  ASSUME TypeOK, IsFiniteSet(rows)
  PROVE  LET s == InArrivalOrder(Mails)
         IN  /\ s \in Seq(Nat) /\ Ascending(s) /\ ToSet(s) = Mails
             /\ Len(s) = Cardinality(rows)
<1>1. IsFiniteSet(Mails) /\ Cardinality(Mails) = Cardinality(rows)
  BY AsManyMailsAsRows DEF Mails
<1>2. Mails \in SUBSET Nat
  BY BoundAssumption DEF TypeOK, Row, Mails
<1>3. QED
  BY <1>1, <1>2, ListOfMails

(***************************************************************************)
(* push's INSERT (sqlite_store.rs:133-149) is the trait's push: from then  *)
(* on the list is the newest mails with the new one.                       *)
(***************************************************************************)
LEMMA PushIsPush ==
  ASSUME TypeOK, IsFiniteSet(rows), NEW t \in Task, PushInsert(t)
  PROVE  Storage!Push
<1> DEFINE s == InArrivalOrder(Mails)
           a == Append(s, pushed + 1)
<1>1. /\ holder = NoTask /\ holder' # NoTask
      /\ Mails' = Mails \cup {pushed + 1}
      /\ pushed < MaxPush /\ pushed' = pushed + 1 /\ UNCHANGED <<max, listed>>
  <2> DEFINE new == [mail |-> pushed + 1, at |-> clock, parts |-> 0]
  <2>1. rows' = rows \cup {new} /\ new.mail = pushed + 1
    BY DEF PushInsert
  <2> HIDE DEF new
  <2>2. Mails' = Mails \cup {pushed + 1}
    BY <2>1 DEF Mails
  <2>3. QED
    BY <2>2, TaskAssumption DEF PushInsert, Free
<1>2. s \in Seq(Nat) /\ Ascending(s) /\ ToSet(s) = Mails
  BY ListOfTable
<1>3. \A k \in Mails : k < pushed + 1
  BY BoundAssumption DEF TypeOK
<1>4. pushed + 1 \in Nat
  BY BoundAssumption DEF TypeOK
<1> HIDE DEF s
<1>5. a \in Seq(Nat) /\ Ascending(a)
  BY <1>2, <1>3, <1>4, AppendAscends
<1>6. ToSet(a) = Mails'
  BY <1>1, <1>2, <1>4, AppendElements
<1> HIDE DEF a
<1>7. InArrivalOrder(Mails') = a
  BY <1>5, <1>6, ListOfItsMails
<1>8. Retained = s /\ Retained' = Storage!Newest(a)
  BY <1>1, <1>7 DEF Retained, Storage!Newest, s
<1>9. QED
  BY <1>1, <1>8 DEF Storage!Push, a

(***************************************************************************)
(* The DELETE of enforce_max (sqlite_store.rs:62-74) changes the table and *)
(* not the list.                                                           *)
(***************************************************************************)
LEMMA EnforceIsInvisible ==
  ASSUME TypeOK, OrderInv, NEW t \in Task, PushEnforce(t), faults' = {}
  PROVE  UNCHANGED Storage!vars
<1> DEFINE s == InArrivalOrder(Mails)
<1>1. /\ rows' = rows \ Oldest(Excess) /\ holder # NoTask /\ holder' = NoTask
      /\ UNCHANGED <<max, listed, pushed>>
  BY TaskAssumption DEF PushEnforce, Fault
<1>2. s \in Seq(Nat) /\ Len(s) = Cardinality(rows) /\ max \in Nat /\ Len(s) \in Nat
  BY ListOfTable, MaximaAssumption DEF TypeOK, OrderInv
<1> HIDE DEF s
<1>3. Retained' = InArrivalOrder(Mails')
  BY <1>1 DEF Retained
<1>4. CASE Cardinality(rows) > max
  <2>1. Retained = SubSeq(s, Len(s) - max + 1, Len(s))
    <3>1. ~(Len(s) <= max)
      BY <1>2, <1>4
    <3>2. QED
      BY <1>1, <3>1 DEF Retained, s
  <2>2. InArrivalOrder({r.mail : r \in rows \ Oldest(Excess)})
          = SubSeq(s, Len(s) - max + 1, Len(s))
    BY <1>4, NewestStay DEF s
  <2>3. Mails' = {r.mail : r \in rows \ Oldest(Excess)}
    BY <1>1 DEF Mails
  <2>4. Retained' = Retained
    BY <1>3, <2>1, <2>2, <2>3
  <2>5. QED
    BY <1>1, <2>4 DEF Storage!vars
<1>5. CASE ~(Cardinality(rows) > max)
  <2>1. \A r \in rows : IsFiniteSet({q \in rows : Before(q, r)})
    BY FS_Subset DEF OrderInv
  <2>2. \A r \in rows : ~(Cardinality({q \in rows : Before(q, r)}) < 0)
    BY <2>1, FS_CardinalityType
  <2>3. Oldest(Excess) = {}
    BY <1>5, <2>2 DEF Excess, Oldest
  <2>4. rows' = rows
    BY <1>1, <2>3
  <2>5. Retained = s /\ Retained' = s
    <3>1. Len(s) <= max /\ Mails' = Mails
      BY <1>2, <1>5, <2>4 DEF Mails
    <3>2. QED
      BY <1>3, <3>1 DEF Retained, s
  <2>6. QED
    BY <1>1, <2>5 DEF Storage!vars
<1>6. QED
  BY <1>4, <1>5

(***************************************************************************)
(* remove takes its mail out of the list and leaves the others in order.   *)
(***************************************************************************)
LEMMA RemoveIsRemove ==
  ASSUME TypeOK, IsFiniteSet(rows), NEW t \in Task, NEW r \in rows, RemoveFound(t, r)
  PROVE  \E i \in DOMAIN Retained : Storage!RemoveMail(i)
<1> DEFINE s == InArrivalOrder(Mails)
<1>1. /\ holder = NoTask /\ rows' = rows \ {r}
      /\ UNCHANGED <<max, listed, pushed, holder>>
  BY DEF RemoveFound, Free
<1>2. s \in Seq(Nat) /\ Ascending(s) /\ ToSet(s) = Mails
  BY ListOfTable
<1>3. Retained = s /\ Retained' = InArrivalOrder(Mails')
  BY <1>1 DEF Retained
<1> HIDE DEF s
<1>4. PICK i \in 1..Len(s) : s[i] = r.mail
  <2>1. r.mail \in ToSet(s)
    BY <1>2 DEF Mails
  <2>2. QED
    BY <1>2, <2>1 DEF ToSet
<1>5. Mails' = Mails \ {s[i]}
  BY <1>1, <1>4 DEF TypeOK, Mails
<1>6. /\ RemoveAt(s, i) \in Seq(Nat) /\ Ascending(RemoveAt(s, i))
      /\ ToSet(RemoveAt(s, i)) = ToSet(s) \ {s[i]}
  BY <1>2, RemoveAtAscends
<1>7. Retained' = RemoveAt(Retained, i)
  BY <1>2, <1>3, <1>5, <1>6, ListOfItsMails
<1>8. i \in DOMAIN Retained
  BY <1>2, <1>3
<1>9. QED
  BY <1>1, <1>7, <1>8 DEF Storage!RemoveMail, RemoveAt, Storage!RemoveAt

(***************************************************************************)
(* An attachment (sqlite_store.rs:151-163) changes no mail of the list.    *)
(***************************************************************************)
LEMMA AttachIsInvisible ==
  ASSUME TypeOK, NEW t \in Task, PushAttach(t)
  PROVE  UNCHANGED Storage!vars
<1>1. PICK r \in rows : rows' = (rows \ {r}) \cup {[r EXCEPT !.parts = @ + 1]}
  BY DEF PushAttach
<1> DEFINE new == [r EXCEPT !.parts = @ + 1]
<1>2. new.mail = r.mail
  BY DEF TypeOK, Row
<1> HIDE DEF new
<1>3. rows' = (rows \ {r}) \cup {new}
  BY <1>1 DEF new
<1>4. Mails' = Mails
  BY <1>2, <1>3 DEF Mails
<1>5. QED
  BY <1>4 DEF PushAttach, Storage!vars, Retained, historyVars

(***************************************************************************)
(* clear empties the list.                                                 *)
(***************************************************************************)
LEMMA ClearIsClear ==
  ASSUME TypeOK, NEW t \in Task, Clear(t), faults' = {}
  PROVE  Storage!Clear
<1>1. rows' = {} /\ holder' = NoTask /\ UNCHANGED <<max, listed, pushed>>
  BY DEF Clear, Free, Fault
<1>2. Mails' = {}
  BY <1>1 DEF Mails
<1>3. InArrivalOrder({}) = <<>>
  BY NoMailsNoList
<1>4. Retained' = <<>>
  BY <1>1, <1>2, <1>3 DEF Retained
<1>5. QED
  BY <1>1, <1>4 DEF Storage!Clear

(***************************************************************************)
(* get_all returns the mails of the list: nothing reads while a push is    *)
(* under way.                                                              *)
(***************************************************************************)
LEMMA GetAllIsGetAll ==
  ASSUME TypeOK, NEW t \in Task, GetAll(t), faults' = {}
  PROVE  Storage!GetAll(t)
<1> DEFINE list(of) == [u \in Task |-> InArrivalOrder(of[u])]
<1>1. /\ holder = NoTask /\ listed' = [listed EXCEPT ![t] = Mails]
      /\ UNCHANGED <<rows, holder, max, pushed>>
  BY DEF GetAll, Free, Fault, historyVars
<1>2. Retained = InArrivalOrder(Mails) /\ Retained' = Retained
  BY <1>1 DEF Retained, Mails
<1>3. listed \in [Task -> SUBSET (1..pushed)]
  BY DEF TypeOK
<1>4. list(listed') = [list(listed) EXCEPT ![t] = Retained]
  BY <1>1, <1>2, <1>3
<1>5. QED
  BY <1>1, <1>2, <1>4 DEF Storage!GetAll

(***************************************************************************)
(* Until something goes wrong, SqliteStore is what the trait promises      *)
(* (store.rs:18-29), over orderly restarts with any --max as well.         *)
(***************************************************************************)
THEOREM Refinement == Spec => ImplementsStorage
<1>1. Init => Storage!Init
  <2> SUFFICES ASSUME Init PROVE Storage!Init
    OBVIOUS
  <2>1. rows = {} /\ listed = [t \in Task |-> {}] /\ holder = NoTask
    BY DEF Init
  <2>2. Mails = {}
    BY <2>1 DEF Mails
  <2>3. InArrivalOrder({}) = <<>>
    BY NoMailsNoList
  <2>4. Retained = <<>> /\ \A t \in Task : InArrivalOrder(listed[t]) = <<>>
    BY <2>1, <2>2, <2>3 DEF Retained
  <2>5. QED
    BY <2>4 DEF Init, Storage!Init
<1>2. TypeOK /\ TableInv /\ [Next]_vars
        => [faults' = {} => Storage!Next \/ UNCHANGED Storage!vars]_vars
  <2> SUFFICES ASSUME TypeOK, TableInv, [Next]_vars, faults' = {}
               PROVE  Storage!Next \/ UNCHANGED Storage!vars
    OBVIOUS
  <2>1. IsFiniteSet(rows) /\ OrderInv
    BY FaultsAreRemembered DEF TableInv
  <2>2. holder = NoTask => Retained = InArrivalOrder(Mails)
    BY DEF Retained
  <2>3. ASSUME NEW t \in Task, Call(t)
        PROVE  Storage!Next \/ UNCHANGED Storage!vars
    <3>1. CASE PushInsert(t)
      BY <2>1, <3>1, PushIsPush DEF Storage!Next
    <3>2. CASE PushAttach(t)
      BY <3>2, AttachIsInvisible
    <3>3. CASE PushEnforce(t)
      BY <2>1, <3>3, EnforceIsInvisible
    <3>4. CASE Clear(t)
      BY <2>1, <3>4, ClearIsClear DEF Storage!Next
    <3>5. CASE \E r \in rows : RemoveFound(t, r)
      BY <2>1, <3>5, RemoveIsRemove DEF Storage!Next
    <3>6. CASE GetAll(t)
      BY <3>6, GetAllIsGetAll DEF Storage!Next
    <3>7. CASE Notify(t)
      BY <3>7 DEF Notify, Storage!vars, Retained, Mails, historyVars
    <3>8. ~PushInsertFails(t) /\ ~PushAttachFails(t)
      BY DEF PushInsertFails, PushAttachFails, Fault
    <3>9. QED
      BY <2>3, <3>1, <3>2, <3>3, <3>4, <3>5, <3>6, <3>7, <3>8 DEF Call
  <2>4. ASSUME NEW m \in Maxima, Open(m) PROVE Storage!Reopen
    <3>1. holder = NoTask
      BY <2>4 DEF Open, TypeOK
    <3>2. QED
      BY <2>4, <3>1 DEF Open, Storage!Reopen, Retained, Mails, callVars, historyVars
  <2>5. CASE Close \/ Tick \/ UNCHANGED vars
    BY <2>5 DEF Close, Tick, vars, callVars, historyVars, Storage!vars, Retained, Mails
  <2>6. ~Crash /\ ~ClockSetBack
    BY DEF Crash, ClockSetBack, Fault
  <2>7. QED
    BY <2>3, <2>4, <2>5, <2>6 DEF Next, Storage!Next
<1>3. QED
  BY <1>1, <1>2, TypeCorrect, TableInvariant, PTL DEF Spec, ImplementsStorage
-----------------------------------------------------------------------------
(***************************************************************************)
(* Until a process is killed or a statement fails, the table has no more   *)
(* rows than some --max in use, but for the one of a push under way.       *)
(***************************************************************************)
TableBound(n) == Cardinality(rows) <= n + (IF holder = NoTask THEN 0 ELSE 1)

BoundInv ==
  /\ faults \subseteq {"clock"} => \E n \in Maxima : TableBound(n)
  /\ ListsBounded

LEMMA BoundPreserved ==
  ASSUME TypeOK, IsFiniteSet(rows), BoundInv, [Next]_vars
  PROVE  BoundInv'
<1>1. SUFFICES ASSUME faults' \subseteq {"clock"}
               PROVE  /\ \E n \in Maxima : TableBound(n)'
                      /\ \A t \in Task : \E n \in Maxima : Cardinality(listed'[t]) <= n
  BY DEF BoundInv, ListsBounded
<1>2. /\ \E n \in Maxima : TableBound(n)
      /\ \A t \in Task : \E n \in Maxima : Cardinality(listed[t]) <= n
  BY <1>1, FaultsAreRemembered DEF BoundInv, ListsBounded
<1>3. Cardinality(rows) \in Nat /\ Maxima \subseteq Nat /\ max \in Maxima
  BY FS_CardinalityType, MaximaAssumption DEF TypeOK
<1>4. ASSUME IsFiniteSet(rows'), Cardinality(rows') <= Cardinality(rows), holder' = holder
      PROVE  \E n \in Maxima : TableBound(n)'
  <2>1. Cardinality(rows') \in Nat
    BY <1>4, FS_CardinalityType
  <2>2. QED
    BY <1>2, <1>3, <1>4, <2>1 DEF TableBound
<1>5. ASSUME rows' \in SUBSET rows, holder' = holder
      PROVE  \E n \in Maxima : TableBound(n)'
  BY <1>4, <1>5, FS_Subset
<1>6. ASSUME NEW t \in Task, PushInsert(t)
      PROVE  (\E n \in Maxima : TableBound(n)') /\ listed' = listed
  <2> DEFINE new == [mail |-> pushed + 1, at |-> clock, parts |-> 0]
  <2>1. /\ rows' = rows \cup {new} /\ holder = NoTask /\ holder' = t
        /\ listed' = listed /\ t # NoTask
    BY <1>6, TaskAssumption DEF PushInsert, Free
  <2> HIDE DEF new
  <2>2. Cardinality(rows') \in {Cardinality(rows), Cardinality(rows) + 1}
    BY <2>1, FS_AddElement
  <2>3. QED
    BY <1>2, <1>3, <2>1, <2>2 DEF TableBound
<1>7. ASSUME NEW t \in Task, PushAttach(t)
      PROVE  (\E n \in Maxima : TableBound(n)') /\ listed' = listed
  <2>1. holder' = holder /\ listed' = listed
    BY <1>7 DEF PushAttach
  <2>a. PICK r \in rows : \E a : rows' = (rows \ {r}) \cup {a}
    BY <1>7 DEF PushAttach
  <2>2. PICK a : rows' = (rows \ {r}) \cup {a}
    BY <2>a
  <2>3. IsFiniteSet(rows \ {r}) /\ Cardinality(rows \ {r}) = Cardinality(rows) - 1
    BY FS_RemoveElement
  <2>4. /\ IsFiniteSet(rows')
        /\ Cardinality(rows') \in {Cardinality(rows \ {r}), Cardinality(rows \ {r}) + 1}
    BY <2>2, <2>3, FS_AddElement
  <2>5. QED
    BY <1>3, <1>4, <2>1, <2>3, <2>4
<1>8. ASSUME NEW t \in Task, PushEnforce(t)
      PROVE  (\E n \in Maxima : TableBound(n)') /\ listed' = listed
  <2>1. rows' = rows \ Oldest(Excess) /\ holder' = NoTask /\ listed' = listed
    BY <1>1, <1>8 DEF PushEnforce, Fault
  <2>2. Cardinality(rows') <= max
    BY <2>1, EnforceTrims
  <2>3. IsFiniteSet(rows') /\ Cardinality(rows') \in Nat
    BY <2>1, FS_Subset, FS_CardinalityType
  <2>4. QED
    BY <1>3, <2>1, <2>2, <2>3 DEF TableBound
<1>9. ASSUME NEW t \in Task, GetAll(t)
      PROVE  /\ \E n \in Maxima : TableBound(n)'
             /\ \A u \in Task : \E n \in Maxima : Cardinality(listed'[u]) <= n
  <2>1. /\ rows' = rows /\ holder' = holder /\ holder = NoTask
        /\ listed' = [listed EXCEPT ![t] = Mails]
    BY <1>1, <1>9 DEF GetAll, Free, Fault
  <2>2. Cardinality(Mails) = Cardinality(rows)
    BY AsManyMailsAsRows DEF Mails
  <2>3. \E n \in Maxima : Cardinality(Mails) <= n
    BY <1>2, <1>3, <2>1, <2>2 DEF TableBound
  <2>4. \A u \in Task : listed'[u] \in {Mails, listed[u]}
    BY <2>1 DEF TypeOK
  <2>5. QED
    BY <1>2, <1>5, <2>1, <2>3, <2>4
<1>10. ASSUME NEW t \in Task, Call(t)
       PROVE  /\ \E n \in Maxima : TableBound(n)'
              /\ \A u \in Task : \E n \in Maxima : Cardinality(listed'[u]) <= n
  <2>1. CASE PushInsertFails(t) \/ PushAttachFails(t) \/ Clear(t)
             \/ (\E r \in rows : RemoveFound(t, r)) \/ Notify(t)
    <3>1. rows' \in SUBSET rows /\ holder' = holder /\ listed' = listed
      BY <2>1 DEF PushInsertFails, PushAttachFails, Clear, RemoveFound, Notify
    <3>2. QED
      BY <1>2, <1>5, <3>1
  <2>2. QED
    BY <1>2, <1>6, <1>7, <1>8, <1>9, <1>10, <2>1 DEF Call
<1>11. CASE UNCHANGED vars \/ (\E m \in Maxima : Open(m)) \/ Close
            \/ Tick \/ ClockSetBack
  <2>1. rows' \in SUBSET rows /\ holder' = holder /\ listed' = listed
    BY <1>11 DEF vars, callVars, Open, Close, Tick, ClockSetBack
  <2>2. QED
    BY <1>2, <1>5, <2>1
<1>12. ~Crash
  BY <1>1 DEF Crash, Fault
<1>13. QED
  BY <1>10, <1>11, <1>12 DEF Next

(***************************************************************************)
(* No list is longer than the largest --max in use, until a process is     *)
(* killed or a statement fails (sqlite_store.rs:62-74, 127-170, 180-190).  *)
(***************************************************************************)
THEOREM ListsStayBounded == Spec => []ListsBounded
<1>1. Init => IsFiniteSet(rows) /\ BoundInv
  <2> SUFFICES ASSUME Init PROVE IsFiniteSet(rows) /\ BoundInv
    OBVIOUS
  <2>1. IsFiniteSet({}) /\ Cardinality({}) = 0
    BY FS_EmptySet
  <2>2. max \in Maxima /\ max \in Nat
    BY MaximaAssumption DEF Init
  <2>3. \E n \in Maxima : TableBound(n)
    BY <2>1, <2>2 DEF Init, TableBound
  <2>4. \A t \in Task : Cardinality(listed[t]) <= max
    BY <2>1, <2>2 DEF Init
  <2>5. QED
    BY <2>1, <2>2, <2>3, <2>4 DEF Init, BoundInv, ListsBounded
<1>2. TypeOK /\ IsFiniteSet(rows) /\ BoundInv /\ [Next]_vars
        => (IsFiniteSet(rows) /\ BoundInv)'
  BY RowsStayFinite, BoundPreserved
<1>3. BoundInv => ListsBounded
  BY DEF BoundInv
<1>4. QED
  BY <1>1, <1>2, <1>3, TypeCorrect, PTL DEF Spec
=============================================================================
