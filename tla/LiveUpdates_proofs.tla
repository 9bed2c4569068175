-------------------------- MODULE LiveUpdates_proofs --------------------------
(***************************************************************************)
(* Proofs about the live list, for any number of browsers and tasks and    *)
(* any capacity of the channel.                                            *)
(***************************************************************************)
EXTENDS LiveUpdates, MemoryStore_proofs

(***************************************************************************)
(* Seen from the store the handlers are ordinary readers: every step here  *)
(* is a step of MemoryStore or none, so all that is proved there holds     *)
(* here too (http.rs:203-246 calls get_all and nothing else).              *)
(***************************************************************************)
LEMMA LiveStepIsStoreStep == [LiveNext]_liveVars => [Next]_storeVars
<1> SUFFICES ASSUME [LiveNext]_liveVars PROVE [Next]_storeVars
  OBVIOUS
<1>1. ASSUME NEW t \in Task \ Client, StoreChange(t) \/ NotifyAll(t)
      PROVE  Next
  BY <1>1 DEF StoreChange, ChangeStep, NotifyAll, Next, StoreStep
<1>2. ASSUME NEW c \in Client, Connect(c) \/ HandlerStep(c) \/ Disconnect(c)
      PROVE  [Next]_storeVars
  <2>1. c \in Task
    BY ClientAssumption
  <2>2. GetAll(c) \/ UNCHANGED storeVars
    BY <1>2 DEF Connect, HandlerStep, Disconnect, InitialGetAll, SendInitial,
                Recv, Refresh, SendUpdate, RecvLagged, Close
  <2>3. QED
    BY <2>1, <2>2 DEF Next, StoreStep
<1>3. CASE UNCHANGED liveVars
  BY <1>3 DEF liveVars
<1>4. QED
  BY <1>1, <1>2, <1>3 DEF LiveNext

THEOREM StoreUnaffected == LiveSafety => Spec
<1>1. LiveInit => Init
  BY DEF LiveInit
<1>2. QED
  BY <1>1, LiveStepIsStoreStep, PTL DEF LiveSafety, Spec

THEOREM LiveTypeCorrect == LiveSafety => []LiveTypeOK
<1> DEFINE ClientTypeOK ==
      /\ ws \in [Client -> HandlerState]
      /\ unread \in [Client -> 0..(ChannelCapacity + 1)]
      /\ view \in [Client -> Seq(1..MaxPush)]
      /\ missed \in [Client -> BOOLEAN]
<1>1. LiveInit => ClientTypeOK
  BY ChannelAssumption DEF LiveInit, HandlerState
<1>2. TypeOK /\ ClientTypeOK /\ [LiveNext]_liveVars => ClientTypeOK'
  <2> SUFFICES ASSUME TypeOK, ClientTypeOK, [LiveNext]_liveVars
               PROVE  ClientTypeOK'
    OBVIOUS
  <2> USE ChannelAssumption, ClientAssumption DEF HandlerState, Step
  <2>1. ASSUME NEW t \in Task \ Client, StoreChange(t) PROVE ClientTypeOK'
    BY <2>1 DEF StoreChange, clientVars
  <2>2. ASSUME NEW t \in Task \ Client, NotifyAll(t) PROVE ClientTypeOK'
    BY <2>2 DEF NotifyAll, Broadcast
  <2>3. ASSUME NEW c \in Client, Connect(c) PROVE ClientTypeOK'
    BY <2>3 DEF Connect
  <2>4. ASSUME NEW c \in Client, InitialGetAll(c) PROVE ClientTypeOK'
    BY <2>4 DEF InitialGetAll
  <2>5. ASSUME NEW c \in Client, SendInitial(c) \/ SendUpdate(c)
        PROVE  ClientTypeOK'
    <3>1. snapshot[c] \in Seq(1..MaxPush)
      BY DEF TypeOK
    <3>2. QED
      BY <2>5, <3>1 DEF SendInitial, SendUpdate
  <2>6. ASSUME NEW c \in Client, Recv(c) PROVE ClientTypeOK'
    BY <2>6 DEF Recv
  <2>7. ASSUME NEW c \in Client, Refresh(c) PROVE ClientTypeOK'
    BY <2>7 DEF Refresh
  <2>8. ASSUME NEW c \in Client, RecvLagged(c) \/ Disconnect(c)
        PROVE  ClientTypeOK'
    <3>1. Close(c)
      BY <2>8 DEF RecvLagged, Disconnect
    <3>2. ws' \in [Client -> HandlerState] /\ view' = view
      BY <3>1 DEF Close
    <3>3. unread' \in [Client -> 0..(ChannelCapacity + 1)]
      BY <3>1 DEF Close
    <3>4. missed' \in [Client -> BOOLEAN]
      BY <3>1 DEF Close
    <3>5. QED
      BY <3>2, <3>3, <3>4
  <2>9. CASE UNCHANGED liveVars
    BY <2>9 DEF liveVars, clientVars
  <2>10. QED
    BY <2>1, <2>2, <2>3, <2>4, <2>5, <2>6, <2>7, <2>8, <2>9
       DEF LiveNext, HandlerStep
<1>3. LiveSafety => []TypeOK
  BY StoreUnaffected, TypeCorrect, PTL
<1>4. LiveSafety => []ClientTypeOK
  <2> HIDE DEF ClientTypeOK
  <2>1. QED
    BY <1>1, <1>2, <1>3, PTL DEF LiveSafety
<1>5. TypeOK /\ ClientTypeOK => LiveTypeOK
  BY DEF LiveTypeOK
<1>6. QED
  <2> HIDE DEF ClientTypeOK
  <2>1. QED
    BY <1>3, <1>4, <1>5, PTL
-----------------------------------------------------------------------------
(***************************************************************************)
(* Why a settled handler is current.  The list it has sent, or is about to *)
(* send, differs from the store only while it is owed something: a change  *)
(* not announced yet, a notification it has not taken, or a list it is     *)
(* about to read.  Before it subscribes nothing is owed to it, so what it  *)
(* misses then is what missed records.                                     *)
(***************************************************************************)
Held(c) == IF ws[c] = "sendUpdate" THEN snapshot[c] ELSE view[c]

FreshInit(c) ==
  ws[c] = "sendInitial" /\ ~missed[c] /\ snapshot[c] # emails
    => ChangeUnannounced

FreshLoop(c) ==
  Subscribed(c) /\ ~missed[c] /\ Held(c) # emails
    => ChangeUnannounced \/ unread[c] > 0 \/ ws[c] = "refresh"

FreshInv == \A c \in Client : FreshInit(c) /\ FreshLoop(c)

(* A call that has changed the Vec has something to announce until Notify. *)
LEMMA ChangesAreUnannounced ==
  ASSUME TypeOK, StoreInv, NEW t \in Task, ChangeStep(t)
  PROVE  ChangeUnannounced' /\ UNCHANGED snapshot
<1> USE TaskAssumption DEF TypeOK, Goto, ChangeUnannounced
<1>1. CASE PushInsert(t)
  BY <1>1 DEF PushInsert
<1>2. CASE PushEvict(t)
  BY <1>2 DEF PushEvict, StoreInv, LockInv
<1>3. CASE PushUnlock(t)
  BY <1>3 DEF PushUnlock
<1>4. CASE Clear(t)
  BY <1>4 DEF Clear
<1>5. CASE \E i \in DOMAIN emails : RemoveFound(t, i)
  BY <1>5 DEF RemoveFound
<1>6. QED
  BY <1>1, <1>2, <1>3, <1>4, <1>5 DEF ChangeStep

LEMMA FreshStep ==
  LiveTypeOK /\ StoreInv /\ FreshInv /\ [LiveNext]_liveVars => FreshInv'
<1> SUFFICES ASSUME LiveTypeOK, StoreInv, FreshInv, [LiveNext]_liveVars,
                    NEW c \in Client
             PROVE  FreshInit(c)' /\ FreshLoop(c)'
  BY DEF FreshInv
<1>0. /\ TypeOK /\ c \in Task /\ FreshInit(c) /\ FreshLoop(c)
      /\ ws \in [Client -> HandlerState]
      /\ unread \in [Client -> 0..(ChannelCapacity + 1)]
      /\ view \in [Client -> Seq(1..MaxPush)]
      /\ missed \in [Client -> BOOLEAN]
      /\ snapshot \in [Task -> Seq(1..MaxPush)]
  BY ClientAssumption DEF LiveTypeOK, FreshInv, TypeOK
<1> USE DEF FreshInit, FreshLoop, Held, Subscribed
<1>1. ASSUME NEW t \in Task \ Client, StoreChange(t)
      PROVE  FreshInit(c)' /\ FreshLoop(c)'
  <2>1. ChangeUnannounced'
    BY <1>0, <1>1, ChangesAreUnannounced DEF StoreChange
  <2>2. QED
    BY <2>1
<1>2. ASSUME NEW t \in Task \ Client, NotifyAll(t)
      PROVE  FreshInit(c)' /\ FreshLoop(c)'
  <2>1. Subscribed(c) => unread'[c] > 0
    BY <1>0, <1>2, ChannelAssumption DEF NotifyAll, Broadcast
  <2>2. ws[c] = "sendInitial" => missed'[c]
    BY <1>2 DEF NotifyAll, Broadcast
  <2>3. ws' = ws
    BY <1>2 DEF NotifyAll, Broadcast
  <2>4. QED
    BY <2>1, <2>2, <2>3
<1>3. ASSUME NEW d \in Client, d # c,
             Connect(d) \/ HandlerStep(d) \/ Disconnect(d)
      PROVE  FreshInit(c)' /\ FreshLoop(c)'
  <2>1. /\ ws'[c] = ws[c] /\ unread'[c] = unread[c] /\ view'[c] = view[c]
        /\ missed'[c] = missed[c] /\ snapshot'[c] = snapshot[c]
    BY <1>0, <1>3 DEF Connect, HandlerStep, Disconnect, InitialGetAll,
       SendInitial, Recv, Refresh, SendUpdate, RecvLagged, Close, Step,
       GetAll, storeVars
  <2>2. UNCHANGED <<emails, writer, pc>>
    BY <1>3 DEF Connect, HandlerStep, Disconnect, InitialGetAll,
       SendInitial, Recv, Refresh, SendUpdate, RecvLagged, Close,
       GetAll, storeVars
  <2>3. QED
    BY <1>0, <2>1, <2>2 DEF ChangeUnannounced
<1>4. CASE Connect(c)
  BY <1>0, <1>4 DEF Connect, Step
<1>5. CASE InitialGetAll(c)
  <2>1. ws'[c] = "sendInitial" /\ snapshot'[c] = emails /\ emails' = emails
    BY <1>0, <1>5 DEF InitialGetAll, Step, GetAll
  <2>2. QED
    BY <2>1
<1>6. CASE SendInitial(c)
  <2>1. /\ ws[c] = "sendInitial" /\ ws'[c] = "loop" /\ view'[c] = snapshot[c]
        /\ UNCHANGED <<emails, writer, pc, missed>>
    BY <1>0, <1>6 DEF SendInitial, Step, storeVars
  <2>2. QED
    BY <1>0, <2>1 DEF ChangeUnannounced
<1>7. CASE Recv(c)
  BY <1>0, <1>7 DEF Recv, Step
<1>8. CASE Refresh(c)
  <2>1. ws'[c] = "sendUpdate" /\ snapshot'[c] = emails /\ emails' = emails
    BY <1>0, <1>8 DEF Refresh, Step, GetAll
  <2>2. QED
    BY <2>1
<1>9. CASE SendUpdate(c)
  <2>1. /\ ws[c] = "sendUpdate" /\ ws'[c] = "loop" /\ view'[c] = snapshot[c]
        /\ UNCHANGED <<emails, writer, pc, missed, unread>>
    BY <1>0, <1>9 DEF SendUpdate, Step, storeVars
  <2>2. QED
    BY <1>0, <2>1 DEF ChangeUnannounced
<1>10. CASE RecvLagged(c) \/ Disconnect(c)
  BY <1>0, <1>10 DEF RecvLagged, Disconnect, Close
<1>11. CASE UNCHANGED liveVars
  BY <1>0, <1>11 DEF liveVars, clientVars, storeVars, ChangeUnannounced
<1>12. QED
  BY <1>1, <1>2, <1>3, <1>4, <1>5, <1>6, <1>7, <1>8, <1>9, <1>10, <1>11
     DEF LiveNext, HandlerStep

(***************************************************************************)
(* A handler that waits with nothing on its way has sent the list as it is *)
(* in the store now, unless a notification fell into the gap before it     *)
(* subscribed (http.rs:203-231).                                           *)
(***************************************************************************)
THEOREM SettledHandlersAreCurrent == LiveSafety => []SettledIsCurrent
<1>1. LiveInit => FreshInv
  BY DEF LiveInit, FreshInv, FreshInit, FreshLoop, Subscribed
<1>2. LiveSafety => []StoreInv
  BY StoreUnaffected, StoreInvariant, PTL
<1>3. LiveSafety => []FreshInv
  BY <1>1, <1>2, LiveTypeCorrect, FreshStep, PTL DEF LiveSafety
<1>4. LiveTypeOK /\ FreshInv => SettledIsCurrent
  <2> SUFFICES ASSUME FreshInv, NEW c \in Client, Settled(c), ~missed[c]
               PROVE  view[c] = emails
    BY DEF SettledIsCurrent
  <2>1. /\ ws[c] = "loop" /\ ~(unread[c] > 0) /\ ~ChangeUnannounced
        /\ Subscribed(c) /\ Held(c) = view[c]
    BY DEF Settled, Subscribed, Held
  <2>2. QED
    BY <2>1 DEF FreshInv, FreshLoop
<1>5. QED
  BY <1>3, <1>4, LiveTypeCorrect, PTL
=============================================================================
