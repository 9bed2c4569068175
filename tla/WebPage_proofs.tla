--------------------------- MODULE WebPage_proofs ---------------------------
(***************************************************************************)
(* Proofs about the page, for any number of loads under way, of other      *)
(* browsers and of changing tasks.                                         *)
(***************************************************************************)
EXTENDS WebPage, LiveUpdates_proofs

(***************************************************************************)
(* The server does not know what the page does with what it gets: every    *)
(* step here is one of LiveUpdates or none.                                *)
(***************************************************************************)
LEMMA PageStepIsLiveStep ==
  [PageNext]_<<liveVars, pageVars>> => [LiveNext]_liveVars
<1> SUFFICES ASSUME [PageNext]_<<liveVars, pageVars>> PROVE [LiveNext]_liveVars
  OBVIOUS
<1> USE PageAssumption
<1>1. ASSUME NEW f \in Fetch, Request(f) \/ Answer(f) \/ Loaded(f) \/ LoadFails(f)
      PROVE  UNCHANGED liveVars
  BY <1>1 DEF Request, Answer, Loaded, LoadFails
<1>2. CASE Message \/ Unseen \/ Reconnect \/ Cut
  BY <1>2 DEF Message, Unseen, Reconnect, Cut, LiveNext, HandlerStep
<1>3. CASE Others
  BY <1>3 DEF Others, LiveNext
<1>4. CASE UNCHANGED <<liveVars, pageVars>>
  BY <1>4
<1>5. QED
  BY <1>1, <1>2, <1>3, <1>4 DEF PageNext

(***************************************************************************)
(* With the page added the WebSocket handlers behave as in LiveUpdates, so *)
(* its theorems hold here too.                                             *)
(***************************************************************************)
LEMMA PageIsLive == PageSafety => LiveSafety
<1>1. PageInit => LiveInit
  BY DEF PageInit
<1>2. QED
  BY <1>1, PageStepIsLiveStep, PTL DEF PageSafety, LiveSafety

(***************************************************************************)
(* What is proved of the store and of the handlers.                        *)
(***************************************************************************)
Served == LiveTypeOK /\ StoreInv /\ SnapshotBounded /\ SettledIsCurrent

(***************************************************************************)
(* What LiveUpdates_proofs knows of the handlers holds for the page's.     *)
(***************************************************************************)
LEMMA PageServed == PageSafety => []Served
<1>1. LiveSafety => [](LiveTypeOK /\ StoreInv /\ SnapshotBounded /\ SettledIsCurrent)
  BY StoreUnaffected, LiveTypeCorrect, StoreInvariant, ReadersSeeNoOverflow,
     SettledHandlersAreCurrent, PTL
<1>2. QED
  BY <1>1, PageIsLive, PTL DEF Served

(***************************************************************************)
(* Lists come to the page from a store whose lock is free (http.rs:95-110, *)
(* 207, 226), so every step keeps them within --max.                       *)
(***************************************************************************)
LEMMA PageTypeStep ==
  Served /\ PageTypeOK /\ [PageNext]_<<liveVars, pageVars>> => PageTypeOK'
<1> SUFFICES ASSUME Served, PageTypeOK, [PageNext]_<<liveVars, pageVars>>
             PROVE  PageTypeOK'
  OBVIOUS
<1> USE PageAssumption, ClientAssumption DEF PageTypeOK
<1>1. ASSUME NEW f \in Fetch, Request(f) PROVE PageTypeOK'
  BY <1>1 DEF Request, LoadStep
<1>2. ASSUME NEW f \in Fetch, Answer(f) PROVE PageTypeOK'
  <2>1. writer = NoTask => emails \in Lists
    <3>1. emails \in Seq(1..pushed) /\ pushed \in 0..MaxPush
      BY DEF Served, LiveTypeOK, TypeOK
    <3>2. 1..pushed \subseteq 1..MaxPush
      BY <3>1, BoundAssumption
    <3>3. emails \in Seq(1..MaxPush)
      BY <3>1, <3>2, SeqMonotonic
    <3>4. QED
      BY <3>3 DEF Served, StoreInv, LockInv, Lists
  <2>2. /\ emails \in Lists
        /\ load' = [load EXCEPT ![f] = "answered"]
        /\ fetched' = [fetched EXCEPT ![f] = emails]
        /\ UNCHANGED <<shown, overtaken, drops>>
    BY <1>2, <2>1 DEF Answer, LoadStep
  <2> HIDE DEF Lists
  <2>3. QED
    BY <2>2
<1>3. ASSUME NEW f \in Fetch, Loaded(f) PROVE PageTypeOK'
  BY <1>3 DEF Loaded, LoadStep
<1>4. ASSUME NEW f \in Fetch, LoadFails(f) PROVE PageTypeOK'
  BY <1>4 DEF LoadFails, LoadStep
<1>5. CASE Message
  <2>1. snapshot[Page] \in Seq(1..MaxPush) /\ Len(snapshot[Page]) <= MaxMails
    BY DEF Served, LiveTypeOK, TypeOK, SnapshotBounded
  <2>2. snapshot[Page] \in Lists
    BY <2>1 DEF Lists
  <2>3. QED
    BY <1>5, <2>2 DEF Message, OnMessage
<1>6. CASE Cut
  BY <1>6 DEF Cut
<1>7. CASE UNCHANGED pageVars
  BY <1>7 DEF pageVars
<1>8. QED
  BY <1>1, <1>2, <1>3, <1>4, <1>5, <1>6, <1>7
     DEF PageNext, Unseen, Reconnect, Others

(***************************************************************************)
(* The variables of the page keep their types, and no list is longer than  *)
(* --max.                                                                  *)
(***************************************************************************)
THEOREM PageTypeCorrect == PageSafety => []PageTypeOK
<1>1. PageInit => PageTypeOK
  <2> SUFFICES ASSUME PageInit PROVE PageTypeOK
    OBVIOUS
  <2>1. <<>> \in Lists
    <3>1. <<>> \in Seq(1..MaxPush) /\ Len(<<>>) = 0
      OBVIOUS
    <3>2. QED
      BY <3>1, BoundAssumption DEF Lists
  <2>2. shown = <<>> /\ \A f \in Fetch : fetched[f] = <<>>
    BY DEF PageInit
  <2>3. /\ load \in [Fetch -> {"idle", "sent", "answered"}]
        /\ overtaken \in BOOLEAN /\ drops \in 0..MaxDrops
    <3>1. load = [f \in Fetch |-> "idle"] /\ drops = 0 /\ overtaken = FALSE
      BY Zenon DEF PageInit
    <3>2. load \in [Fetch -> {"idle", "sent", "answered"}] /\ drops \in 0..MaxDrops
      BY <3>1, PageAssumption
    <3>3. overtaken \in BOOLEAN
      BY <3>1, Zenon
    <3>4. QED
      BY <3>2, <3>3
  <2> HIDE DEF Lists
  <2>4. shown \in Lists /\ \A f \in Fetch : fetched[f] \in Lists
    BY <2>1, <2>2
  <2>5. QED
    BY <2>3, <2>4 DEF PageTypeOK
<1>2. QED
  BY <1>1, PageServed, PageTypeStep, PTL DEF PageSafety

(***************************************************************************)
(* Steps that change the store, or tell the handler of it, unsettle the    *)
(* handler; only a message settles it again.                               *)
(***************************************************************************)
LEMMA Settling ==
  ASSUME LiveTypeOK, StoreInv, [PageNext]_<<liveVars, pageVars>>,
         Settled(Page)', ~missed'[Page], ~Message
  PROVE  Settled(Page) /\ ~missed[Page] /\ emails' = emails
<1> USE PageAssumption, ClientAssumption DEF Settled
<1>0. /\ ws \in [Client -> HandlerState] /\ missed \in [Client -> BOOLEAN]
      /\ unread \in [Client -> 0..(ChannelCapacity + 1)] /\ TypeOK
  BY DEF LiveTypeOK
<1>1. CASE UNCHANGED liveVars
  BY <1>1 DEF liveVars, clientVars, storeVars, ChangeUnannounced
<1>2. ASSUME NEW t \in Task \ Client, StoreChange(t) PROVE FALSE
  BY <1>0, <1>2, ChangesAreUnannounced DEF StoreChange
<1>3. ASSUME NEW t \in Task \ Client, NotifyAll(t) PROVE FALSE
  BY <1>0, <1>3, ChannelAssumption DEF NotifyAll, Broadcast, Subscribed
<1>4. ASSUME NEW c \in Client \ {Page},
             Connect(c) \/ HandlerStep(c) \/ Disconnect(c)
      PROVE  Settled(Page) /\ ~missed[Page] /\ emails' = emails
  <2>1. /\ ws'[Page] = ws[Page] /\ unread'[Page] = unread[Page]
        /\ missed'[Page] = missed[Page]
    BY <1>0, <1>4 DEF Connect, HandlerStep, Disconnect, InitialGetAll,
       SendInitial, Recv, Refresh, SendUpdate, RecvLagged, Close, Step
  <2>2. UNCHANGED <<emails, writer, pc>>
    BY <1>4 DEF Connect, HandlerStep, Disconnect, InitialGetAll,
       SendInitial, Recv, Refresh, SendUpdate, RecvLagged, Close,
       GetAll, storeVars
  <2>3. QED
    BY <2>1, <2>2 DEF ChangeUnannounced
<1>5. CASE Unseen \/ Reconnect \/ Cut
  BY <1>0, <1>5 DEF Unseen, Reconnect, Cut, Connect, InitialGetAll, Recv,
     Refresh, RecvLagged, Disconnect, Close, Step
<1>6. (\E f \in Fetch : Request(f) \/ Answer(f) \/ Loaded(f) \/ LoadFails(f))
        => UNCHANGED liveVars
  BY DEF Request, Answer, Loaded, LoadFails
<1>7. QED
  BY <1>1, <1>2, <1>3, <1>4, <1>5, <1>6 DEF PageNext, Others

(***************************************************************************)
(* The page is inductively current once its handler is: what unsettles the *)
(* handler ends with a message, and an answer to a load is no older than   *)
(* the store unless it is marked as overtaken (index.html:608-616,         *)
(* 792-803, 818-821).                                                      *)
(***************************************************************************)
THEOREM PageIsCurrent == PageSafety => []PageCurrent
<1>1. PageInit => PageCurrent
  BY PageAssumption DEF PageInit, LiveInit, PageCurrent, Settled
<1>2. Served /\ Served' /\ PageCurrent /\ [PageNext]_<<liveVars, pageVars>>
        => PageCurrent'
  <2> SUFFICES ASSUME Served, Served', PageCurrent,
                      [PageNext]_<<liveVars, pageVars>>,
                      Settled(Page)', ~missed'[Page], ~overtaken', shown' # NoList
               PROVE  shown' = emails'
    BY DEF PageCurrent
  <2> USE PageAssumption, ClientAssumption
  <2>1. CASE Message
    <3>1. view'[Page] = emails'
      BY DEF Served, SettledIsCurrent
    <3>2. /\ view' = [view EXCEPT ![Page] = snapshot[Page]]
          /\ shown' = snapshot[Page]
      BY <2>1 DEF Message, OnMessage, SendInitial, SendUpdate
    <3>3. Page \in DOMAIN view
      BY DEF Served, LiveTypeOK
    <3>4. QED
      BY <3>1, <3>2, <3>3
  <2>2. CASE ~Message
    <3>1. Settled(Page) /\ ~missed[Page] /\ emails' = emails
      BY <2>2, Settling DEF Served
    <3>2. CASE \E f \in Fetch : Loaded(f)
      BY <3>1, <3>2 DEF Loaded
    <3>3. CASE UNCHANGED <<shown, overtaken>>
      BY <3>1, <3>3 DEF PageCurrent
    <3>4. ~(\E f \in Fetch : LoadFails(f))
      BY DEF LoadFails
    <3>5. QED
      BY <2>2, <3>2, <3>3, <3>4 DEF PageNext, Request, Answer, Unseen, Reconnect,
                                    Cut, Others, pageVars
  <2>3. QED
    BY <2>1, <2>2
<1>3. QED
  BY <1>1, <1>2, PageServed, PTL DEF PageSafety
=============================================================================
