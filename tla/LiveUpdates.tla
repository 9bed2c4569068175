----------------------------- MODULE LiveUpdates -----------------------------
(***************************************************************************)
(* The live list of the web UI.  One WebSocket handler per browser         *)
(* (http.rs:203-246) sends the whole list when the browser connects, then  *)
(* subscribes to the broadcast channel and sends the whole list again for  *)
(* every notification.  Nothing is sent twice, nothing is acknowledged:    *)
(* the browser shows the list it got last.                                 *)
(*                                                                         *)
(* The handlers are tasks of the store like any other, which only ever     *)
(* call get_all: Client is a subset of Task, and snapshot[c] is the list   *)
(* that handler c holds and is about to send.  The channel is tokio's      *)
(* broadcast: a subscriber that falls more than the capacity behind gets   *)
(* an error instead of the message (external code, modelled from its use). *)
(***************************************************************************)
EXTENDS MemoryStore

CONSTANTS
  Client,           \* browsers, each with at most one WebSocket
  ChannelCapacity   \* lib.rs:102, broadcast::channel(16)

ASSUME ClientAssumption == Client \subseteq Task
ASSUME ChannelAssumption == ChannelCapacity \in Nat \ {0}

VARIABLES
  ws,         \* where the handler of each client is, or "closed"
  unread,     \* messages sent to the handler's receiver and not yet taken
  view,       \* the list the browser shows
  missed      \* history: a notification fell between get_all and subscribe

clientVars == <<ws, unread, view, missed>>
liveVars == <<storeVars, clientVars>>

HandlerState ==
  {"closed", "initial", "sendInitial", "loop", "refresh", "sendUpdate"}

(* The states in which the handler has a receiver. *)
Subscribed(c) == ws[c] \in {"loop", "refresh", "sendUpdate"}

Step(c, from, to) == ws[c] = from /\ ws' = [ws EXCEPT ![c] = to]

LiveInit ==
  /\ Init
  /\ ws = [c \in Client |-> "closed"]
  /\ unread = [c \in Client |-> 0]
  /\ view = [c \in Client |-> <<>>]
  /\ missed = [c \in Client |-> FALSE]

(* Slip, in the place of Broadcast: a channel without capacity. *)
BroadcastUnbounded ==
  /\ unread' = [c \in Client |-> IF Subscribed(c) THEN unread[c] + 1 ELSE unread[c]]
  /\ missed' = [c \in Client |-> missed[c] \/ ws[c] = "sendInitial"]
  /\ UNCHANGED <<ws, view>>

(***************************************************************************)
(* notify.send as the receivers see it.  A receiver holds at most          *)
(* ChannelCapacity messages; that it has lost some is all that counts      *)
(* beyond that, so unread stops at ChannelCapacity + 1.                    *)
(***************************************************************************)
Broadcast ==
  /\ unread' = [c \in Client |->
                  IF Subscribed(c) /\ unread[c] <= ChannelCapacity
                    THEN unread[c] + 1 ELSE unread[c]]
  /\ missed' = [c \in Client |-> missed[c] \/ ws[c] = "sendInitial"]
  /\ UNCHANGED <<ws, view>>

(* connectWebSocket, at page load or when its retry timer fires. *)
Connect(c) ==
  /\ Step(c, "closed", "initial")
  /\ UNCHANGED <<storeVars, unread, view, missed>>

(* The list for `// Send initial state`. *)
InitialGetAll(c) ==
  /\ Step(c, "initial", "sendInitial")
  /\ GetAll(c)
  /\ UNCHANGED <<unread, view, missed>>

(* The initial send, and the subscription once it is done. *)
SendInitial(c) ==
  /\ Step(c, "sendInitial", "loop")
  /\ view' = [view EXCEPT ![c] = snapshot[c]]
  /\ UNCHANGED <<storeVars, unread, missed>>

(* Slip, in the place of Recv: the list at hand is sent again. *)
RecvStale(c) ==
  /\ Step(c, "loop", "sendUpdate")
  /\ unread[c] \in 1..ChannelCapacity
  /\ unread' = [unread EXCEPT ![c] = @ - 1]
  /\ UNCHANGED <<storeVars, view, missed>>

(* email_rx.recv() yields a notification. *)
Recv(c) ==
  /\ Step(c, "loop", "refresh")
  /\ unread[c] \in 1..ChannelCapacity
  /\ unread' = [unread EXCEPT ![c] = @ - 1]
  /\ UNCHANGED <<storeVars, view, missed>>

Refresh(c) ==
  /\ Step(c, "refresh", "sendUpdate")
  /\ GetAll(c)
  /\ missed' = [missed EXCEPT ![c] = FALSE]
  /\ UNCHANGED <<unread, view>>

SendUpdate(c) ==
  /\ Step(c, "sendUpdate", "loop")
  /\ view' = [view EXCEPT ![c] = snapshot[c]]
  /\ UNCHANGED <<storeVars, unread, missed>>

(* The handler returns: socket and receiver are dropped. *)
Close(c) ==
  /\ ws' = [ws EXCEPT ![c] = "closed"]
  /\ unread' = [unread EXCEPT ![c] = 0]
  /\ missed' = [missed EXCEPT ![c] = FALSE]
  /\ UNCHANGED <<storeVars, view>>

(* Slip, in the place of RecvLagged: resubscribe() and go on waiting. *)
RecvLaggedResubscribes(c) ==
  /\ ws[c] = "loop"
  /\ unread[c] > ChannelCapacity
  /\ unread' = [unread EXCEPT ![c] = 0]
  /\ UNCHANGED <<storeVars, ws, view, missed>>

(* email_rx.recv() yields Lagged: `if result.is_err() { break }`. *)
RecvLagged(c) ==
  /\ ws[c] = "loop"
  /\ unread[c] > ChannelCapacity
  /\ Close(c)

(***************************************************************************)
(* The browser goes away: a send fails, or the receiver branch of select!  *)
(* sees a close frame, an error or the end of the stream.  Pings and other *)
(* frames leave the handler where it is.                                   *)
(***************************************************************************)
Disconnect(c) ==
  /\ ws[c] \in {"sendInitial", "loop", "sendUpdate"}
  /\ Close(c)

(* Calls of the other tasks.  Only their last step reaches the handlers.   *)
ChangeStep(t) ==
  \/ PushInsert(t)
  \/ PushEvict(t)
  \/ PushUnlock(t)
  \/ Clear(t)
  \/ \E i \in DOMAIN emails : RemoveFound(t, i)

StoreChange(t) == ChangeStep(t) /\ UNCHANGED clientVars

NotifyAll(t) == Notify(t) /\ Broadcast

HandlerStep(c) ==
  \/ InitialGetAll(c)
  \/ SendInitial(c)
  \/ Recv(c)
  \/ Refresh(c)
  \/ SendUpdate(c)
  \/ RecvLagged(c)

LiveNext ==
  \/ \E t \in Task \ Client : StoreChange(t) \/ NotifyAll(t)
  \/ \E c \in Client : Connect(c) \/ HandlerStep(c) \/ Disconnect(c)

LiveSafety == LiveInit /\ [][LiveNext]_liveVars

(***************************************************************************)
(* The runtime polls every task that can run, so a call that has begun is  *)
(* finished and a handler takes its steps; a send completes because the    *)
(* browser reads.  No call is ever bound to begin, and no browser to       *)
(* connect or to stay.                                                     *)
(***************************************************************************)
Fairness ==
  /\ \A t \in Task \ Client :
       /\ WF_liveVars(PushEvict(t) /\ UNCHANGED clientVars)
       /\ WF_liveVars(PushUnlock(t) /\ UNCHANGED clientVars)
       /\ WF_liveVars(NotifyAll(t))
  /\ \A c \in Client : WF_liveVars(HandlerStep(c))

LiveSpec == LiveSafety /\ Fairness
-----------------------------------------------------------------------------
LiveTypeOK ==
  /\ TypeOK
  /\ ws \in [Client -> HandlerState]
  /\ unread \in [Client -> 0..(ChannelCapacity + 1)]
  /\ view \in [Client -> Seq(1..MaxPush)]
  /\ missed \in [Client -> BOOLEAN]

(* A change has been made that the channel has not been told of yet. *)
ChangeUnannounced ==
  writer # NoTask \/ \E t \in Task : pc[t] = "notifying"

(* Nothing on its way to handler c: it waits in select! with an empty      *)
(* receiver and every change has been announced.                           *)
Settled(c) == ws[c] = "loop" /\ unread[c] = 0 /\ ~ChangeUnannounced

(***************************************************************************)
(* A handler that has nothing more to do shows the store as it is, for     *)
(* every interleaving of pushes, deletions and notifications: changes are  *)
(* announced after they are made and the list is read after the            *)
(* announcement (store.rs:57-58, http.rs:222-226).  The one exception is a *)
(* notification sent between the first get_all and subscribe.              *)
(***************************************************************************)
SettledIsCurrent ==
  \A c \in Client : Settled(c) /\ ~missed[c] => view[c] = emails

(***************************************************************************)
(* What `WebSocket for real-time updates' (README.md:9) and `Send initial  *)
(* state' (http.rs:206) amount to: the same without the exception.  The    *)
(* code subscribes only after the initial state is sent (http.rs:217), so  *)
(* a mail stored in between is not shown until another change happens.     *)
(***************************************************************************)
NoMissedUpdate == \A c \in Client : Settled(c) => view[c] = emails

(***************************************************************************)
(* An outdated list does not stay: a subscribed handler that shows         *)
(* something else than the store catches up, or its connection ends --     *)
(* also when it lagged and the channel dropped messages (http.rs:223).     *)
(***************************************************************************)
CatchesUp ==
  \A c \in Client :
    (Subscribed(c) /\ ~missed[c] /\ view[c] # emails)
      ~> (view[c] = emails \/ ws[c] = "closed")
=============================================================================
