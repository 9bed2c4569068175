------------------------------ MODULE WebPage ------------------------------
(***************************************************************************)
(* The page (index.html) on top of its live updates.  What it shows comes  *)
(* by two roads: messages of the WebSocket, and answers to load(), which   *)
(* runs once when the page opens and again whenever the refresh button is  *)
(* clicked.  Neither knows of the other, and what arrives last is shown.   *)
(* When the WebSocket closes, a timer opens it again.                      *)
(*                                                                         *)
(* One page is looked at, and it stays open; other browsers are as in      *)
(* LiveUpdates.                                                            *)
(***************************************************************************)
EXTENDS LiveUpdates

CONSTANTS
  Page,      \* the browser looked at
  Fetch,     \* loads that the page can have under way at a time
  NoList,    \* the page says "Failed to load emails"
  MaxDrops   \* bound: times that the page's WebSocket is cut

ASSUME PageAssumption == Page \in Client /\ MaxDrops \in Nat

VARIABLES
  shown,      \* the list on the page
  load,       \* how far each load has come
  fetched,    \* the list in the answer to it
  overtaken,  \* history: the list shown came from a load, behind the store
  drops       \* history: times that the WebSocket was cut

pageVars == <<shown, load, fetched, overtaken, drops>>

PageInit ==
  /\ LiveInit
  /\ shown = <<>>
  /\ load = [f \in Fetch |-> "idle"]
  /\ fetched = [f \in Fetch |-> <<>>]
  /\ overtaken = FALSE /\ drops = 0

LoadStep(f, from, to) == load[f] = from /\ load' = [load EXCEPT ![f] = to]

(* load() sends its request. *)
Request(f) ==
  /\ LoadStep(f, "idle", "sent")
  /\ UNCHANGED <<liveVars, shown, fetched, overtaken, drops>>

(* Slip, in the place of Answer: the list is read without the lock. *)
AnswerUnlocked(f) ==
  /\ LoadStep(f, "sent", "answered")
  /\ fetched' = [fetched EXCEPT ![f] = emails]
  /\ UNCHANGED <<liveVars, shown, overtaken, drops>>

(* get_emails without parameters: the store's get_all. *)
Answer(f) ==
  /\ LoadStep(f, "sent", "answered")
  /\ writer = NoTask
  /\ fetched' = [fetched EXCEPT ![f] = emails]
  /\ UNCHANGED <<liveVars, shown, overtaken, drops>>

(* The answer arrives and is rendered, however old it is. *)
Loaded(f) ==
  /\ LoadStep(f, "answered", "idle")
  /\ shown' = fetched[f]
  /\ overtaken' = (fetched[f] # emails)
  /\ UNCHANGED <<liveVars, fetched, drops>>

(* load() catches an error of fetch and puts a notice in the list's place. *)
LoadFails(f) ==
  /\ load[f] # "idle" /\ LoadStep(f, load[f], "idle")
  /\ shown' = NoList
  /\ UNCHANGED <<liveVars, fetched, overtaken, drops>>

(* Slip, in the place of OnMessage: messages are left alone during a load. *)
OnMessageUnlessLoading ==
  /\ shown' = IF \A f \in Fetch : load[f] = "idle" THEN snapshot[Page] ELSE shown
  /\ overtaken' = FALSE
  /\ UNCHANGED <<load, fetched, drops>>

(* ws.onmessage *)
OnMessage ==
  /\ shown' = snapshot[Page]
  /\ overtaken' = FALSE
  /\ UNCHANGED <<load, fetched, drops>>

Message == (SendInitial(Page) \/ SendUpdate(Page)) /\ OnMessage

(* The handler's steps between its messages; a browser does not see them. *)
Unseen ==
  /\ InitialGetAll(Page) \/ Recv(Page) \/ Refresh(Page) \/ RecvLagged(Page)
  /\ UNCHANGED pageVars

(* connectWebSocket, when the page opens or wsRetryTimeout is over. *)
Reconnect == Connect(Page) /\ UNCHANGED pageVars

(* The network, a proxy or the server ends the connection. *)
Cut ==
  /\ drops < MaxDrops /\ drops' = drops + 1
  /\ Disconnect(Page)
  /\ UNCHANGED <<shown, load, fetched, overtaken>>

Others ==
  /\ \/ \E t \in Task \ Client : StoreChange(t) \/ NotifyAll(t)
     \/ \E c \in Client \ {Page} : Connect(c) \/ HandlerStep(c) \/ Disconnect(c)
  /\ UNCHANGED pageVars

PageNext ==
  \/ \E f \in Fetch : Request(f) \/ Answer(f) \/ Loaded(f) \/ LoadFails(f)
  \/ Message \/ Unseen \/ Reconnect \/ Cut
  \/ Others

PageSafety == PageInit /\ [][PageNext]_<<liveVars, pageVars>>

(***************************************************************************)
(* As in LiveUpdates; and the timer fires, since the page stays open.  No  *)
(* load is bound to be answered.                                           *)
(***************************************************************************)
PageSpec == PageSafety /\ Fairness /\ WF_liveVars(Connect(Page))
-----------------------------------------------------------------------------
Lists == {s \in Seq(1..MaxPush) : Len(s) <= MaxMails}

(* Types; no list that the page fetches or shows is longer than --max. *)
PageTypeOK ==
  /\ shown = NoList \/ shown \in Lists
  /\ load \in [Fetch -> {"idle", "sent", "answered"}]
  /\ \A f \in Fetch : fetched[f] \in Lists
  /\ overtaken \in BOOLEAN
  /\ drops \in 0..MaxDrops

(***************************************************************************)
(* "Initial load as fallback" (index.html:820), and the refresh button     *)
(* (index.html:766), do the page no harm as long as their answers are not  *)
(* behind the store when they arrive: with nothing on its way from the     *)
(* server the page then shows what the store holds, however loads,         *)
(* messages, reconnections and changes overlap.  An answer that was        *)
(* overtaken replaces a newer list, and stays until another change.        *)
(***************************************************************************)
PageCurrent ==
  Settled(Page) /\ ~missed[Page] /\ ~overtaken /\ shown # NoList => shown = emails

(***************************************************************************)
(* A page that is left open shows the store again and again, also when it  *)
(* lagged and when its WebSocket was cut (index.html:805-809, http.rs:223), *)
(* unless it has what the exceptions of PageCurrent leave it with.         *)
(***************************************************************************)
PageRecovers ==
  []<>(shown = emails \/ missed[Page] \/ overtaken \/ shown = NoList)
=============================================================================
