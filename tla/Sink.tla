-------------------------------- MODULE Sink --------------------------------
(***************************************************************************)
(* The whole program from start_sink to its end (lib.rs, main.rs): the     *)
(* SMTP listener and its sessions, the forwarder, the store, the HTTP      *)
(* server and its connections, and stop().  Everything is a task of its    *)
(* own.  stop() joins the listener and the HTTP server; the sessions, the  *)
(* WebSocket handlers and the forwarder are told nothing and go on until   *)
(* the process ends, which with main.rs is at once and for a program that  *)
(* embeds the library may be never.                                        *)
(*                                                                         *)
(* A session is seen from the end of a mail to its reply (SmtpSession has  *)
(* the rest); what the store does with a mail is in MemoryStore and        *)
(* SqliteStore, here it is kept.                                           *)
(***************************************************************************)
EXTENDS Forwarder, FiniteSets, SequencesExt

CONSTANTS
  Browser,   \* HTTP clients, each with at most one connection
  MaxMail    \* bound: mails ever received

ASSUME NamesAssumption == NoMail \notin Nat
ASSUME BoundAssumption == MaxMail \in Nat /\ QueueCapacity \in Nat \ {0}

VARIABLES
  main,        \* how far main, or the caller of the library, has come
  listener,    \* the task of run_smtp_server or run_smtps_server
  http,        \* the task of run_http_server
  conn,        \* the connection of each browser
  forwarding,  \* SmtpConfig::forward_handle is Some
  pc,          \* where each session is
  mail,        \* the mail each session has in hand
  received,    \* history: mails read to their end, named in that order
  offered,     \* history: mails put into the forwarder's queue, in order
  stored,      \* history: mails pushed into the store
  acked        \* history: mails answered with 250

serverVars == <<main, listener, http, conn>>
sessionVars == <<forwarding, pc, mail, received, offered, stored, acked>>
vars == <<forwarderVars, serverVars, sessionVars>>

(* stop() is in one of the three stages between "running" and "stopped";   *)
(* "exited" is the end main.rs comes to, "killed" any other.               *)
MainStage ==
  {"down", "running", "joining smtp", "joining http", "closing", "stopped",
   "exited", "killed"}

Stopping == main \in {"joining smtp", "joining http", "closing"}
Alive == main \notin {"exited", "killed"}

(* sending: there was room, the mail is not yet in the queue; waiting: for *)
(* room, and then to be polled; storing: queued, push not yet called;      *)
(* replying: pushed, the 250 not yet written.                              *)
SessionState == {"away", "open", "sending", "waiting", "storing", "replying"}

Init ==
  /\ ForwarderInit
  /\ main = "down" /\ listener = "off" /\ http = "off"
  /\ conn = [b \in Browser |-> "none"]
  /\ forwarding \in BOOLEAN
  /\ pc = [s \in Session |-> "away"]
  /\ mail = [s \in Session |-> NoMail]
  /\ received = 0 /\ offered = <<>> /\ stored = {} /\ acked = {}
-----------------------------------------------------------------------------
(* Start and stop.                                                         *)

(* start_sink: nobody can tell its steps apart, since no task runs before  *)
(* both ports are bound.                                                   *)
Start ==
  /\ main = "down"
  /\ main' = "running" /\ listener' = "accepting" /\ http' = "serving"
  /\ UNCHANGED <<forwarderVars, conn, sessionVars>>

(* The database, the certificate or one of the ports cannot be had:        *)
(* main prints the error and exits.                                        *)
StartFails ==
  /\ main = "down"
  /\ main' = "exited"
  /\ UNCHANGED <<forwarderVars, listener, http, conn, sessionVars>>

(* stop: shutdown_tx.send(()), after a signal or when the caller likes. *)
Stop ==
  /\ main = "running"
  /\ main' = "joining smtp"
  /\ UNCHANGED <<forwarderVars, listener, http, conn, sessionVars>>

(* The shutdown branch of the listener's select!.  It may have accepted    *)
(* connections since the message was sent; now the socket is closed.       *)
ListenerEnds ==
  /\ listener = "accepting"
  /\ Stopping
  /\ listener' = "ended"
  /\ UNCHANGED <<forwarderVars, main, http, conn, sessionVars>>

(* with_graceful_shutdown: no new connections or requests. *)
HttpDrains ==
  /\ http = "serving"
  /\ Stopping
  /\ http' = "draining"
  /\ UNCHANGED <<forwarderVars, main, listener, conn, sessionVars>>

(* axum::serve returns when the last request has been answered.  An        *)
(* upgraded connection is its handler's and no longer counts.              *)
HttpEnds ==
  /\ http = "draining"
  /\ \A b \in Browser : conn[b] # "request"
  /\ http' = "ended"
  /\ UNCHANGED <<forwarderVars, main, listener, conn, sessionVars>>

(* Slip, in the place of JoinSmtp: the sessions are joined as well. *)
JoinSmtpAndSessions ==
  /\ main = "joining smtp"
  /\ listener = "ended" /\ \A s \in Session : pc[s] = "away"
  /\ main' = "joining http"
  /\ UNCHANGED <<forwarderVars, listener, http, conn, sessionVars>>

(* stop: smtp_handle.await *)
JoinSmtp ==
  /\ main = "joining smtp"
  /\ listener = "ended"
  /\ main' = "joining http"
  /\ UNCHANGED <<forwarderVars, listener, http, conn, sessionVars>>

(* stop: http_handle.await *)
JoinHttp ==
  /\ main = "joining http"
  /\ http = "ended"
  /\ main' = "closing"
  /\ UNCHANGED <<forwarderVars, listener, http, conn, sessionVars>>

(* stop: store.close(), and back to the caller. *)
CloseStore ==
  /\ main = "closing"
  /\ main' = "stopped"
  /\ UNCHANGED <<forwarderVars, listener, http, conn, sessionVars>>

(* The process ends: sockets, tasks and memory are gone. *)
End(how) ==
  /\ main' = how
  /\ listener' = "off" /\ http' = "off"
  /\ conn' = [b \in Browser |-> "none"]
  /\ pc' = [s \in Session |-> "away"]
  /\ mail' = [s \in Session |-> NoMail]
  /\ queue' = <<>> /\ waiting' = <<>> /\ granted' = {}
  /\ relaying' = NoMail /\ ended' = TRUE
  /\ UNCHANGED <<attempted, forwarding, received, offered, stored, acked>>

(* Slip, in the place of Exit: no worker is waited for. *)
ExitAtOnce == main = "stopped" /\ End("exited")

(***************************************************************************)
(* main returns and the runtime is dropped: every task ends at the await   *)
(* it is in.  A worker finishes the poll it is in first, so no session     *)
(* ends between queueing a mail and pushing it, where there is no await,   *)
(* nor between finding room and queueing.                                  *)
(***************************************************************************)
Exit ==
  /\ main = "stopped"
  /\ \A s \in Session : pc[s] \notin {"sending", "storing"}
  /\ End("exited")

(* SIGKILL, or a signal before main listens for it. *)
Kill == Alive /\ End("killed")
-----------------------------------------------------------------------------
(* HTTP connections.                                                       *)

Hold(b, from, to) ==
  /\ conn[b] = from
  /\ conn' = [conn EXCEPT ![b] = to]
  /\ UNCHANGED <<forwarderVars, main, listener, http, sessionVars>>

Request(b) == http = "serving" /\ Hold(b, "none", "request")

(* The answer is written, or the browser is gone. *)
RequestDone(b) == Hold(b, "request", "none")

(* ws_handler: on_upgrade gives the connection to handle_websocket. *)
Upgrade(b) == Hold(b, "request", "socket")

(* The browser closes its page; LiveUpdates has the handler's other ends.  *)
SocketClosed(b) == Hold(b, "socket", "none")
-----------------------------------------------------------------------------
(* Sessions.                                                               *)

Move(s, from, to) == pc[s] = from /\ pc' = [pc EXCEPT ![s] = to]

(* The listener accepts and spawns handle_connection. *)
Accept(s) ==
  /\ listener = "accepting"
  /\ Move(s, "away", "open")
  /\ UNCHANGED <<forwarderVars, serverVars, forwarding, mail, received, offered,
                 stored, acked>>

(* read_data and parse_email are done: if there is a forwarder the mail is *)
(* for its queue, where there is room or not.                              *)
EndOfMail(s) ==
  /\ received < MaxMail
  /\ received' = received + 1
  /\ mail' = [mail EXCEPT ![s] = received + 1]
  /\ \/ ~forwarding /\ Move(s, "open", "storing") /\ UNCHANGED forwarderVars
     \/ forwarding /\ Move(s, "open", "sending") /\ Acquire(s)
     \/ forwarding /\ Move(s, "open", "waiting") /\ Wait(s)
  /\ UNCHANGED <<serverVars, forwarding, offered, stored, acked>>

(* The mail is queued: at once, or when the runtime polls the session that *)
(* has waited.  In between others may run.                                 *)
SendMail(s) ==
  /\ \/ Move(s, "sending", "storing")
     \/ Move(s, "waiting", "storing")
  /\ Send(s, mail[s])
  /\ offered' = Append(offered, mail[s])
  /\ UNCHANGED <<serverVars, forwarding, mail, received, stored, acked>>

(* store.push(record); session.reset() *)
StoreMail(s) ==
  /\ Move(s, "storing", "replying")
  /\ stored' = stored \cup {mail[s]}
  /\ UNCHANGED <<forwarderVars, serverVars, forwarding, mail, received, offered,
                 acked>>

(* The client gets its 250. *)
Reply(s) ==
  /\ Move(s, "replying", "open")
  /\ acked' = acked \cup {mail[s]}
  /\ mail' = [mail EXCEPT ![s] = NoMail]
  /\ UNCHANGED <<forwarderVars, serverVars, forwarding, received, offered, stored>>

(* The connection ends: between mails, or by a write that fails.  A        *)
(* session that waits for the forwarder does not look at its socket.       *)
Disconnect(s) ==
  /\ \/ Move(s, "open", "away")
     \/ Move(s, "replying", "away")
  /\ mail' = [mail EXCEPT ![s] = NoMail]
  /\ UNCHANGED <<forwarderVars, serverVars, forwarding, received, offered, stored,
                 acked>>
-----------------------------------------------------------------------------
(* The forwarder's task.                                                   *)

ReceiveMail == Receive /\ UNCHANGED <<serverVars, sessionVars>>

ForwardMail == ForwardEmail /\ UNCHANGED <<serverVars, sessionVars>>

(* Slip, in the place of ForwarderDone: only the listener holds a handle.  *)
ForwarderDoneWithListener ==
  /\ forwarding
  /\ ForwarderEnds(listener = "ended")
  /\ UNCHANGED <<serverVars, sessionVars>>

(* The senders are the handles in the listener's and the sessions' copies  *)
(* of SmtpConfig.                                                          *)
ForwarderDone ==
  /\ forwarding
  /\ ForwarderEnds(listener = "ended" /\ \A s \in Session : pc[s] = "away")
  /\ UNCHANGED <<serverVars, sessionVars>>

SessionStep(s) ==
  \/ Accept(s) \/ EndOfMail(s) \/ SendMail(s) \/ StoreMail(s) \/ Reply(s)
  \/ Disconnect(s)

BrowserStep(b) == Request(b) \/ RequestDone(b) \/ Upgrade(b) \/ SocketClosed(b)

MainStep ==
  \/ Start \/ StartFails \/ Stop
  \/ JoinSmtp \/ JoinHttp \/ CloseStore \/ Exit \/ Kill

ForwarderStep == ReceiveMail \/ ForwardMail \/ ForwarderDone

(* After the end, which is no deadlock. *)
Gone == ~Alive /\ UNCHANGED vars

Next ==
  \/ MainStep
  \/ ListenerEnds \/ HttpDrains \/ HttpEnds
  \/ ForwarderStep
  \/ \E s \in Session : SessionStep(s)
  \/ \E b \in Browser : BrowserStep(b)
  \/ Gone

Spec == Init /\ [][Next]_vars

(***************************************************************************)
(* As long as the process lives, the runtime polls every task that can     *)
(* proceed.  Nothing that comes from outside is certain: a client need not *)
(* send, read its reply or finish its request, and the relay need not      *)
(* answer, so ForwardMail may never come.                                  *)
(***************************************************************************)
Fairness ==
  /\ WF_vars(ListenerEnds)
  /\ WF_vars(HttpDrains \/ HttpEnds)
  /\ WF_vars(JoinSmtp \/ JoinHttp \/ CloseStore)
  /\ WF_vars(ReceiveMail)
  /\ \A s \in Session : WF_vars(SendMail(s) \/ StoreMail(s))

FairSpec == Spec /\ Fairness
-----------------------------------------------------------------------------
ServerTypeOK ==
  /\ main \in MainStage
  /\ listener \in {"off", "accepting", "ended"}
  /\ http \in {"off", "serving", "draining", "ended"}
  /\ conn \in [Browser -> {"none", "request", "socket"}]

QueueTypeOK ==
  /\ queue \in Seq(1..received) /\ Len(queue) <= QueueCapacity
  /\ waiting \in Seq(Session) /\ granted \subseteq Session
  /\ relaying \in 1..received \cup {NoMail}
  /\ attempted \in Seq(1..received)
  /\ ended \in BOOLEAN

SessionTypeOK ==
  /\ forwarding \in BOOLEAN
  /\ pc \in [Session -> SessionState]
  /\ mail \in [Session -> 1..received \cup {NoMail}]
  /\ \A s \in Session : mail[s] = NoMail <=> pc[s] \in {"away", "open"}
  /\ received \in 0..MaxMail
  /\ offered \in Seq(1..received)
  /\ stored \subseteq 1..received /\ acked \subseteq 1..received

(* Types; a session has a mail in hand from its end to the reply. *)
TypeOK == ServerTypeOK /\ QueueTypeOK /\ SessionTypeOK

(***************************************************************************)
(* However many sessions end their mails at once, wait for room and lose   *)
(* their clients, and whenever the program stops (smtp.rs:410-421,         *)
(* forward.rs:66-79): a mail is offered to the relay before it is kept and *)
(* kept before it is acknowledged, and the relay is tried with each mail   *)
(* once, in the order in which they were offered.                          *)
(***************************************************************************)
Mailing == INSTANCE Delivery WITH Mail <- 1..MaxMail

ImplementsDelivery == Mailing!Spec

(***************************************************************************)
(* A mail goes to the forwarder before it goes to the store                *)
(* (smtp.rs:414-418), and the relay may have it before the store does; but *)
(* unless the process is killed no session ends in between, so the program *)
(* never exits having forwarded a mail that it did not keep.               *)
(***************************************************************************)
ForwardedIsStored ==
  main # "killed" =>
    \A m \in ToSet(offered) \ stored :
      \E s \in Session : pc[s] = "storing" /\ mail[s] = m

(***************************************************************************)
(* What an end of the process at any moment can cost the relay of mails    *)
(* that were answered with 250: those in the queue (forward.rs:53) and the *)
(* one in forward_email, however many sessions there are.  The sessions    *)
(* that wait for room have not answered.                                   *)
(***************************************************************************)
LossBounded ==
  forwarding => Cardinality(acked \ ToSet(attempted)) <= QueueCapacity + 1

(***************************************************************************)
(* The forwarder's task ends (forward.rs:72, when recv yields None) with   *)
(* nothing left to do and nobody left who could give it more, so forward   *)
(* never finds the channel closed (forward.rs:186): every mail that was    *)
(* kept has been tried by then, and no session will ever queue another.    *)
(***************************************************************************)
EndsWithNothingLeft ==
  Alive /\ ended =>
    /\ listener = "ended" /\ \A s \in Session : pc[s] = "away"
    /\ stored \subseteq ToSet(attempted)

(***************************************************************************)
(* Mails may be queued in another order than they came in (smtp.rs:415,    *)
(* forward.rs:186), but only a session that has got its place in the queue *)
(* can be overtaken: who still waits has a later mail than all that have   *)
(* been queued and all that have a place.                                  *)
(***************************************************************************)
InTurn ==
  \A s \in ToSet(waiting) :
    \A m \in ToSet(offered) \cup {mail[t] : t \in granted} : m < mail[s]

(***************************************************************************)
(* No try lasts for ever.  The code does not see to it, since nothing      *)
(* limits transport.send (forward.rs:147): it is up to the relay.          *)
(***************************************************************************)
RelayAnswers == []<>(relaying = NoMail)

(***************************************************************************)
(* If the relay answers, no session is stuck between the end of a mail and *)
(* its place in the store: who waits for room in the queue of 100          *)
(* (smtp.rs:415, forward.rs:53) gets it, whatever the relay's answers are  *)
(* and whatever the other sessions do, for as long as the process lives.   *)
(***************************************************************************)
WaitingIsServed ==
  RelayAnswers =>
    \A s \in Session : []<>(pc[s] \notin {"sending", "waiting", "storing"})

(***************************************************************************)
(* If the relay answers, every mail that was queued is tried, also after   *)
(* errors and after stop(), as long as the process lives: the task ends    *)
(* only when the queue is empty and nobody can fill it again               *)
(* (forward.rs:72).                                                        *)
(***************************************************************************)
QueueDrains ==
  RelayAnswers =>
    \A m \in 1..MaxMail :
      []<>(Alive /\ m \in ToSet(offered) => m \in ToSet(attempted))

(***************************************************************************)
(* stop() comes to its end (lib.rs:78-84) although clients keep their SMTP *)
(* sessions and their WebSockets open and the relay is slow: only a        *)
(* request that is never finished can hold it up.                          *)
(***************************************************************************)
StopEnds ==
  (\A b \in Browser : []<>(conn[b] # "request")) => []<>~Stopping

(***************************************************************************)
(* "Forward all emails to another server" (README.md:100), "Stop both      *)
(* servers gracefully" (lib.rs:77): a program that has exited in good      *)
(* order has tried to forward every mail that it answered with 250.  But   *)
(* stop() joins neither the sessions nor the forwarder, and main.rs exits  *)
(* as soon as it returns, with whatever is still in the queue.             *)
(***************************************************************************)
AllForwarded ==
  main = "exited" /\ forwarding => acked \subseteq ToSet(attempted)
=============================================================================
