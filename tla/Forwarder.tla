----------------------------- MODULE Forwarder -----------------------------
(***************************************************************************)
(* The forwarder (forward.rs): a bounded queue that the sessions fill and  *)
(* one task that empties it, mail by mail.  tokio's channel is a semaphore *)
(* with one permit for each place in the queue, and a list.  A session     *)
(* takes a permit if there is one to be had and else waits for one, and    *)
(* those who wait are served in their order; but it puts its mail into the *)
(* list by itself, when it runs again, so one that got its permit later    *)
(* may be there first.                                                     *)
(*                                                                         *)
(* The task does not care what came of a mail: the errors of forward_email *)
(* -- a bad address, a relay that refuses or is away -- are only           *)
(* logged, and the mail is neither tried again nor put back.               *)
(***************************************************************************)
EXTENDS Naturals, Sequences, FiniteSets

CONSTANTS
  Session,        \* those who may send
  NoMail,         \* the task has no mail in hand
  QueueCapacity   \* forward.rs:53, mpsc::channel(100)

VARIABLES
  queue,       \* mails in the channel
  waiting,     \* sessions that wait for a permit, first come first
  granted,     \* sessions that have a permit and not yet used it
  relaying,    \* the mail in forward_email, or NoMail
  attempted,   \* history: mails that forward_email is done with
  ended        \* run has returned

forwarderVars == <<queue, waiting, granted, relaying, attempted, ended>>

ForwarderInit ==
  /\ queue = <<>> /\ waiting = <<>> /\ granted = {}
  /\ relaying = NoMail /\ attempted = <<>>
  /\ ended = FALSE

(* There is a permit to be had. *)
Room == Len(queue) + Cardinality(granted) < QueueCapacity

(* Slips, each in the place of the definition it is named after. *)

(* mpsc::unbounded_channel: there is always room. *)
AcquireUnbounded(s) ==
  /\ granted' = granted \cup {s}
  /\ UNCHANGED <<queue, waiting, relaying, attempted, ended>>

(* The session that came last is served first. *)
GrantLast ==
  /\ waiting # <<>>
  /\ granted' = granted \cup {waiting[Len(waiting)]}
  /\ waiting' = SubSeq(waiting, 1, Len(waiting) - 1)

(* A mail that could not be forwarded is put back. *)
ForwardEmailPutsBack ==
  /\ relaying # NoMail
  /\ relaying' = NoMail
  /\ attempted' = Append(attempted, relaying)
  /\ queue' \in {queue, Append(queue, relaying)}
  /\ UNCHANGED <<waiting, granted, ended>>

(* `?` on the result of forward_email: an error ends the task. *)
ForwardEndsOnError ==
  /\ relaying # NoMail
  /\ relaying' = NoMail
  /\ attempted' = Append(attempted, relaying)
  /\ ended' \in BOOLEAN
  /\ UNCHANGED <<queue, waiting, granted>>

(* The task listens to the shutdown channel, too. *)
ForwarderEndsEarly(sendersGone) ==
  /\ ~ended /\ relaying = NoMail
  /\ ended' = TRUE
  /\ UNCHANGED <<queue, waiting, granted, relaying, attempted>>
-----------------------------------------------------------------------------
(* ForwardHandle::forward begins, and there is room. *)
Acquire(s) ==
  /\ Room
  /\ granted' = granted \cup {s}
  /\ UNCHANGED <<queue, waiting, relaying, attempted, ended>>

(* ForwardHandle::forward begins, and there is none. *)
Wait(s) ==
  /\ ~Room
  /\ waiting' = Append(waiting, s)
  /\ UNCHANGED <<queue, granted, relaying, attempted, ended>>

(* ForwardHandle::forward returns: the mail is in the queue. *)
Send(s, m) ==
  /\ s \in granted
  /\ granted' = granted \ {s}
  /\ queue' = Append(queue, m)
  /\ UNCHANGED <<waiting, relaying, attempted, ended>>

(* A permit that is given back goes to the session that has waited longest. *)
Grant ==
  /\ waiting # <<>>
  /\ granted' = granted \cup {Head(waiting)}
  /\ waiting' = Tail(waiting)

(* `while let Some(email) = rx.recv().await`: recv gives the permit back. *)
Receive ==
  /\ ~ended
  /\ relaying = NoMail /\ queue # <<>>
  /\ relaying' = Head(queue)
  /\ queue' = Tail(queue)
  /\ \/ Grant
     \/ waiting = <<>> /\ UNCHANGED <<waiting, granted>>
  /\ UNCHANGED <<attempted, ended>>

(* forward_email returns, with Ok or with an error; nothing makes it: the  *)
(* code puts no timeout around transport.send (forward.rs:147).            *)
ForwardEmail ==
  /\ relaying # NoMail
  /\ relaying' = NoMail
  /\ attempted' = Append(attempted, relaying)
  /\ UNCHANGED <<queue, waiting, granted, ended>>

(* recv yields None: the queue is empty and every sender is dropped. *)
ForwarderEnds(sendersGone) ==
  /\ ~ended /\ sendersGone
  /\ relaying = NoMail /\ queue = <<>>
  /\ ended' = TRUE
  /\ UNCHANGED <<queue, waiting, granted, relaying, attempted>>
=============================================================================
