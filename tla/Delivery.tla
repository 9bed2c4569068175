------------------------------ MODULE Delivery ------------------------------
(***************************************************************************)
(* What becomes of a mail that a client has sent to its end, whoever else  *)
(* is served at the same time: it is offered to the forwarder if there is  *)
(* one, then kept, then acknowledged; and the forwarder tries the mails    *)
(* one after the other in the order in which they were offered, each of    *)
(* them once.  Of mails that come in at the same time any may be offered   *)
(* first.  Tries may fail and come early (before the mail is kept) or late.*)
(***************************************************************************)
EXTENDS Naturals, Sequences, SequencesExt

CONSTANT Mail   \* the mails that clients may send

VARIABLES
  forwarding,   \* a relay is configured
  offered,      \* mails offered to the forwarder, in order
  attempted,    \* mails it has tried to forward, in order
  stored,       \* mails kept by the store
  acked         \* mails answered with 250

vars == <<forwarding, offered, attempted, stored, acked>>

Init ==
  /\ forwarding \in BOOLEAN
  /\ offered = <<>> /\ attempted = <<>> /\ stored = {} /\ acked = {}

Offer(m) ==
  /\ forwarding
  /\ m \notin ToSet(offered)
  /\ offered' = Append(offered, m)
  /\ UNCHANGED <<forwarding, attempted, stored, acked>>

Keep(m) ==
  /\ forwarding => m \in ToSet(offered)
  /\ m \notin stored
  /\ stored' = stored \cup {m}
  /\ UNCHANGED <<forwarding, offered, attempted, acked>>

Acknowledge(m) ==
  /\ m \in stored \ acked
  /\ acked' = acked \cup {m}
  /\ UNCHANGED <<forwarding, offered, attempted, stored>>

Attempt ==
  /\ Len(attempted) < Len(offered)
  /\ attempted' = Append(attempted, offered[Len(attempted) + 1])
  /\ UNCHANGED <<forwarding, offered, stored, acked>>

Next ==
  \/ \E m \in Mail : Offer(m) \/ Keep(m) \/ Acknowledge(m)
  \/ Attempt

Spec == Init /\ [][Next]_vars
=============================================================================
