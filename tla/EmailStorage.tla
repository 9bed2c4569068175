---------------------------- MODULE EmailStorage ----------------------------
(***************************************************************************)
(* What the trait EmailStorage promises to the SMTP sessions and the HTTP  *)
(* handlers that share one store: every call takes effect at one instant,  *)
(* and a push into a full store drops the oldest mail and nothing else.    *)
(* A store that outlives the process may be opened again with another      *)
(* capacity, which the next push brings it down to.                        *)
(*                                                                         *)
(* A mail is named by the order of its arrival: 1 is the first mail ever   *)
(* pushed.  The program names mails by UUID, which is only ever compared   *)
(* for equality, so an arrival number tells apart as much and also dates   *)
(* the mail.                                                               *)
(***************************************************************************)
EXTENDS Naturals, Sequences, SequencesExt

CONSTANTS
  Task,        \* tasks that call the store
  Capacities,  \* values of the option --max
  MaxPush      \* bound: number of mails ever pushed

VARIABLES
  capacity,   \* --max of the process that has the store
  mails,      \* the mails retained, oldest first
  snapshot,   \* what the task's last get_all returned
  pushed      \* how many mails have been pushed so far

vars == <<capacity, mails, snapshot, pushed>>

Init ==
  /\ capacity \in Capacities
  /\ mails = <<>>
  /\ snapshot = [t \in Task |-> <<>>]
  /\ pushed = 0

(* The last mails of s: what a full store keeps. *)
Newest(s) ==
  IF Len(s) <= capacity THEN s ELSE SubSeq(s, Len(s) - capacity + 1, Len(s))

Push ==
  /\ pushed < MaxPush
  /\ pushed' = pushed + 1
  /\ mails' = Newest(Append(mails, pushed + 1))
  /\ UNCHANGED <<capacity, snapshot>>

Clear ==
  /\ mails' = <<>>
  /\ UNCHANGED <<capacity, snapshot, pushed>>

RemoveMail(i) ==
  /\ i \in DOMAIN mails
  /\ mails' = RemoveAt(mails, i)
  /\ UNCHANGED <<capacity, snapshot, pushed>>

GetAll(t) ==
  /\ snapshot' = [snapshot EXCEPT ![t] = mails]
  /\ UNCHANGED <<capacity, mails, pushed>>

(* The next process; the mails are those of the last one. *)
Reopen ==
  /\ capacity' \in Capacities
  /\ UNCHANGED <<mails, snapshot, pushed>>

Next ==
  \/ Push
  \/ Clear
  \/ \E i \in DOMAIN mails : RemoveMail(i)
  \/ \E t \in Task : GetAll(t)
  \/ Reopen

Spec == Init /\ [][Next]_vars
=============================================================================
