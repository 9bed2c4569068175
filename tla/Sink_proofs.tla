----------------------------- MODULE Sink_proofs -----------------------------
(***************************************************************************)
(* Proofs about the whole program, for any number of sessions, browsers    *)
(* and mails, and any capacity of the forwarder's queue.                   *)
(***************************************************************************)
EXTENDS Sink, SequenceLemmas, SequenceTheorems, FiniteSetTheorems, TLAPS

(* Nothing runs: the program has not started yet, or it has ended. *)
Dormant == main \in {"down", "exited", "killed"}

(* Steps that concern neither a mail nor its sessions. *)
Quiet ==
  /\ UNCHANGED <<forwarderVars, sessionVars>>
  /\ Dormant' => Dormant /\ listener' = listener
  /\ Alive' => Alive
  /\ main = "killed" => main' = "killed"
  /\ main' = "down" => main = "down"
  /\ main # "down" /\ listener = "ended" => listener' = "ended"

(* Without a process, or before it has started, there is nothing to do. *)
Idle ==
  /\ listener = "off"
  /\ queue = <<>> /\ relaying = NoMail
  /\ \A s \in Session : pc[s] = "away"

InHand == IF relaying = NoMail THEN 0 ELSE 1

(* The mails offered to the forwarder are those it has tried, the one it is *)
(* trying and those in its queue, in this order.                            *)
InLine ==
  /\ Len(offered) = Len(attempted) + InHand + Len(queue)
  /\ relaying # NoMail => relaying = offered[Len(attempted) + 1]
  /\ \A i \in 1..Len(queue) : queue[i] = offered[Len(attempted) + InHand + i]

(***************************************************************************)
(* The process loses the mails in the forwarder's queue only with itself.  *)
(***************************************************************************)
QueueInv == (Dormant => Idle) /\ (Alive => InLine)

(***************************************************************************)
(* A place in the queue is taken by a mail or promised to a session that   *)
(* has a permit, and nobody waits while there is a place left.             *)
(***************************************************************************)
PermitInv ==
  /\ IsFiniteSet(granted)
  /\ Len(queue) + Cardinality(granted) <= QueueCapacity
  /\ Room => waiting = <<>>

(***************************************************************************)
(* Who has a mail to queue has a permit or waits for one, and nobody both; *)
(* who waits has a later mail than all in front of it.                     *)
(***************************************************************************)
OrderInv ==
  /\ \A s \in Session :
       /\ pc[s] = "sending" => s \in granted
       /\ pc[s] = "waiting" => s \in granted \cup ToSet(waiting)
       /\ pc[s] \in {"sending", "waiting"} => forwarding
  /\ \A s \in granted : pc[s] \in {"sending", "waiting"}
  /\ \A s \in ToSet(waiting) : pc[s] = "waiting" /\ s \notin granted
  /\ \A i, j \in 1..Len(waiting) :
       i < j => mail[waiting[i]] < mail[waiting[j]]
  /\ InTurn

(***************************************************************************)
(* What has become of the mails that the sessions have in hand.            *)
(***************************************************************************)
HandInv ==
  /\ \A s, t \in Session : mail[s] = mail[t] => s = t \/ mail[s] = NoMail
  /\ \A s \in Session :
       /\ pc[s] \in {"sending", "waiting"} => mail[s] \notin ToSet(offered)
       /\ pc[s] \in {"sending", "waiting", "storing"} => mail[s] \notin stored
       /\ pc[s] = "storing" /\ forwarding => mail[s] \in ToSet(offered)
       /\ pc[s] = "replying" => mail[s] \in stored \ acked
  /\ acked \subseteq stored

IInv ==
  TypeOK /\ PermitInv /\ QueueInv /\ OrderInv /\ HandInv /\ ForwardedIsStored

(***************************************************************************)
(* What a step of the program can be, as far as the mails are concerned.   *)
(***************************************************************************)
LEMMA StepKinds ==
  ASSUME [Next]_vars
  PROVE  \/ Quiet
         \/ main = "stopped" /\ Exit
         \/ Kill
         \/ ReceiveMail \/ ForwardMail \/ ForwarderDone
         \/ \E s \in Session : SessionStep(s)
<1> USE DEF Quiet, Dormant, Alive
<1>1. CASE UNCHANGED vars
  BY <1>1 DEF vars, serverVars
<1>2. CASE Start \/ StartFails \/ Stop
  BY <1>2 DEF Start, StartFails, Stop
<1>3. CASE JoinSmtp \/ JoinHttp \/ CloseStore
  BY <1>3 DEF JoinSmtp, JoinHttp, CloseStore
<1>4. CASE ListenerEnds \/ HttpDrains \/ HttpEnds
  BY <1>4 DEF ListenerEnds, HttpDrains, HttpEnds, Stopping
<1>5. CASE \E b \in Browser : BrowserStep(b)
  BY <1>5 DEF BrowserStep, Request, RequestDone, Upgrade, SocketClosed, Hold
<1>6. CASE Exit \/ Kill
  BY <1>6 DEF Exit
<1>7. CASE Gone
  BY <1>7, <1>1 DEF Gone
<1>8. QED
  BY <1>1, <1>2, <1>3, <1>4, <1>5, <1>6, <1>7
     DEF Next, MainStep, ForwarderStep
-----------------------------------------------------------------------------
(* Types.                                                                  *)

LEMMA TypeInit == Init => TypeOK
<1> SUFFICES ASSUME Init PROVE TypeOK
  OBVIOUS
<1> USE NamesAssumption, BoundAssumption DEF Init, ForwarderInit
<1>1. received = 0 /\ NoMail \in 1..received \cup {NoMail} /\ 0 \in 0..MaxMail
  OBVIOUS
<1>2. /\ queue \in Seq(1..received) /\ Len(queue) <= QueueCapacity
      /\ waiting \in Seq(Session) /\ granted \subseteq Session
      /\ attempted \in Seq(1..received) /\ offered \in Seq(1..received)
  <2>0. granted \subseteq Session
    OBVIOUS
  <2>1. queue = <<>> /\ waiting = <<>> /\ attempted = <<>> /\ offered = <<>>
    OBVIOUS
  <2>2. Len(<<>>) <= QueueCapacity
    OBVIOUS
  <2> HIDE NamesAssumption, BoundAssumption DEF Init, ForwarderInit
  <2>3. QED
    BY <2>0, <2>1, <2>2
<1>3. /\ pc \in [Session -> SessionState]
      /\ mail \in [Session -> 1..received \cup {NoMail}]
      /\ conn \in [Browser -> {"none", "request", "socket"}]
      /\ \A s \in Session : mail[s] = NoMail <=> pc[s] \in {"away", "open"}
  BY <1>1 DEF SessionState
<1>4. QED
  BY <1>1, <1>2, <1>3
     DEF TypeOK, ServerTypeOK, QueueTypeOK, SessionTypeOK, MainStage

(***************************************************************************)
(* A permit is a place in the queue.                                       *)
(***************************************************************************)
LEMMA PermitIsPlace ==
  ASSUME PermitInv, queue \in Seq(1..received), NEW s \in granted
  PROVE  Len(queue) < QueueCapacity
<1>1. IsFiniteSet(granted)
  BY DEF PermitInv
<1>2. Cardinality(granted \ {s}) = Cardinality(granted) - 1
  BY <1>1, FS_RemoveElement
<1>3. Cardinality(granted \ {s}) \in Nat /\ Cardinality(granted) \in Nat
  BY <1>1, FS_RemoveElement, FS_CardinalityType
<1>4. QED
  BY <1>2, <1>3, BoundAssumption DEF PermitInv

(***************************************************************************)
(* Every step of the program (lib.rs, smtp.rs, forward.rs) keeps the types:*)
(* one step for each kind of action that StepKinds names.                  *)
(***************************************************************************)
LEMMA TypeStep == TypeOK /\ PermitInv /\ [Next]_vars => TypeOK'
<1> SUFFICES ASSUME TypeOK, PermitInv, [Next]_vars PROVE TypeOK'
  OBVIOUS
<1> USE NamesAssumption, BoundAssumption
<1>1. ServerTypeOK'
  <2> USE DEF ServerTypeOK
  <2>1. ServerTypeOK
    BY DEF TypeOK
  <2>2. CASE UNCHANGED serverVars
    BY <2>1, <2>2 DEF serverVars
  <2>3. CASE MainStep
    BY <2>1, <2>3 DEF MainStep, Start, StartFails, Stop, JoinSmtp, JoinHttp,
                     CloseStore, Exit, Kill, End, MainStage
  <2>4. CASE ListenerEnds \/ HttpDrains \/ HttpEnds
    BY <2>1, <2>4 DEF ListenerEnds, HttpDrains, HttpEnds
  <2>5. CASE \E b \in Browser : BrowserStep(b)
    BY <2>1, <2>5 DEF BrowserStep, Request, RequestDone, Upgrade, SocketClosed, Hold
  <2>6. ForwarderStep => UNCHANGED serverVars
    BY DEF ForwarderStep, ReceiveMail, ForwardMail, ForwarderDone
  <2>7. (\E s \in Session : SessionStep(s)) => UNCHANGED serverVars
    BY DEF SessionStep, Accept, EndOfMail, SendMail, StoreMail, Reply, Disconnect
  <2>8. Gone \/ UNCHANGED vars => UNCHANGED serverVars
    BY DEF Gone, vars
  <2>9. QED
    BY <2>2, <2>3, <2>4, <2>5, <2>6, <2>7, <2>8 DEF Next
<1>2. QueueTypeOK' /\ SessionTypeOK'
  <2> USE DEF QueueTypeOK, SessionTypeOK
  <2>0. QueueTypeOK /\ SessionTypeOK
    BY DEF TypeOK
  <2>1. CASE Quiet
    BY <2>0, <2>1 DEF Quiet, forwarderVars, sessionVars
  <2>2. CASE Exit \/ Kill
    <3>1. \E how \in MainStage : End(how)
      BY <2>2 DEF Exit, Kill, MainStage
    <3>2. /\ queue' = <<>> /\ waiting' = <<>> /\ granted' = {}
          /\ relaying' = NoMail
          /\ ended' = TRUE
          /\ pc' = [s \in Session |-> "away"] /\ mail' = [s \in Session |-> NoMail]
          /\ UNCHANGED <<attempted, forwarding, received, offered, stored, acked>>
      BY <3>1 DEF End
    <3>3. QueueTypeOK'
      BY <2>0, <3>2
    <3>4. QED
      BY <2>0, <3>2, <3>3 DEF SessionState
  <2>3. CASE ReceiveMail
    <3>1. /\ queue # <<>> /\ relaying' = Head(queue) /\ queue' = Tail(queue)
          /\ UNCHANGED <<attempted, ended>>
          /\ UNCHANGED <<forwarding, pc, mail, received, offered, stored, acked>>
      BY <2>3 DEF ReceiveMail, Receive, sessionVars
    <3>2. waiting' \in Seq(Session) /\ granted' \subseteq Session
      <4>1. \/ UNCHANGED <<waiting, granted>>
            \/ /\ waiting # <<>> /\ waiting' = Tail(waiting)
               /\ granted' = granted \cup {Head(waiting)}
        BY <2>3 DEF ReceiveMail, Receive, Grant
      <4>2. waiting # <<>> => Tail(waiting) \in Seq(Session) /\ Head(waiting) \in Session
        BY <2>0
      <4>3. QED
        BY <2>0, <4>1, <4>2
    <3>3. /\ queue' \in Seq(1..received) /\ Len(queue') <= QueueCapacity
          /\ relaying' \in 1..received
      BY <2>0, <3>1
    <3>4. QED
      BY <2>0, <3>1, <3>2, <3>3
  <2>4. CASE ForwardMail
    BY <2>0, <2>4 DEF ForwardMail, ForwardEmail, sessionVars
  <2>5. CASE ForwarderDone
    BY <2>0, <2>5 DEF ForwarderDone, ForwarderEnds, sessionVars
  <2>6. ASSUME NEW s \in Session, Accept(s) PROVE QueueTypeOK' /\ SessionTypeOK'
    BY <2>0, <2>6 DEF Accept, Move, SessionState, forwarderVars
  <2>7. ASSUME NEW s \in Session, EndOfMail(s) PROVE QueueTypeOK' /\ SessionTypeOK'
    <3>1. /\ received' = received + 1 /\ received' \in 0..MaxMail
          /\ 1..received \subseteq 1..received' /\ received' \in 1..received'
      BY <2>0, <2>7 DEF EndOfMail
    <3>2. /\ queue \in Seq(1..received') /\ attempted \in Seq(1..received')
          /\ offered \in Seq(1..received')
      BY <2>0, <3>1, SeqMonotonic
    <3>3. pc' \in [Session -> SessionState]
      BY <2>0, <2>7 DEF EndOfMail, Move, SessionState
    <3>4. mail' \in [Session -> 1..received' \cup {NoMail}]
      <4>1. mail' = [mail EXCEPT ![s] = received']
        BY <2>7 DEF EndOfMail
      <4>2. mail \in [Session -> 1..received' \cup {NoMail}]
        BY <2>0, <3>1
      <4>3. QED
        <5> DEFINE Named == 1..received' \cup {NoMail}
        <5>1. received' \in Named /\ mail \in [Session -> Named]
          BY <3>1, <4>2
        <5> HIDE DEF Named
        <5>2. mail' \in [Session -> Named]
          BY <4>1, <5>1
        <5> QED
          BY <5>2 DEF Named
    <3>5. QueueTypeOK'
      <4>1. UNCHANGED <<queue, relaying, attempted, ended>>
        BY <2>7 DEF EndOfMail, Acquire, Wait, forwarderVars
      <4>2. waiting' \in Seq(Session) /\ granted' \subseteq Session
        <5>1. /\ waiting' = waiting \/ waiting' = Append(waiting, s)
              /\ granted' = granted \/ granted' = granted \cup {s}
          BY <2>7 DEF EndOfMail, Acquire, Wait, forwarderVars
        <5>2. Append(waiting, s) \in Seq(Session)
          BY <2>0
        <5>3. QED
          BY <2>0, <5>1, <5>2
      <4>3. QED
        BY <2>0, <3>1, <3>2, <4>1, <4>2
    <3>6. SessionTypeOK'
      <4>1. UNCHANGED <<forwarding, offered, stored, acked>>
        BY <2>7 DEF EndOfMail
      <4>2. mail' = [mail EXCEPT ![s] = received'] /\ mail'[s] # NoMail
        BY <2>0, <2>7, <3>1, <3>4 DEF EndOfMail
      <4>3. /\ pc[s] = "open" /\ pc'[s] \in {"storing", "sending", "waiting"}
            /\ \A t \in Session \ {s} : pc'[t] = pc[t]
        BY <2>0, <2>7 DEF EndOfMail, Move
      <4>4. \A t \in Session : mail'[t] = NoMail <=> pc'[t] \in {"away", "open"}
        BY <2>0, <4>2, <4>3
      <4>5. QED
        BY <2>0, <3>1, <3>2, <3>3, <3>4, <4>1, <4>4
    <3>7. QED
      BY <3>5, <3>6
  <2>8. ASSUME NEW s \in Session, SendMail(s) PROVE QueueTypeOK' /\ SessionTypeOK'
    <3>1. UNCHANGED <<forwarding, mail, received, stored, acked>>
      BY <2>8 DEF SendMail
    <3>2. pc' \in [Session -> SessionState]
      BY <2>0, <2>8 DEF SendMail, Move, SessionState
    <3>3. mail[s] \in 1..received
      BY <2>0, <2>8 DEF SendMail, Move
    <3>4. /\ s \in granted /\ granted' = granted \ {s}
          /\ queue' = Append(queue, mail[s]) /\ offered' = Append(offered, mail[s])
          /\ UNCHANGED <<waiting, relaying, attempted, ended>>
          /\ \A t \in Session \ {s} : pc'[t] = pc[t]
          /\ pc[s] \in {"sending", "waiting"} /\ pc'[s] = "storing"
      BY <2>0, <2>8 DEF SendMail, Send, Move
    <3>5. Len(queue) < QueueCapacity
      BY <2>0, <3>4, PermitIsPlace
    <3>6. QueueTypeOK'
      BY <2>0, <3>1, <3>3, <3>4, <3>5
    <3>7. \A t \in Session : mail'[t] = NoMail <=> pc'[t] \in {"away", "open"}
      BY <2>0, <3>1, <3>4
    <3>8. SessionTypeOK'
      BY <2>0, <3>1, <3>2, <3>3, <3>4, <3>7
    <3>9. QED
      BY <3>6, <3>8
  <2>9. ASSUME NEW s \in Session, StoreMail(s) PROVE QueueTypeOK' /\ SessionTypeOK'
    <3>1. mail[s] \in 1..received
      BY <2>0, <2>9 DEF StoreMail, Move
    <3>2. QED
      BY <2>0, <2>9, <3>1 DEF StoreMail, Move, SessionState, forwarderVars
  <2>10. ASSUME NEW s \in Session, Reply(s) PROVE QueueTypeOK' /\ SessionTypeOK'
    <3>1. mail[s] \in 1..received
      BY <2>0, <2>10 DEF Reply, Move
    <3>2. UNCHANGED <<forwarderVars, forwarding, received, offered, stored>>
      BY <2>10 DEF Reply
    <3>3. /\ pc' \in [Session -> SessionState]
          /\ mail' \in [Session -> 1..received \cup {NoMail}]
          /\ \A t \in Session : mail'[t] = NoMail <=> pc'[t] \in {"away", "open"}
      BY <2>0, <2>10 DEF Reply, Move, SessionState
    <3>4. acked' \subseteq 1..received
      <4>1. acked' = acked \cup {mail[s]}
        BY <2>10 DEF Reply
      <4>2. QED
        BY <2>0, <2>10, <3>1, <4>1
    <3>5. QED
      BY <2>0, <3>2, <3>3, <3>4 DEF forwarderVars
  <2>11. ASSUME NEW s \in Session, Disconnect(s) PROVE QueueTypeOK' /\ SessionTypeOK'
    BY <2>0, <2>11 DEF Disconnect, Move, SessionState, forwarderVars
  <2> USE DEF SessionStep
  <2> HIDE DEF QueueTypeOK, SessionTypeOK
  <2>12. QED
    BY <2>1, <2>2, <2>3, <2>4, <2>5, <2>6, <2>7, <2>8, <2>9, <2>10, <2>11,
       StepKinds
<1>3. QED
  BY <1>1, <1>2 DEF TypeOK
-----------------------------------------------------------------------------
(* The forwarder's queue.                                                  *)

(***************************************************************************)
(* A mail put at the end of the queue, and of the mails offered.           *)
(***************************************************************************)
LEMMA JoinsLine ==
  ASSUME TypeOK, InLine, NEW m,
         queue' = Append(queue, m), offered' = Append(offered, m),
         UNCHANGED <<relaying, attempted>>
  PROVE  InLine'
<1> DEFINE n == Len(attempted) + InHand
<1>1. /\ queue \in Seq(1..received) /\ offered \in Seq(1..received)
      /\ attempted \in Seq(1..received)
  BY DEF TypeOK, QueueTypeOK, SessionTypeOK
<1>2. n \in Nat /\ Len(offered) = n + Len(queue) /\ n' = n
  BY <1>1 DEF InLine, InHand
<1>3. /\ Len(queue') = Len(queue) + 1 /\ Len(offered') = Len(offered) + 1
      /\ \A i \in 1..Len(queue) : queue'[i] = queue[i]
      /\ \A i \in 1..Len(offered) : offered'[i] = offered[i]
      /\ queue'[Len(queue) + 1] = m /\ offered'[Len(offered) + 1] = m
  BY <1>1
<1>4. Len(offered') = n' + Len(queue')
  BY <1>1, <1>2, <1>3
<1>5. relaying' # NoMail => relaying' = offered'[Len(attempted') + 1]
  <2> SUFFICES ASSUME relaying # NoMail
               PROVE  offered'[Len(attempted) + 1] = offered[Len(attempted) + 1]
    BY DEF InLine
  <2>1. n = Len(attempted) + 1
    BY DEF InHand
  <2> HIDE DEF n
  <2>2. Len(attempted) + 1 \in 1..Len(offered)
    BY <1>1, <1>2, <2>1
  <2>3. QED
    BY <1>3, <2>2
<1>6. ASSUME NEW i \in 1..Len(queue') PROVE queue'[i] = offered'[n' + i]
  <2>1. \A j \in 1..Len(queue) : queue[j] = offered[n + j]
    BY DEF InLine
  <2> HIDE DEF n
  <2>2. CASE i \in 1..Len(queue)
    <3>1. n + i \in 1..Len(offered)
      BY <1>1, <1>2, <2>2
    <3>2. QED
      BY <1>2, <1>3, <2>1, <2>2, <3>1
  <2>3. CASE i = Len(queue) + 1
    BY <1>1, <1>2, <1>3, <2>3
  <2>4. i \in 1..Len(queue) \/ i = Len(queue) + 1
    <3>1. Len(queue) \in Nat /\ i \in 1..(Len(queue) + 1)
      BY <1>1, <1>3
    <3>2. QED
      BY <3>1
  <2>5. QED
    BY <2>2, <2>3, <2>4
<1>7. QED
  BY <1>4, <1>5, <1>6 DEF InLine

(***************************************************************************)
(* At the start nothing is in hand or queued, and nobody forwards.         *)
(***************************************************************************)
LEMMA QueueInit == Init => QueueInv
<1> SUFFICES ASSUME Init PROVE QueueInv
  OBVIOUS
<1>1. /\ queue = <<>> /\ attempted = <<>> /\ offered = <<>>
      /\ relaying = NoMail
  BY DEF Init, ForwarderInit
<1>2. InLine
  BY <1>1 DEF InLine, InHand
<1>3. Idle
  BY <1>1 DEF Init, ForwarderInit, Idle
<1>4. QED
  BY <1>2, <1>3 DEF QueueInv

(***************************************************************************)
(* What was offered is what has been tried, what is under way and what is  *)
(* queued, in this order (forward.rs:66-79), and no step tears it apart    *)
(* while the process lives.                                                *)
(***************************************************************************)
LEMMA QueueStep == TypeOK /\ QueueInv /\ [Next]_vars => QueueInv'
<1> SUFFICES ASSUME TypeOK, QueueInv, [Next]_vars PROVE QueueInv'
  OBVIOUS
<1> USE NamesAssumption
<1>0. /\ queue \in Seq(1..received) /\ offered \in Seq(1..received)
      /\ attempted \in Seq(1..received) /\ relaying \in 1..received \cup {NoMail}
      /\ pc \in [Session -> SessionState] /\ received \in Nat
  BY BoundAssumption DEF TypeOK, QueueTypeOK, SessionTypeOK
<1>1. CASE Quiet
  <2>1. UNCHANGED <<queue, relaying, attempted, offered, pc>>
    BY <1>1 DEF Quiet, forwarderVars, sessionVars
  <2>2. InLine => InLine'
    BY <2>1 DEF InLine, InHand
  <2>3. Idle /\ listener' = listener => Idle'
    BY <2>1 DEF Idle
  <2>4. QED
    BY <1>1, <2>2, <2>3 DEF Quiet, QueueInv
<1>2. CASE \E how \in {"exited", "killed"} : End(how)
  BY <1>2 DEF End, QueueInv, Idle, Alive
<1>3. ASSUME ~Dormant, UNCHANGED main, InLine => InLine'
      PROVE  QueueInv'
  BY <1>3 DEF Dormant, Alive, QueueInv
<1>4. CASE ReceiveMail
  <2>1. /\ relaying = NoMail /\ queue # <<>>
        /\ relaying' = Head(queue) /\ queue' = Tail(queue)
        /\ UNCHANGED <<attempted, offered, main>>
    BY <1>4 DEF ReceiveMail, Receive, serverVars, sessionVars
  <2>2. ~Dormant
    BY <2>1 DEF QueueInv, Idle
  <2>3. ASSUME InLine PROVE InLine'
    <3>1. /\ Len(queue) > 0 /\ queue[1] = Head(queue)
          /\ Len(queue') = Len(queue) - 1
          /\ \A i \in 1..Len(queue') : queue'[i] = queue[i + 1]
      BY <1>0, <2>1
    <3>2. queue[1] \in 1..received
      BY <1>0, <3>1
    <3>3. InHand = 0 /\ InHand' = 1
      BY <1>0, <2>1, <3>1, <3>2 DEF InHand
    <3>4. Len(offered') = Len(attempted') + InHand' + Len(queue')
      BY <1>0, <2>1, <2>3, <3>1, <3>3 DEF InLine
    <3>5. queue[1] = offered[Len(attempted) + 1]
      BY <1>0, <2>3, <3>1, <3>3 DEF InLine
    <3>6. ASSUME NEW i \in 1..Len(queue')
          PROVE  queue'[i] = offered'[Len(attempted') + InHand' + i]
      <4>1. i + 1 \in 1..Len(queue)
        BY <1>0, <3>1
      <4>2. queue[i + 1] = offered[Len(attempted) + 0 + (i + 1)]
        BY <2>3, <3>3, <4>1 DEF InLine
      <4>3. Len(attempted) + 0 + (i + 1) = Len(attempted) + 1 + i
        BY <1>0, <4>1
      <4>4. QED
        BY <2>1, <3>1, <3>3, <4>2, <4>3
    <3>7. QED
      BY <2>1, <3>1, <3>4, <3>5, <3>6 DEF InLine
  <2>4. QED
    BY <1>3, <2>1, <2>2, <2>3
<1>5. CASE ForwardMail
  <2>1. /\ relaying # NoMail /\ relaying' = NoMail
        /\ attempted' = Append(attempted, relaying)
        /\ UNCHANGED <<queue, offered, main>>
    BY <1>5 DEF ForwardMail, ForwardEmail, serverVars, sessionVars
  <2>2. ~Dormant
    BY <2>1 DEF QueueInv, Idle
  <2>3. ASSUME InLine PROVE InLine'
    <3>1. Len(attempted') = Len(attempted) + 1 /\ InHand = 1 /\ InHand' = 0
      BY <1>0, <2>1 DEF InHand
    <3>2. Len(attempted') + InHand' = Len(attempted) + InHand
      BY <1>0, <3>1
    <3>3. QED
      BY <2>1, <2>3, <3>2 DEF InLine
  <2>4. QED
    BY <1>3, <2>1, <2>2, <2>3
<1>6. CASE ForwarderDone
  <2>1. UNCHANGED <<queue, relaying, attempted, offered, main, listener, pc>>
    BY <1>6 DEF ForwarderDone, ForwarderEnds, serverVars, sessionVars
  <2>2. QED
    BY <2>1 DEF QueueInv, Dormant, Idle, Alive, InLine, InHand
<1>7. ASSUME NEW s \in Session, SessionStep(s) PROVE QueueInv'
  <2>1. ~Dormant
    <3>1. listener = "accepting" \/ pc[s] # "away"
      BY <1>7 DEF SessionStep, Accept, EndOfMail, SendMail, StoreMail, Reply,
                  Disconnect, Move
    <3>2. QED
      BY <3>1 DEF QueueInv, Idle
  <2>2. UNCHANGED main
    BY <1>7 DEF SessionStep, Accept, EndOfMail, SendMail, StoreMail, Reply,
                Disconnect, serverVars
  <2>3. \/ UNCHANGED <<queue, relaying, attempted, offered>>
        \/ \E m \in Nat : /\ queue' = Append(queue, m)
                          /\ offered' = Append(offered, m)
                          /\ UNCHANGED <<relaying, attempted>>
    <3>1. CASE Accept(s) \/ StoreMail(s) \/ Reply(s) \/ Disconnect(s)
      BY <3>1 DEF Accept, StoreMail, Reply, Disconnect, forwarderVars
    <3>2. CASE EndOfMail(s)
      BY <3>2 DEF EndOfMail, Acquire, Wait, forwarderVars
    <3>3. CASE SendMail(s)
      <4>1. mail[s] \in Nat
        BY <3>3 DEF SendMail, Move, TypeOK, SessionTypeOK
      <4>2. QED
        BY <3>3, <4>1 DEF SendMail, Send
    <3>4. QED
      BY <1>7, <3>1, <3>2, <3>3 DEF SessionStep
  <2>4. InLine => InLine'
    <3>1. CASE UNCHANGED <<queue, relaying, attempted, offered>>
      BY <3>1 DEF InLine, InHand
    <3>2. QED
      BY <2>3, <3>1, JoinsLine
  <2>5. QED
    BY <1>3, <2>1, <2>2, <2>4
<1>8. QED
  BY <1>1, <1>2, <1>4, <1>5, <1>6, <1>7, StepKinds DEF Exit, Kill
-----------------------------------------------------------------------------
(* The sessions that have a mail to queue.                                 *)

(***************************************************************************)
(* What the types say of the sessions.                                     *)
(***************************************************************************)
LEMMA TypeFacts ==
  ASSUME TypeOK
  PROVE  /\ waiting \in Seq(Session) /\ ToSet(waiting) \subseteq Session
         /\ granted \subseteq Session
         /\ offered \in Seq(1..received) /\ ToSet(offered) \subseteq 1..received
         /\ pc \in [Session -> SessionState] /\ received \in Nat
         /\ mail \in [Session -> 1..received \cup {NoMail}]
         /\ \A t \in Session :
              pc[t] \in {"sending", "waiting", "storing", "replying"} =>
                mail[t] \in 1..received
<1>1. QueueTypeOK /\ SessionTypeOK
  BY DEF TypeOK
<1>2. received \in Nat
  BY <1>1, BoundAssumption DEF SessionTypeOK
<1>3. ASSUME NEW t \in Session,
             pc[t] \in {"sending", "waiting", "storing", "replying"}
      PROVE  mail[t] \in 1..received
  <2>1. mail[t] # NoMail
    BY <1>1, <1>3 DEF SessionTypeOK
  <2>2. QED
    BY <1>1, <2>1 DEF SessionTypeOK
<1>4. /\ waiting \in Seq(Session) /\ granted \subseteq Session
      /\ offered \in Seq(1..received)
  BY <1>1 DEF QueueTypeOK, SessionTypeOK
<1>5. ToSet(waiting) \subseteq Session /\ ToSet(offered) \subseteq 1..received
  BY <1>4, ElementsOfSeq
<1>6. QED
  BY <1>1, <1>2, <1>3, <1>4, <1>5 DEF SessionTypeOK

(***************************************************************************)
(* A step of others leaves those who wait in their order.                  *)
(***************************************************************************)
LEMMA OthersStep ==
  ASSUME OrderInv, waiting \in Seq(Session), granted \subseteq Session,
         UNCHANGED <<waiting, granted, forwarding, offered>>,
         \A t \in Session :
           pc[t] \in {"sending", "waiting"} \/ pc'[t] \in {"sending", "waiting"}
             => pc'[t] = pc[t] /\ mail'[t] = mail[t]
  PROVE  OrderInv'
<1>1. ToSet(waiting) \subseteq Session /\ \A i \in 1..Len(waiting) : waiting[i] \in ToSet(waiting)
  BY DEF ToSet
<1>2. /\ \A t \in ToSet(waiting) : mail'[t] = mail[t] /\ pc'[t] = pc[t]
      /\ \A t \in granted : mail'[t] = mail[t] /\ pc'[t] = pc[t]
  BY <1>1 DEF OrderInv
<1>3. InTurn'
  BY <1>2 DEF OrderInv, InTurn
<1>4. \A i, j \in 1..Len(waiting) :
        i < j => mail'[waiting[i]] < mail'[waiting[j]]
  BY <1>1, <1>2 DEF OrderInv
<1>5. QED
  BY <1>1, <1>2, <1>3, <1>4 DEF OrderInv

(***************************************************************************)
(* At the start nobody has a mail.                                         *)
(***************************************************************************)
LEMMA OrderInit == Init => OrderInv
<1> SUFFICES ASSUME Init PROVE OrderInv
  OBVIOUS
<1>1. /\ waiting = <<>> /\ granted = {} /\ \A s \in Session : pc[s] = "away"
  BY DEF Init, ForwarderInit
<1>2. ToSet(waiting) = {} /\ Len(waiting) = 0
  BY <1>1 DEF ToSet
<1>3. QED
  BY <1>1, <1>2 DEF OrderInv, InTurn

(***************************************************************************)
(* Sessions join the line at its end with a later mail than all before     *)
(* (smtp.rs:415), and its head alone leaves it, for a permit; so only who  *)
(* has one can be overtaken, whichever step is taken.                      *)
(***************************************************************************)
LEMMA OrderStep == TypeOK /\ PermitInv /\ OrderInv /\ [Next]_vars => OrderInv'
<1> SUFFICES ASSUME TypeOK, PermitInv, OrderInv, [Next]_vars PROVE OrderInv'
  OBVIOUS
<1>0. /\ waiting \in Seq(Session) /\ ToSet(waiting) \subseteq Session
      /\ granted \subseteq Session
      /\ offered \in Seq(1..received) /\ ToSet(offered) \subseteq 1..received
      /\ pc \in [Session -> SessionState] /\ received \in Nat
      /\ mail \in [Session -> 1..received \cup {NoMail}]
      /\ \A t \in Session : pc[t] \in {"sending", "waiting"} =>
           mail[t] \in 1..received
  BY TypeFacts
<1>1. CASE Quiet \/ ForwardMail \/ ForwarderDone
  <2>1. UNCHANGED <<waiting, granted, forwarding, offered, pc, mail>>
    BY <1>1 DEF Quiet, ForwardMail, ForwardEmail,
                ForwarderDone, ForwarderEnds, forwarderVars, sessionVars
  <2>2. QED
    BY <1>0, <2>1, OthersStep
<1>2. CASE \E how \in {"exited", "killed"} : End(how)
  <2>1. waiting' = <<>> /\ granted' = {} /\ \A t \in Session : pc'[t] = "away"
    BY <1>2 DEF End
  <2>2. ToSet(waiting') = {} /\ Len(waiting') = 0
    BY <2>1 DEF ToSet
  <2>3. QED
    BY <2>1, <2>2 DEF OrderInv, InTurn
<1>3. CASE ReceiveMail
  <2>1. UNCHANGED <<forwarding, offered, pc, mail>>
    BY <1>3 DEF ReceiveMail, sessionVars
  <2>2. CASE UNCHANGED <<waiting, granted>>
    BY <1>0, <2>1, <2>2, OthersStep
  <2>3. CASE Grant
    <3> DEFINE h == Head(waiting)
    <3>1. /\ waiting # <<>> /\ waiting' = Tail(waiting)
          /\ granted' = granted \cup {h}
      BY <2>3 DEF Grant
    <3>2. /\ Len(waiting) \in Nat \ {0} /\ Len(waiting') = Len(waiting) - 1
          /\ waiting[1] = h /\ h \in Session
          /\ \A i \in 1..Len(waiting') : waiting'[i] = waiting[i + 1]
          /\ DOMAIN waiting' = 1..Len(waiting')
      BY <1>0, <3>1
    <3>3. ToSet(waiting) = ToSet(waiting') \cup {h}
      BY <1>0, <3>1, <3>2, TailElements
    <3> HIDE DEF h
    <3>4. \A t \in ToSet(waiting') : mail[h] < mail[t]
      <4>1. ASSUME NEW i \in 1..Len(waiting') PROVE mail[h] < mail[waiting'[i]]
        <5>1. 1 \in 1..Len(waiting) /\ i + 1 \in 1..Len(waiting) /\ 1 < i + 1
          BY <3>2
        <5>2. mail[waiting[1]] < mail[waiting[i + 1]]
          BY <5>1 DEF OrderInv
        <5>3. QED
          BY <3>2, <5>2
      <4>2. QED
        BY <3>2, <4>1 DEF ToSet
    <3>5. h \notin ToSet(waiting')
      <4>1. mail[h] \in 1..received
        BY <1>0, <3>2, <3>3 DEF OrderInv
      <4>2. ~(mail[h] < mail[h])
        BY <4>1
      <4>3. QED
        BY <3>4, <4>2
    <3>6. \A i, j \in 1..Len(waiting') :
            i < j => mail[waiting'[i]] < mail[waiting'[j]]
      <4> SUFFICES ASSUME NEW i \in 1..Len(waiting'), NEW j \in 1..Len(waiting'), i < j
                   PROVE  mail[waiting'[i]] < mail[waiting'[j]]
        OBVIOUS
      <4>1. i + 1 \in 1..Len(waiting) /\ j + 1 \in 1..Len(waiting) /\ i + 1 < j + 1
        BY <3>2
      <4>2. mail[waiting[i + 1]] < mail[waiting[j + 1]]
        BY <4>1 DEF OrderInv
      <4>3. QED
        BY <3>2, <4>2
    <3>7. InTurn'
      BY <2>1, <3>1, <3>3, <3>4 DEF OrderInv, InTurn
    <3>8. QED
      BY <2>1, <3>1, <3>3, <3>5, <3>6, <3>7 DEF OrderInv
  <2>4. QED
    BY <1>3, <2>2, <2>3 DEF ReceiveMail, Receive
<1>4. ASSUME NEW s \in Session, Accept(s) \/ StoreMail(s) \/ Reply(s) \/ Disconnect(s)
      PROVE  OrderInv'
  <2>1. /\ UNCHANGED <<waiting, granted, forwarding, offered>>
        /\ pc[s] \notin {"sending", "waiting"} /\ pc'[s] \notin {"sending", "waiting"}
        /\ \A t \in Session \ {s} : pc'[t] = pc[t] /\ mail'[t] = mail[t]
    BY <1>0, <1>4 DEF Accept, StoreMail, Reply, Disconnect, Move, forwarderVars
  <2>2. QED
    BY <1>0, <2>1, OthersStep
<1>5. ASSUME NEW s \in Session, EndOfMail(s) PROVE OrderInv'
  <2>1. /\ pc[s] = "open" /\ mail'[s] = received + 1
        /\ \A t \in Session \ {s} : pc'[t] = pc[t] /\ mail'[t] = mail[t]
        /\ UNCHANGED <<forwarding, offered>>
    BY <1>0, <1>5 DEF EndOfMail, Move
  <2>2. s \notin granted /\ s \notin ToSet(waiting)
    BY <2>1 DEF OrderInv
  <2>3. CASE UNCHANGED forwarderVars /\ pc'[s] = "storing"
    <3>1. UNCHANGED <<waiting, granted>>
      BY <2>3 DEF forwarderVars
    <3>2. QED
      BY <1>0, <2>1, <2>3, <3>1, OthersStep
  <2>4. CASE forwarding /\ Acquire(s) /\ pc'[s] = "sending"
    <3>1. waiting' = <<>> /\ waiting = <<>> /\ granted' = granted \cup {s}
      BY <2>4 DEF Acquire, PermitInv
    <3>2. ToSet(waiting') = {} /\ ToSet(waiting) = {} /\ Len(waiting') = 0
      BY <3>1 DEF ToSet
    <3>3. \A t \in Session : pc'[t] \in {"sending", "waiting"} => t \in granted'
      BY <2>1, <3>1, <3>2 DEF OrderInv
    <3>4. \A t \in granted' : pc'[t] \in {"sending", "waiting"}
      BY <1>0, <2>1, <2>2, <2>4, <3>1 DEF OrderInv
    <3>5. \A t \in Session : pc'[t] \in {"sending", "waiting"} => forwarding'
      BY <2>1, <2>4 DEF OrderInv
    <3>6. QED
      BY <3>2, <3>3, <3>4, <3>5 DEF OrderInv, InTurn
  <2>5. CASE forwarding /\ Wait(s) /\ pc'[s] = "waiting"
    <3>1. waiting' = Append(waiting, s) /\ UNCHANGED granted
      BY <2>5 DEF Wait
    <3>2. /\ Len(waiting') = Len(waiting) + 1
          /\ \A i \in 1..Len(waiting) : waiting'[i] = waiting[i] /\ waiting[i] \in ToSet(waiting)
          /\ waiting'[Len(waiting) + 1] = s
          /\ Len(waiting) \in Nat
      BY <1>0, <3>1 DEF ToSet
    <3>3. ToSet(waiting') = ToSet(waiting) \cup {s}
      BY <1>0, <3>1, AppendElements
    <3>4. /\ \A t \in ToSet(waiting) \cup granted :
               /\ t \in Session /\ t # s
               /\ pc'[t] = pc[t] /\ mail'[t] = mail[t] /\ mail[t] \in 1..received
      BY <1>0, <2>1, <2>2 DEF OrderInv
    <3>5. ASSUME NEW i \in 1..Len(waiting'), NEW j \in 1..Len(waiting'), i < j
          PROVE  mail'[waiting'[i]] < mail'[waiting'[j]]
      <4>1. i \in 1..Len(waiting)
        BY <3>2, <3>5
      <4>2. CASE j \in 1..Len(waiting)
        BY <3>2, <3>4, <3>5, <4>1, <4>2 DEF OrderInv
      <4>3. CASE j = Len(waiting) + 1
        <5>1. mail'[waiting'[j]] = received + 1
          BY <2>1, <3>2, <4>3
        <5>2. mail'[waiting'[i]] \in 1..received
          BY <3>2, <3>4, <4>1
        <5>3. QED
          BY <1>0, <5>1, <5>2
      <4>4. QED
        BY <3>2, <4>2, <4>3
    <3>6. InTurn'
      <4> SUFFICES ASSUME NEW t \in ToSet(waiting'),
                          NEW m \in ToSet(offered) \cup {mail'[u] : u \in granted}
                   PROVE  m < mail'[t]
        BY <2>1, <3>1 DEF InTurn
      <4>1. m \in ToSet(offered) \cup {mail[u] : u \in granted}
        BY <3>4
      <4>2. CASE t = s
        <5>1. m \in 1..received
          BY <1>0, <3>4, <4>1
        <5>2. QED
          BY <1>0, <2>1, <4>2, <5>1
      <4>3. CASE t \in ToSet(waiting)
        BY <3>4, <4>1, <4>3 DEF OrderInv, InTurn
      <4>4. QED
        BY <3>3, <4>2, <4>3
    <3>7. ASSUME NEW t \in Session
          PROVE  /\ pc'[t] = "sending" => t \in granted
                 /\ pc'[t] = "waiting" => t \in granted \cup ToSet(waiting')
                 /\ pc'[t] \in {"sending", "waiting"} => forwarding'
      <4>1. CASE t = s
        BY <2>1, <2>5, <3>3, <4>1
      <4>2. CASE t # s
        BY <2>1, <3>3, <4>2 DEF OrderInv
      <4>3. QED
        BY <4>1, <4>2
    <3>8. /\ \A t \in granted : pc'[t] \in {"sending", "waiting"}
          /\ \A t \in ToSet(waiting') : pc'[t] = "waiting" /\ t \notin granted
      BY <2>2, <2>5, <3>3, <3>4 DEF OrderInv
    <3>9. QED
      BY <3>1, <3>5, <3>6, <3>7, <3>8 DEF OrderInv
  <2>6. QED
    <3>1. /\ Move(s, "open", "storing") => pc'[s] = "storing"
          /\ Move(s, "open", "sending") => pc'[s] = "sending"
          /\ Move(s, "open", "waiting") => pc'[s] = "waiting"
      BY <1>0 DEF Move
    <3>2. QED
      BY <1>5, <2>3, <2>4, <2>5, <3>1 DEF EndOfMail
<1>6. ASSUME NEW s \in Session, SendMail(s) PROVE OrderInv'
  <2>1. /\ pc[s] \in {"sending", "waiting"} /\ pc'[s] = "storing"
        /\ \A t \in Session \ {s} : pc'[t] = pc[t]
        /\ UNCHANGED <<mail, forwarding, waiting>>
        /\ s \in granted /\ granted' = granted \ {s}
        /\ offered' = Append(offered, mail[s])
    BY <1>0, <1>6 DEF SendMail, Send, Move
  <2>2. ToSet(offered') = ToSet(offered) \cup {mail[s]}
    BY <1>0, <2>1, AppendElements
  <2>3. s \notin ToSet(waiting)
    BY <2>1 DEF OrderInv
  <2>4. InTurn'
    BY <2>1, <2>2 DEF OrderInv, InTurn
  <2>5. \A t \in ToSet(waiting) \cup granted' : t \in Session \ {s} /\ pc'[t] = pc[t]
    BY <1>0, <2>1, <2>3
  <2>6. QED
    BY <2>1, <2>3, <2>4, <2>5 DEF OrderInv
<1>7. QED
  BY <1>1, <1>2, <1>3, <1>4, <1>5, <1>6, StepKinds DEF Exit, Kill, SessionStep
-----------------------------------------------------------------------------
(* The places in the queue.                                                *)

LEMMA PermitInit == Init => PermitInv
<1> SUFFICES ASSUME Init PROVE PermitInv
  OBVIOUS
<1>1. queue = <<>> /\ waiting = <<>> /\ granted = {}
  BY DEF Init, ForwarderInit
<1>2. IsFiniteSet(granted) /\ Cardinality(granted) = 0
  BY <1>1, FS_EmptySet
<1>3. Len(queue) + Cardinality(granted) <= QueueCapacity
  BY <1>1, <1>2, BoundAssumption
<1>4. QED
  BY <1>1, <1>2, <1>3 DEF PermitInv

(***************************************************************************)
(* A permit is taken only where there is room, becomes a mail in the queue *)
(* when it is used, and is given on when a mail leaves the queue           *)
(* (forward.rs:72, 183-190).                                               *)
(***************************************************************************)
LEMMA PermitStep == TypeOK /\ PermitInv /\ OrderInv /\ [Next]_vars => PermitInv'
<1> SUFFICES ASSUME TypeOK, PermitInv, OrderInv, [Next]_vars PROVE PermitInv'
  OBVIOUS
<1> DEFINE places == Cardinality(granted)
<1>0. /\ queue \in Seq(1..received) /\ waiting \in Seq(Session)
      /\ Len(queue) \in Nat /\ QueueCapacity \in Nat
      /\ IsFiniteSet(granted) /\ places \in Nat
  BY BoundAssumption, FS_CardinalityType DEF TypeOK, QueueTypeOK, PermitInv
<1>1. CASE UNCHANGED <<queue, waiting, granted>>
  BY <1>1 DEF PermitInv, Room
<1>2. CASE \E how \in {"exited", "killed"} : End(how)
  <2>1. queue' = <<>> /\ waiting' = <<>> /\ granted' = {}
    BY <1>2 DEF End
  <2>2. IsFiniteSet(granted') /\ Cardinality(granted') = 0 /\ Len(queue') = 0
    BY <2>1, FS_EmptySet
  <2>3. Len(queue') + Cardinality(granted') <= QueueCapacity
    BY <1>0, <2>2
  <2>4. QED
    BY <2>1, <2>2, <2>3 DEF PermitInv
<1>3. CASE ReceiveMail
  <2>1. queue # <<>> /\ queue' = Tail(queue)
    BY <1>3 DEF ReceiveMail, Receive
  <2>2. Len(queue') = Len(queue) - 1 /\ Len(queue') \in Nat
    BY <1>0, <2>1
  <2>3. CASE waiting = <<>> /\ UNCHANGED <<waiting, granted>>
    BY <1>0, <2>2, <2>3 DEF PermitInv
  <2>4. CASE Grant
    <3>1. waiting # <<>> /\ granted' = granted \cup {Head(waiting)}
      BY <2>4 DEF Grant
    <3>2. Head(waiting) \notin granted
      <4>1. Head(waiting) \in ToSet(waiting)
        BY <1>0, <3>1 DEF ToSet
      <4>2. QED
        BY <4>1 DEF OrderInv
    <3>3. IsFiniteSet(granted') /\ Cardinality(granted') = places + 1
      BY <1>0, <3>1, <3>2, FS_AddElement
    <3>4. ~Room /\ Len(queue) + places <= QueueCapacity
      BY <3>1 DEF PermitInv
    <3> HIDE DEF places
    <3>5. Len(queue') + Cardinality(granted') = Len(queue) + places
      BY <1>0, <2>2, <3>3
    <3>6. Len(queue') + Cardinality(granted') <= QueueCapacity /\ ~Room'
      BY <1>0, <3>4, <3>5 DEF Room, places
    <3>7. QED
      BY <3>3, <3>6 DEF PermitInv
  <2>5. QED
    BY <1>3, <2>3, <2>4 DEF ReceiveMail, Receive
<1>4. ASSUME NEW s \in Session, EndOfMail(s) PROVE PermitInv'
  <2>1. CASE UNCHANGED forwarderVars
    BY <1>1, <2>1 DEF forwarderVars
  <2>2. CASE Acquire(s)
    <3>1. Room /\ granted' = granted \cup {s} /\ UNCHANGED <<queue, waiting>>
      BY <2>2 DEF Acquire
    <3>2. /\ IsFiniteSet(granted')
          /\ Cardinality(granted') = IF s \in granted THEN places ELSE places + 1
      BY <1>0, <3>1, FS_AddElement
    <3> HIDE DEF places
    <3>3. Len(queue') + Cardinality(granted') <= QueueCapacity
      BY <1>0, <3>1, <3>2 DEF Room, places
    <3>4. QED
      BY <3>1, <3>2, <3>3 DEF PermitInv
  <2>3. CASE Wait(s)
    <3>1. ~Room /\ UNCHANGED <<queue, granted>>
      BY <2>3 DEF Wait
    <3>2. QED
      BY <3>1 DEF PermitInv, Room
  <2>4. QED
    BY <1>4, <2>1, <2>2, <2>3 DEF EndOfMail
<1>5. ASSUME NEW s \in Session, SendMail(s) PROVE PermitInv'
  <2>1. /\ s \in granted /\ granted' = granted \ {s} /\ UNCHANGED waiting
        /\ queue' = Append(queue, mail[s])
    BY <1>5 DEF SendMail, Send
  <2>2. IsFiniteSet(granted') /\ Cardinality(granted') = places - 1
    BY <1>0, <2>1, FS_RemoveElement
  <2>3. Len(queue') = Len(queue) + 1
    BY <1>0, <2>1
  <2> HIDE DEF places
  <2>4. Len(queue') + Cardinality(granted') = Len(queue) + places
    BY <1>0, <2>2, <2>3
  <2>5. QED
    BY <2>1, <2>2, <2>4 DEF PermitInv, Room, places
<1>6. CASE Quiet \/ ForwardMail \/ ForwarderDone
  BY <1>1, <1>6 DEF Quiet, ForwardMail, ForwardEmail, ForwarderDone, ForwarderEnds,
                    forwarderVars
<1>7. (\E s \in Session : Accept(s) \/ StoreMail(s) \/ Reply(s) \/ Disconnect(s))
        => PermitInv'
  BY <1>1 DEF Accept, StoreMail, Reply, Disconnect, forwarderVars
<1>8. QED
  BY <1>2, <1>3, <1>4, <1>5, <1>6, <1>7, StepKinds DEF Exit, Kill, SessionStep
-----------------------------------------------------------------------------
(* The mails that the sessions have in hand.                               *)

LEMMA HandInit == Init => HandInv /\ ForwardedIsStored
BY DEF Init, HandInv, ForwardedIsStored, ToSet

(***************************************************************************)
(* A mail is in the hands of one session at most, and what has been        *)
(* offered is stored or about to be (smtp.rs:414-421).                     *)
(***************************************************************************)
LEMMA HandStep ==
  TypeOK /\ HandInv /\ ForwardedIsStored /\ OrderInv /\ [Next]_vars
    => HandInv' /\ ForwardedIsStored'
<1> SUFFICES ASSUME TypeOK, HandInv, ForwardedIsStored, OrderInv, [Next]_vars
             PROVE  HandInv' /\ ForwardedIsStored'
  OBVIOUS
<1> USE NamesAssumption
<1>0. /\ offered \in Seq(1..received) /\ received \in Nat
      /\ ToSet(offered) \subseteq 1..received
      /\ pc \in [Session -> SessionState]
      /\ mail \in [Session -> 1..received \cup {NoMail}]
      /\ \A t \in Session :
           pc[t] \in {"sending", "waiting", "storing", "replying"} =>
             mail[t] \in 1..received
      /\ stored \subseteq 1..received
  BY TypeFacts DEF TypeOK, SessionTypeOK
<1>1. CASE Quiet \/ ReceiveMail \/ ForwardMail \/ ForwarderDone
  <2>1. /\ UNCHANGED <<pc, mail, forwarding, offered, stored, acked>>
        /\ main = "killed" => main' = "killed"
    BY <1>1 DEF Quiet, ReceiveMail, ForwardMail, ForwarderDone, serverVars, sessionVars
  <2>2. QED
    BY <2>1 DEF HandInv, ForwardedIsStored
<1>2. CASE Kill \/ Exit
  <2>1. /\ UNCHANGED <<forwarding, offered, stored, acked>>
        /\ \A t \in Session : pc'[t] = "away" /\ mail'[t] = NoMail
    BY <1>2 DEF Kill, Exit, End
  <2>2. HandInv'
    BY <2>1 DEF HandInv
  <2>3. main' = "killed" \/ (main # "killed" /\ \A t \in Session : pc[t] # "storing")
    BY <1>2 DEF Kill, Exit, End
  <2>4. QED
    BY <2>1, <2>2, <2>3 DEF ForwardedIsStored
<1>3. ASSUME NEW s \in Session, Accept(s) PROVE HandInv' /\ ForwardedIsStored'
  <2>1. /\ UNCHANGED <<main, mail, forwarding, offered, stored, acked>>
        /\ pc[s] = "away" /\ pc'[s] = "open"
        /\ \A t \in Session \ {s} : pc'[t] = pc[t]
    BY <1>0, <1>3 DEF Accept, Move, serverVars
  <2>2. QED
    BY <2>1 DEF HandInv, ForwardedIsStored
<1>4. ASSUME NEW s \in Session, EndOfMail(s) PROVE HandInv' /\ ForwardedIsStored'
  <2>1. /\ UNCHANGED <<main, forwarding, offered, stored, acked>>
        /\ pc[s] = "open" /\ mail'[s] = received + 1
        /\ pc'[s] \in {"sending", "waiting"} \/ (pc'[s] = "storing" /\ ~forwarding)
        /\ \A t \in Session \ {s} : pc'[t] = pc[t] /\ mail'[t] = mail[t]
    BY <1>0, <1>4 DEF EndOfMail, Move, serverVars
  <2>2. /\ received + 1 \notin stored /\ received + 1 # NoMail
        /\ received + 1 \notin ToSet(offered)
        /\ \A t \in Session : mail[t] # received + 1
    BY <1>0
  <2>3. HandInv'
    <3>1. \A t, u \in Session : mail'[t] = mail'[u] => t = u \/ mail'[t] = NoMail
      BY <2>1, <2>2 DEF HandInv
    <3>2. ASSUME NEW t \in Session
          PROVE  /\ pc'[t] \in {"sending", "waiting"} => mail'[t] \notin ToSet(offered)
                 /\ pc'[t] \in {"sending", "waiting", "storing"} => mail'[t] \notin stored
                 /\ pc'[t] = "storing" /\ forwarding => mail'[t] \in ToSet(offered)
                 /\ pc'[t] = "replying" => mail'[t] \in stored \ acked
      <4>1. CASE t = s
        BY <2>1, <2>2, <4>1
      <4>2. CASE t # s
        BY <2>1, <4>2 DEF HandInv
      <4>3. QED
        BY <4>1, <4>2
    <3>3. QED
      BY <2>1, <3>1, <3>2 DEF HandInv
  <2>4. ForwardedIsStored'
    <3>1. \A t \in Session : pc[t] = "storing" => pc'[t] = "storing" /\ mail'[t] = mail[t]
      BY <2>1
    <3>2. QED
      BY <2>1, <3>1 DEF ForwardedIsStored
  <2>5. QED
    BY <2>3, <2>4
<1>5. ASSUME NEW s \in Session, SendMail(s) PROVE HandInv' /\ ForwardedIsStored'
  <2>1. /\ UNCHANGED <<main, mail, forwarding, stored, acked>>
        /\ pc[s] \in {"sending", "waiting"} /\ pc'[s] = "storing"
        /\ \A t \in Session \ {s} : pc'[t] = pc[t]
        /\ offered' = Append(offered, mail[s])
    BY <1>0, <1>5 DEF SendMail, Move, serverVars
  <2>2. mail[s] \in 1..received /\ mail[s] # NoMail
    BY <1>0, <2>1
  <2>3. ToSet(offered') = ToSet(offered) \cup {mail[s]}
    BY <1>0, <2>1, <2>2, AppendElements
  <2>4. HandInv'
    <3>1. ASSUME NEW t \in Session
          PROVE  /\ pc'[t] \in {"sending", "waiting"} => mail[t] \notin ToSet(offered')
                 /\ pc'[t] \in {"sending", "waiting", "storing"} => mail[t] \notin stored
                 /\ pc'[t] = "storing" /\ forwarding => mail[t] \in ToSet(offered')
                 /\ pc'[t] = "replying" => mail[t] \in stored \ acked
      <4>1. CASE t = s
        BY <2>1, <2>3, <4>1 DEF HandInv
      <4>2. CASE t # s
        <5>1. pc'[t] = pc[t] /\ mail[t] # mail[s]
          BY <2>1, <2>2, <4>2 DEF HandInv
        <5>2. QED
          BY <2>3, <5>1 DEF HandInv
      <4>3. QED
        BY <4>1, <4>2
    <3>2. QED
      BY <2>1, <3>1 DEF HandInv
  <2>5. ForwardedIsStored'
    <3>1. \A t \in Session : pc[t] = "storing" => pc'[t] = "storing"
      BY <2>1
    <3>2. QED
      BY <2>1, <2>3, <3>1 DEF ForwardedIsStored
  <2>6. QED
    BY <2>4, <2>5
<1>6. ASSUME NEW s \in Session, StoreMail(s) PROVE HandInv' /\ ForwardedIsStored'
  <2>1. /\ UNCHANGED <<main, mail, forwarding, offered, acked>>
        /\ stored' = stored \cup {mail[s]}
        /\ pc[s] = "storing" /\ pc'[s] = "replying"
        /\ \A t \in Session \ {s} : pc'[t] = pc[t]
    BY <1>0, <1>6 DEF StoreMail, Move, serverVars
  <2>2. /\ mail[s] # NoMail /\ mail[s] \notin stored
        /\ \A t \in Session \ {s} : mail[t] # mail[s]
    BY <1>0, <2>1 DEF HandInv
  <2>3. HandInv'
    <3>1. ASSUME NEW t \in Session
          PROVE  /\ pc'[t] \in {"sending", "waiting"} => mail[t] \notin ToSet(offered)
                 /\ pc'[t] \in {"sending", "waiting", "storing"} => mail[t] \notin stored'
                 /\ pc'[t] = "storing" /\ forwarding => mail[t] \in ToSet(offered)
                 /\ pc'[t] = "replying" => mail[t] \in stored' \ acked
      <4>1. CASE t = s
        BY <2>1, <2>2, <4>1 DEF HandInv
      <4>2. CASE t # s
        BY <2>1, <2>2, <4>2 DEF HandInv
      <4>3. QED
        BY <4>1, <4>2
    <3>2. QED
      BY <2>1, <3>1 DEF HandInv
  <2>4. ForwardedIsStored'
    <3>1. \A t \in Session :
            pc[t] = "storing" => pc'[t] = "storing" \/ mail[t] \in stored'
      BY <2>1
    <3>2. QED
      BY <2>1, <3>1 DEF ForwardedIsStored
  <2>5. QED
    BY <2>3, <2>4
<1>7. ASSUME NEW s \in Session, Reply(s) \/ Disconnect(s)
      PROVE  HandInv' /\ ForwardedIsStored'
  <2>1. /\ UNCHANGED <<main, forwarding, offered, stored>>
        /\ pc[s] # "storing" /\ pc'[s] \in {"open", "away"} /\ mail'[s] = NoMail
        /\ \A t \in Session \ {s} : pc'[t] = pc[t] /\ mail'[t] = mail[t]
        /\ acked' = acked \/ (pc[s] = "replying" /\ acked' = acked \cup {mail[s]})
    BY <1>0, <1>7 DEF Reply, Disconnect, Move, serverVars
  <2>2. acked' \subseteq stored
    BY <2>1 DEF HandInv
  <2>3. ASSUME NEW t \in Session, pc'[t] = "replying"
        PROVE  mail'[t] \in stored \ acked'
    <3>1. t # s /\ pc[t] = "replying" /\ mail'[t] = mail[t]
      BY <2>1, <2>3
    <3>2. pc[s] = "replying" => mail[t] # mail[s]
      BY <1>0, <3>1 DEF HandInv
    <3>3. QED
      BY <2>1, <3>1, <3>2 DEF HandInv
  <2>4. \A t, u \in Session : mail'[t] = mail'[u] => t = u \/ mail'[t] = NoMail
    BY <2>1 DEF HandInv
  <2>5. ASSUME NEW t \in Session
        PROVE  /\ pc'[t] \in {"sending", "waiting"} => mail'[t] \notin ToSet(offered)
               /\ pc'[t] \in {"sending", "waiting", "storing"} => mail'[t] \notin stored
               /\ pc'[t] = "storing" /\ forwarding => mail'[t] \in ToSet(offered)
    BY <2>1 DEF HandInv
  <2>6. HandInv'
    BY <2>1, <2>2, <2>3, <2>4, <2>5 DEF HandInv
  <2>7. ForwardedIsStored'
    BY <2>1 DEF ForwardedIsStored
  <2>8. QED
    BY <2>6, <2>7
<1>8. QED
  BY <1>1, <1>2, <1>3, <1>4, <1>5, <1>6, <1>7, StepKinds DEF SessionStep
-----------------------------------------------------------------------------
(* The theorems.                                                           *)

LEMMA Inductive == Spec => []IInv
<1>1. Init => IInv
  BY TypeInit, PermitInit, QueueInit, OrderInit, HandInit DEF IInv
<1>2. IInv /\ [Next]_vars => IInv'
  BY TypeStep, PermitStep, QueueStep, OrderStep, HandStep DEF IInv
<1>3. QED
  BY <1>1, <1>2, PTL DEF Spec

(***************************************************************************)
(* The variables keep their types; a session has a mail in hand from its   *)
(* end to the reply, and the queue its bound.                              *)
(***************************************************************************)
THEOREM TypeCorrect == Spec => []TypeOK
<1>1. IInv => TypeOK
  BY DEF IInv
<1>2. QED
  BY <1>1, Inductive, PTL

(***************************************************************************)
(* Unless the process is killed, a mail offered to the forwarder is stored *)
(* (smtp.rs:414-418).                                                      *)
(***************************************************************************)
THEOREM ForwardedMailsAreStored == Spec => []ForwardedIsStored
<1>1. IInv => ForwardedIsStored
  BY DEF IInv
<1>2. QED
  BY <1>1, Inductive, PTL

(***************************************************************************)
(* With every step of the program, a mail is offered, kept, acknowledged   *)
(* or tried as Delivery says, or nothing happens to any mail.              *)
(***************************************************************************)
LEMMA DeliveryStep == IInv /\ [Next]_vars => [Mailing!Next]_(Mailing!vars)
<1> SUFFICES ASSUME IInv, [Next]_vars
             PROVE  [Mailing!Next]_(Mailing!vars)
  OBVIOUS
<1>0. /\ offered \in Seq(1..received) /\ attempted \in Seq(1..received)
      /\ queue \in Seq(1..received)
      /\ received \in Nat /\ 1..received \subseteq 1..MaxMail
      /\ \A t \in Session :
           pc[t] \in {"sending", "waiting", "storing", "replying"} =>
             mail[t] \in 1..received
  <2>1. received \in 0..MaxMail /\ TypeOK
    BY DEF IInv, TypeOK, SessionTypeOK
  <2>2. 1..received \subseteq 1..MaxMail
    BY <2>1, BoundAssumption
  <2>3. QED
    BY <2>1, <2>2, TypeFacts DEF TypeOK, QueueTypeOK
<1> DEFINE Same == UNCHANGED <<forwarding, offered, attempted, stored, acked>>
<1>1. CASE Quiet \/ ReceiveMail \/ ForwarderDone \/ Kill \/ Exit
  <2>1. Same
    BY <1>1 DEF Quiet, ReceiveMail, Receive, ForwarderDone, ForwarderEnds,
                Kill, Exit, End, forwarderVars, sessionVars
  <2>2. QED
    BY <2>1 DEF Mailing!vars
<1>2. CASE ForwardMail
  <2>1. /\ relaying # NoMail
        /\ attempted' = Append(attempted, relaying)
        /\ UNCHANGED <<forwarding, offered, stored, acked>>
    BY <1>2 DEF ForwardMail, ForwardEmail, sessionVars
  <2>2. Alive
    BY <2>1 DEF IInv, QueueInv, Idle, Dormant, Alive
  <2>3. InHand = 1
    BY <2>1 DEF InHand
  <2>4. /\ Len(attempted) < Len(offered)
        /\ relaying = offered[Len(attempted) + 1]
    BY <1>0, <2>1, <2>2, <2>3 DEF IInv, QueueInv, InLine
  <2>5. Mailing!Attempt
    BY <2>1, <2>4 DEF Mailing!Attempt
  <2>6. QED
    BY <2>5 DEF Mailing!Next
<1>3. ASSUME NEW s \in Session, EndOfMail(s)
      PROVE  [Mailing!Next]_(Mailing!vars)
  <2>1. Same
    BY <1>3 DEF EndOfMail, Acquire, Wait, forwarderVars
  <2>2. QED
    BY <2>1 DEF Mailing!vars
<1>4. ASSUME NEW s \in Session, SendMail(s)
      PROVE  [Mailing!Next]_(Mailing!vars)
  <2>1. /\ pc[s] \in {"sending", "waiting"} /\ offered' = Append(offered, mail[s])
        /\ UNCHANGED <<forwarding, attempted, stored, acked>>
    BY <1>4 DEF SendMail, Send, Move
  <2>2. forwarding /\ mail[s] \notin ToSet(offered)
    BY <2>1 DEF IInv, OrderInv, HandInv
  <2>3. Mailing!Offer(mail[s])
    BY <2>1, <2>2 DEF Mailing!Offer, ToSet, Mailing!ToSet
  <2>4. mail[s] \in 1..MaxMail
    BY <1>0, <2>1
  <2>5. QED
    BY <2>3, <2>4 DEF Mailing!Next
<1>5. ASSUME NEW s \in Session, StoreMail(s)
      PROVE  [Mailing!Next]_(Mailing!vars)
  <2>1. /\ pc[s] = "storing" /\ stored' = stored \cup {mail[s]}
        /\ UNCHANGED <<forwarding, offered, attempted, acked>>
    BY <1>5 DEF StoreMail, Move, forwarderVars
  <2>2. Mailing!Keep(mail[s])
    BY <2>1 DEF Mailing!Keep, IInv, HandInv, ToSet, Mailing!ToSet
  <2>3. mail[s] \in 1..MaxMail
    BY <1>0, <2>1
  <2>4. QED
    BY <2>2, <2>3 DEF Mailing!Next
<1>6. ASSUME NEW s \in Session, Reply(s)
      PROVE  [Mailing!Next]_(Mailing!vars)
  <2>1. /\ pc[s] = "replying" /\ acked' = acked \cup {mail[s]}
        /\ UNCHANGED <<forwarding, offered, attempted, stored>>
    BY <1>6 DEF Reply, Move, forwarderVars
  <2>2. Mailing!Acknowledge(mail[s])
    BY <2>1 DEF Mailing!Acknowledge, IInv, HandInv
  <2>3. mail[s] \in 1..MaxMail
    BY <1>0, <2>1
  <2>4. QED
    BY <2>2, <2>3 DEF Mailing!Next
<1>7. ASSUME NEW s \in Session, Accept(s) \/ Disconnect(s)
      PROVE  [Mailing!Next]_(Mailing!vars)
  BY <1>7 DEF Accept, Disconnect, forwarderVars, Mailing!vars
<1>8. QED
  BY <1>1, <1>2, <1>3, <1>4, <1>5, <1>6, <1>7, StepKinds DEF SessionStep

(***************************************************************************)
(* The program implements Delivery: for any number of sessions that wait   *)
(* for the forwarder and through every stop, kill and error of the relay,  *)
(* mails are offered before they are kept, kept before they are answered,  *)
(* and tried once each in the order in which they were offered.            *)
(***************************************************************************)
THEOREM Refinement == Spec => ImplementsDelivery
<1>1. Init => Mailing!Init
  BY DEF Init, ForwarderInit, Mailing!Init
<1>2. QED
  BY <1>1, DeliveryStep, Inductive, PTL DEF Spec, ImplementsDelivery, Mailing!Spec
-----------------------------------------------------------------------------
(* What Delivery comes to.                                                 *)

(***************************************************************************)
(* What has been tried is the beginning of what was offered, where no mail *)
(* is found twice; and an answered mail was kept, a kept one offered.      *)
(***************************************************************************)
PromiseInv ==
  /\ IsInjective(offered)
  /\ Len(attempted) <= Len(offered)
  /\ \A i \in 1..Len(attempted) : attempted[i] = offered[i]
  /\ acked \subseteq stored
  /\ forwarding => stored \subseteq ToSet(offered)

(***************************************************************************)
(* The backlog of the relay.                                               *)
(***************************************************************************)
BacklogInv == Len(offered) <= Len(attempted) + QueueCapacity + 1

(***************************************************************************)
(* A step of Delivery keeps its promise; Sink adds the types only.         *)
(***************************************************************************)
LEMMA PromiseStep ==
  ASSUME TypeOK, PromiseInv, [Mailing!Next]_(Mailing!vars)
  PROVE  PromiseInv'
<1>0. /\ offered \in Seq(1..received) /\ attempted \in Seq(1..received)
      /\ 1..received \subseteq Nat
  BY TypeFacts DEF TypeOK, QueueTypeOK
<1>1. CASE UNCHANGED Mailing!vars
  BY <1>1 DEF Mailing!vars, PromiseInv
<1>2. ASSUME NEW m \in 1..MaxMail, Mailing!Offer(m)
      PROVE  PromiseInv'
  <2>1. /\ m \notin ToSet(offered)
        /\ offered' = Append(offered, m)
        /\ UNCHANGED <<forwarding, attempted, stored, acked>>
    BY <1>2 DEF Mailing!Offer, ToSet, Mailing!ToSet
  <2>2. offered \in Seq(Nat) /\ m \in Nat
    <3>1. offered \in Seq(Nat)
      BY <1>0, SeqMonotonic
    <3>2. QED
      BY <3>1
  <2>3. /\ Len(offered') = Len(offered) + 1 /\ Len(offered) \in Nat
        /\ DOMAIN offered = 1..Len(offered) /\ DOMAIN offered' = 1..Len(offered')
        /\ \A i \in 1..Len(offered) : offered'[i] = offered[i] /\ offered[i] # m
        /\ offered'[Len(offered) + 1] = m
    BY <1>0, <2>1 DEF ToSet
  <2>4. ToSet(offered') = ToSet(offered) \cup {m}
    BY <2>1, <2>2, AppendElements
  <2>5. ASSUME NEW i \in DOMAIN offered', NEW j \in DOMAIN offered',
               offered'[i] = offered'[j]
        PROVE  i = j
    <3>1. /\ i \in DOMAIN offered \/ i = Len(offered) + 1
          /\ j \in DOMAIN offered \/ j = Len(offered) + 1
      BY <2>3
    <3>2. CASE i \in DOMAIN offered /\ j \in DOMAIN offered
      BY <2>3, <2>5, <3>2 DEF PromiseInv, IsInjective
    <3>3. QED
      BY <2>3, <2>5, <3>1, <3>2
  <2>6. IsInjective(offered')
    BY <2>5 DEF IsInjective
  <2>7. QED
    BY <1>0, <2>1, <2>3, <2>4, <2>6 DEF PromiseInv
<1>3. ASSUME NEW m \in 1..MaxMail, Mailing!Keep(m) \/ Mailing!Acknowledge(m)
      PROVE  PromiseInv'
  BY <1>3 DEF Mailing!Keep, Mailing!Acknowledge, PromiseInv, ToSet, Mailing!ToSet
<1>4. CASE Mailing!Attempt
  <2>1. /\ Len(attempted) < Len(offered)
        /\ attempted' = Append(attempted, offered[Len(attempted) + 1])
        /\ UNCHANGED <<forwarding, offered, stored, acked>>
    BY <1>4 DEF Mailing!Attempt
  <2>2. /\ Len(attempted') = Len(attempted) + 1
        /\ attempted'[Len(attempted) + 1] = offered[Len(attempted) + 1]
        /\ \A i \in 1..Len(attempted) : attempted'[i] = attempted[i]
    BY <1>0, <2>1
  <2>3. \A i \in 1..Len(attempted') : attempted'[i] = offered[i]
    BY <1>0, <2>2 DEF PromiseInv
  <2>4. QED
    BY <1>0, <2>1, <2>2, <2>3 DEF PromiseInv
<1>5. QED
  BY <1>1, <1>2, <1>3, <1>4 DEF Mailing!Next

(***************************************************************************)
(* A step after which there is no process neither offers nor tries a mail. *)
(***************************************************************************)
LEMMA EndIsStill ==
  ASSUME IInv, [Next]_vars, ~Alive'
  PROVE  offered' = offered /\ attempted' = attempted
<1>1. CASE Quiet \/ Exit \/ Kill \/ ReceiveMail \/ ForwarderDone
  BY <1>1 DEF Quiet, Exit, Kill, End, ReceiveMail, Receive, ForwarderDone,
              ForwarderEnds, forwarderVars, sessionVars
<1>2. ~ForwardMail
  BY DEF ForwardMail, ForwardEmail, serverVars, Alive, IInv, QueueInv, Dormant, Idle
<1>3. ASSUME NEW s \in Session, SessionStep(s)
      PROVE  offered' = offered /\ attempted' = attempted
  <2>1. CASE Accept(s) \/ StoreMail(s) \/ Reply(s) \/ Disconnect(s)
    BY <2>1 DEF Accept, StoreMail, Reply, Disconnect, forwarderVars
  <2>2. ~EndOfMail(s) /\ ~SendMail(s)
    BY DEF EndOfMail, SendMail, Move, serverVars, Alive, IInv, QueueInv, Dormant, Idle
  <2>3. QED
    BY <1>3, <2>1, <2>2 DEF SessionStep
<1>4. QED
  BY <1>1, <1>2, <1>3, StepKinds

(***************************************************************************)
(* As long as the process lives, what has been offered and not tried is in *)
(* the queue or in forward_email (QueueInv).                               *)
(***************************************************************************)
LEMMA BacklogStep ==
  ASSUME IInv, IInv', BacklogInv, [Next]_vars
  PROVE  BacklogInv'
<1>1. CASE ~Alive'
  BY <1>1, EndIsStill DEF BacklogInv
<1>2. CASE Alive'
  <2>1. /\ Len(offered') = Len(attempted') + InHand' + Len(queue')
        /\ Len(queue') <= QueueCapacity /\ InHand' \in {0, 1}
    BY <1>2 DEF IInv, QueueInv, InLine, TypeOK, QueueTypeOK, InHand
  <2>2. Len(queue') \in Nat /\ Len(attempted') \in Nat
    BY DEF IInv, TypeOK, QueueTypeOK
  <2>3. QED
    BY <2>1, <2>2, BoundAssumption DEF BacklogInv
<1>3. QED
  BY <1>1, <1>2

(***************************************************************************)
(* Sink keeps Delivery's promise, because its steps are Delivery's.        *)
(***************************************************************************)
LEMMA PromiseHolds == Spec => [](PromiseInv /\ BacklogInv)
<1>1. Init => PromiseInv /\ BacklogInv
  <2>1. Len(<<>>) = 0
    OBVIOUS
  <2>2. QED
    BY <2>1, BoundAssumption DEF Init, ForwarderInit, PromiseInv, BacklogInv, IsInjective
<1>2. IInv /\ IInv' /\ PromiseInv /\ BacklogInv /\ [Next]_vars
        => (PromiseInv /\ BacklogInv)'
  BY PromiseStep, DeliveryStep, BacklogStep DEF IInv
<1>3. QED
  BY <1>1, <1>2, Inductive, PTL DEF Spec

(***************************************************************************)
(* Nothing is sent to the relay twice, not even a mail that it refused     *)
(* (smtp.rs:413-416, forward.rs:66-79); the tries come in the order of     *)
(* queueing; and whoever was answered had the mail queued first.           *)
(***************************************************************************)
THEOREM TriedOnce ==
  Spec => [](/\ IsInjective(attempted)
             /\ \A i \in DOMAIN attempted : attempted[i] = offered[i]
             /\ forwarding => acked \subseteq ToSet(offered))
<1>1. PromiseInv /\ TypeOK
        => /\ IsInjective(attempted)
           /\ \A i \in DOMAIN attempted : attempted[i] = offered[i]
           /\ forwarding => acked \subseteq ToSet(offered)
  <2> SUFFICES ASSUME PromiseInv, TypeOK
               PROVE  /\ IsInjective(attempted)
                      /\ \A i \in DOMAIN attempted : attempted[i] = offered[i]
                      /\ forwarding => acked \subseteq ToSet(offered)
    OBVIOUS
  <2>1. /\ DOMAIN attempted = 1..Len(attempted) /\ DOMAIN offered = 1..Len(offered)
        /\ Len(attempted) \in Nat /\ Len(offered) \in Nat
    BY DEF TypeOK, QueueTypeOK, SessionTypeOK
  <2>2. /\ DOMAIN attempted \subseteq DOMAIN offered
        /\ \A i \in DOMAIN attempted : attempted[i] = offered[i]
    BY <2>1 DEF PromiseInv
  <2>3. QED
    BY <2>2 DEF PromiseInv, IsInjective
<1>2. QED
  BY <1>1, PromiseHolds, TypeCorrect, PTL

(***************************************************************************)
(* Who waits for room has a later mail than all that were queued and all   *)
(* that have a place (smtp.rs:415, forward.rs:186).                        *)
(***************************************************************************)
THEOREM ServedInTurn == Spec => []InTurn
<1>1. IInv => InTurn
  BY DEF IInv, OrderInv
<1>2. QED
  BY <1>1, Inductive, PTL

(***************************************************************************)
(* The sessions that the mail m has overtaken: theirs came in before it    *)
(* and is not yet queued.                                                  *)
(***************************************************************************)
Overtaken(m) ==
  {s \in Session : pc[s] \in {"sending", "waiting"} /\ mail[s] < m}

(***************************************************************************)
(* Of the mails that came in before a mail that is queued, no more than    *)
(* the queue holds are still to be queued (forward.rs:53), however many    *)
(* sessions there are.                                                     *)
(***************************************************************************)
THEOREM OvertakingIsBounded ==
  Spec => [](\A m \in ToSet(offered) :
               /\ IsFiniteSet(Overtaken(m))
               /\ Cardinality(Overtaken(m)) <= QueueCapacity)
<1>1. IInv => \A m \in ToSet(offered) :
                /\ IsFiniteSet(Overtaken(m))
                /\ Cardinality(Overtaken(m)) <= QueueCapacity
  <2> SUFFICES ASSUME IInv, NEW m \in ToSet(offered)
               PROVE  /\ IsFiniteSet(Overtaken(m))
                      /\ Cardinality(Overtaken(m)) <= QueueCapacity
    OBVIOUS
  <2>0. /\ m \in 1..received /\ received \in Nat
        /\ \A t \in Session :
             pc[t] \in {"sending", "waiting"} => mail[t] \in 1..received
    BY TypeFacts DEF IInv
  <2>1. Overtaken(m) \subseteq granted
    <3> SUFFICES ASSUME NEW s \in Overtaken(m) PROVE s \in granted
      OBVIOUS
    <3>1. s \in Session /\ pc[s] \in {"sending", "waiting"} /\ mail[s] < m
      BY DEF Overtaken
    <3>2. s \in granted \cup ToSet(waiting)
      BY <3>1 DEF IInv, OrderInv
    <3>3. s \in ToSet(waiting) => m < mail[s]
      BY DEF IInv, OrderInv, InTurn
    <3>4. mail[s] \in 1..received
      BY <2>0, <3>1
    <3>5. ~(m < mail[s])
      BY <2>0, <3>1, <3>4
    <3>6. QED
      BY <3>2, <3>3, <3>5
  <2>2. /\ IsFiniteSet(granted) /\ Len(queue) \in Nat
        /\ Len(queue) + Cardinality(granted) <= QueueCapacity
    BY DEF IInv, PermitInv, TypeOK, QueueTypeOK
  <2>3. /\ IsFiniteSet(Overtaken(m))
        /\ Cardinality(Overtaken(m)) <= Cardinality(granted)
    BY <2>1, <2>2, FS_Subset
  <2>4. Cardinality(Overtaken(m)) \in Nat /\ Cardinality(granted) \in Nat
    BY <2>2, <2>3, FS_CardinalityType
  <2>5. QED
    BY <2>2, <2>3, <2>4, BoundAssumption
<1>2. QED
  BY <1>1, Inductive, PTL

(***************************************************************************)
(* Whenever the process ends, no more answered mails are lost to the relay *)
(* than the queue holds and one (forward.rs:53, 72-78).                    *)
(***************************************************************************)
THEOREM LossIsBounded == Spec => []LossBounded
<1>1. TypeOK /\ PromiseInv /\ BacklogInv => LossBounded
  <2> SUFFICES ASSUME TypeOK, PromiseInv, BacklogInv, forwarding
               PROVE  Cardinality(acked \ ToSet(attempted)) <= QueueCapacity + 1
    BY DEF LossBounded
  <2> DEFINE tried == Len(attempted)
             backlog == (tried + 1)..Len(offered)
             mailAt == [i \in backlog |-> offered[i]]
             behind == {mailAt[i] : i \in backlog}
  <2>1. tried \in Nat /\ Len(offered) \in Nat /\ QueueCapacity \in Nat
    BY BoundAssumption DEF TypeOK, QueueTypeOK, SessionTypeOK
  <2>2. tried <= Len(offered) /\ Len(offered) <= tried + QueueCapacity + 1
    BY DEF PromiseInv, BacklogInv
  <2>3. DOMAIN offered = 1..Len(offered) /\ DOMAIN attempted = 1..tried
    BY DEF TypeOK, QueueTypeOK, SessionTypeOK
  <2>4. acked \ ToSet(attempted) \subseteq behind
    <3> SUFFICES ASSUME NEW m \in acked, m \notin ToSet(attempted)
                 PROVE  m \in behind
      OBVIOUS
    <3>1. m \in ToSet(offered)
      BY DEF PromiseInv
    <3>2. PICK i \in 1..Len(offered) : m = offered[i]
      BY <2>3, <3>1 DEF ToSet
    <3>3. i \notin 1..tried
      BY <2>3, <3>2 DEF PromiseInv, ToSet
    <3>4. i \in backlog
      BY <2>1, <3>2, <3>3
    <3>5. QED
      BY <3>2, <3>4
  <2>5. IsFiniteSet(backlog) /\ Cardinality(backlog) <= QueueCapacity + 1
    <3>1. tried + 1 \in Int /\ Len(offered) \in Int
      BY <2>1
    <3>2. /\ IsFiniteSet(backlog)
          /\ Cardinality(backlog) =
               IF tried + 1 > Len(offered) THEN 0 ELSE Len(offered) - (tried + 1) + 1
      BY <3>1, FS_Interval
    <3>3. QED
      BY <2>1, <2>2, <3>2
  <2> HIDE DEF mailAt, backlog
  <2>6. IsFiniteSet(behind) /\ Cardinality(behind) <= Cardinality(backlog)
    <3>1. mailAt \in [backlog -> behind] /\ \A m \in behind : \E i \in backlog : mailAt[i] = m
      BY DEF mailAt
    <3>2. mailAt \in Surjection(backlog, behind)
      BY <3>1 DEF Surjection
    <3>3. QED
      BY <2>5, <3>2, FS_Surjection
  <2> HIDE DEF behind
  <2>7. /\ IsFiniteSet(acked \ ToSet(attempted))
        /\ Cardinality(acked \ ToSet(attempted)) <= Cardinality(behind)
    BY <2>4, <2>6, FS_Subset
  <2>8. Cardinality(acked \ ToSet(attempted)) \in Nat /\ Cardinality(behind) \in Nat
        /\ Cardinality(backlog) \in Nat
    BY <2>5, <2>6, <2>7, FS_CardinalityType
  <2>9. QED
    BY <2>1, <2>5, <2>6, <2>7, <2>8
<1>2. QED
  BY <1>1, PromiseHolds, TypeCorrect, PTL

(***************************************************************************)
(* Why the task that has ended misses nothing: nobody holds a handle, and  *)
(* nobody can get one any more, because nobody is accepted.                *)
(***************************************************************************)
EndInv ==
  /\ main = "down" => ~ended
  /\ Alive /\ ended =>
       /\ forwarding /\ listener = "ended"
       /\ \A s \in Session : pc[s] = "away"
       /\ queue = <<>> /\ relaying = NoMail

(***************************************************************************)
(* A session's step needs a session, and a new one a listener that         *)
(* accepts: the task ended without either, so none can be taken after it.  *)
(***************************************************************************)
LEMMA EndStep ==
  ASSUME IInv, EndInv, [Next]_vars
  PROVE  EndInv'
<1>1. CASE Quiet
  <2>1. /\ UNCHANGED <<forwarding, ended, queue, relaying, pc>>
        /\ Alive' => Alive
        /\ main' = "down" => main = "down"
        /\ main # "down" /\ listener = "ended" => listener' = "ended"
    BY <1>1 DEF Quiet, forwarderVars, sessionVars
  <2>2. QED
    BY <2>1 DEF EndInv
<1>2. CASE Exit \/ Kill
  BY <1>2 DEF Exit, Kill, End, EndInv, Alive
<1>3. CASE ReceiveMail \/ ForwardMail
  <2>1. /\ UNCHANGED <<main, ended>>
        /\ Alive /\ ended => FALSE
    BY <1>3 DEF ReceiveMail, Receive, ForwardMail, ForwardEmail, serverVars, EndInv
  <2>2. QED
    BY <2>1 DEF EndInv, Alive
<1>4. CASE ForwarderDone
  <2>1. /\ UNCHANGED <<main, listener, forwarding, pc, queue, relaying>>
        /\ forwarding /\ listener = "ended"
        /\ \A s \in Session : pc[s] = "away"
        /\ queue = <<>> /\ relaying = NoMail
    BY <1>4 DEF ForwarderDone, ForwarderEnds, serverVars, sessionVars
  <2>2. main # "down"
    BY <2>1 DEF IInv, QueueInv, Dormant, Idle
  <2>3. QED
    BY <2>1, <2>2 DEF EndInv
<1>5. ASSUME NEW s \in Session, SessionStep(s)
      PROVE  EndInv'
  <2>1. UNCHANGED <<main, listener, ended>>
    BY <1>5 DEF SessionStep, Accept, EndOfMail, Acquire, Wait, SendMail, Send,
                StoreMail, Reply, Disconnect, forwarderVars, serverVars
  <2>2. pc[s] # "away" \/ listener = "accepting"
    BY <1>5 DEF SessionStep, Accept, EndOfMail, SendMail, StoreMail, Reply,
                Disconnect, Move
  <2>3. ~(Alive /\ ended)
    BY <2>2 DEF EndInv
  <2>4. QED
    BY <2>1, <2>3 DEF EndInv, Alive
<1>6. QED
  BY <1>1, <1>2, <1>3, <1>4, <1>5, StepKinds

(***************************************************************************)
(* The forwarder's task ends only when it has tried every mail that the    *)
(* store has got and no session is left, or can come, that could queue     *)
(* another (forward.rs:72, lib.rs:78-84): no mail is ever offered to a     *)
(* channel that is closed.                                                 *)
(***************************************************************************)
THEOREM ForwarderEndsLast == Spec => []EndsWithNothingLeft
<1>1. Init => EndInv
  BY DEF Init, ForwarderInit, EndInv
<1>2. IInv /\ EndInv /\ [Next]_vars => EndInv'
  BY EndStep
<1>3. IInv /\ EndInv /\ PromiseInv => EndsWithNothingLeft
  <2> SUFFICES ASSUME IInv, EndInv, PromiseInv, Alive, ended
               PROVE  /\ listener = "ended" /\ \A s \in Session : pc[s] = "away"
                      /\ stored \subseteq ToSet(attempted)
    BY DEF EndsWithNothingLeft
  <2>1. /\ forwarding /\ listener = "ended" /\ \A s \in Session : pc[s] = "away"
        /\ queue = <<>> /\ relaying = NoMail
    BY DEF EndInv
  <2>2. Len(offered) = Len(attempted)
    <3>1. Len(queue) = 0 /\ InHand = 0 /\ Len(attempted) \in Nat
      BY <2>1 DEF InHand, IInv, TypeOK, QueueTypeOK
    <3>2. QED
      BY <3>1 DEF IInv, QueueInv, InLine
  <2>3. /\ DOMAIN offered = 1..Len(offered)
        /\ DOMAIN attempted = 1..Len(attempted)
    BY DEF IInv, TypeOK, QueueTypeOK, SessionTypeOK
  <2>4. ToSet(offered) \subseteq ToSet(attempted)
    BY <2>2, <2>3 DEF PromiseInv, ToSet
  <2>5. QED
    BY <2>1, <2>4 DEF PromiseInv
<1>4. QED
  BY <1>1, <1>2, <1>3, Inductive, PromiseHolds, PTL DEF Spec
=============================================================================
