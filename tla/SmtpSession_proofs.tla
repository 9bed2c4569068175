-------------------------- MODULE SmtpSession_proofs --------------------------
(***************************************************************************)
(* Proofs about one SMTP session, for any configuration, any addresses,    *)
(* any lines and any amount of pipelining.                                 *)
(***************************************************************************)
EXTENDS SmtpSession, SequenceTheorems, TLAPS

BufferedLine == [line : Line, tls : BOOLEAN]

SessionType ==
  [mail_from : Sender \cup {None}, rcpt_to : SUBSET Recipient,
   authenticated : BOOLEAN, tls_active : BOOLEAN, auth_state : AuthState]

MailType ==
  [from : Sender, to : SUBSET Recipient, end : {"bare", "padded", "eof"}]

(* What the arguments of the lines that carry one can be. *)
LEMMA Arguments ==
  ASSUME NEW l \in Line
  PROVE  /\ l.verb = "MAIL FROM:" => l.arg \in Sender \cup {Garbled}
         /\ l.verb = "RCPT TO:" => l.arg \in Recipient \cup {Garbled}
         /\ l.verb = "." => l.arg \in {"bare", "padded"}
BY LineAssumption DEF LineType

(* Taking the next line leaves a buffer of the lines behind it. *)
LEMMA BufferStep ==
  ASSUME buf \in Seq(BufferedLine), buf # <<>>
  PROVE  /\ current \in Line
         /\ Tail(buf) \in Seq(BufferedLine)
         /\ \A i \in DOMAIN Tail(buf) :
              i + 1 \in DOMAIN buf /\ Tail(buf)[i] = buf[i + 1]
<1>1. Head(buf) \in BufferedLine /\ Tail(buf) \in Seq(BufferedLine)
  BY HeadTailProperties
<1>2. current \in Line
  BY <1>1 DEF BufferedLine, current
<1>3. \A i \in DOMAIN Tail(buf) : i + 1 \in DOMAIN buf /\ Tail(buf)[i] = buf[i + 1]
  OBVIOUS
<1>4. QED
  BY <1>1, <1>2, <1>3
-----------------------------------------------------------------------------
LEMMA NewSessionType == NewSession \in SessionType
BY DEF NewSession, SessionType, AuthState

LEMMA ResetType == ASSUME NEW s \in SessionType PROVE Reset(s) \in SessionType
BY DEF Reset, SessionType

(* TypeOK with its sets named. *)
LEMMA TypeParts ==
  TypeOK <=>
    /\ opts \in Options
    /\ phase \in {"closed", "handshake", "command", "data"}
    /\ session \in SessionType
    /\ buf \in Seq(BufferedLine)
    /\ hungup \in BOOLEAN
    /\ reply \in ReplyCode \cup {None}
    /\ delivered \in {None} \cup MailType
    /\ heard \subseteq Secret
    /\ named \subseteq Recipient
    /\ greetings \in Nat
BY DEF TypeOK, SessionType, BufferedLine, MailType

LEMMA EndType == ASSUME TypeOK, NEW cause, End(cause) PROVE TypeOK'
<1>1. <<>> \in Seq(BufferedLine)
  BY EmptySeq
<1>2. /\ opts' \in Options /\ phase' = "closed" /\ session' \in SessionType
      /\ buf' \in Seq(BufferedLine)
  BY <1>1, NewSessionType, TypeParts DEF End
<1>3. QED
  BY <1>2, TypeParts DEF End, TypeOK, SessionType, BufferedLine

(* What processing a line does to the type of what it always touches. *)
LEMMA TakeType ==
  ASSUME TypeOK, NEW p, TakeIn(p)
  PROVE  /\ opts' \in Options /\ buf' \in Seq(BufferedLine)
         /\ hungup' \in BOOLEAN /\ heard' \subseteq Secret /\ greetings' \in Nat
         /\ current \in Line
<1>1. buf \in Seq(BufferedLine) /\ buf # <<>> /\ buf' = Tail(buf)
  BY TypeParts DEF TakeIn
<1>2. Tail(buf) \in Seq(BufferedLine) /\ current \in Line
  BY <1>1, BufferStep
<1>3. heard' \subseteq Secret
  BY TypeParts DEF TakeIn
<1>4. QED
  BY <1>1, <1>2, <1>3, TypeParts DEF TakeIn

(* All that a step of an AUTH exchange can do to the session. *)
LEMMA AuthEffects ==
  ASSUME AnswerPlain \/ AnswerUsername \/ AnswerPassword \/ AuthPlain \/ AuthLogin
  PROVE  \/ session' = session
         \/ \E right \in BOOLEAN : Verdict(right)
         \/ \E st \in AuthState : session' = [session EXCEPT !.auth_state = st]
<1>1. CASE AnswerPlain
  BY <1>1 DEF AnswerPlain, PlainMatches, credentialsSet
<1>2. CASE AnswerUsername
  BY <1>2 DEF AnswerUsername, CannotDecode, AuthState
<1>3. CASE AnswerPassword
  <2>1. CannotDecode \/ \E right \in BOOLEAN : Verdict(right)
    BY <1>3 DEF AnswerPassword, credentialsSet
  <2>2. QED
    BY <2>1 DEF CannotDecode, AuthState
<1>4. CASE AuthPlain \/ AuthLogin
  BY <1>4 DEF AuthPlain, AuthLogin, Says, AuthState, PlainMatches, credentialsSet
<1>5. QED
  BY <1>1, <1>2, <1>3, <1>4

(* A mail is only read for a complete envelope; this is what makes the     *)
(* sender of a delivered mail an address.                                  *)
EnvelopeComplete ==
  phase = "data" => session.mail_from # None /\ session.rcpt_to # {}

(* Every variable keeps its type. *)
LEMMA TypeStep == TypeOK /\ EnvelopeComplete /\ [Next]_vars => TypeOK'
<1> SUFFICES ASSUME TypeOK, EnvelopeComplete, [Next]_vars PROVE TypeOK'
  OBVIOUS
<1>t. /\ session \in SessionType /\ buf \in Seq(BufferedLine) /\ opts \in Options
      /\ phase \in {"closed", "handshake", "command", "data"} /\ hungup \in BOOLEAN
      /\ reply \in ReplyCode \cup {None} /\ delivered \in {None} \cup MailType
      /\ heard \subseteq Secret /\ named \subseteq Recipient /\ greetings \in Nat
  BY TypeParts
<1> DEFINE LineTypes ==
      /\ phase' \in {"command", "handshake", "data"} /\ session' \in SessionType
      /\ reply' \in ReplyCode \cup {None} /\ delivered' \in {None} \cup MailType
      /\ named' \subseteq Recipient
<1>p. ASSUME NEW p, TakeIn(p), LineTypes PROVE TypeOK'
  <2>1. /\ opts' \in Options /\ buf' \in Seq(BufferedLine)
        /\ hungup' \in BOOLEAN /\ heard' \subseteq Secret /\ greetings' \in Nat
    BY <1>p, TakeType
  <2>2. phase' \in {"closed", "command", "handshake", "data"}
    BY <1>p
  <2>3. QED
    BY <1>p, <2>1, <2>2 DEF TypeOK, SessionType, BufferedLine, MailType
<1>s. ASSUME NEW code \in ReplyCode, NEW verb, Command(verb), Says(code)
      PROVE  TypeOK'
  <2>1. TakeIn("command") /\ phase' = "command"
    BY <1>s DEF Command, Says, TakeIn
  <2>2. LineTypes
    BY <1>s, <1>t, <2>1 DEF Says
  <2>3. QED
    BY <1>p, <2>1, <2>2
<1>1. CASE Accept
  <2>1. phase' \in {"command", "handshake"} /\ reply' \in ReplyCode \cup {None}
    BY <1>1, <1>t DEF Accept, ReplyCode
  <2>2. greetings' \in Nat
    BY <1>1, <1>t DEF Accept
  <2>3. UNCHANGED <<opts, session, buf, hungup, delivered, heard, named>>
    BY <1>1 DEF Accept
  <2>4. QED
    BY <1>t, <2>1, <2>2, <2>3
       DEF TypeOK, SessionType, BufferedLine, MailType
<1>2. ASSUME NEW l \in Line, Arrive(l) PROVE TypeOK'
  <2>1. [line |-> l, tls |-> session.tls_active] \in BufferedLine
    BY <1>t DEF SessionType, BufferedLine
  <2>2. buf' \in Seq(BufferedLine)
    BY <1>2, <1>t, <2>1, AppendProperties DEF Arrive
  <2>3. UNCHANGED <<opts, phase, session, hungup, reply, delivered, heard,
                    named, greetings>>
    BY <1>2 DEF Arrive, history
  <2>4. QED
    BY <1>t, <2>2, <2>3 DEF TypeOK, SessionType, BufferedLine, MailType
<1>3. CASE Hangup
  BY <1>3 DEF Hangup, TypeOK, history
<1>4. CASE \/ ConnectionLost \/ HandshakeFailed \/ Eof \/ Panic \/ Quit
           \/ Undecodable("command") \/ Undecodable("data")
  <2>1. PICK cause : End(cause)
    BY <1>4 DEF ConnectionLost, HandshakeFailed, Eof, Panic, Quit, Undecodable
  <2>2. QED
    BY <2>1, EndType
<1>5. CASE HandshakeDone
  <2>1. /\ session' = [Reset(session) EXCEPT !.tls_active = TRUE]
        /\ phase' = "command" /\ buf' = <<>> /\ named' = {}
        /\ reply' = "220" \/ reply' = reply
        /\ greetings' = greetings + 1 \/ greetings' = greetings
        /\ UNCHANGED <<opts, hungup, delivered, heard>>
    BY <1>5 DEF HandshakeDone
  <2>2. session' \in SessionType
    BY <1>t, <2>1, ResetType DEF SessionType
  <2>3. reply' \in ReplyCode \cup {None}
    BY <1>t, <2>1 DEF ReplyCode
  <2>4. greetings' \in Nat
    BY <1>t, <2>1
  <2>5. buf' \in Seq(BufferedLine)
    BY <2>1, EmptySeq
  <2>6. QED
    BY <1>t, <2>1, <2>2, <2>3, <2>4, <2>5
       DEF TypeOK, SessionType, BufferedLine, MailType
<1>6. CASE AnswerPlain \/ AnswerUsername \/ AnswerPassword
  <2>1. TakeIn("command") /\ phase' = "command"
        /\ delivered' = delivered /\ named' = named
    BY <1>6 DEF AnswerPlain, AnswerUsername, AnswerPassword, Answer, TakeIn
  <2>2. \/ session' = session
        \/ \E right \in BOOLEAN : Verdict(right)
        \/ \E st \in AuthState : session' = [session EXCEPT !.auth_state = st]
    BY <1>6, AuthEffects
  <2>3. session' \in SessionType
    BY <1>t, <2>2 DEF SessionType, Verdict, AuthState
  <2>4. reply' \in ReplyCode
    BY <1>6 DEF AnswerPlain, AnswerUsername, AnswerPassword, Verdict,
                CannotDecode, ReplyCode
  <2>5. QED
    BY <1>p, <1>t, <2>1, <2>3, <2>4
<1>7. CASE Ehlo \/ Noop \/ AuthOther \/ Unknown
  <2>1. PICK code \in ReplyCode : Says(code) /\ \E verb : Command(verb)
    BY <1>7 DEF Ehlo, Noop, AuthOther, Unknown, ReplyCode
  <2>2. QED
    BY <1>s, <2>1
<1>8. CASE StartTls
  <2>1. TakeIn("command") /\ session' = session /\ delivered' = delivered
        /\ named' = named
    BY <1>8 DEF StartTls, Command, Says
  <2>2. phase' \in {"command", "handshake"} /\ reply' \in ReplyCode
    BY <1>8 DEF StartTls, Command, TakeIn, Says, ReplyCode
  <2>3. QED
    BY <1>p, <1>t, <2>1, <2>2
<1>9. CASE AuthPlain \/ AuthLogin
  <2>1. TakeIn("command") /\ phase' = "command"
        /\ delivered' = delivered /\ named' = named
    BY <1>9 DEF AuthPlain, AuthLogin, Command, TakeIn, Says
  <2>2. \/ session' = session
        \/ \E right \in BOOLEAN : Verdict(right)
        \/ \E st \in AuthState : session' = [session EXCEPT !.auth_state = st]
    BY <1>9, AuthEffects
  <2>3. session' \in SessionType
    BY <1>t, <2>2 DEF SessionType, Verdict, AuthState
  <2>4. reply' \in ReplyCode
    BY <1>9 DEF AuthPlain, AuthLogin, Says, Verdict, ReplyCode
  <2>5. QED
    BY <1>p, <1>t, <2>1, <2>3, <2>4
<1>10. CASE MailFrom
  <2>1. TakeIn("command") /\ phase' = "command" /\ current \in Line
        /\ current.verb = "MAIL FROM:"
        /\ delivered' = delivered /\ named' = named
    BY <1>10, TakeType DEF MailFrom, Command, TakeIn, Says
  <2>2. \/ session' = session
        \/ /\ current.arg \in Sender
           /\ session' = [session EXCEPT !.mail_from = current.arg]
    BY <1>10, <2>1, Arguments DEF MailFrom, Says
  <2>3. session' \in SessionType
    BY <1>t, <2>2 DEF SessionType
  <2>4. reply' \in ReplyCode
    BY <1>10 DEF MailFrom, Says, ReplyCode
  <2>5. QED
    BY <1>p, <1>t, <2>1, <2>3, <2>4
<1>11. CASE RcptTo
  <2>1. TakeIn("command") /\ phase' = "command" /\ current \in Line
        /\ current.verb = "RCPT TO:" /\ delivered' = delivered
    BY <1>11, TakeType DEF RcptTo, Command, TakeIn, Says
  <2>2. \/ session' = session /\ named' = named
        \/ /\ current.arg \in Recipient
           /\ session' = [session EXCEPT !.rcpt_to = @ \cup {current.arg}]
           /\ named' = named \cup {current.arg}
    BY <1>11, <2>1, Arguments DEF RcptTo, Says
  <2>3. session' \in SessionType /\ named' \subseteq Recipient
    BY <1>t, <2>2 DEF SessionType
  <2>4. reply' \in ReplyCode
    BY <1>11 DEF RcptTo, Says, ReplyCode
  <2>5. QED
    BY <1>p, <1>t, <2>1, <2>3, <2>4
<1>12. CASE DataCommand
  <2>1. TakeIn("command") /\ session' = session /\ delivered' = delivered
        /\ named' = named
    BY <1>12 DEF DataCommand, Command, Says
  <2>2. phase' \in {"command", "data"} /\ reply' \in ReplyCode
    BY <1>12 DEF DataCommand, Command, TakeIn, Says, ReplyCode
  <2>3. QED
    BY <1>p, <1>t, <2>1, <2>2
<1>13. CASE Rset
  <2>1. TakeIn("command") /\ phase' = "command" /\ session' = Reset(session)
        /\ named' = {} /\ reply' = "250" /\ delivered' = delivered
    BY <1>13 DEF Rset, Command, TakeIn
  <2>2. session' \in SessionType /\ reply' \in ReplyCode
    BY <1>t, <2>1, ResetType DEF ReplyCode
  <2>3. QED
    BY <1>p, <1>t, <2>1, <2>2
<1>14. CASE DataLine
  <2>1. TakeIn("data") /\ phase' = "data"
        /\ UNCHANGED <<session, reply, delivered, named>>
    BY <1>14 DEF DataLine, TakeIn
  <2>2. QED
    BY <1>p, <1>t, <2>1
<1>d. ASSUME NEW how \in {"bare", "padded", "eof"}, phase = "data", Deliver(how)
      PROVE  LineTypes
  <2>1. session.mail_from \in Sender /\ session.rcpt_to \subseteq Recipient
    BY <1>t, <1>d DEF SessionType, EnvelopeComplete
  <2>2. delivered' \in MailType
    BY <1>d, <2>1 DEF Deliver, MailType
  <2>3. session' \in SessionType
    BY <1>d, <1>t, ResetType DEF Deliver
  <2>4. phase' = "command" /\ reply' \in ReplyCode /\ named' \subseteq Recipient
    BY <1>d DEF Deliver, ReplyCode
  <2>5. QED
    BY <2>2, <2>3, <2>4
<1>15. CASE DataDot
  <2>1. TakeIn("data") /\ phase = "data" /\ current \in Line /\ current.verb = "."
        /\ Deliver(current.arg)
    BY <1>15, TakeType DEF DataDot, TakeIn
  <2>2. current.arg \in {"bare", "padded", "eof"}
    BY <2>1, Arguments
  <2>3. QED
    BY <1>d, <1>p, <2>1, <2>2
<1>16. CASE DataEof
  <2>1. phase = "data" /\ Deliver("eof")
        /\ UNCHANGED <<opts, buf, hungup, heard, greetings>>
    BY <1>16 DEF DataEof
  <2>2. LineTypes
    BY <1>d, <2>1
  <2>3. phase' \in {"closed", "command", "handshake", "data"}
    BY <2>2
  <2>4. QED
    BY <1>t, <2>1, <2>2, <2>3 DEF TypeOK, SessionType, BufferedLine, MailType
<1>17. CASE UNCHANGED vars
  BY <1>17 DEF vars, history, TypeOK
<1>18. QED
  BY <1>1, <1>2, <1>3, <1>4, <1>5, <1>6, <1>7, <1>8, <1>9, <1>10, <1>11,
     <1>12, <1>13, <1>14, <1>15, <1>16, <1>17 DEF Next, Process
-----------------------------------------------------------------------------
(* The envelope stays complete while the mail is read. *)
LEMMA EnvelopeStep == EnvelopeComplete /\ [Next]_vars => EnvelopeComplete'
<1> SUFFICES ASSUME EnvelopeComplete, [Next]_vars, phase' = "data"
             PROVE  session'.mail_from # None /\ session'.rcpt_to # {}
  BY DEF EnvelopeComplete
<1>1. CASE DataCommand
  BY <1>1 DEF DataCommand, Command, TakeIn, Says
<1>2. CASE phase = "data" /\ session' = session
  BY <1>2 DEF EnvelopeComplete
<1>3. CASE ~DataCommand
  <2>1. CASE Accept \/ Hangup \/ \E l \in Line : Arrive(l)
    BY <1>2, <2>1 DEF Accept, Hangup, Arrive
  <2>2. CASE DataLine \/ UNCHANGED vars
    BY <1>2, <2>2 DEF DataLine, vars, TakeIn
  <2>3. CASE \/ ConnectionLost \/ HandshakeFailed \/ Eof \/ Panic \/ Quit
             \/ Undecodable("command") \/ Undecodable("data")
    BY <2>3 DEF ConnectionLost, HandshakeFailed, Eof, Panic, Quit, Undecodable, End
  <2>4. CASE HandshakeDone \/ DataDot \/ DataEof \/ Rset
    BY <2>4 DEF HandshakeDone, DataDot, DataEof, Deliver, Rset, Command, TakeIn
  <2>5. CASE AnswerPlain \/ AnswerUsername \/ AnswerPassword
    BY <2>5 DEF AnswerPlain, AnswerUsername, AnswerPassword, Answer, TakeIn
  <2>6. CASE Ehlo \/ Noop \/ AuthOther \/ Unknown \/ StartTls \/ AuthPlain
             \/ AuthLogin \/ MailFrom \/ RcptTo
    BY <2>6 DEF Ehlo, Noop, AuthOther, Unknown, StartTls, AuthPlain, AuthLogin,
                MailFrom, RcptTo, Command, TakeIn, Says
  <2>7. QED
    BY <1>3, <2>1, <2>2, <2>3, <2>4, <2>5, <2>6 DEF Next, Process
<1>4. QED
  BY <1>1, <1>3

(* A session starts well typed. *)
LEMMA TypeInit == Init => TypeOK /\ EnvelopeComplete
<1> SUFFICES ASSUME Init PROVE TypeOK /\ EnvelopeComplete
  OBVIOUS
<1>1. <<>> \in Seq(BufferedLine)
  BY EmptySeq
<1>2. /\ opts \in Options /\ phase = "closed" /\ session \in SessionType
      /\ buf \in Seq(BufferedLine)
  BY <1>1, NewSessionType DEF Init
<1>3. TypeOK
  BY <1>2, TypeParts DEF Init
<1>4. QED
  BY <1>2, <1>3 DEF EnvelopeComplete

(***************************************************************************)
(* Type correctness: whatever the client sends, every field of the session *)
(* and of the mails it delivers holds a value of its type; in particular   *)
(* a mail is never stored without a sender.                                *)
(***************************************************************************)
THEOREM TypeCorrect == Spec => [](TypeOK /\ EnvelopeComplete)
<1>1. Init => TypeOK /\ EnvelopeComplete
  BY TypeInit
<1>2. TypeOK /\ EnvelopeComplete /\ [Next]_vars => (TypeOK /\ EnvelopeComplete)'
  BY TypeStep, EnvelopeStep
<1>3. QED
  BY <1>1, <1>2, PTL DEF Spec
-----------------------------------------------------------------------------
(* Authentication.                                                         *)

GaveCredentials ==
  /\ credentialsSet
  /\ "userpass" \in heard \/ {"user", "password"} \subseteq heard

(***************************************************************************)
(* DeliveredOnlyIfAuthorized speaks of the mail only.  What carries it     *)
(* through a session is that the flag, and the name a LOGIN exchange has   *)
(* decoded, were earned by what the client sent, and that the gate passed  *)
(* at DATA still stands when the mail is complete.                         *)
(***************************************************************************)
AuthInv ==
  /\ session.authenticated => GaveCredentials
  /\ session.auth_state = "Password of user" => "user" \in heard
  /\ phase = "data" => authorized
  /\ DeliveredOnlyIfAuthorized

(* Steps that neither set the flag, nor decode the configured name, nor    *)
(* begin or deliver a mail.                                                *)
LEMMA AuthKept ==
  ASSUME AuthInv, opts' = opts, heard \subseteq heard', delivered' = delivered,
         session'.authenticated = session.authenticated,
         \/ session'.auth_state = session.auth_state
         \/ session'.auth_state # "Password of user",
         phase' = phase \/ phase' # "data"
  PROVE  AuthInv'
<1>1. GaveCredentials => GaveCredentials'
  BY DEF GaveCredentials, credentialsSet
<1>2. GaveCredentials' <=> /\ opts'.auth_username /\ opts'.auth_password
                           /\ "userpass" \in heard' \/ {"user", "password"} \subseteq heard'
  BY DEF GaveCredentials, credentialsSet
<1>3. DeliveredOnlyIfAuthorized'
  BY DEF AuthInv, DeliveredOnlyIfAuthorized, credentialsSet
<1>4. QED
  BY <1>1, <1>3 DEF AuthInv, authorized

LEMMA AuthStep == TypeOK /\ AuthInv /\ [Next]_vars => AuthInv'
<1> SUFFICES ASSUME TypeOK, AuthInv, [Next]_vars PROVE AuthInv'
  OBVIOUS
<1>t. session \in SessionType
  BY TypeParts
(* The verdict of an exchange that was right only with the credentials. *)
<1>v. ASSUME NEW right \in BOOLEAN, Verdict(right), right => GaveCredentials',
             opts' = opts, heard \subseteq heard', delivered' = delivered,
             phase' = "command"
      PROVE  AuthInv'
  <2>1. /\ session'.authenticated = (right \/ session.authenticated)
        /\ session'.auth_state = "None"
    BY <1>v, <1>t DEF Verdict, SessionType
  <2>2. session'.authenticated => GaveCredentials'
    BY <1>v, <2>1 DEF AuthInv, GaveCredentials, credentialsSet
  <2>3. DeliveredOnlyIfAuthorized'
    BY <1>v DEF AuthInv, DeliveredOnlyIfAuthorized, credentialsSet
  <2>4. QED
    BY <1>v, <2>1, <2>2, <2>3 DEF AuthInv
<1>h. ASSUME NEW p, TakeIn(p) PROVE opts' = opts /\ heard \subseteq heard'
  BY <1>h DEF TakeIn
<1>1. CASE Accept \/ Hangup \/ \E l \in Line : Arrive(l)
  BY <1>1, AuthKept DEF Accept, Hangup, Arrive, history
<1>2. CASE UNCHANGED vars
  BY <1>2, AuthKept DEF vars, history
<1>3. CASE \/ ConnectionLost \/ HandshakeFailed \/ Eof \/ Panic \/ Quit
           \/ Undecodable("command") \/ Undecodable("data")
  <2>1. /\ session' = NewSession /\ phase' = "closed" /\ delivered' = None
    BY <1>3 DEF ConnectionLost, HandshakeFailed, Eof, Panic, Quit, Undecodable, End
  <2>2. QED
    BY <2>1 DEF AuthInv, NewSession, DeliveredOnlyIfAuthorized
<1>4. CASE HandshakeDone
  <2>1. /\ session' = [Reset(session) EXCEPT !.tls_active = TRUE]
        /\ phase' = "command" /\ UNCHANGED <<opts, delivered, heard>>
    BY <1>4 DEF HandshakeDone
  <2>2. /\ session'.authenticated = session.authenticated
        /\ session'.auth_state = session.auth_state
    BY <1>t, <2>1 DEF Reset, SessionType
  <2>3. QED
    BY <2>1, <2>2, AuthKept
<1>5. CASE AnswerPlain
  <2>1. /\ TakeIn("command") /\ phase' = "command" /\ delivered' = delivered
        /\ session.auth_state = "Plain"
        /\ Verdict(current.verb = "CRED" /\ PlainMatches(current))
    BY <1>5 DEF AnswerPlain, Answer, TakeIn
  <2>2. heard' = heard \cup ({current.arg} \cap Secret)
    BY <2>1 DEF TakeIn
  <2>3. PlainMatches(current) => GaveCredentials'
    BY <1>h, <2>1, <2>2 DEF PlainMatches, GaveCredentials, credentialsSet, Secret
  <2>4. QED
    BY <1>h, <1>v, <2>1, <2>3
<1>6. CASE AnswerUsername
  <2>1. /\ TakeIn("command") /\ phase' = "command" /\ delivered' = delivered
        /\ session.auth_state = "Username"
    BY <1>6 DEF AnswerUsername, Answer, TakeIn
  <2>2. heard' = heard \cup ({current.arg} \cap Secret)
    BY <2>1 DEF TakeIn
  <2>3. /\ session'.authenticated = session.authenticated
        /\ session'.auth_state = "Password of user" => current.arg = "user"
    BY <1>6, <1>t DEF AnswerUsername, CannotDecode, SessionType
  <2>4. session'.auth_state = "Password of user" => "user" \in heard'
    BY <2>2, <2>3 DEF Secret
  <2>5. session'.authenticated => GaveCredentials'
    BY <1>h, <2>1, <2>3 DEF AuthInv, GaveCredentials, credentialsSet
  <2>6. DeliveredOnlyIfAuthorized'
    BY <1>h, <2>1 DEF AuthInv, DeliveredOnlyIfAuthorized, credentialsSet
  <2>7. QED
    BY <2>1, <2>4, <2>5, <2>6 DEF AuthInv
<1>7. CASE AnswerPassword
  <2>1. PICK state \in {"Password of user", "Password of other"} :
          /\ Answer(state)
          /\ \/ CannotDecode
             \/ Verdict(/\ state = "Password of user"
                        /\ current.arg = "password"
                        /\ credentialsSet)
    BY <1>7 DEF AnswerPassword
  <2>2. /\ TakeIn("command") /\ phase' = "command" /\ delivered' = delivered
        /\ session.auth_state = state
        /\ heard' = heard \cup ({current.arg} \cap Secret)
    BY <2>1 DEF Answer, TakeIn
  <2>3. CASE CannotDecode
    <3>1. session'.authenticated = session.authenticated
          /\ session'.auth_state = "None"
      BY <1>t, <2>3 DEF CannotDecode, SessionType
    <3>2. QED
      BY <1>h, <2>2, <3>1, AuthKept
  <2>4. CASE Verdict(/\ state = "Password of user"
                     /\ current.arg = "password" /\ credentialsSet)
    <3>1. state = "Password of user" /\ current.arg = "password" /\ credentialsSet
            => GaveCredentials'
      BY <1>h, <2>2 DEF AuthInv, GaveCredentials, credentialsSet, Secret
    <3>2. QED
      BY <1>h, <1>v, <2>2, <2>4, <3>1
  <2>5. QED
    BY <2>1, <2>3, <2>4
<1>8. CASE AuthPlain
  <2>1. /\ TakeIn("command") /\ phase' = "command" /\ delivered' = delivered
        /\ current.verb = "AUTH PLAIN"
    BY <1>8 DEF AuthPlain, Command, TakeIn, Says
  <2>2. heard' = heard \cup ({current.arg} \cap Secret)
    BY <2>1 DEF TakeIn
  <2>3. \/ session' = session
        \/ session' = [session EXCEPT !.auth_state = "Plain"]
        \/ Verdict(PlainMatches(current))
    BY <1>8 DEF AuthPlain, Says
  <2>4. CASE Verdict(PlainMatches(current))
    <3>1. PlainMatches(current) => GaveCredentials'
      BY <1>h, <2>1, <2>2 DEF PlainMatches, GaveCredentials, credentialsSet, Secret
    <3>2. PlainMatches(current) \in BOOLEAN
      BY DEF PlainMatches
    <3>3. QED
      BY <1>h, <1>v, <2>1, <2>4, <3>1, <3>2
  <2>5. CASE session' = session \/ session' = [session EXCEPT !.auth_state = "Plain"]
    <3>1. /\ session'.authenticated = session.authenticated
          /\ \/ session'.auth_state = session.auth_state
             \/ session'.auth_state # "Password of user"
      BY <1>t, <2>5 DEF SessionType
    <3>2. QED
      BY <1>h, <2>1, <3>1, AuthKept
  <2>6. QED
    BY <2>3, <2>4, <2>5
<1>9. CASE \/ Ehlo \/ Noop \/ AuthOther \/ Unknown \/ StartTls \/ AuthLogin
           \/ MailFrom \/ RcptTo \/ Rset
  <2>1. TakeIn("command") /\ phase' # "data" /\ delivered' = delivered
    BY <1>9 DEF Ehlo, Noop, AuthOther, Unknown, StartTls, AuthLogin, MailFrom,
                RcptTo, Rset, Command, TakeIn, Says
  <2>2. \/ session' = session \/ session' = Reset(session)
        \/ session' = [session EXCEPT !.auth_state = "Username"]
        \/ session' = [session EXCEPT !.mail_from = current.arg]
        \/ session' = [session EXCEPT !.rcpt_to = @ \cup {current.arg}]
    BY <1>9 DEF Ehlo, Noop, AuthOther, Unknown, StartTls, AuthLogin, MailFrom,
                RcptTo, Rset, Says
  <2>3. /\ session'.authenticated = session.authenticated
        /\ \/ session'.auth_state = session.auth_state
           \/ session'.auth_state # "Password of user"
    BY <1>t, <2>2 DEF SessionType, Reset
  <2>4. QED
    BY <1>h, <2>1, <2>3, AuthKept
<1>10. CASE DataCommand
  <2>1. TakeIn("command") /\ session' = session /\ delivered' = delivered
    BY <1>10 DEF DataCommand, Command, Says
  <2>2. phase' = "data" => authorized'
    BY <1>10, <1>h, <2>1 DEF DataCommand, Command, TakeIn, Says, authorized
  <2>3. session'.authenticated => GaveCredentials'
    BY <1>h, <2>1 DEF AuthInv, GaveCredentials, credentialsSet
  <2>4. session'.auth_state = "Password of user" => "user" \in heard'
    BY <1>h, <2>1 DEF AuthInv
  <2>5. DeliveredOnlyIfAuthorized'
    BY <1>h, <2>1 DEF AuthInv, DeliveredOnlyIfAuthorized, credentialsSet
  <2>6. QED
    BY <2>2, <2>3, <2>4, <2>5 DEF AuthInv
<1>11. CASE DataLine
  <2>1. TakeIn("data") /\ UNCHANGED <<phase, session, delivered>>
    BY <1>11 DEF DataLine
  <2>2. QED
    BY <1>h, <2>1, AuthKept
<1>12. CASE DataDot \/ DataEof
  <2>1. /\ phase = "data" /\ phase' = "command" /\ session' = Reset(session)
        /\ opts' = opts /\ heard \subseteq heard'
    BY <1>12, <1>h DEF DataDot, DataEof, Deliver, TakeIn
  <2>2. /\ session'.authenticated = session.authenticated
        /\ session'.auth_state = session.auth_state
    BY <1>t, <2>1 DEF Reset, SessionType
  <2>3. session'.authenticated => GaveCredentials'
    BY <2>1, <2>2 DEF AuthInv, GaveCredentials, credentialsSet
  <2>4. opts.auth_required => session.authenticated
    BY <2>1 DEF AuthInv, authorized
  <2>5. DeliveredOnlyIfAuthorized'
    BY <2>1, <2>2, <2>3, <2>4
       DEF DeliveredOnlyIfAuthorized, GaveCredentials, credentialsSet
  <2>6. session'.auth_state = "Password of user" => "user" \in heard'
    BY <2>1, <2>2 DEF AuthInv
  <2>7. QED
    BY <2>1, <2>3, <2>5, <2>6 DEF AuthInv
<1>13. QED
  BY <1>1, <1>2, <1>3, <1>4, <1>5, <1>6, <1>7, <1>8, <1>9, <1>10, <1>11, <1>12
     DEF Next, Process

(***************************************************************************)
(* With auth_required, no client gets a mail into the store without having *)
(* sent the configured name and password, whatever else it sent.           *)
(***************************************************************************)
THEOREM AuthenticationHolds == Spec => []DeliveredOnlyIfAuthorized
<1>1. Init => AuthInv
  BY DEF Init, AuthInv, NewSession, DeliveredOnlyIfAuthorized
<1>2. TypeOK /\ AuthInv /\ [Next]_vars => AuthInv'
  BY AuthStep
<1>3. AuthInv => DeliveredOnlyIfAuthorized
  BY DEF AuthInv
<1>4. QED
  BY <1>1, <1>2, <1>3, TypeCorrect, PTL DEF Spec
-----------------------------------------------------------------------------
(* The envelope.                                                           *)

EnvelopeKept ==
  /\ session'.mail_from = session.mail_from /\ session'.rcpt_to = session.rcpt_to
  /\ delivered' = delivered /\ named' = named

SenderAdmitted ==
  /\ whitelist = {} \/ Lower(session'.mail_from) \in whitelist
  /\ session'.rcpt_to = session.rcpt_to
  /\ delivered' = delivered /\ named' = named

RecipientNamed ==
  /\ session'.mail_from = session.mail_from
  /\ \E to : /\ session'.rcpt_to = session.rcpt_to \cup {to}
             /\ named' = named \cup {to}
  /\ delivered' = delivered

EnvelopeCleared ==
  /\ session'.mail_from = None /\ session'.rcpt_to = {} /\ named' = {}
  /\ delivered' \in {None, delivered}

EnvelopeDelivered ==
  /\ phase = "data"
  /\ session'.mail_from = None /\ session'.rcpt_to = {} /\ named' = {}
  /\ delivered'.from = session.mail_from /\ delivered'.to = session.rcpt_to

(* All that a step can do to the envelope. *)
LEMMA EnvelopeEffects ==
  ASSUME TypeOK, [Next]_vars
  PROVE  /\ opts' = opts
         /\ \/ EnvelopeKept \/ SenderAdmitted \/ RecipientNamed
            \/ EnvelopeCleared \/ EnvelopeDelivered
<1>t. session \in SessionType
  BY TypeParts
<1>1. CASE Accept \/ Hangup \/ (\E l \in Line : Arrive(l)) \/ UNCHANGED vars
  BY <1>1 DEF Accept, Hangup, Arrive, vars, history, EnvelopeKept
<1>2. CASE \/ ConnectionLost \/ HandshakeFailed \/ Eof \/ Panic \/ Quit
           \/ Undecodable("command") \/ Undecodable("data")
  <2>1. /\ opts' = opts /\ session' = NewSession /\ delivered' = None /\ named' = {}
    BY <1>2 DEF ConnectionLost, HandshakeFailed, Eof, Panic, Quit, Undecodable, End
  <2>2. QED
    BY <2>1 DEF EnvelopeCleared, NewSession
<1>3. CASE HandshakeDone \/ Rset
  <2>1. /\ opts' = opts /\ delivered' = delivered /\ named' = {}
        /\ \/ session' = Reset(session)
           \/ session' = [Reset(session) EXCEPT !.tls_active = TRUE]
    BY <1>3 DEF HandshakeDone, Rset, Command, TakeIn
  <2>2. QED
    BY <1>t, <2>1 DEF EnvelopeCleared, Reset, SessionType
<1>4. CASE AnswerPlain \/ AnswerUsername \/ AnswerPassword \/ AuthPlain \/ AuthLogin
  <2>1. opts' = opts /\ delivered' = delivered /\ named' = named
    BY <1>4 DEF AnswerPlain, AnswerUsername, AnswerPassword, Answer, AuthPlain,
                AuthLogin, Command, TakeIn, Says
  <2>2. \/ session' = session
        \/ \E right \in BOOLEAN : Verdict(right)
        \/ \E st \in AuthState : session' = [session EXCEPT !.auth_state = st]
    BY <1>4, AuthEffects
  <2>3. QED
    BY <1>t, <2>1, <2>2 DEF EnvelopeKept, SessionType, Verdict
<1>5. CASE Ehlo \/ Noop \/ AuthOther \/ Unknown \/ StartTls \/ DataCommand \/ DataLine
  BY <1>5 DEF Ehlo, Noop, AuthOther, Unknown, StartTls, DataCommand, DataLine,
              Command, TakeIn, Says, EnvelopeKept
<1>6. CASE MailFrom
  <2>1. opts' = opts /\ delivered' = delivered /\ named' = named
    BY <1>6 DEF MailFrom, Command, TakeIn, Says
  <2>2. \/ session' = session
        \/ /\ whitelist = {} \/ Lower(current.arg) \in whitelist
           /\ session' = [session EXCEPT !.mail_from = current.arg]
    BY <1>6 DEF MailFrom, Says
  <2>3. QED
    BY <1>t, <2>1, <2>2 DEF EnvelopeKept, SenderAdmitted, SessionType
<1>7. CASE RcptTo
  <2>1. opts' = opts /\ delivered' = delivered
    BY <1>7 DEF RcptTo, Command, TakeIn, Says
  <2>2. \/ session' = session /\ named' = named
        \/ /\ session' = [session EXCEPT !.rcpt_to = @ \cup {current.arg}]
           /\ named' = named \cup {current.arg}
    BY <1>7 DEF RcptTo, Says
  <2>3. QED
    BY <1>t, <2>1, <2>2 DEF EnvelopeKept, RecipientNamed, SessionType
<1>8. CASE DataDot \/ DataEof
  <2>1. /\ opts' = opts /\ phase = "data" /\ session' = Reset(session) /\ named' = {}
        /\ delivered'.from = session.mail_from /\ delivered'.to = session.rcpt_to
    <3>1. PICK how : Deliver(how)
      BY <1>8 DEF DataDot, DataEof
    <3>2. opts' = opts /\ phase = "data"
      BY <1>8 DEF DataDot, DataEof, TakeIn
    <3>3. QED
      BY <3>1, <3>2 DEF Deliver
  <2>2. QED
    BY <1>t, <2>1 DEF EnvelopeDelivered, Reset, SessionType
<1>9. QED
  BY <1>1, <1>2, <1>3, <1>4, <1>5, <1>6, <1>7, <1>8 DEF Next, Process

(* The sender a session holds has passed the whitelist. *)
SenderInv ==
  /\ session.mail_from # None /\ whitelist # {} =>
       Lower(session.mail_from) \in whitelist
  /\ SenderWhitelisted

LEMMA SenderStep ==
  TypeOK /\ EnvelopeComplete /\ SenderInv /\ [Next]_vars => SenderInv'
<1> SUFFICES ASSUME TypeOK, EnvelopeComplete, SenderInv, [Next]_vars
             PROVE  SenderInv'
  OBVIOUS
<1>1. opts' = opts
  BY EnvelopeEffects
<1>2. whitelist' = whitelist
  BY <1>1 DEF whitelist
<1>3. CASE EnvelopeKept \/ SenderAdmitted \/ RecipientNamed \/ EnvelopeCleared
  BY <1>2, <1>3 DEF SenderInv, SenderWhitelisted, EnvelopeKept, SenderAdmitted,
                    RecipientNamed, EnvelopeCleared
<1>4. CASE EnvelopeDelivered
  BY <1>2, <1>4 DEF SenderInv, SenderWhitelisted, EnvelopeDelivered, EnvelopeComplete
<1>5. QED
  BY <1>3, <1>4, EnvelopeEffects

(***************************************************************************)
(* Every mail stored under a whitelist comes from a sender it names.       *)
(***************************************************************************)
THEOREM WhitelistHolds == Spec => []SenderWhitelisted
<1>1. Init => SenderInv
  BY DEF Init, SenderInv, NewSession, SenderWhitelisted
<1>2. TypeOK /\ EnvelopeComplete /\ SenderInv /\ [Next]_vars => SenderInv'
  BY SenderStep
<1>3. SenderInv => SenderWhitelisted
  BY DEF SenderInv
<1>4. QED
  BY <1>1, <1>2, <1>3, TypeCorrect, PTL DEF Spec

(* The recipients a session holds were named since the envelope was reset. *)
RecipientsInv == session.rcpt_to \subseteq named

LEMMA RecipientsStep == TypeOK /\ RecipientsInv /\ [Next]_vars => RecipientsInv'
BY EnvelopeEffects DEF RecipientsInv, EnvelopeKept, SenderAdmitted,
     RecipientNamed, EnvelopeCleared, EnvelopeDelivered

(***************************************************************************)
(* No recipient is carried from one envelope into the next, and no mail is *)
(* stored without one.                                                     *)
(***************************************************************************)
THEOREM EnvelopesAreSeparate == Spec => EnvelopeSinceReset
<1> DEFINE Fresh == delivered' # delivered /\ delivered' # None =>
                      delivered'.to # {} /\ delivered'.to \subseteq named
<1>1. Init => RecipientsInv
  BY DEF Init, RecipientsInv, NewSession
<1>2. TypeOK /\ RecipientsInv /\ [Next]_vars => RecipientsInv'
  BY RecipientsStep
<1>3. TypeOK /\ EnvelopeComplete /\ RecipientsInv /\ [Next]_vars => [Fresh]_vars
  <2> SUFFICES ASSUME TypeOK, EnvelopeComplete, RecipientsInv, [Next]_vars
               PROVE  Fresh
    OBVIOUS
  <2>1. CASE EnvelopeKept \/ SenderAdmitted \/ RecipientNamed \/ EnvelopeCleared
    BY <2>1 DEF EnvelopeKept, SenderAdmitted, RecipientNamed, EnvelopeCleared
  <2>2. CASE EnvelopeDelivered
    BY <2>2 DEF EnvelopeDelivered, EnvelopeComplete, RecipientsInv
  <2>3. QED
    BY <2>1, <2>2, EnvelopeEffects
<1>4. QED
  BY <1>1, <1>2, <1>3, TypeCorrect, PTL DEF Spec, EnvelopeSinceReset
-----------------------------------------------------------------------------
(* STARTTLS.                                                               *)

(* Steps that only take lines out of the buffer, or change nothing of it. *)
LEMMA BufferKept ==
  ASSUME TypeOK, NoPlaintextAfterTls, session'.tls_active = session.tls_active,
         buf' = buf \/ (buf # <<>> /\ buf' = Tail(buf))
  PROVE  NoPlaintextAfterTls'
<1>1. buf \in Seq(BufferedLine)
  BY TypeParts
<1>2. CASE buf' = buf
  BY <1>2 DEF NoPlaintextAfterTls
<1>3. CASE buf # <<>> /\ buf' = Tail(buf)
  BY <1>1, <1>3, BufferStep DEF NoPlaintextAfterTls
<1>4. QED
  BY <1>2, <1>3

LEMMA PlaintextStep ==
  TypeOK /\ NoPlaintextAfterTls /\ [Next]_vars => NoPlaintextAfterTls'
<1> SUFFICES ASSUME TypeOK, NoPlaintextAfterTls, [Next]_vars
             PROVE  NoPlaintextAfterTls'
  OBVIOUS
<1>t. session \in SessionType /\ buf \in Seq(BufferedLine)
  BY TypeParts
<1>1. CASE Accept \/ Hangup \/ UNCHANGED vars
  BY <1>1, BufferKept DEF Accept, Hangup, vars, history
<1>2. ASSUME NEW l \in Line, Arrive(l) PROVE NoPlaintextAfterTls'
  <2>1. /\ session' = session
        /\ buf' = Append(buf, [line |-> l, tls |-> session.tls_active])
    BY <1>2 DEF Arrive
  <2>2. CASE session.tls_active
    <3>1. ASSUME NEW i \in DOMAIN buf' PROVE buf'[i].tls
      BY <1>t, <2>1, <2>2, <3>1 DEF NoPlaintextAfterTls
    <3>2. QED
      BY <3>1 DEF NoPlaintextAfterTls
  <2>3. CASE ~session.tls_active
    BY <2>1, <2>3 DEF NoPlaintextAfterTls
  <2>4. QED
    BY <2>2, <2>3
<1>3. CASE \/ ConnectionLost \/ HandshakeFailed \/ Eof \/ Panic \/ Quit
           \/ Undecodable("command") \/ Undecodable("data") \/ HandshakeDone
  <2>1. buf' = <<>>
    BY <1>3 DEF ConnectionLost, HandshakeFailed, Eof, Panic, Quit, Undecodable,
                End, HandshakeDone
  <2>2. QED
    BY <2>1 DEF NoPlaintextAfterTls
<1>4. CASE \/ AnswerPlain \/ AnswerUsername \/ AnswerPassword \/ AuthPlain
           \/ AuthLogin
  <2>1. buf # <<>> /\ buf' = Tail(buf)
    BY <1>4 DEF AnswerPlain, AnswerUsername, AnswerPassword, Answer, AuthPlain,
                AuthLogin, Command, TakeIn
  <2>2. \/ session' = session
        \/ \E right \in BOOLEAN : Verdict(right)
        \/ \E st \in AuthState : session' = [session EXCEPT !.auth_state = st]
    BY <1>4, AuthEffects
  <2>3. session'.tls_active = session.tls_active
    BY <1>t, <2>2 DEF SessionType, Verdict
  <2>4. QED
    BY <2>1, <2>3, BufferKept
<1>5. CASE \/ Ehlo \/ Noop \/ AuthOther \/ Unknown \/ StartTls \/ DataCommand
           \/ DataLine \/ MailFrom \/ RcptTo \/ Rset \/ DataDot
  <2>1. buf # <<>> /\ buf' = Tail(buf)
    BY <1>5 DEF Ehlo, Noop, AuthOther, Unknown, StartTls, DataCommand, DataLine,
                MailFrom, RcptTo, Rset, DataDot, Command, TakeIn
  <2>2. \/ session' = session \/ session' = Reset(session)
        \/ session' = [session EXCEPT !.mail_from = current.arg]
        \/ session' = [session EXCEPT !.rcpt_to = @ \cup {current.arg}]
    BY <1>5 DEF Ehlo, Noop, AuthOther, Unknown, StartTls, DataCommand, DataLine,
                MailFrom, RcptTo, Rset, DataDot, Deliver, Says
  <2>3. session'.tls_active = session.tls_active
    BY <1>t, <2>2 DEF SessionType, Reset
  <2>4. QED
    BY <2>1, <2>3, BufferKept
<1>6. CASE DataEof
  <2>1. buf' = buf /\ session' = Reset(session)
    BY <1>6 DEF DataEof, Deliver
  <2>2. session'.tls_active = session.tls_active
    BY <1>t, <2>1 DEF SessionType, Reset
  <2>3. QED
    BY <2>1, <2>2, BufferKept
<1>7. QED
  BY <1>1, <1>2, <1>3, <1>4, <1>5, <1>6 DEF Next, Process

(***************************************************************************)
(* However much a client pipelines behind STARTTLS, nothing of it is acted *)
(* on in the secured session.                                              *)
(***************************************************************************)
THEOREM PlaintextIsDropped == Spec => []NoPlaintextAfterTls
<1>1. Init => NoPlaintextAfterTls
  BY DEF Init, NewSession, NoPlaintextAfterTls
<1>2. TypeOK /\ NoPlaintextAfterTls /\ [Next]_vars => NoPlaintextAfterTls'
  BY PlaintextStep
<1>3. QED
  BY <1>1, <1>2, TypeCorrect, PTL DEF Spec
-----------------------------------------------------------------------------
(* Replies.                                                                *)

(* A connection begins and a handshake runs outside of any AUTH exchange.  *)
ReplyInv ==
  /\ ReplyTellsState
  /\ phase \in {"closed", "handshake"} => session.auth_state = "None"
  /\ phase = "closed" => reply = None

LEMMA ReplyStep == TypeOK /\ ReplyInv /\ [Next]_vars => ReplyInv'
<1> SUFFICES ASSUME TypeOK, ReplyInv, [Next]_vars PROVE ReplyInv'
  OBVIOUS
<1>t. session \in SessionType
  BY TypeParts
(* A step that answers with an ordinary code returns to the commands. *)
<1>o. ASSUME session'.auth_state = "None", phase' \in {"command", "handshake"},
             reply' \notin {"334", "354"}
      PROVE  ReplyInv'
  BY <1>o DEF ReplyInv, ReplyTellsState
<1>c. ASSUME NEW verb, Command(verb)
      PROVE  session.auth_state = "None" /\ phase = "command"
  BY <1>c DEF Command, TakeIn
<1>1. CASE Accept
  <2>1. /\ session'.auth_state = "None" /\ phase' \in {"command", "handshake"}
        /\ reply' \in {None, "220"}
    BY <1>1 DEF Accept, ReplyInv
  <2>2. None \notin {"334", "354"}
    BY NamesAssumption DEF ReplyCode
  <2>3. QED
    BY <1>o, <2>1, <2>2
<1>2. CASE Hangup \/ DataLine \/ (\E l \in Line : Arrive(l)) \/ UNCHANGED vars
  BY <1>2 DEF Hangup, Arrive, DataLine, TakeIn, vars, ReplyInv, ReplyTellsState
<1>3. CASE \/ ConnectionLost \/ HandshakeFailed \/ Eof \/ Panic \/ Quit
           \/ Undecodable("command") \/ Undecodable("data")
  <2>1. phase' = "closed" /\ session' = NewSession /\ reply' = None
    BY <1>3 DEF ConnectionLost, HandshakeFailed, Eof, Panic, Quit, Undecodable, End
  <2>2. QED
    BY <2>1 DEF ReplyInv, ReplyTellsState, NewSession
<1>4. CASE HandshakeDone
  <2>1. /\ session' = [Reset(session) EXCEPT !.tls_active = TRUE]
        /\ phase = "handshake" /\ phase' = "command"
    BY <1>4 DEF HandshakeDone
  <2>2. /\ session'.auth_state = "None"
        /\ session'.mail_from = None /\ session'.rcpt_to = {}
    BY <1>t, <2>1 DEF SessionType, Reset, ReplyInv
  <2>3. reply' = "220"
    BY <1>4, <2>2 DEF HandshakeDone
  <2>4. QED
    BY <1>o, <2>1, <2>2, <2>3
<1>v. ASSUME NEW right, Verdict(right), phase' = "command" PROVE ReplyInv'
  <2>1. session'.auth_state = "None" /\ reply' \in {"235", "535"}
    BY <1>v, <1>t DEF Verdict, SessionType
  <2>2. QED
    BY <1>o, <1>v, <2>1
<1>x. ASSUME CannotDecode, phase' = "command" PROVE ReplyInv'
  <2>1. session'.auth_state = "None" /\ reply' = "501"
    BY <1>x, <1>t DEF CannotDecode, SessionType
  <2>2. QED
    BY <1>o, <1>x, <2>1
<1>g. ASSUME NEW st \in AuthState \ {"None"}, phase' = "command", reply' = "334",
             session' = [session EXCEPT !.auth_state = st]
      PROVE  ReplyInv'
  <2>1. session'.auth_state # "None"
    BY <1>g, <1>t DEF SessionType
  <2>2. QED
    BY <1>g, <2>1 DEF ReplyInv, ReplyTellsState
<1>5. CASE AnswerPlain
  BY <1>5, <1>v DEF AnswerPlain, Answer, TakeIn
<1>6. CASE AnswerUsername
  <2>1. phase' = "command"
    BY <1>6 DEF AnswerUsername, Answer, TakeIn
  <2>2. \/ CannotDecode
        \/ /\ reply' = "334"
           /\ \E st \in AuthState \ {"None"} :
                session' = [session EXCEPT !.auth_state = st]
    BY <1>6 DEF AnswerUsername, AuthState
  <2>3. QED
    BY <1>x, <1>g, <2>1, <2>2
<1>7. CASE AnswerPassword
  <2>1. phase' = "command"
    BY <1>7 DEF AnswerPassword, Answer, TakeIn
  <2>2. CannotDecode \/ \E right : Verdict(right)
    BY <1>7 DEF AnswerPassword
  <2>3. QED
    BY <1>x, <1>v, <2>1, <2>2
<1>s. ASSUME NEW verb, Command(verb), NEW code, Says(code), code \notin {"334", "354"}
      PROVE  ReplyInv'
  BY <1>c, <1>o, <1>s DEF Says
<1>8. CASE Ehlo \/ Noop \/ AuthOther \/ Unknown
  <2>1. CASE Ehlo
    BY <1>s, <2>1 DEF Ehlo
  <2>2. CASE Noop
    BY <1>s, <2>2 DEF Noop
  <2>3. CASE AuthOther
    BY <1>s, <2>3 DEF AuthOther
  <2>4. CASE Unknown
    BY <1>s, <2>4 DEF Unknown
  <2>5. QED
    BY <1>8, <2>1, <2>2, <2>3, <2>4
<1>9. CASE StartTls
  <2>1. Command("STARTTLS")
    BY <1>9 DEF StartTls
  <2>2. CASE Says("454") \/ Says("503")
    BY <1>s, <2>1, <2>2
  <2>3. CASE phase' = "handshake" /\ reply' = "220 Ready" /\ session' = session
    BY <1>c, <1>o, <2>1, <2>3
  <2>4. QED
    BY <1>9, <2>2, <2>3 DEF StartTls
<1>10. CASE AuthPlain
  <2>1. Command("AUTH PLAIN") /\ phase' = "command"
    BY <1>10, <1>c DEF AuthPlain, Says
  <2>2. CASE Says("503")
    BY <1>s, <2>1, <2>2
  <2>3. CASE \E right : Verdict(right)
    BY <1>v, <2>1, <2>3
  <2>4. CASE reply' = "334" /\ session' = [session EXCEPT !.auth_state = "Plain"]
    BY <1>g, <2>1, <2>4 DEF AuthState
  <2>5. QED
    BY <1>10, <2>2, <2>3, <2>4 DEF AuthPlain
<1>11. CASE AuthLogin
  <2>1. Command("AUTH LOGIN") /\ phase' = "command"
    BY <1>11, <1>c DEF AuthLogin, Says
  <2>2. CASE Says("503")
    BY <1>s, <2>1, <2>2
  <2>3. CASE reply' = "334" /\ session' = [session EXCEPT !.auth_state = "Username"]
    BY <1>g, <2>1, <2>3 DEF AuthState
  <2>4. QED
    BY <1>11, <2>2, <2>3 DEF AuthLogin
<1>12. CASE MailFrom \/ RcptTo \/ Rset
  <2>1. /\ phase = "command" /\ phase' = "command"
        /\ session.auth_state = "None" /\ reply' \in {"250", "503", "530", "550"}
    BY <1>12, <1>c DEF MailFrom, RcptTo, Rset, Says
  <2>2. \/ session' = session \/ session' = Reset(session)
        \/ session' = [session EXCEPT !.mail_from = current.arg]
        \/ session' = [session EXCEPT !.rcpt_to = @ \cup {current.arg}]
    BY <1>12 DEF MailFrom, RcptTo, Rset, Says
  <2>3. session'.auth_state = "None"
    BY <1>t, <2>1, <2>2 DEF SessionType, Reset
  <2>4. QED
    BY <1>o, <2>1, <2>3
<1>13. CASE DataCommand
  <2>1. Command("DATA") /\ session' = session
    BY <1>13 DEF DataCommand, Says
  <2>2. CASE Says("530") \/ Says("503")
    BY <1>s, <2>1, <2>2
  <2>3. CASE phase' = "data" /\ reply' = "354"
    BY <1>c, <2>1, <2>3 DEF ReplyInv, ReplyTellsState
  <2>4. QED
    BY <1>13, <2>2, <2>3 DEF DataCommand
<1>14. CASE DataDot \/ DataEof
  <2>1. PICK how : phase = "data" /\ Deliver(how)
    BY <1>14 DEF DataDot, DataEof, TakeIn
  <2>2. phase' = "command" /\ reply' = "250" /\ session' = Reset(session)
    BY <2>1 DEF Deliver
  <2>3. session.auth_state = "None"
    BY <2>1 DEF ReplyInv, ReplyTellsState
  <2>4. session'.auth_state = "None"
    BY <1>t, <2>2, <2>3 DEF SessionType, Reset
  <2>5. QED
    BY <1>o, <2>2, <2>4
<1>15. QED
  BY <1>1, <1>2, <1>3, <1>4, <1>5, <1>6, <1>7, <1>8, <1>9, <1>10, <1>11,
     <1>12, <1>13, <1>14 DEF Next, Process

(***************************************************************************)
(* Client and server agree, at every reply, on what the next line is.      *)
(***************************************************************************)
THEOREM RepliesTellState == Spec => []ReplyTellsState
<1>1. Init => ReplyInv
  BY DEF Init, NewSession, ReplyInv, ReplyTellsState
<1>2. TypeOK /\ ReplyInv /\ [Next]_vars => ReplyInv'
  BY ReplyStep
<1>3. ReplyInv => ReplyTellsState
  BY DEF ReplyInv
<1>4. QED
  BY <1>1, <1>2, <1>3, TypeCorrect, PTL DEF Spec
-----------------------------------------------------------------------------
(* The end of a session.                                                   *)

(* Only an open connection can have been hung up. *)
HangupOpen == hungup => phase # "closed"

(* The three ways in which a step can move a session that is open. *)
TakesLine ==
  /\ phase \in {"command", "data"} /\ phase' \in {"command", "data", "handshake"}
  /\ buf # <<>> /\ buf' = Tail(buf)

LeavesState ==
  /\ <<phase, phase'>> \in {<<"handshake", "command">>, <<"data", "command">>}
  /\ buf' = buf \/ buf' = <<>>

Ends == phase' = "closed" /\ buf' = <<>> /\ hungup' = FALSE

LEMMA HangupEffects ==
  ASSUME [Next]_vars
  PROVE  \/ Accept \/ Hangup \/ (\E l \in Line : Arrive(l)) \/ UNCHANGED vars
         \/ hungup' = hungup /\ (TakesLine \/ LeavesState)
         \/ Ends
<1>1. CASE \/ ConnectionLost \/ HandshakeFailed \/ Eof \/ Panic \/ Quit
           \/ Undecodable("command") \/ Undecodable("data")
  BY <1>1 DEF ConnectionLost, HandshakeFailed, Eof, Panic, Quit, Undecodable, End, Ends
<1>2. CASE HandshakeDone \/ DataEof
  BY <1>2 DEF HandshakeDone, DataEof, Deliver, LeavesState
<1>3. CASE AnswerPlain \/ AnswerUsername \/ AnswerPassword
  BY <1>3 DEF AnswerPlain, AnswerUsername, AnswerPassword, Answer, TakeIn, TakesLine
<1>4. CASE \/ Ehlo \/ Noop \/ AuthOther \/ Unknown \/ StartTls \/ AuthPlain
           \/ AuthLogin \/ MailFrom \/ RcptTo \/ DataCommand \/ Rset
  <2>1. PICK verb : Command(verb)
    BY <1>4 DEF Ehlo, Noop, AuthOther, Unknown, StartTls, AuthPlain, AuthLogin,
                MailFrom, RcptTo, DataCommand, Rset
  <2>2. phase' \in {phase, "data", "handshake"}
    BY <1>4 DEF Ehlo, Noop, AuthOther, Unknown, StartTls, AuthPlain, AuthLogin,
                MailFrom, RcptTo, DataCommand, Rset, Says
  <2>3. QED
    BY <2>1, <2>2 DEF Command, TakeIn, TakesLine
<1>5. CASE DataLine \/ DataDot
  BY <1>5 DEF DataLine, DataDot, Deliver, TakeIn, TakesLine
<1>6. QED
  BY <1>1, <1>2, <1>3, <1>4, <1>5 DEF Next, Process

LEMMA HangupOpenStep == HangupOpen /\ [Next]_vars => HangupOpen'
BY HangupEffects DEF HangupOpen, Accept, Hangup, Arrive, vars, TakesLine,
                     LeavesState, Ends

LEMMA LeftDecreases ==
  ASSUME TypeOK, HangupOpen, hungup, [Next]_vars, vars' # vars
  PROVE  Left' < Left
<1> DEFINE Weight == [closed |-> 0, command |-> 1, handshake |-> 2, data |-> 2]
<1>1. buf \in Seq(BufferedLine) /\ phase \in {"handshake", "command", "data"}
  BY TypeParts DEF HangupOpen
<1>2. Len(buf) \in Nat /\ (buf # <<>> => Len(buf) > 0 /\ Len(Tail(buf)) = Len(buf) - 1)
  BY <1>1
<1>3. Left = 2 * Len(buf) + Weight[phase] /\ Left' = 2 * Len(buf') + Weight[phase']
  BY DEF Left
<1>4. CASE TakesLine
  BY <1>2, <1>3, <1>4 DEF TakesLine
<1>5. CASE LeavesState
  <2>1. Len(<<>>) = 0
    OBVIOUS
  <2>2. Weight[phase] = 2 /\ Weight[phase'] = 1 /\ Len(buf') \in {0, Len(buf)}
    BY <1>5, <2>1 DEF LeavesState
  <2>3. QED
    BY <1>2, <1>3, <2>2
<1>6. CASE Ends
  <2>1. Len(<<>>) = 0
    OBVIOUS
  <2>2. Weight[phase] \in {1, 2} /\ Weight[phase'] = 0 /\ Len(buf') = 0
    BY <1>1, <1>6, <2>1 DEF Ends
  <2>3. QED
    BY <1>2, <1>3, <2>2
<1>7. ~(Accept \/ Hangup \/ \E l \in Line : Arrive(l))
  BY DEF Accept, Hangup, Arrive, HangupOpen
<1>8. QED
  BY <1>4, <1>5, <1>6, <1>7, HangupEffects

(***************************************************************************)
(* A session that was hung up comes nearer to its end with every step, so  *)
(* it has no more steps left than twice the lines not yet read and two.    *)
(***************************************************************************)
THEOREM HangupIsFinal == Spec => HangupCountsDown
<1>1. Init => HangupOpen
  BY DEF Init, HangupOpen
<1>2. HangupOpen /\ [Next]_vars => HangupOpen'
  BY HangupOpenStep
<1>3. TypeOK /\ HangupOpen /\ [Next]_vars => [hungup => Left' < Left]_vars
  BY LeftDecreases
<1>4. QED
  BY <1>1, <1>2, <1>3, TypeCorrect, PTL DEF Spec, HangupCountsDown
-----------------------------------------------------------------------------
(* The mail transaction.                                                   *)

(* Steps that change nothing a transaction can tell. *)
LEMMA TransactionStutter ==
  ASSUME opts' = opts, delivered' = delivered,
         session'.mail_from = session.mail_from,
         session'.rcpt_to = session.rcpt_to,
         session'.authenticated = session.authenticated,
         phase' = "data" <=> phase = "data"
  PROVE  UNCHANGED Transaction!vars
<1>1. Admitted' = Admitted /\ Kept' = Kept /\ authorized' = authorized
  BY DEF Admitted, whitelist, Kept, authorized
<1>2. QED
  BY <1>1 DEF Transaction!vars, Transaction!configuration

(* A complete envelope is needed at the end of a mail only: it is what     *)
(* makes the delivered mail a mail and not None.                           *)
LEMMA TransactionStep ==
  ASSUME TypeOK, EnvelopeComplete, [Next]_vars
  PROVE  [Transaction!Next]_(Transaction!vars)
<1>t. session \in SessionType /\ delivered \in {None} \cup MailType
  BY TypeParts
<1>o. opts' = opts
  BY EnvelopeEffects
<1>c. Admitted' = Admitted /\ opts'.auth_required = opts.auth_required
  BY <1>o DEF Admitted, whitelist
<1>1. CASE Accept \/ Hangup \/ (\E l \in Line : Arrive(l)) \/ UNCHANGED vars
  BY <1>1, TransactionStutter DEF Accept, Hangup, Arrive, vars, history
<1>2. CASE \/ ConnectionLost \/ HandshakeFailed \/ Eof \/ Panic \/ Quit
           \/ Undecodable("command") \/ Undecodable("data")
  <2>1. session' = NewSession /\ delivered' = None /\ phase' = "closed"
    BY <1>2 DEF ConnectionLost, HandshakeFailed, Eof, Panic, Quit, Undecodable, End
  <2>2. /\ authorized' = ~opts.auth_required /\ Kept' = None
        /\ session'.mail_from = None /\ session'.rcpt_to = {}
    BY <1>o, <2>1 DEF authorized, Kept, NewSession
  <2>3. Transaction!Drop
    BY <1>c, <2>1, <2>2 DEF Transaction!Drop, Transaction!Empty, Transaction!configuration
  <2>4. QED
    BY <2>3 DEF Transaction!Next
<1>3. CASE HandshakeDone \/ Rset
  <2>1. /\ phase # "data" /\ phase' # "data" /\ delivered' = delivered
        /\ \/ session' = Reset(session)
           \/ session' = [Reset(session) EXCEPT !.tls_active = TRUE]
    BY <1>3 DEF HandshakeDone, Rset, Command, TakeIn
  <2>2. /\ session'.mail_from = None /\ session'.rcpt_to = {}
        /\ session'.authenticated = session.authenticated
    BY <1>t, <2>1 DEF Reset, SessionType
  <2>3. Kept' = Kept /\ authorized' = authorized
    BY <1>o, <2>1, <2>2 DEF Kept, authorized
  <2>4. Transaction!Forget
    BY <1>c, <2>1, <2>2, <2>3
       DEF Transaction!Forget, Transaction!Empty, Transaction!configuration
  <2>5. QED
    BY <2>4 DEF Transaction!Next
<1>4. CASE AnswerPlain \/ AnswerUsername \/ AnswerPassword \/ AuthPlain \/ AuthLogin
  <2>1. delivered' = delivered /\ phase = "command" /\ phase' = "command"
    BY <1>4 DEF AnswerPlain, AnswerUsername, AnswerPassword, Answer, AuthPlain,
                AuthLogin, Command, TakeIn, Says
  <2>2. \/ session' = session
        \/ \E right \in BOOLEAN : Verdict(right)
        \/ \E st \in AuthState : session' = [session EXCEPT !.auth_state = st]
    BY <1>4, AuthEffects
  <2>3. /\ session'.mail_from = session.mail_from /\ session'.rcpt_to = session.rcpt_to
        /\ \/ session'.authenticated = session.authenticated
           \/ session'.authenticated = TRUE
    BY <1>t, <2>2 DEF SessionType, Verdict
  <2>4. CASE session'.authenticated = session.authenticated
    BY <1>o, <2>1, <2>3, <2>4, TransactionStutter
  <2>5. CASE session'.authenticated = TRUE
    <3>1. authorized' = TRUE /\ Kept' = Kept
      BY <2>1, <2>5 DEF authorized, Kept
    <3>2. Transaction!Authenticate
      BY <1>c, <2>1, <2>3, <3>1 DEF Transaction!Authenticate, Transaction!configuration
    <3>3. QED
      BY <3>2 DEF Transaction!Next
  <2>6. QED
    BY <2>3, <2>4, <2>5
<1>5. CASE Ehlo \/ Noop \/ AuthOther \/ Unknown \/ StartTls \/ DataLine
  <2>1. session' = session /\ delivered' = delivered
        /\ (phase' = "data" <=> phase = "data")
    BY <1>5 DEF Ehlo, Noop, AuthOther, Unknown, StartTls, DataLine, Command, TakeIn, Says
  <2>2. QED
    BY <1>o, <2>1, TransactionStutter
<1>6. CASE MailFrom
  <2>1. /\ phase = "command" /\ phase' = "command" /\ delivered' = delivered
        /\ current \in Line /\ current.verb = "MAIL FROM:"
    BY <1>6, TakeType DEF MailFrom, Command, TakeIn, Says
  <2>2. CASE session' = session
    BY <1>o, <2>1, <2>2, TransactionStutter
  <2>3. CASE /\ authorized /\ current.arg # Garbled
             /\ whitelist = {} \/ Lower(current.arg) \in whitelist
             /\ session' = [session EXCEPT !.mail_from = current.arg]
    <3>1. current.arg \in Admitted
      BY <2>1, <2>3, Arguments DEF Admitted
    <3>2. /\ session'.mail_from = current.arg /\ session'.rcpt_to = session.rcpt_to
          /\ session'.authenticated = session.authenticated
      BY <1>t, <2>3 DEF SessionType
    <3>3. authorized' = authorized /\ Kept' = Kept
      BY <1>o, <2>1, <3>2 DEF authorized, Kept
    <3>4. Transaction!NameSender(current.arg)
      BY <1>c, <2>1, <2>3, <3>1, <3>2, <3>3
         DEF Transaction!NameSender, Transaction!configuration
    <3>5. QED
      BY <3>1, <3>4 DEF Transaction!Next, Admitted
  <2>4. QED
    BY <1>6, <2>2, <2>3 DEF MailFrom, Says
<1>7. CASE RcptTo
  <2>1. /\ phase = "command" /\ phase' = "command" /\ delivered' = delivered
        /\ current \in Line /\ current.verb = "RCPT TO:"
    BY <1>7, TakeType DEF RcptTo, Command, TakeIn, Says
  <2>2. CASE session' = session
    BY <1>o, <2>1, <2>2, TransactionStutter
  <2>3. CASE /\ authorized /\ session.mail_from # None /\ current.arg # Garbled
             /\ session' = [session EXCEPT !.rcpt_to = @ \cup {current.arg}]
    <3>1. current.arg \in Recipient
      BY <2>1, <2>3, Arguments
    <3>2. /\ session'.mail_from = session.mail_from
          /\ session'.rcpt_to = session.rcpt_to \cup {current.arg}
          /\ session'.authenticated = session.authenticated
      BY <1>t, <2>3 DEF SessionType
    <3>3. authorized' = authorized /\ Kept' = Kept
      BY <1>o, <2>1, <3>2 DEF authorized, Kept
    <3>4. Transaction!NameRecipient(current.arg)
      BY <1>c, <2>1, <2>3, <3>2, <3>3
         DEF Transaction!NameRecipient, Transaction!configuration
    <3>5. QED
      BY <3>1, <3>4 DEF Transaction!Next
  <2>4. QED
    BY <1>7, <2>2, <2>3 DEF RcptTo, Says
<1>8. CASE DataCommand
  <2>1. phase = "command" /\ session' = session /\ delivered' = delivered
    BY <1>8 DEF DataCommand, Command, TakeIn, Says
  <2>2. CASE phase' = phase
    BY <1>o, <2>1, <2>2, TransactionStutter
  <2>3. CASE /\ authorized /\ session.mail_from # None /\ session.rcpt_to # {}
             /\ phase' = "data"
    <3>1. authorized' = authorized /\ Kept' = Kept
      BY <1>o, <2>1 DEF authorized, Kept
    <3>2. Transaction!Begin
      BY <1>c, <2>1, <2>3, <3>1 DEF Transaction!Begin, Transaction!configuration
    <3>3. QED
      BY <3>2 DEF Transaction!Next
  <2>4. QED
    BY <1>8, <2>2, <2>3 DEF DataCommand, Says
<1>9. CASE DataDot \/ DataEof
  <2>1. PICK how \in {"bare", "padded", "eof"} : phase = "data" /\ Deliver(how)
    BY <1>9, TakeType, Arguments DEF DataDot, DataEof, TakeIn
  <2>2. /\ phase' = "command" /\ session' = Reset(session)
        /\ delivered' = [from |-> session.mail_from, to |-> session.rcpt_to, end |-> how]
    BY <2>1 DEF Deliver
  <2>3. /\ session'.mail_from = None /\ session'.rcpt_to = {}
        /\ session'.authenticated = session.authenticated
    BY <1>t, <2>2 DEF Reset, SessionType
  <2>4. delivered' # None
    <3>1. session.mail_from \in Sender /\ session.rcpt_to \subseteq Recipient
      BY <1>t, <2>1 DEF SessionType, EnvelopeComplete
    <3>2. delivered' \in [from : Sender, to : SUBSET Recipient,
                          end : {"bare", "padded", "eof"}]
      BY <2>2, <3>1
    <3>3. QED
      BY <3>2, NamesAssumption
  <2>5. Kept' = [from |-> session.mail_from, to |-> session.rcpt_to]
    BY <2>2, <2>4 DEF Kept
  <2>6. authorized' = authorized
    BY <1>o, <2>3 DEF authorized
  <2>7. Transaction!Keep
    BY <1>c, <2>1, <2>2, <2>3, <2>5, <2>6
       DEF Transaction!Keep, Transaction!Empty, Transaction!configuration
  <2>8. QED
    BY <2>7 DEF Transaction!Next
<1>10. QED
  BY <1>1, <1>2, <1>3, <1>4, <1>5, <1>6, <1>7, <1>8, <1>9 DEF Next, Process

(***************************************************************************)
(* Whatever a client sends, one line at a time or ahead of the replies,    *)
(* what its connection does to the envelope and to the store is a run of   *)
(* SmtpEnvelope.                                                           *)
(***************************************************************************)
THEOREM Refinement == Spec => ImplementsEnvelope
<1>1. Init => Transaction!Init
  <2> SUFFICES ASSUME Init PROVE Transaction!Init
    OBVIOUS
  <2>1. opts.auth_required \in BOOLEAN
    BY OptionsAssumption DEF Init, OptionType
  <2>2. /\ session.mail_from = None /\ session.rcpt_to = {}
        /\ authorized = ~opts.auth_required /\ Kept = None /\ phase = "closed"
    BY DEF Init, NewSession, authorized, Kept
  <2>3. Admitted \subseteq Sender
    BY DEF Admitted
  <2>4. QED
    BY <2>1, <2>2, <2>3 DEF Transaction!Init
<1>2. TypeOK /\ EnvelopeComplete /\ [Next]_vars
        => [Transaction!Next]_(Transaction!vars)
  BY TransactionStep
<1>3. QED
  BY <1>1, <1>2, TypeCorrect, PTL DEF Spec, ImplementsEnvelope, Transaction!Spec
=============================================================================
