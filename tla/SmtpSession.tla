----------------------------- MODULE SmtpSession -----------------------------
(***************************************************************************)
(* One SMTP connection from accept to close (smtp.rs), under any of the    *)
(* configurations start_sink can give it.  The client is arbitrary: it     *)
(* may send any line at any time, pipeline lines ahead of the replies,     *)
(* hang up or be cut off.  A line is a record [verb, arg]; the session     *)
(* takes lines one by one from its BufReader, and how it reads a line      *)
(* depends on its state: as a command, as an answer in an AUTH exchange,   *)
(* or as a line of a mail.                                                 *)
(***************************************************************************)
EXTENDS Naturals, Sequences, FiniteSets

CONSTANTS
  Sender, Recipient,  \* addresses in MAIL FROM and RCPT TO
  Garbled,            \* an address text with '>' before '<'
  None,               \* Option::None
  Lower(_),           \* to_lowercase on addresses
  Blank,              \* a whitelist entry of spaces only
  Options,            \* the configurations (SinkOptions) considered
  Line,               \* the lines the client may send
  MaxPipelined        \* bound: lines received and not yet processed

Secret == {"user", "password", "userpass", "wrong"}

(* Reply codes; "220 Ready" is the 220 that announces the TLS handshake.   *)
ReplyCode ==
  {"220", "220 Ready", "235", "250", "334", "354", "454", "500", "501", "503",
   "504", "530", "535", "550"}

(***************************************************************************)
(* "CRED" is a base64 text: the right name, the right password, the right  *)
(* PLAIN response, or something else.  "." is the end of a mail, bare or   *)
(* padded with blanks.  "TEXT" is any line that is neither a command nor   *)
(* base64, "8BIT" any line that is not UTF-8.                              *)
(***************************************************************************)
LineType ==
  [verb : {"MAIL FROM:"}, arg : Sender \cup {Garbled}]
    \cup [verb : {"RCPT TO:"}, arg : Recipient \cup {Garbled}]
    \cup [verb : {"AUTH PLAIN"}, arg : Secret \cup {None}]
    \cup [verb : {"CRED"}, arg : Secret]
    \cup [verb : {"."}, arg : {"bare", "padded"}]
    \cup [verb : {"EHLO", "STARTTLS", "AUTH LOGIN", "AUTH OTHER", "DATA",
                  "RSET", "NOOP", "QUIT", "TEXT", "8BIT"}, arg : {None}]

OptionType ==
  [whitelist : SUBSET ({Lower(a) : a \in Sender} \cup Sender \cup {Blank}),
   tls : BOOLEAN, starttls : BOOLEAN, auth_required : BOOLEAN,
   auth_username : BOOLEAN, auth_password : BOOLEAN]

ASSUME LineAssumption == Line \subseteq LineType
ASSUME OptionsAssumption == Options \subseteq OptionType
ASSUME NamesAssumption ==
  /\ None \notin Sender \cup Recipient \cup Secret \cup ReplyCode
  /\ None \notin [from : Sender, to : SUBSET Recipient,
                  end : {"bare", "padded", "eof"}]
  /\ Garbled \notin Sender \cup Recipient
ASSUME PipelineAssumption == MaxPipelined \in Nat \ {0}

VARIABLES
  opts,       \* the configuration, fixed at the start
  phase,      \* "closed", "handshake" (TLS), "command" or "data"
  session,    \* struct Session
  buf,        \* lines received and not yet processed, each with its channel
  hungup,     \* the client has closed its side
  reply,      \* the last reply of the server
  delivered,  \* the envelope of the last mail given to the store, or None
  ended,      \* why the last connection ended
  heard,      \* history: secrets the client has sent in AUTH exchanges
  named,      \* history: recipients accepted since the envelope was reset
  greetings   \* history: greetings sent on this connection

history == <<heard, named, greetings>>
vars == <<opts, phase, session, buf, hungup, reply, delivered, ended, history>>

(* SinkOptions to SmtpConfig: the whitelist is normalised, and STARTTLS is *)
(* offered only on a listener without implicit TLS.                        *)
whitelist == {Lower(a) : a \in opts.whitelist \ {Blank}}
tls_acceptor == opts.starttls /\ ~opts.tls

(* WaitingForLoginPassword carries the name decoded before: the configured *)
(* one or another.                                                         *)
AuthState ==
  {"None", "Plain", "Username", "Password of user", "Password of other"}

NewSession ==
  [mail_from |-> None, rcpt_to |-> {}, authenticated |-> FALSE,
   tls_active |-> FALSE, auth_state |-> "None"]

(* Slip, in the place of Reset: the recipients stay. *)
ResetSenderOnly(s) == [s EXCEPT !.mail_from = None]

(* Session::reset *)
Reset(s) == [s EXCEPT !.mail_from = None, !.rcpt_to = {}]

Init ==
  /\ opts \in Options
  /\ phase = "closed"
  /\ session = NewSession
  /\ buf = <<>>
  /\ hungup = FALSE
  /\ reply = None
  /\ delivered = None
  /\ ended = None
  /\ heard = {} /\ named = {} /\ greetings = 0
-----------------------------------------------------------------------------
(* The connection.                                                         *)

(* A plain listener greets at once, an SMTPS one after the handshake. *)
Accept ==
  /\ phase = "closed"
  /\ IF opts.tls
       THEN phase' = "handshake" /\ UNCHANGED <<reply, greetings>>
       ELSE phase' = "command" /\ reply' = "220" /\ greetings' = 1
  /\ ended' = None
  /\ UNCHANGED <<opts, session, buf, hungup, delivered, heard, named>>

(* The handler returns or its task dies; everything it owned is dropped. *)
End(cause) ==
  /\ phase' = "closed"
  /\ ended' = cause
  /\ session' = NewSession /\ buf' = <<>> /\ hungup' = FALSE
  /\ reply' = None /\ delivered' = None
  /\ heard' = {} /\ named' = {} /\ greetings' = 0
  /\ UNCHANGED opts

(* A line arrives, over the channel that is up at that time. *)
Arrive(l) ==
  /\ phase \in {"command", "data"}
  /\ ~hungup
  /\ Len(buf) < MaxPipelined
  /\ buf' = Append(buf, [line |-> l, tls |-> session.tls_active])
  /\ UNCHANGED <<opts, phase, session, hungup, reply, delivered, ended, history>>

Hangup ==
  /\ phase # "closed"
  /\ ~hungup
  /\ hungup' = TRUE
  /\ UNCHANGED <<opts, phase, session, buf, reply, delivered, ended, history>>

(* A read or a write fails: `?` leaves the handler from wherever it is. *)
ConnectionLost == phase # "closed" /\ End("lost")

(* Slip, in the place of HandshakeDone: the BufReader is kept. *)
HandshakeKeepsBuffer ==
  /\ phase = "handshake"
  /\ phase' = "command"
  /\ session' = [Reset(session) EXCEPT !.tls_active = TRUE]
  /\ named' = {}
  /\ reply' = "220" /\ greetings' = greetings + 1
  /\ UNCHANGED <<opts, buf, hungup, delivered, ended, heard>>

(***************************************************************************)
(* The handshake, of SMTPS or after STARTTLS.  The stream is wrapped anew, *)
(* so lines the old BufReader had read ahead are gone; lines still in the  *)
(* socket are no handshake and make it fail.  handle_tls_session greets    *)
(* when the envelope is empty.                                             *)
(***************************************************************************)
HandshakeDone ==
  /\ phase = "handshake"
  /\ phase' = "command"
  /\ session' = [Reset(session) EXCEPT !.tls_active = TRUE]
  /\ buf' = <<>>
  /\ named' = {}
  /\ IF session'.mail_from = None /\ session'.rcpt_to = {}
       THEN reply' = "220" /\ greetings' = greetings + 1
       ELSE UNCHANGED <<reply, greetings>>
  /\ UNCHANGED <<opts, hungup, delivered, ended, heard>>

HandshakeFailed == phase = "handshake" /\ End("handshake")

(* read_line returns 0: the client has hung up and every line is read. *)
Eof == phase = "command" /\ hungup /\ buf = <<>> /\ End("eof")
-----------------------------------------------------------------------------
(* One line.                                                               *)

current == Head(buf).line

(* Slip, in the place of TakeIn: the line is read and stays (`fill_buf`). *)
TakeInPeeks(p) ==
  /\ phase = p
  /\ buf # <<>>
  /\ heard' = IF session.auth_state # "None" \/ current.verb = "AUTH PLAIN"
                THEN heard \cup ({current.arg} \cap Secret) ELSE heard
  /\ UNCHANGED <<opts, buf, hungup, ended, greetings>>

(* The next line is processed in phase p and leaves the buffer. *)
TakeIn(p) ==
  /\ phase = p
  /\ buf # <<>>
  /\ buf' = Tail(buf)
  /\ heard' = IF session.auth_state # "None" \/ current.verb = "AUTH PLAIN"
                THEN heard \cup ({current.arg} \cap Secret) ELSE heard
  /\ UNCHANGED <<opts, hungup, ended, greetings>>

(* A line that is not UTF-8 fails read_line, in a mail as elsewhere. *)
Undecodable(p) ==
  /\ phase = p
  /\ buf # <<>>
  /\ current.verb = "8BIT"
  /\ End(IF p = "data" THEN "undecodable mail" ELSE "undecodable command")

(* A line read in the given state of the AUTH exchange. *)
Answer(state) ==
  /\ TakeIn("command")
  /\ current.verb # "8BIT"
  /\ session.auth_state = state
  /\ UNCHANGED <<phase, delivered, named>>

(***************************************************************************)
(* Some(x) == config.auth_username/password needs both to be configured.   *)
(* PLAIN gives name and password in one text.                              *)
(***************************************************************************)
credentialsSet == opts.auth_username /\ opts.auth_password

PlainMatches(l) == l.arg = "userpass" /\ credentialsSet

(* The letters of a bare command word are base64 if their number is a      *)
(* multiple of four; EHLO is followed by a host name and is not.           *)
DecodesAsBase64(l) ==
  l.verb \in {"CRED", "DATA", "RSET", "NOOP", "QUIT", "STARTTLS"}

(* The verdict on credentials; the exchange, if any, is over. *)
Verdict(right) ==
  /\ session' = [session EXCEPT
                   !.authenticated = right \/ @, !.auth_state = "None"]
  /\ reply' = IF right THEN "235" ELSE "535"

(* Slip, in the place of CannotDecode: the exchange goes on. *)
CannotDecodeGoesOn ==
  /\ ~DecodesAsBase64(current)
  /\ reply' = "501"
  /\ UNCHANGED session

CannotDecode ==
  /\ ~DecodesAsBase64(current)
  /\ session' = [session EXCEPT !.auth_state = "None"]
  /\ reply' = "501"

AnswerPlain ==
  /\ Answer("Plain")
  /\ Verdict(current.verb = "CRED" /\ PlainMatches(current))

AnswerUsername ==
  /\ Answer("Username")
  /\ \/ CannotDecode
     \/ /\ DecodesAsBase64(current)
        /\ session' = [session EXCEPT !.auth_state =
                         IF current.arg = "user" THEN "Password of user"
                                                 ELSE "Password of other"]
        /\ reply' = "334"

(* Slip, in the place of AnswerPassword: the name is not compared. *)
AnswerPasswordOnly ==
  \E state \in {"Password of user", "Password of other"} :
    /\ Answer(state)
    /\ \/ CannotDecode
       \/ /\ DecodesAsBase64(current)
          /\ Verdict(current.arg = "password" /\ credentialsSet)

AnswerPassword ==
  \E state \in {"Password of user", "Password of other"} :
    /\ Answer(state)
    /\ \/ CannotDecode
       \/ /\ DecodesAsBase64(current)
          /\ Verdict(/\ state = "Password of user"
                     /\ current.arg = "password"
                     /\ credentialsSet)

(* A line read as a command. *)
Command(verb) ==
  /\ TakeIn("command")
  /\ session.auth_state = "None"
  /\ current.verb = verb

(* A command that only answers. *)
Says(code) ==
  /\ reply' = code
  /\ UNCHANGED <<phase, session, delivered, named>>

(* The gate of MAIL, RCPT and DATA. *)
authorized == ~opts.auth_required \/ session.authenticated

Ehlo == Command("EHLO") /\ Says("250")

StartTls ==
  /\ Command("STARTTLS")
  /\ \/ ~tls_acceptor /\ Says("454")
     \/ tls_acceptor /\ session.tls_active /\ Says("503")
     \/ /\ tls_acceptor /\ ~session.tls_active
        /\ phase' = "handshake"
        /\ reply' = "220 Ready"
        /\ UNCHANGED <<session, delivered, named>>

AuthPlain ==
  /\ Command("AUTH PLAIN")
  /\ \/ ~opts.auth_username /\ Says("503")
     \/ /\ opts.auth_username
        /\ UNCHANGED <<phase, delivered, named>>
        /\ IF current.arg # None
             THEN Verdict(PlainMatches(current))
             ELSE /\ session' = [session EXCEPT !.auth_state = "Plain"]
                  /\ reply' = "334"

AuthLogin ==
  /\ Command("AUTH LOGIN")
  /\ \/ ~opts.auth_username /\ Says("503")
     \/ /\ opts.auth_username
        /\ session' = [session EXCEPT !.auth_state = "Username"]
        /\ reply' = "334"
        /\ UNCHANGED <<phase, delivered, named>>

AuthOther ==
  /\ Command("AUTH OTHER")
  /\ Says(IF opts.auth_username THEN "504" ELSE "503")

(* Slip, in the place of MailFrom: the sender is kept, then refused. *)
MailFromBeforeCheck ==
  /\ Command("MAIL FROM:")
  /\ \/ ~authorized /\ Says("530")
     \/ /\ authorized /\ current.arg # Garbled
        /\ session' = [session EXCEPT !.mail_from = current.arg]
        /\ reply' = IF whitelist = {} \/ Lower(current.arg) \in whitelist
                      THEN "250" ELSE "550"
        /\ UNCHANGED <<phase, delivered, named>>

MailFrom ==
  /\ Command("MAIL FROM:")
  /\ \/ ~authorized /\ Says("530")
     \/ /\ authorized /\ current.arg # Garbled
        /\ whitelist # {} /\ Lower(current.arg) \notin whitelist
        /\ Says("550")
     \/ /\ authorized /\ current.arg # Garbled
        /\ whitelist = {} \/ Lower(current.arg) \in whitelist
        /\ session' = [session EXCEPT !.mail_from = current.arg]
        /\ reply' = "250"
        /\ UNCHANGED <<phase, delivered, named>>

(* Slip, in the place of RcptTo: the address is taken as it comes. *)
RcptToUnparsed ==
  /\ Command("RCPT TO:")
  /\ \/ ~authorized /\ Says("530")
     \/ authorized /\ session.mail_from = None /\ Says("503")
     \/ /\ authorized /\ session.mail_from # None
        /\ session' = [session EXCEPT !.rcpt_to = @ \cup {current.arg}]
        /\ named' = named \cup {current.arg}
        /\ reply' = "250"
        /\ UNCHANGED <<phase, delivered>>

(* Slip, in the place of RcptTo: a sender need not have been named. *)
RcptToFirst ==
  /\ Command("RCPT TO:")
  /\ \/ ~authorized /\ Says("530")
     \/ /\ authorized /\ current.arg # Garbled
        /\ session' = [session EXCEPT !.rcpt_to = @ \cup {current.arg}]
        /\ named' = named \cup {current.arg}
        /\ reply' = "250"
        /\ UNCHANGED <<phase, delivered>>

RcptTo ==
  /\ Command("RCPT TO:")
  /\ \/ ~authorized /\ Says("530")
     \/ authorized /\ session.mail_from = None /\ Says("503")
     \/ /\ authorized /\ session.mail_from # None /\ current.arg # Garbled
        /\ session' = [session EXCEPT !.rcpt_to = @ \cup {current.arg}]
        /\ named' = named \cup {current.arg}
        /\ reply' = "250"
        /\ UNCHANGED <<phase, delivered>>

(***************************************************************************)
(* extract_address slices s[start + 1..end] with end < start: the task     *)
(* panics and the connection is dropped without a reply.                   *)
(***************************************************************************)
Panic ==
  /\ phase = "command" /\ session.auth_state = "None"
  /\ buf # <<>> /\ current.arg = Garbled
  /\ authorized
  /\ current.verb = "RCPT TO:" => session.mail_from # None
  /\ End("panic")

DataCommand ==
  /\ Command("DATA")
  /\ \/ ~authorized /\ Says("530")
     \/ /\ authorized
        /\ session.mail_from = None \/ session.rcpt_to = {}
        /\ Says("503")
     \/ /\ authorized /\ session.mail_from # None /\ session.rcpt_to # {}
        /\ phase' = "data"
        /\ reply' = "354"
        /\ UNCHANGED <<session, delivered, named>>

Rset ==
  /\ Command("RSET")
  /\ session' = Reset(session)
  /\ named' = {}
  /\ reply' = "250"
  /\ UNCHANGED <<phase, delivered>>

Noop == Command("NOOP") /\ Says("250")

Quit ==
  /\ phase = "command" /\ session.auth_state = "None"
  /\ buf # <<>> /\ current.verb = "QUIT"
  /\ End("quit")

Unknown == \E verb \in {"CRED", "TEXT", "."} : Command(verb) /\ Says("500")
-----------------------------------------------------------------------------
(* A mail.                                                                 *)

(* parse_email, store.push and session.reset: the mail is complete. *)
Deliver(how) ==
  /\ phase' = "command"
  /\ delivered' = [from |-> session.mail_from, to |-> session.rcpt_to, end |-> how]
  /\ session' = Reset(session)
  /\ named' = {}
  /\ reply' = "250"

DataLine ==
  /\ TakeIn("data")
  /\ current.verb \notin {".", "8BIT"}
  /\ UNCHANGED <<phase, session, reply, delivered, named>>

(* `line.trim() == "."` *)
DataDot ==
  /\ TakeIn("data")
  /\ current.verb = "."
  /\ Deliver(current.arg)

(* Slip, in the place of DataEof: an empty read is taken for a line. *)
DataEofReadOn ==
  /\ phase = "data" /\ hungup /\ buf = <<>>
  /\ UNCHANGED vars

(* `if bytes_read == 0 { break; }` *)
DataEof ==
  /\ phase = "data" /\ hungup /\ buf = <<>>
  /\ Deliver("eof")
  /\ UNCHANGED <<opts, buf, hungup, ended, heard, greetings>>

Process ==
  \/ AnswerPlain \/ AnswerUsername \/ AnswerPassword
  \/ Ehlo \/ StartTls \/ AuthPlain \/ AuthLogin \/ AuthOther
  \/ MailFrom \/ RcptTo \/ Panic
  \/ DataCommand \/ Rset \/ Noop \/ Quit \/ Unknown
  \/ DataLine \/ DataDot \/ DataEof
  \/ Undecodable("command") \/ Undecodable("data")
  \/ Eof \/ HandshakeDone \/ HandshakeFailed

Next ==
  \/ Accept
  \/ \E l \in Line : Arrive(l)
  \/ Hangup
  \/ ConnectionLost
  \/ Process

Spec == Init /\ [][Next]_vars

(* The session's task is polled whenever it can proceed.  The handshake    *)
(* of a client that does not hang up may last for ever.                    *)
FairSpec == Spec /\ WF_vars(Process)
-----------------------------------------------------------------------------
TypeOK ==
  /\ opts \in Options
  /\ phase \in {"closed", "handshake", "command", "data"}
  /\ session \in
       [mail_from : Sender \cup {None}, rcpt_to : SUBSET Recipient,
        authenticated : BOOLEAN, tls_active : BOOLEAN, auth_state : AuthState]
  /\ buf \in Seq([line : Line, tls : BOOLEAN])
  /\ hungup \in BOOLEAN
  /\ reply \in ReplyCode \cup {None}
  /\ delivered \in {None} \cup [from : Sender, to : SUBSET Recipient,
                                end : {"bare", "padded", "eof"}]
  /\ heard \subseteq Secret
  /\ named \subseteq Recipient
  /\ greetings \in Nat

(***************************************************************************)
(* "Require authentication before sending" (README.md:120): a mail reaches *)
(* the store only if the client has given the configured name and the      *)
(* configured password, in one PLAIN answer or in the two of LOGIN --      *)
(* through refused exchanges, commands read as answers, resets and         *)
(* STARTTLS.  With one of the two not configured nobody gets through.      *)
(***************************************************************************)
DeliveredOnlyIfAuthorized ==
  delivered # None /\ opts.auth_required =>
    /\ credentialsSet
    /\ "userpass" \in heard \/ {"user", "password"} \subseteq heard

(***************************************************************************)
(* A whitelist with an address in it admits the envelope senders it names, *)
(* whatever their case, and no other: a refused MAIL FROM never becomes    *)
(* the sender of a mail (smtp.rs:381-384).                                 *)
(***************************************************************************)
SenderWhitelisted ==
  delivered # None /\ whitelist # {} => Lower(delivered.from) \in whitelist

(***************************************************************************)
(* A mail goes to recipients named for it, never to one left over from an  *)
(* earlier mail, from before RSET or from before STARTTLS, and to at least *)
(* one (smtp.rs:137, 404, 419, 424).                                       *)
(***************************************************************************)
EnvelopeSinceReset ==
  [][delivered' # delivered /\ delivered' # None =>
       delivered'.to # {} /\ delivered'.to \subseteq named]_vars

(***************************************************************************)
(* The lines of a connection, in whatever state they are read, amount to   *)
(* mail transactions: an envelope is built in order by a client that may   *)
(* send, keeps still while its mail is read (smtp.rs:412), and is stored   *)
(* as it stands; a second MAIL FROM replaces the sender and nothing else   *)
(* (smtp.rs:384).                                                          *)
(***************************************************************************)
Admitted == {a \in Sender : whitelist = {} \/ Lower(a) \in whitelist}

Kept == IF delivered = None THEN None
          ELSE [from |-> delivered.from, to |-> delivered.to]

Transaction ==
  INSTANCE SmtpEnvelope WITH
    admitted <- Admitted,
    restricted <- opts.auth_required,
    allowed <- authorized,
    from <- session.mail_from,
    to <- session.rcpt_to,
    reading <- phase = "data",
    kept <- Kept

ImplementsEnvelope == Transaction!Spec

(***************************************************************************)
(* Once TLS is up, no line that came in over plain TCP is acted on: what   *)
(* was pipelined behind STARTTLS is not carried into the secured session   *)
(* (smtp.rs:134).                                                          *)
(***************************************************************************)
NoPlaintextAfterTls ==
  session.tls_active => \A i \in DOMAIN buf : buf[i].tls

(***************************************************************************)
(* The last reply tells a client how its next line will be read: after 334 *)
(* as an answer in an AUTH exchange, after 354 as a line of a mail, after  *)
(* any other as a command.  A refused or undecodable answer must end the   *)
(* exchange, and an end of mail the mail, or the two sides disagree.       *)
(***************************************************************************)
ReplyTellsState ==
  phase # "closed" =>
    /\ session.auth_state # "None" <=> reply = "334"
    /\ phase = "data" <=> reply = "354"

(***************************************************************************)
(* A client that hangs up does not leave a session behind, wherever it was *)
(* -- in a mail (smtp.rs:519), in an AUTH exchange or in a handshake.      *)
(***************************************************************************)
HangupEndsSession == hungup ~> phase = "closed"

(***************************************************************************)
(* It gets there in a number of steps that is known beforehand: after the  *)
(* hang-up every step, whichever it is, takes a line in or leaves a state  *)
(* that the session does not come back to.                                 *)
(***************************************************************************)
Left ==
  2 * Len(buf) + [closed |-> 0, command |-> 1, handshake |-> 2, data |-> 2][phase]

HangupCountsDown == [][hungup => Left' < Left]_vars

(***************************************************************************)
(* "Send greeting if this is a fresh SMTPS connection" (smtp.rs:180): a    *)
(* connection is greeted once.  After STARTTLS the envelope has just been  *)
(* reset, so the test takes every upgraded connection for a fresh one, and *)
(* the client finds a second greeting where it awaits the answer to EHLO.  *)
(***************************************************************************)
GreetedOnce == greetings <= 1

(***************************************************************************)
(* "354 End data with <CR><LF>.<CR><LF>" (smtp.rs:407): a mail is complete *)
(* when its final dot has come.  read_data takes the end of the stream for *)
(* the end of the mail, so the first part of a mail whose client died is   *)
(* stored as if it were the whole.                                         *)
(***************************************************************************)
MailEndsWithDot == delivered # None => delivered.end = "bare"
=============================================================================
