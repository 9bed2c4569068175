---------------------------- MODULE SmtpEnvelope ----------------------------
(***************************************************************************)
(* The mail transaction of one connection, whatever the lines, the AUTH    *)
(* exchanges, the handshakes and the errors through which it comes about.  *)
(* An envelope is built by a client that may send: a sender that the       *)
(* configuration admits, then recipients.  While the mail is read the      *)
(* envelope stands still; the end of the mail gives it to the store and    *)
(* leaves an empty one.  A sender may be named again, and the recipients   *)
(* named before stay with the new one.                                     *)
(***************************************************************************)
CONSTANTS Sender, Recipient, None

VARIABLES
  admitted,    \* the senders that the configuration admits
  restricted,  \* the client must authenticate before it may send
  allowed,     \* the client may send
  from, to,    \* the envelope
  reading,     \* the mail is being read
  kept         \* envelope of the last mail given to the store, or None

configuration == <<admitted, restricted>>
vars == <<configuration, allowed, from, to, reading, kept>>

Empty == from' = None /\ to' = {}

Init ==
  /\ admitted \subseteq Sender
  /\ restricted \in BOOLEAN
  /\ allowed = ~restricted
  /\ from = None /\ to = {}
  /\ reading = FALSE
  /\ kept = None

Authenticate ==
  /\ ~reading
  /\ allowed' = TRUE
  /\ UNCHANGED <<configuration, from, to, reading, kept>>

NameSender(a) ==
  /\ allowed /\ ~reading
  /\ a \in admitted
  /\ from' = a
  /\ UNCHANGED <<configuration, allowed, to, reading, kept>>

NameRecipient(r) ==
  /\ allowed /\ ~reading
  /\ from # None
  /\ to' = to \cup {r}
  /\ UNCHANGED <<configuration, allowed, from, reading, kept>>

Begin ==
  /\ allowed /\ ~reading
  /\ from # None /\ to # {}
  /\ reading' = TRUE
  /\ UNCHANGED <<configuration, allowed, from, to, kept>>

Keep ==
  /\ reading
  /\ reading' = FALSE
  /\ kept' = [from |-> from, to |-> to]
  /\ Empty
  /\ UNCHANGED <<configuration, allowed>>

(* RSET, or a TLS handshake. *)
Forget ==
  /\ ~reading
  /\ Empty
  /\ UNCHANGED <<configuration, allowed, reading, kept>>

(* The connection ends, from wherever it is; the next one starts anew. *)
Drop ==
  /\ allowed' = ~restricted
  /\ Empty
  /\ reading' = FALSE
  /\ kept' = None
  /\ UNCHANGED configuration

Next ==
  \/ Authenticate
  \/ \E a \in Sender : NameSender(a)
  \/ \E r \in Recipient : NameRecipient(r)
  \/ Begin \/ Keep
  \/ Forget \/ Drop

Spec == Init /\ [][Next]_vars
=============================================================================
