--------------------------- MODULE MCSmtpSession ---------------------------
(***************************************************************************)
(* SmtpSession with two senders, one of them in two spellings, and the     *)
(* configurations that differ in what the session does.                    *)
(***************************************************************************)
EXTENDS SmtpSession

CONSTANTS ann, Ann, eve, bob

MCSender == {Ann, eve}
MCRecipient == {bob}
MCLower(a) == IF a = Ann THEN ann ELSE a

Plain ==
  [whitelist |-> {}, tls |-> FALSE, starttls |-> FALSE,
   auth_required |-> FALSE, auth_username |-> FALSE, auth_password |-> FALSE]

WithAuth ==
  [Plain EXCEPT !.auth_required = TRUE, !.auth_username = TRUE,
                !.auth_password = TRUE]

(* Every combination the properties tell apart: open, whitelisted (also by *)
(* blanks only), optional and required AUTH, AUTH that nobody can pass,    *)
(* STARTTLS, SMTPS, and SMTPS with --starttls given too.                   *)
MCOptions ==
  { [Plain EXCEPT !.whitelist = {Blank}, !.auth_username = TRUE],
    [Plain EXCEPT !.whitelist = {Ann, Blank}, !.starttls = TRUE],
    [WithAuth EXCEPT !.starttls = TRUE],
    [WithAuth EXCEPT !.auth_password = FALSE],
    [WithAuth EXCEPT !.auth_username = FALSE],
    [WithAuth EXCEPT !.tls = TRUE, !.starttls = TRUE, !.whitelist = {Ann}] }

MCLine == LineType

(* For the runs with lines sent ahead: upgrade, one mail, one reset. *)
UpgradeOptions == {[Plain EXCEPT !.starttls = TRUE],
                   [WithAuth EXCEPT !.starttls = TRUE]}

LinesOf(verbs) == {l \in LineType : l.verb \in verbs}

UpgradeLine ==
  {[verb |-> "MAIL FROM:", arg |-> Ann], [verb |-> "RCPT TO:", arg |-> bob],
   [verb |-> "AUTH PLAIN", arg |-> "userpass"], [verb |-> ".", arg |-> "bare"]}
    \cup LinesOf({"STARTTLS", "DATA", "RSET", "TEXT", "AUTH LOGIN", "8BIT"})
=============================================================================
