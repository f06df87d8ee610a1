------------------------------ MODULE MailTool ------------------------------
(***************************************************************************)
(* send_email: the SMTP dialogue of src/src/tools/send_email/send-email.ts *)
(* with a server, which is external.  The client writes a command and      *)
(* waits, at most 30 s, for one reply with the code it expects; connecting *)
(* and the TLS handshakes have no timer.                                   *)
(***************************************************************************)
EXTENDS Gates

CONSTANT Recipients   \* bound on the addresses of to and cc

ASSUME RecipientsAssumption == Recipients \in Nat \ {0}

VARIABLE mail

-----------------------------------------------------------------------------
(* The message as it goes over the wire: CRLF between its parts.  What the *)
(* parts are, the header lines and the body with its dots doubled, does    *)
(* not matter; the last is the lone dot.                                   *)
CRLF == "CRLF"
Parts == <<"header", "", "body", "", ".">>
Join(parts) == [i \in 1 .. 2 * Len(parts) - 1 |-> IF i % 2 = 1 THEN parts[(i + 1) \div 2] ELSE CRLF]
buildMimeMessage == Join(Parts)

\* A server takes the message when it sees a line that holds a dot only: RFC
\* 5321, which the code cites for the doubling of the dots.
SeenEndOfMail(wire) == \E i \in 1 .. Len(wire) - 2 : SubSeq(wire, i, i + 2) = <<CRLF, ".", CRLF>>

\* The replies the client waits for, in order.  "tls" is the handshake of
\* STARTTLS, which the client asks for when the server offers it.
Dialogue(secure, offersTls, auth, n) ==
    <<"connect", "greeting", "EHLO">>
      \o (IF ~secure /\ offersTls THEN <<"STARTTLS", "tls", "EHLO">> ELSE <<>>)
      \o (IF auth THEN <<"AUTH", "user", "pass">> ELSE <<>>)
      \o <<"MAIL">> \o [i \in 1 .. n |-> "RCPT"] \o <<"DATA", "message", "QUIT">>
Untimed == {"connect", "tls"}

-----------------------------------------------------------------------------
MailInit == mail = [pc |-> "idle", left |-> <<>>, faulty |-> FALSE, code |-> "none"]

sendEmail(host, from, secure, offersTls, auth, n) ==
    /\ mail.pc = "idle"
    /\ LET code == FirstFailure(<<Gate(host, "missing-config"), Gate(from, "missing-config")>>)
       IN  mail' = IF code = "pass"
                   THEN [mail EXCEPT !.pc = "waiting", !.left = Dialogue(secure, offersTls, auth, n)]
                   ELSE [mail EXCEPT !.pc = "ended", !.code = code]

Step == Head(mail.left)
Waiting == mail.pc = "waiting"
Ends(code) == mail' = [mail EXCEPT !.pc = "ended", !.code = code, !.faulty = TRUE]

\* The server answers as expected: the next command is written.  It has no
\* answer to a message whose end it has not seen.
Expected ==
    /\ Waiting
    /\ Step = "message" => SeenEndOfMail(buildMimeMessage)
    /\ mail' = IF Step = "QUIT" THEN [mail EXCEPT !.pc = "ended", !.code = "ok"]
               ELSE [mail EXCEPT !.left = Tail(@)]

\* A reply with another code, which sendEmail classifies by its text; after
\* QUIT the reply does not matter.
Rejected(text) ==
    /\ Waiting /\ Step \notin Untimed \cup {"QUIT"}
    /\ Step = "message" => SeenEndOfMail(buildMimeMessage)
    /\ Ends(IF text = "timeout" THEN "timeout" ELSE "smtp-error")

SocketError == Waiting /\ Step # "QUIT" /\ Ends("network-error")

\* waitForSmtpResponse gives up.  The server is at fault if it owes an answer.
Timeout ==
    /\ Waiting /\ Step \notin Untimed
    /\ mail' = [mail EXCEPT !.pc = "ended", !.code = IF Step = "QUIT" THEN "ok" ELSE "timeout",
                            !.faulty = Step # "message" \/ SeenEndOfMail(buildMimeMessage)]

MailNext ==
    \/ \E host, from, secure, offersTls, auth \in BOOLEAN, n \in 1 .. Recipients :
          sendEmail(host, from, secure, offersTls, auth, n)
    \/ Expected \/ Timeout \/ SocketError
    \/ \E text \in {"timeout", "other"} : Rejected(text)

MailSpec == MailInit /\ [][MailNext]_mail

-----------------------------------------------------------------------------
\* "Returns { message_id, sent: true } on success" (send-email.ts): a server
\* that answers every command it has received is sent a mail it can accept.
SoundServerAccepts ==
    mail.pc = "ended" /\ ~mail.faulty /\ mail.code # "missing-config" => mail.code = "ok"
=============================================================================
