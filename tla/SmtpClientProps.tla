-------------------------- MODULE SmtpClientProps --------------------------
(***************************************************************************)
(* The properties of SmtpClient.                                           *)
(***************************************************************************)
EXTENDS SmtpClient

Phases == {"idle", "welcome", "helo", "ehlo", "starttls", "ehlo2", "hello",
           "auth", "user", "pass", "mail", "rcpt", "data", "body", "quit", "done"}

(* Every variable ranges over what its C++ declaration can hold.           *)
TypeOK ==
  /\ rcptList \subseteq Rcpts /\ successList \subseteq Rcpts
  /\ retryList \subseteq Rcpts /\ errorList \subseteq Rcpts
  /\ mAuth \in BOOLEAN /\ phase \in Phases /\ ret \in {0, -1}
  /\ reply \in {""} \cup Replies
  /\ tls \in {"plain", "refused", "on"}
  /\ envelope \subseteq Rcpts /\ unsure \subseteq Rcpts
  /\ conn \in {"commands", "data", "ended"}
  /\ delivered \in [Rcpts -> 0..MaxSends]
  /\ told \in [success : SUBSET Rcpts, error : SUBSET Rcpts]
  /\ sends \in 0..MaxSends

Places == <<rcptList, successList, retryList, errorList, told.success, told.error>>

(* No recipient is lost or listed twice, whatever reply or failure comes   *)
(* at whatever command: each is in one list or has been reported.          *)
NobodyLost ==
  \A a \in Rcpts : Cardinality({n \in DOMAIN Places : a \in Places[n]}) = 1

(* On a connection that lasts, the server has accepted the recipients that *)
(* mSuccessList claims, and no others.  The message is sent when it takes  *)
(* it for them; the code looks at the last reply alone, however            *)
(* (spnksmtpcli.cpp:260), so text is also sent to a server that takes none *)
(* when that is a 2xx reply to DATA, or, with nobody accepted, a 3xx reply *)
(* to another command.                                                     *)
EnvelopeMatches ==
  /\ phase \in {"mail", "rcpt", "data", "body"} /\ conn # "ended" => envelope = successList
  /\ phase = "body" =>
       \/ conn = "data" /\ envelope # {}
       \/ conn = "commands" /\ reply = (IF envelope = {} THEN "3xx" ELSE "2xx")

(* A recipient reported as a success has been sent the message.            *)
NoFalseSuccess == \A a \in told.success : delivered[a] >= 1

(* Nobody is sent the message twice, or is sent it and then reported as an *)
(* error, but for those of a message whose last reply was lost, which "may *)
(* be sent more than once" (spnksmtpcli.cpp:571), or was cut short: then   *)
(* send() returns 0, says nothing of that and puts them in mRetryList.     *)
AtMostOnce ==
  \A a \in Rcpts \ unsure :
    /\ delivered[a] <= 1
    /\ a \in told.error \cup rcptList \cup retryList \cup errorList => delivered[a] = 0

(* What the application is told is what the server has done: its envelope  *)
(* is the one that the client believes in, nobody is called served who was *)
(* not, and nobody is served twice, but for the cases that EnvelopeMatches *)
(* and AtMostOnce name.                                                    *)
DeliveredAsTold == EnvelopeMatches /\ NoFalseSuccess /\ AtMostOnce
=============================================================================
