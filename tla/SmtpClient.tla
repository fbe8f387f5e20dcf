----------------------------- MODULE SmtpClient -----------------------------
(***************************************************************************)
(* SP_NKSmtpClient::send() (src/spnetkit/spnksmtpcli.cpp) with the         *)
(* commands of SP_NKSmtpProtocol it issues, the STARTTLS of                *)
(* SP_NKSslSmtpClient, a server, and an application that sends again what  *)
(* was not delivered.                                                      *)
(*                                                                         *)
(* One command with its reply is one step.  A reply is its class: "2xx"    *)
(* and so on, where "4xx" stands for all that are not 2xx, 3xx or 5xx,     *)
(* since send() treats them alike.  A step in which the socket fails ends  *)
(* the send with -1; the server may then have done what it was asked all   *)
(* the same.                                                               *)
(*                                                                         *)
(* The server (external) may give any reply to any command, and a reply    *)
(* may be cut by the end of the connection, which readline() takes for a   *)
(* line: "25" is then a reply that is neither 2xx, 3xx nor 5xx.  It takes  *)
(* a message only after its 3xx reply to DATA; to other text, which is     *)
(* assumed to hold no command, it never replies 2xx.                       *)
(***************************************************************************)
EXTENDS Integers, FiniteSets

CONSTANTS
  Rcpts,     \* the SP_NKSmtpAddr objects
  Ssl,       \* is the client a SP_NKSslSmtpClient?
  MaxSends   \* the application gives up after so many calls of send()

ASSUME SmtpAssumption ==
  /\ IsFiniteSet(Rcpts) /\ Rcpts # {}
  /\ Ssl \in BOOLEAN /\ MaxSends \in Nat

VARIABLES
  rcptList, successList, retryList, errorList,  \* the client's lists
  mAuth,     \* has the application called setAuth()?
  phase,     \* the command send() is about to issue, "idle" before, "done"
  ret,       \* what the last send() returned
  reply,     \* class of mLastReply, "" when it is not a reply
  tls,       \* "plain", "refused" or "on"
  envelope,  \* the recipients this connection's server has accepted
  delivered, \* how often the server has taken the message for a recipient
  unsure,    \* recipients of a message whose last reply was lost
  conn,      \* what the server reads: "commands" or "data"; or it has "ended"
  told,      \* what the application has recorded: sets of recipients
  sends      \* calls of send() so far

lists == <<rcptList, successList, retryList, errorList>>
server == <<envelope, delivered, unsure, conn>>
app == <<mAuth, told, sends>>
vars == <<lists, phase, ret, reply, tls, server, app>>

Replies == {"2xx", "3xx", "4xx", "5xx"}

(* The test before the message: of the last reply, whatever it answered.   *)
MessageOrQuit(r) == IF r \in {"2xx", "3xx"} THEN "body" ELSE "quit"

Init ==
  /\ rcptList = Rcpts /\ successList = {} /\ retryList = {} /\ errorList = {}
  /\ mAuth = FALSE
  /\ phase = "idle" /\ ret = 0 /\ reply = "" /\ tls = "plain"
  /\ envelope = {} /\ delivered = [a \in Rcpts |-> 0] /\ unsure = {}
  /\ conn = "commands"
  /\ told = [success |-> {}, error |-> {}]
  /\ sends = 0

-----------------------------------------------------------------------------
(* A slip the code could make: errno is returned (such variants are named  *)
(* for the definition they replace).                                       *)
SocketFailsErrno ==
  /\ rcptList' = rcptList \cup successList \cup retryList \cup errorList
  /\ successList' = {} /\ retryList' = {} /\ errorList' = {}
  /\ phase' = "done" /\ ret' = 110 /\ reply' = ""
  /\ UNCHANGED <<tls, app>>

(* The end of send() when ret is not 0: the result is cleaned.             *)
SocketFails ==
  /\ rcptList' = rcptList \cup successList \cup retryList \cup errorList
  /\ successList' = {} /\ retryList' = {} /\ errorList' = {}
  /\ phase' = "done" /\ ret' = -1 /\ reply' = ""
  /\ UNCHANGED <<tls, app>>

(* "list" is moved to mErrorList or to mRetryList.                         *)
Refused(r, list) ==
  /\ retryList' = IF r = "5xx" THEN retryList ELSE retryList \cup list
  /\ errorList' = IF r = "5xx" THEN errorList \cup list ELSE errorList
  /\ reply' = r
  /\ UNCHANGED <<ret, tls, app>>

(* processReply() of a reply other than 2xx before the first RCPT: every   *)
(* later command asks for a 2xx reply, but the message does not.           *)
ProcessReply(r) ==
  /\ Refused(r, rcptList) /\ rcptList' = {}
  /\ phase' = MessageOrQuit(r)
  /\ UNCHANGED <<successList, server>>

Goto(next, r) ==
  /\ phase' = next /\ reply' = r
  /\ UNCHANGED <<lists, ret, server, app>>

(* doCommand() of a command p that has no effect on the envelope.          *)
Command(p, good, next) ==
  /\ phase = p
  /\ \/ SocketFails /\ UNCHANGED server
     \/ \E r \in Replies \ good : ProcessReply(r)
     \/ \E r \in good : Goto(next, r) /\ UNCHANGED tls

-----------------------------------------------------------------------------
(* The application calls send() on a new connection, perhaps after a first *)
(* setAuth().                                                              *)
Send ==
  /\ phase = "idle" /\ rcptList # {} /\ sends < MaxSends
  /\ mAuth' \in {mAuth, TRUE}
  /\ sends' = sends + 1
  /\ phase' = "welcome" /\ reply' = "" /\ tls' = "plain"
  /\ envelope' = {} /\ conn' = "commands"
  /\ UNCHANGED <<lists, ret, delivered, unsure, told>>

(* send( ip, port ): the connection cannot be made.                        *)
ConnectFails ==
  /\ phase = "idle" /\ rcptList # {} /\ sends < MaxSends
  /\ sends' = sends + 1
  /\ phase' = "done" /\ ret' = -1
  /\ UNCHANGED <<lists, reply, tls, server, mAuth, told>>

Welcome == Command("welcome", {"2xx"}, IF mAuth THEN "ehlo" ELSE "helo")
Helo == Command("helo", {"2xx"}, "mail")

(* EHLO; the server may offer STARTTLS, in a reply of any class, and the   *)
(* base class's startTLS() is a stub that returns 1 without a command.     *)
Ehlo ==
  \/ Command("ehlo", {"2xx"}, "auth")
  \/ Ssl /\ Command("ehlo", Replies, "starttls")

(* SP_NKSslSmtpClient::startTLS().  When the server refuses, send() sets   *)
(* ret to 0, but mLastReply is the refusal, and processReply() sees it.    *)
StartTLS ==
  /\ phase = "starttls"
  /\ \/ SocketFails /\ UNCHANGED server
     \/ Goto("ehlo2", "2xx") /\ tls' = "on"
     \/ \E r \in Replies \ {"2xx"} : Goto("hello", r) /\ tls' = "refused"

Ehlo2 == Command("ehlo2", {"2xx"}, "auth")

(* The processReply() after EHLO, for the refusal of STARTTLS.             *)
AfterRefusal == phase = "hello" /\ ProcessReply(reply)

(* auth(): AUTH LOGIN, then the user's name, then the password, each sent  *)
(* after any positive reply.                                               *)
AuthLogin ==
  \/ Command("auth", {"2xx", "3xx"}, "user")
  \/ Command("user", {"2xx", "3xx"}, "pass")
  \/ Command("pass", {"2xx"}, "mail")

Mail == Command("mail", {"2xx"}, "rcpt")

(* After the last RCPT: DATA if any recipient was accepted; if none was,   *)
(* the reply to the last one decides.                                      *)
AfterRcpt(left, accepted, r) ==
  IF left # {} THEN "rcpt" ELSE IF accepted # {} THEN "data" ELSE MessageOrQuit(r)

(* getItem() for takeItem().                                               *)
RcptGetItem ==
  /\ phase = "rcpt"
  /\ \E a \in rcptList : successList' = successList \cup {a}
  /\ envelope' = successList' /\ reply' = "2xx"
  /\ phase' = AfterRcpt(rcptList \ successList', successList', "2xx")
  /\ UNCHANGED <<rcptList, retryList, errorList, ret, tls, delivered, unsure, conn, app>>

(* A cut reply may be that of a server that has accepted the recipient.    *)
Rcpt ==
  /\ phase = "rcpt"
  /\ \E a \in rcptList :
       \/ /\ SocketFails /\ UNCHANGED <<delivered, unsure, conn>>
          /\ envelope' \in {envelope, envelope \cup {a}}
       \/ /\ conn # "ended" /\ rcptList' = rcptList \ {a}
          /\ \/ /\ successList' = successList \cup {a} /\ reply' = "2xx"
                /\ envelope' = envelope \cup {a}
                /\ UNCHANGED <<retryList, errorList, ret, tls, app, conn>>
             \/ /\ \E r \in Replies \ {"2xx"} : Refused(r, {a})
                /\ UNCHANGED <<successList, envelope, conn>>
             \/ /\ Refused("4xx", {a}) /\ conn' = "ended"
                /\ envelope' \in {envelope, envelope \cup {a}}
                /\ UNCHANGED successList
          /\ phase' = AfterRcpt(rcptList', successList', reply')
          /\ UNCHANGED <<delivered, unsure>>

Withdrawn(r) ==
  /\ Refused(r, successList) /\ successList' = {} /\ phase' = "quit"
  /\ UNCHANGED rcptList

(* The code takes a 2xx reply for a 3xx, the server does not.              *)
Data ==
  /\ phase = "data"
  /\ \/ SocketFails /\ UNCHANGED server
     \/ conn # "ended" /\ \E r \in {"4xx", "5xx"} : Withdrawn(r) /\ UNCHANGED server
     \/ conn # "ended" /\ Goto("body", "2xx") /\ UNCHANGED tls
     \/ /\ conn # "ended" /\ conn' = "data"
        /\ phase' = "body" /\ reply' = "3xx"
        /\ UNCHANGED <<lists, ret, tls, envelope, delivered, unsure, app>>

(* For whom the server takes what comes now.                               *)
Addressed == IF conn = "data" THEN envelope ELSE {}

Deliver == [a \in Rcpts |-> IF a \in Addressed THEN delivered[a] + 1 ELSE delivered[a]]

MailDataRetries ==
  /\ phase = "body"
  /\ Withdrawn("2xx")
  /\ delivered' = Deliver
  /\ UNCHANGED <<envelope, unsure, conn>>

(* mailData(): the reply that can be read counts, even if a write failed.  *)
(* Without a reply, or with one that was cut, the message may or may not   *)
(* have been taken; a cut one is no failure, and mRetryList gets them.     *)
MailData ==
  /\ phase = "body"
  /\ \/ /\ SocketFails \/ Withdrawn("4xx")
        /\ delivered' \in {delivered, Deliver}
        /\ unsure' = unsure \cup Addressed
        /\ UNCHANGED <<envelope, conn>>
     \/ \E r \in Replies \ {"2xx"} : Withdrawn(r) /\ UNCHANGED server
     \/ /\ conn = "data"
        /\ phase' = "quit" /\ reply' = "2xx" /\ delivered' = Deliver
        /\ UNCHANGED <<lists, ret, tls, envelope, unsure, conn, app>>

(* The result of QUIT does not matter.                                     *)
Quit ==
  /\ phase = "quit"
  /\ phase' = "done" /\ ret' = 0 /\ reply' \in {""} \cup Replies
  /\ UNCHANGED <<lists, tls, server, app>>

(* The application takes the result when send() returned 0, and will call  *)
(* send() again with the recipients of mRetryList or, after -1, with all.  *)
Collect ==
  /\ phase = "done" /\ phase' = "idle"
  /\ IF ret = 0
     THEN /\ told' = [success |-> told.success \cup successList,
                      error |-> told.error \cup errorList]
          /\ rcptList' = rcptList \cup retryList
          /\ successList' = {} /\ errorList' = {} /\ retryList' = {}
     ELSE UNCHANGED <<lists, told>>
  /\ UNCHANGED <<ret, reply, tls, server, mAuth, sends>>

Talk ==
  \/ Welcome \/ Helo \/ Ehlo \/ StartTLS \/ Ehlo2 \/ AfterRefusal
  \/ AuthLogin \/ Mail \/ Rcpt \/ Data \/ MailData \/ Quit

Next == Send \/ ConnectFails \/ Talk \/ Collect

Spec == Init /\ [][Next]_vars
=============================================================================
