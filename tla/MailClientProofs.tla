-------------------------- MODULE MailClientProofs --------------------------
(***************************************************************************)
(* Proofs about the two mail clients: SmtpClient, for any recipients and   *)
(* any number of sends, and Pop3Client, for any mails, over every cut of   *)
(* the replies.  They share the module and nothing else.                   *)
(***************************************************************************)
EXTENDS SmtpClientProps, Pop3Client,
        FiniteSetTheorems, SequenceTheorems, WellFoundedInduction, TLAPS

-----------------------------------------------------------------------------
(* SmtpClient.                                                             *)
-----------------------------------------------------------------------------
(* The commands before the first RCPT, and all of a send() until the       *)
(* message has been taken.                                                 *)
Early == {"welcome", "helo", "ehlo", "starttls", "ehlo2", "hello",
          "auth", "user", "pass", "mail"}
Working == Early \cup {"rcpt", "data", "body"}

(* Every recipient is in one of the client's lists or has been reported,   *)
(* and in no two.                                                          *)
Apart ==
  /\ rcptList \cup successList \cup retryList \cup errorList
       \cup told.success \cup told.error = Rcpts
  /\ rcptList \cap (successList \cup retryList \cup errorList
       \cup told.success \cup told.error) = {}
  /\ successList \cap (retryList \cup errorList \cup told.success \cup told.error) = {}
  /\ retryList \cap (errorList \cup told.success \cup told.error) = {}
  /\ errorList \cap (told.success \cup told.error) = {}
  /\ told.success \cap told.error = {}

(* mSuccessList is empty until a recipient is accepted, and again after a  *)
(* failure; while it fills it is what the server has accepted, as far as   *)
(* the connection lasts.                                                   *)
ListsFollow ==
  /\ phase \in Early \cup {"idle"} => successList = {}
  /\ phase \in Early => envelope = {} /\ conn = "commands"
  /\ phase = "done" /\ ret = -1 => successList = {}
  /\ phase \in {"rcpt", "data"} =>
       conn \in {"commands", "ended"} /\ (conn # "ended" => envelope = successList)
  /\ phase = "hello" => reply # "2xx"
  /\ phase = "data" => successList # {}
  /\ phase = "body" =>
       /\ envelope = successList
       /\ \/ conn = "data" /\ envelope # {}
          \/ conn = "commands" /\ reply = (IF envelope = {} THEN "3xx" ELSE "2xx")

(* Those in mSuccessList have been sent the message once the dialog has    *)
(* come to QUIT, and not before; the others in the lists have not.         *)
DeliveredWhen ==
  \A a \in Rcpts :
    /\ a \in told.success => delivered[a] >= 1
    /\ a \in successList /\ phase \in {"quit", "done"} => delivered[a] >= 1
    /\ a \notin unsure =>
         /\ delivered[a] <= 1
         /\ a \in rcptList \cup retryList \cup errorList \cup told.error => delivered[a] = 0
         /\ a \in successList /\ phase \in Working => delivered[a] = 0

(* One send() takes the message to the server once at most.                *)
OncePerSend ==
  \A a \in Rcpts : delivered[a] <= (IF phase \in Working THEN sends - 1 ELSE sends)

SmtpInv ==
  /\ TypeOK
  /\ Apart
  /\ ListsFollow
  /\ DeliveredWhen
  /\ OncePerSend

-----------------------------------------------------------------------------
(* What the invariant means for the runs' properties.                      *)
LEMMA InOnePlace ==
  ASSUME Apart, NEW a \in Rcpts
  PROVE  Cardinality({n \in DOMAIN Places : a \in Places[n]}) = 1
<1>1. DOMAIN Places = 1..6
  BY DEF Places
<1>2. /\ Places[1] = rcptList /\ Places[2] = successList /\ Places[3] = retryList
      /\ Places[4] = errorList /\ Places[5] = told.success /\ Places[6] = told.error
  BY DEF Places
<1>3. \E n \in 1..6 : a \in Places[n]
  BY <1>2 DEF Apart
<1>4. PICK n \in 1..6 : a \in Places[n]
  BY <1>3
<1>5. ASSUME NEW m \in 1..6, m # n PROVE a \notin Places[m]
  BY <1>2, <1>4, <1>5 DEF Apart
<1>6. {m \in DOMAIN Places : a \in Places[m]} = {n}
  BY <1>1, <1>4, <1>5
<1> QED
  BY <1>6, FS_Singleton

LEMMA SmtpInvImplies == SmtpInv => NobodyLost /\ DeliveredAsTold
<1> SUFFICES ASSUME SmtpInv PROVE NobodyLost /\ DeliveredAsTold
  OBVIOUS
<1>1. NobodyLost
  BY InOnePlace DEF SmtpInv, NobodyLost
<1>2. EnvelopeMatches
  BY DEF SmtpInv, ListsFollow, EnvelopeMatches, Early
<1>3. NoFalseSuccess
  BY DEF SmtpInv, TypeOK, DeliveredWhen, NoFalseSuccess
<1>4. AtMostOnce
  BY DEF SmtpInv, DeliveredWhen, AtMostOnce
<1> QED
  BY <1>1, <1>2, <1>3, <1>4 DEF DeliveredAsTold

LEMMA Numbers ==
  ASSUME SmtpAssumption, SmtpInv
  PROVE  /\ sends \in Nat /\ MaxSends \in Nat /\ sends <= MaxSends
         /\ \A a \in Rcpts : delivered[a] \in Nat
<1>1. sends \in 0..MaxSends /\ delivered \in [Rcpts -> 0..MaxSends] /\ MaxSends \in Nat
  BY DEF SmtpAssumption, SmtpInv, TypeOK
<1>2. \A a \in Rcpts : delivered[a] \in 0..MaxSends
  BY <1>1
<1> QED
  BY <1>1, <1>2

LEMMA Bounded ==
  ASSUME SmtpAssumption, SmtpInv, phase \in Working
  PROVE  \A a \in Rcpts : delivered[a] <= sends
<1>1. \A a \in Rcpts : delivered[a] <= sends - 1
  BY DEF SmtpInv, OncePerSend
<1> QED
  BY <1>1, Numbers

LEMMA SmtpInvInit == ASSUME SmtpAssumption PROVE Init => SmtpInv
<1> SUFFICES ASSUME Init PROVE SmtpInv
  OBVIOUS
<1>1. TypeOK
  <2>1. MaxSends \in Nat
    BY SmtpAssumption DEF SmtpAssumption
  <2>2. 0 \in 0..MaxSends
    BY <2>1
  <2>3. delivered \in [Rcpts -> 0..MaxSends] /\ sends \in 0..MaxSends
    BY <2>2, Zenon DEF Init
  <2>4. told \in [success : SUBSET Rcpts, error : SUBSET Rcpts]
    BY DEF Init
  <2> QED
    BY <2>3, <2>4 DEF Init, TypeOK, Phases, Replies
<1>2. Apart
  BY DEF Init, Apart
<1>3. ListsFollow
  BY DEF Init, ListsFollow, Early
<1>4. \A a \in Rcpts : delivered[a] = 0 /\ sends = 0 /\ phase = "idle"
  BY DEF Init
<1>5. DeliveredWhen
  <2>1. /\ told.success = {} /\ told.error = {} /\ successList = {}
        /\ retryList = {} /\ errorList = {}
    BY DEF Init
  <2> QED
    BY <1>4, <2>1 DEF DeliveredWhen
<1>6. OncePerSend
  BY <1>4 DEF OncePerSend, Early, Working
<1> QED
  BY <1>1, <1>2, <1>3, <1>5, <1>6 DEF SmtpInv

-----------------------------------------------------------------------------
(* A command whose socket fails, wherever send() is before QUIT.           *)
LEMMA Failing ==
  ASSUME SmtpInv, phase \in Working, SocketFails, UNCHANGED <<delivered, unsure>>,
         envelope' \subseteq Rcpts, conn' \in {"commands", "data", "ended"}
  PROVE  SmtpInv'
<1>1. TypeOK'
  BY DEF SmtpInv, TypeOK, SocketFails, Phases, app
<1>2. Apart'
  BY DEF SmtpInv, Apart, SocketFails, app
<1>3. ListsFollow'
  BY DEF ListsFollow, SocketFails, Early
<1>4. DeliveredWhen'
  BY DEF SmtpInv, DeliveredWhen, SocketFails, Working, Early, app
<1>5. OncePerSend'
  <2>1. phase' \notin Working /\ delivered' = delivered /\ sends' = sends
    BY DEF SocketFails, Working, Early, app
  <2>2. \A a \in Rcpts : delivered[a] <= sends
    BY SmtpAssumption, Bounded
  <2> QED
    BY <2>1, <2>2 DEF OncePerSend
<1> QED
  BY <1>1, <1>2, <1>3, <1>4, <1>5 DEF SmtpInv

(* A command that is refused before any recipient is accepted.             *)
LEMMA Refusing ==
  ASSUME SmtpInv, phase \in Early, NEW r \in {""} \cup Replies, r # "2xx",
         ProcessReply(r)
  PROVE  SmtpInv'
<1>0. phase' \in {"body", "quit"} /\ (phase' = "body" => reply' = "3xx")
  BY DEF ProcessReply, Refused, MessageOrQuit
<1>1. TypeOK'
  BY <1>0 DEF SmtpInv, TypeOK, ProcessReply, Refused, Phases, Replies, app, server
<1>2. Apart'
  BY DEF SmtpInv, Apart, ProcessReply, Refused, app
<1>3. ListsFollow'
  BY <1>0 DEF SmtpInv, ListsFollow, ProcessReply, Refused, Early, server
<1>4. DeliveredWhen'
  BY <1>0 DEF SmtpInv, ListsFollow, DeliveredWhen, ProcessReply, Refused, Working, Early,
         app, server
<1>5. OncePerSend'
  <2>1. delivered' = delivered /\ sends' = sends /\ phase \in Working
    BY DEF ProcessReply, Refused, Working, app, server
  <2>2. \A a \in Rcpts : delivered[a] <= sends /\ delivered[a] <= sends - 1
    BY SmtpAssumption, Bounded, <2>1 DEF SmtpInv, OncePerSend
  <2> QED
    BY <2>1, <2>2 DEF OncePerSend
<1> QED
  BY <1>1, <1>2, <1>3, <1>4, <1>5 DEF SmtpInv

(* A command that changes nothing but where send() is.                     *)
LEMMA Going ==
  ASSUME SmtpInv, NEW next, NEW r, Goto(next, r), r \in {""} \cup Replies,
         tls' \in {"plain", "refused", "on"},
         \/ phase \in Early /\ next \in Early \cup {"rcpt"} /\ (next = "hello" => r # "2xx")
         \/ phase = "data" /\ conn # "ended" /\ next = "body" /\ r = "2xx"
  PROVE  SmtpInv'
<1>1. TypeOK'
  BY DEF SmtpInv, TypeOK, Goto, Phases, Early, lists, app, server
<1>2. Apart'
  BY DEF SmtpInv, Apart, Goto, lists, app
<1>3. ListsFollow'
  BY DEF SmtpInv, ListsFollow, Goto, Early, lists, server
<1>4. DeliveredWhen'
  BY DEF SmtpInv, DeliveredWhen, Goto, Working, Early, lists, app, server
<1>5. OncePerSend'
  BY DEF SmtpInv, OncePerSend, Goto, Working, Early, app, server
<1> QED
  BY <1>1, <1>2, <1>3, <1>4, <1>5 DEF SmtpInv

LEMMA Commanding ==
  ASSUME SmtpInv, NEW p \in Early, NEW good, NEW next, Command(p, good, next),
         good \subseteq Replies, next \in (Early \ {"hello"}) \cup {"rcpt"},
         "2xx" \in good
  PROVE  SmtpInv'
<1>1. phase = p
  BY DEF Command
<1>2. CASE SocketFails /\ UNCHANGED server
  <2>1. UNCHANGED <<delivered, unsure>> /\ envelope' \subseteq Rcpts
        /\ conn' \in {"commands", "data", "ended"}
    BY <1>2 DEF server, SmtpInv, TypeOK
  <2> QED
    BY <1>1, <1>2, <2>1, Failing DEF Working
<1>3. ASSUME NEW r \in Replies \ good, ProcessReply(r) PROVE SmtpInv'
  BY <1>1, <1>3, Refusing
<1>4. ASSUME NEW r \in good, Goto(next, r), UNCHANGED tls PROVE SmtpInv'
  <2>1. tls' \in {"plain", "refused", "on"}
    BY <1>4 DEF SmtpInv, TypeOK
  <2> QED
    BY <1>1, <1>4, <2>1, Going
<1> QED
  BY <1>2, <1>3, <1>4 DEF Command

-----------------------------------------------------------------------------
LEMMA SendKeeps == ASSUME SmtpAssumption, SmtpInv, Send PROVE SmtpInv'
<1>1. TypeOK'
  <2>1. sends' \in 0..MaxSends
    <3>1. sends \in Nat /\ MaxSends \in Nat
      BY Numbers
    <3>2. sends < MaxSends /\ sends' = sends + 1
      BY DEF Send
    <3> QED
      BY <3>1, <3>2
  <2>2. mAuth' \in BOOLEAN
    BY DEF SmtpInv, TypeOK, Send
  <2> QED
    BY <2>1, <2>2 DEF SmtpInv, TypeOK, Send, Phases, lists
<1>2. Apart'
  BY DEF SmtpInv, Apart, Send, lists
<1>3. ListsFollow'
  BY DEF SmtpInv, ListsFollow, Send, Early, lists
<1>4. DeliveredWhen'
  BY DEF SmtpInv, ListsFollow, DeliveredWhen, Send, Working, Early, lists
<1>5. OncePerSend'
  <2>1. phase \notin Working /\ phase' \in Working
    BY DEF Send, Working, Early
  <2>2. \A a \in Rcpts : delivered[a] <= sends
    BY <2>1 DEF SmtpInv, OncePerSend
  <2>3. delivered' = delivered /\ sends' = sends + 1
    BY DEF Send
  <2>4. sends \in Nat /\ \A a \in Rcpts : delivered[a] \in Nat
    BY Numbers
  <2>5. \A a \in Rcpts : delivered'[a] <= sends' - 1
    BY <2>2, <2>3, <2>4
  <2> QED
    BY <2>1, <2>5 DEF OncePerSend
<1> QED
  BY <1>1, <1>2, <1>3, <1>4, <1>5 DEF SmtpInv

LEMMA ConnectFailsKeeps == ASSUME SmtpAssumption, SmtpInv, ConnectFails PROVE SmtpInv'
<1>1. TypeOK'
  <2>1. sends' \in 0..MaxSends
    BY Numbers DEF ConnectFails
  <2> QED
    BY <2>1 DEF SmtpInv, TypeOK, ConnectFails, Phases, lists, server
<1>2. Apart'
  BY DEF SmtpInv, Apart, ConnectFails, lists
<1>3. ListsFollow'
  BY DEF SmtpInv, ListsFollow, ConnectFails, Early, lists
<1>4. DeliveredWhen'
  BY DEF SmtpInv, ListsFollow, DeliveredWhen, ConnectFails, Working, Early, lists, server
<1>5. OncePerSend'
  BY SmtpAssumption, Numbers DEF SmtpInv, OncePerSend, ConnectFails, Working, Early, server
<1> QED
  BY <1>1, <1>2, <1>3, <1>4, <1>5 DEF SmtpInv

LEMMA StartTLSKeeps == ASSUME SmtpInv, StartTLS PROVE SmtpInv'
<1>1. phase \in Early /\ phase \in Working
  BY DEF StartTLS, Early, Working
<1>2. CASE SocketFails /\ UNCHANGED server
  <2>1. UNCHANGED <<delivered, unsure>> /\ envelope' \subseteq Rcpts
        /\ conn' \in {"commands", "data", "ended"}
    BY <1>2 DEF server, SmtpInv, TypeOK
  <2> QED
    BY <1>1, <1>2, <2>1, Failing
<1>3. CASE Goto("ehlo2", "2xx") /\ tls' = "on"
  BY <1>1, <1>3, Going DEF Early, Replies
<1>4. ASSUME NEW r \in Replies \ {"2xx"}, Goto("hello", r), tls' = "refused" PROVE SmtpInv'
  BY <1>1, <1>4, Going DEF Early
<1> QED
  BY <1>2, <1>3, <1>4 DEF StartTLS

(* The one recipient whose reply has come goes from mRcptList to the list  *)
(* for it.                                                                 *)
LEMMA RcptKeeps == ASSUME SmtpInv, Rcpt PROVE SmtpInv'
<1> DEFINE
  Acc(a) == /\ successList' = successList \cup {a} /\ reply' = "2xx"
            /\ envelope' = envelope \cup {a}
            /\ UNCHANGED <<retryList, errorList, ret, tls, app, conn>>
  Ref(a) == /\ \E r \in Replies \ {"2xx"} : Refused(r, {a})
            /\ UNCHANGED <<successList, envelope, conn>>
  Cut(a) == /\ Refused("4xx", {a}) /\ conn' = "ended"
            /\ envelope' \in {envelope, envelope \cup {a}}
            /\ UNCHANGED successList
<1>1. PICK a \in rcptList :
       \/ SocketFails /\ UNCHANGED <<delivered, unsure, conn>>
          /\ envelope' \in {envelope, envelope \cup {a}}
       \/ /\ conn # "ended" /\ rcptList' = rcptList \ {a}
          /\ Acc(a) \/ Ref(a) \/ Cut(a)
          /\ phase' = AfterRcpt(rcptList', successList', reply')
          /\ UNCHANGED <<delivered, unsure>>
  BY DEF Rcpt
<1>2. phase = "rcpt" /\ a \in Rcpts /\ envelope \subseteq Rcpts
      /\ conn \in {"commands", "ended"} /\ (conn # "ended" => envelope = successList)
  BY DEF Rcpt, SmtpInv, TypeOK, ListsFollow
<1>3. CASE SocketFails /\ UNCHANGED <<delivered, unsure, conn>>
           /\ envelope' \in {envelope, envelope \cup {a}}
  BY <1>2, <1>3, Failing DEF Working
<1>4. ASSUME conn # "ended", rcptList' = rcptList \ {a},
             phase' = AfterRcpt(rcptList', successList', reply'),
             UNCHANGED <<delivered, unsure>>,
             Acc(a) \/ Ref(a) \/ Cut(a)
      PROVE  SmtpInv'
  <2>1. /\ UNCHANGED <<ret, tls, mAuth, told, sends>>
        /\ \/ /\ successList' = successList \cup {a} /\ reply' = "2xx"
              /\ envelope' = envelope \cup {a} /\ conn' = conn
              /\ UNCHANGED <<retryList, errorList>>
           \/ /\ errorList' = errorList \cup {a} /\ reply' = "5xx"
              /\ UNCHANGED <<successList, retryList, envelope, conn>>
           \/ /\ retryList' = retryList \cup {a} /\ reply' \in {"3xx", "4xx"}
              /\ UNCHANGED <<successList, errorList, envelope, conn>>
           \/ /\ retryList' = retryList \cup {a} /\ reply' = "4xx" /\ conn' = "ended"
              /\ envelope' \in {envelope, envelope \cup {a}}
              /\ UNCHANGED <<successList, errorList>>
    BY <1>4 DEF Refused, Replies, app
  <2>2. /\ phase' \in {"rcpt", "data", "body", "quit"}
        /\ phase' = "data" => successList' # {}
        /\ phase' \in {"body", "quit"} => successList' = {}
        /\ phase' = "body" => reply' = "3xx"
    BY <1>4, <2>1 DEF AfterRcpt, MessageOrQuit
  <2>3. TypeOK'
    BY <1>2, <1>4, <2>1, <2>2 DEF SmtpInv, TypeOK, Phases, Replies
  <2>4. Apart'
    BY <1>1, <1>4, <2>1 DEF SmtpInv, Apart
  <2>5. ListsFollow'
    BY <1>2, <1>4, <2>1, <2>2 DEF ListsFollow, Early
  <2>6. DeliveredWhen'
    BY <1>2, <1>4, <2>1, <2>2 DEF SmtpInv, DeliveredWhen, Working, Early
  <2>7. OncePerSend'
    BY SmtpAssumption, Numbers, <1>2, <1>4, <2>1, <2>2
       DEF SmtpInv, OncePerSend, Working, Early
  <2> QED
    BY <2>3, <2>4, <2>5, <2>6, <2>7 DEF SmtpInv
<1> QED
  BY <1>1, <1>3, <1>4

(* DATA, or the message itself, is refused: they are no successes.         *)
LEMMA Withdrawing ==
  ASSUME SmtpInv, phase \in {"data", "body"}, NEW r \in Replies, Withdrawn(r),
         UNCHANGED server
  PROVE  SmtpInv'
<1>1. TypeOK'
  BY DEF SmtpInv, TypeOK, Withdrawn, Refused, Phases, Replies, app, server
<1>2. Apart'
  BY DEF SmtpInv, Apart, Withdrawn, Refused, app
<1>3. ListsFollow'
  BY DEF ListsFollow, Withdrawn, Refused, Early
<1>4. DeliveredWhen'
  BY DEF SmtpInv, DeliveredWhen, Withdrawn, Refused, Working, Early, app, server
<1>5. OncePerSend'
  BY SmtpAssumption, Numbers DEF SmtpInv, OncePerSend, Withdrawn, Refused, Working, Early, app, server
<1> QED
  BY <1>1, <1>2, <1>3, <1>4, <1>5 DEF SmtpInv

LEMMA DataKeeps == ASSUME SmtpInv, Data PROVE SmtpInv'
<1>1. phase = "data" /\ phase \in Working
  BY DEF Data, Working
<1>2. CASE SocketFails /\ UNCHANGED server
  <2>1. UNCHANGED <<delivered, unsure>> /\ envelope' \subseteq Rcpts
        /\ conn' \in {"commands", "data", "ended"}
    BY <1>2 DEF server, SmtpInv, TypeOK
  <2> QED
    BY <1>1, <1>2, <2>1, Failing
<1>3. ASSUME NEW r \in {"4xx", "5xx"}, Withdrawn(r), UNCHANGED server PROVE SmtpInv'
  BY <1>1, <1>3, Withdrawing DEF Replies
<1>4. CASE conn # "ended" /\ Goto("body", "2xx") /\ UNCHANGED tls
  <2>1. tls' \in {"plain", "refused", "on"} /\ "2xx" \in {""} \cup Replies
    BY <1>4 DEF SmtpInv, TypeOK, Replies
  <2> QED
    BY <1>1, <1>4, <2>1, Going
<1>5. ASSUME conn # "ended", conn' = "data", phase' = "body", reply' = "3xx",
             UNCHANGED <<lists, ret, tls, envelope, delivered, unsure, app>>
      PROVE  SmtpInv'
  <2>1. TypeOK'
    BY <1>5 DEF SmtpInv, TypeOK, Phases, Replies, lists, app
  <2>2. Apart'
    BY <1>5 DEF SmtpInv, Apart, lists, app
  <2>3. ListsFollow'
    BY <1>1, <1>5 DEF SmtpInv, ListsFollow, Early, lists
  <2>4. DeliveredWhen'
    BY <1>1, <1>5 DEF SmtpInv, DeliveredWhen, Working, Early, lists, app
  <2>5. OncePerSend'
    BY <1>1, <1>5 DEF SmtpInv, OncePerSend, Working, Early, app
  <2> QED
    BY <2>1, <2>2, <2>3, <2>4, <2>5 DEF SmtpInv
<1> QED
  BY <1>2, <1>3, <1>4, <1>5 DEF Data

(* The message may have been taken: once more for those in mSuccessList,   *)
(* if the server was taking one, and for nobody else.                      *)
LEMMA Delivering ==
  ASSUME SmtpInv, phase = "body"
  PROVE  /\ Deliver \in [Rcpts -> Nat]
         /\ Addressed \subseteq successList
         /\ conn = "data" => Addressed = successList
         /\ \A a \in Rcpts :
              /\ a \in Addressed => Deliver[a] = delivered[a] + 1
              /\ a \notin Addressed => Deliver[a] = delivered[a]
<1>1. Addressed \subseteq successList /\ (conn = "data" => Addressed = successList)
  BY DEF SmtpInv, ListsFollow, Addressed
<1>2. delivered \in [Rcpts -> 0..MaxSends]
  BY DEF SmtpInv, TypeOK
<1>3. \A a \in Rcpts : delivered[a] \in Nat
  BY <1>2
<1> QED
  BY <1>1, <1>3 DEF Deliver

LEMMA MailDataKeeps == ASSUME SmtpAssumption, SmtpInv, MailData PROVE SmtpInv'
<1>1. phase = "body" /\ envelope = successList /\ successList \subseteq Rcpts
      /\ Addressed \subseteq successList
  BY Delivering DEF MailData, SmtpInv, ListsFollow, TypeOK
<1>2. sends \in Nat /\ MaxSends \in Nat /\ sends <= MaxSends
      /\ \A a \in Rcpts : delivered[a] \in Nat /\ delivered[a] <= sends - 1
  BY <1>1, Numbers DEF SmtpInv, OncePerSend, Working
<1>3. ASSUME NEW d \in {delivered, Deliver}, delivered' = d
      PROVE  /\ delivered' \in [Rcpts -> 0..MaxSends]
             /\ \A a \in Rcpts : delivered'[a] <= sends /\ delivered'[a] >= delivered[a]
             /\ \A a \in Rcpts \ Addressed : delivered'[a] = delivered[a]
  <2>1. CASE d = delivered
    <3>1. delivered' = delivered /\ delivered \in [Rcpts -> 0..MaxSends]
      BY <1>3, <2>1 DEF SmtpInv, TypeOK
    <3>2. \A a \in Rcpts : delivered[a] <= sends /\ delivered[a] >= delivered[a]
      BY <1>2
    <3> QED
      BY <3>1, <3>2
  <2>2. CASE d = Deliver
    <3>1. \A a \in Rcpts : /\ d[a] \in Nat /\ d[a] <= sends /\ d[a] >= delivered[a]
                           /\ a \notin Addressed => d[a] = delivered[a]
      BY <1>1, <1>2, <2>2, Delivering
    <3>2. d \in [Rcpts -> Nat]
      BY <1>1, <2>2, Delivering
    <3>3. \A a \in Rcpts : d[a] \in 0..MaxSends
      BY <1>2, <3>1
    <3> QED
      BY <1>3, <3>1, <3>2, <3>3
  <2> QED
    BY <2>1, <2>2
<1>4. ASSUME SocketFails \/ Withdrawn("4xx"), delivered' \in {delivered, Deliver},
             unsure' = unsure \cup Addressed, UNCHANGED <<envelope, conn>>
      PROVE  SmtpInv'
  <2>1. /\ UNCHANGED <<tls, told, mAuth, sends>>
        /\ \/ /\ rcptList' = rcptList \cup successList \cup retryList \cup errorList
              /\ successList' = {} /\ retryList' = {} /\ errorList' = {}
              /\ phase' = "done" /\ ret' = -1 /\ reply' = ""
           \/ /\ retryList' = retryList \cup successList /\ successList' = {}
              /\ phase' = "quit" /\ reply' = "4xx"
              /\ UNCHANGED <<rcptList, errorList, ret>>
    BY <1>4 DEF SocketFails, Withdrawn, Refused, app
  <2>2. TypeOK'
    BY <1>1, <1>3, <1>4, <2>1 DEF SmtpInv, TypeOK, Phases, Replies
  <2>3. Apart'
    BY <2>1 DEF SmtpInv, Apart
  <2>4. ListsFollow'
    BY <2>1 DEF ListsFollow, Early
  <2>5. DeliveredWhen'
    <3>1. \A a \in Rcpts : delivered'[a] \in Nat /\ delivered'[a] >= delivered[a]
          /\ (a \notin Addressed => delivered'[a] = delivered[a])
      <4>1. \A a \in Rcpts : delivered'[a] \in 0..MaxSends
        BY <2>2 DEF TypeOK
      <4> QED
        BY <1>3, <1>4, <4>1
    <3>2. \A a \in Rcpts :
            /\ a \in told.success => delivered[a] >= 1
            /\ a \notin unsure => delivered[a] <= 1
            /\ a \notin unsure
                 /\ a \in rcptList \cup retryList \cup errorList \cup told.error
                              \cup successList
               => delivered[a] = 0
      BY <1>1 DEF SmtpInv, DeliveredWhen, Working
    <3>3. phase' \notin Working /\ successList' = {} /\ told' = told
          /\ rcptList' \cup retryList' \cup errorList'
               \subseteq rcptList \cup retryList \cup errorList \cup successList
      BY <2>1 DEF Working, Early
    <3> QED
      BY <1>2, <1>4, <3>1, <3>2, <3>3 DEF DeliveredWhen
  <2>6. OncePerSend'
    <3>1. \A a \in Rcpts : delivered'[a] <= sends
      BY <1>3, <1>4
    <3> QED
      BY <2>1, <3>1 DEF OncePerSend, Working, Early
  <2> QED
    BY <2>2, <2>3, <2>4, <2>5, <2>6 DEF SmtpInv
<1>5. ASSUME NEW r \in Replies \ {"2xx"}, Withdrawn(r), UNCHANGED server PROVE SmtpInv'
  BY <1>1, <1>5, Withdrawing
<1>6. ASSUME conn = "data", phase' = "quit", reply' = "2xx", delivered' = Deliver,
             UNCHANGED <<lists, ret, tls, envelope, unsure, conn, app>>
      PROVE  SmtpInv'
  <2>1. TypeOK'
    BY <1>1, <1>3, <1>6 DEF SmtpInv, TypeOK, Phases, Replies, lists, app
  <2>2. Apart'
    BY <1>6 DEF SmtpInv, Apart, lists, app
  <2>3. ListsFollow'
    BY <1>6 DEF ListsFollow, Early
  <2>4. DeliveredWhen'
    <3>1. \A a \in Rcpts :
            /\ a \in successList => delivered'[a] = delivered[a] + 1
            /\ a \notin successList => delivered'[a] = delivered[a]
      BY <1>1, <1>6, Delivering
    <3>2. successList \cap (rcptList \cup retryList \cup errorList \cup told.error) = {}
      BY DEF SmtpInv, Apart
    <3>3. told' = told /\ unsure' = unsure /\ successList' = successList
          /\ rcptList' = rcptList /\ retryList' = retryList /\ errorList' = errorList
      BY <1>6 DEF lists, app
    <3> QED
      BY <1>1, <1>2, <1>6, <3>1, <3>2, <3>3 DEF SmtpInv, DeliveredWhen, Working, Early
  <2>5. OncePerSend'
    <3>1. \A a \in Rcpts : delivered'[a] <= sends
      BY <1>3, <1>6
    <3> QED
      BY <1>6, <3>1 DEF OncePerSend, Working, Early, app
  <2> QED
    BY <2>1, <2>2, <2>3, <2>4, <2>5 DEF SmtpInv
<1> QED
  BY <1>4, <1>5, <1>6 DEF MailData

LEMMA QuitKeeps == ASSUME SmtpInv, Quit PROVE SmtpInv'
<1>1. TypeOK'
  BY DEF SmtpInv, TypeOK, Quit, Phases, Replies, lists, app, server
<1>2. Apart'
  BY DEF SmtpInv, Apart, Quit, lists, app
<1>3. ListsFollow'
  <2>1. phase' = "done" /\ ret' = 0
    BY DEF Quit
  <2>2. 0 # -1
    OBVIOUS
  <2> QED
    BY <2>1, <2>2 DEF ListsFollow, Early
<1>4. DeliveredWhen'
  BY DEF SmtpInv, DeliveredWhen, Quit, Working, Early, lists, app, server
<1>5. OncePerSend'
  BY DEF SmtpInv, OncePerSend, Quit, Working, Early, app, server
<1> QED
  BY <1>1, <1>2, <1>3, <1>4, <1>5 DEF SmtpInv

LEMMA CollectKeeps == ASSUME SmtpInv, Collect PROVE SmtpInv'
<1>1. CASE ret = 0
  <2>1. /\ told'.success = told.success \cup successList
        /\ told'.error = told.error \cup errorList
        /\ rcptList' = rcptList \cup retryList
        /\ successList' = {} /\ errorList' = {} /\ retryList' = {}
        /\ phase = "done" /\ phase' = "idle"
        /\ envelope' = envelope /\ delivered' = delivered /\ unsure' = unsure
        /\ sends' = sends
    BY <1>1 DEF Collect, server
  <2>2. TypeOK'
    <3>1. told' = [success |-> told.success \cup successList,
                   error |-> told.error \cup errorList]
      BY <1>1 DEF Collect
    <3>2. /\ told.success \subseteq Rcpts /\ told.error \subseteq Rcpts
          /\ successList \subseteq Rcpts /\ errorList \subseteq Rcpts
      BY DEF SmtpInv, TypeOK
    <3>3. told' \in [success : SUBSET Rcpts, error : SUBSET Rcpts]
      BY <3>1, <3>2
    <3> QED
      BY <1>1, <3>3 DEF SmtpInv, TypeOK, Collect, Phases, server
  <2>3. Apart'
    BY <2>1 DEF SmtpInv, Apart
  <2>4. ListsFollow'
    BY <2>1 DEF ListsFollow, Early
  <2>5. DeliveredWhen'
    BY <2>1 DEF SmtpInv, DeliveredWhen, Working, Early
  <2>6. OncePerSend'
    BY <2>1 DEF SmtpInv, OncePerSend, Working, Early
  <2> QED
    BY <2>2, <2>3, <2>4, <2>5, <2>6 DEF SmtpInv
<1>2. CASE ret # 0
  <2>1. TypeOK'
    BY <1>2 DEF SmtpInv, TypeOK, Collect, Phases, lists, server
  <2>2. Apart'
    BY <1>2 DEF SmtpInv, Apart, Collect, lists
  <2>3. ListsFollow'
    BY <1>2 DEF SmtpInv, TypeOK, ListsFollow, Collect, Early, lists
  <2>4. DeliveredWhen'
    BY <1>2 DEF SmtpInv, DeliveredWhen, Collect, Working, Early, lists, server
  <2>5. OncePerSend'
    BY <1>2 DEF SmtpInv, OncePerSend, Collect, Working, Early, server
  <2> QED
    BY <2>1, <2>2, <2>3, <2>4, <2>5 DEF SmtpInv
<1> QED
  BY <1>1, <1>2

LEMMA StutterKeeps == ASSUME SmtpInv, UNCHANGED vars PROVE SmtpInv'
<1>1. TypeOK' /\ Apart' /\ ListsFollow' /\ DeliveredWhen' /\ OncePerSend'
  BY DEF SmtpInv, TypeOK, Apart, ListsFollow, DeliveredWhen, OncePerSend,
         vars, lists, server, app
<1> QED
  BY <1>1 DEF SmtpInv

LEMMA SmtpInvNext == ASSUME SmtpAssumption PROVE SmtpInv /\ [Next]_vars => SmtpInv'
<1> SUFFICES ASSUME SmtpInv, [Next]_vars PROVE SmtpInv'
  OBVIOUS
<1>1. CASE Send
  BY <1>1, SendKeeps
<1>2. CASE ConnectFails
  BY <1>2, ConnectFailsKeeps
<1>3. CASE Welcome
  BY <1>3, Commanding DEF Welcome, Early, Replies
<1>4. CASE Helo
  BY <1>4, Commanding DEF Helo, Early, Replies
<1>5. CASE Ehlo
  BY <1>5, Commanding DEF Ehlo, Early, Replies
<1>6. CASE StartTLS
  BY <1>6, StartTLSKeeps
<1>7. CASE Ehlo2
  BY <1>7, Commanding DEF Ehlo2, Early, Replies
<1>8. CASE AfterRefusal
  <2>1. /\ phase = "hello" /\ phase \in Early /\ ProcessReply(reply)
        /\ reply \in {""} \cup Replies
    BY <1>8 DEF AfterRefusal, Early, SmtpInv, TypeOK
  <2>2. reply # "2xx"
    BY <2>1 DEF SmtpInv, ListsFollow
  <2> QED
    BY <2>1, <2>2, Refusing
<1>9. CASE AuthLogin
  BY <1>9, Commanding DEF AuthLogin, Early, Replies
<1>10. CASE Mail
  BY <1>10, Commanding DEF Mail, Early, Replies
<1>11. CASE Rcpt
  BY <1>11, RcptKeeps
<1>12. CASE Data
  BY <1>12, DataKeeps
<1>13. CASE MailData
  BY <1>13, MailDataKeeps
<1>14. CASE Quit
  BY <1>14, QuitKeeps
<1>15. CASE Collect
  BY <1>15, CollectKeeps
<1>16. CASE UNCHANGED vars
  BY <1>16, StutterKeeps
<1> QED
  BY <1>1, <1>2, <1>3, <1>4, <1>5, <1>6, <1>7, <1>8, <1>9, <1>10, <1>11, <1>12, <1>13,
     <1>14, <1>15, <1>16 DEF Next, Talk

LEMMA SmtpInvHolds == Spec => []SmtpInv
<1>1. Init => SmtpInv
  BY SmtpAssumption, SmtpInvInit
<1>2. SmtpInv /\ [Next]_vars => SmtpInv'
  BY SmtpAssumption, SmtpInvNext
<1> QED
  BY <1>1, <1>2, PTL DEF Spec

-----------------------------------------------------------------------------
(* However many recipients and sends there are, the variables keep their   *)
(* types; send() returns 0 or -1, and has the server take the message for  *)
(* a recipient at most once each time.                                     *)
THEOREM TypeCorrect == Spec => []TypeOK
BY SmtpInvHolds, PTL DEF SmtpInv

(* Whatever the server replies and wherever the socket fails, each         *)
(* recipient is in one list or has been reported, and in no two.           *)
THEOREM NobodyLostHolds == Spec => []NobodyLost
BY SmtpInvHolds, SmtpInvImplies, PTL

(* What the application is told agrees with what the server has done, but  *)
(* for a message whose last reply was lost.                                *)
THEOREM DeliveredAsToldHolds == Spec => []DeliveredAsTold
BY SmtpInvHolds, SmtpInvImplies, PTL

-----------------------------------------------------------------------------
(* Pop3Client.                                                             *)
(*                                                                         *)
(* What the server sends and what the reader makes of it are recursive     *)
(* functions of a mail.  The induction theorems of the library cannot be   *)
(* instantiated; here induction is about membership in a set, and each     *)
(* recursive function is shown to exist by it.                             *)

-----------------------------------------------------------------------------
(* Induction.                                                              *)
LEMMA Smallest ==
  ASSUME NEW T, T \subseteq Nat, T # {}
  PROVE  \E n \in T : \A m \in T : n <= m
<1> DEFINE less == OpToRel(<, Nat)
<1>1. PICK n \in T : \A m \in T : <<m, n>> \notin less
  BY NatLessThanWellFounded, WFMin
<1>2. \A m \in T : ~(m < n)
  BY <1>1 DEF OpToRel
<1>3. \A m \in T : n <= m
  BY <1>2
<1> QED
  BY <1>3

LEMMA NatInd ==
  ASSUME NEW T, 0 \in T, \A n \in Nat : n \in T => n + 1 \in T
  PROVE  \A n \in Nat : n \in T
<1> SUFFICES ASSUME Nat \ T # {} PROVE FALSE
  OBVIOUS
<1>1. PICK n \in Nat \ T : \A m \in Nat \ T : n <= m
  BY Smallest
<1>2. n # 0
  BY <1>1
<1>3. n - 1 \in Nat /\ n = (n - 1) + 1 /\ ~(n <= n - 1)
  BY <1>1, <1>2
<1>4. n - 1 \in T
  BY <1>1, <1>3
<1> QED
  BY <1>1, <1>3, <1>4

(* What holds of the empty sequence, and of a sequence when it holds of    *)
(* the one without its last element.                                       *)
LEMMA SeqInd ==
  ASSUME NEW S, NEW T, <<>> \in T,
         \A s \in Seq(S), e \in S : s \in T => Append(s, e) \in T
  PROVE  \A s \in Seq(S) : s \in T
<1> DEFINE N == {n \in Nat : \A s \in Seq(S) : Len(s) = n => s \in T}
<1>1. 0 \in N
  BY EmptySeq
<1>2. ASSUME NEW n \in Nat, n \in N PROVE n + 1 \in N
  <2> SUFFICES ASSUME NEW s \in Seq(S), Len(s) = n + 1 PROVE s \in T
    OBVIOUS
  <2>1. s # <<>>
    BY EmptySeq
  <2>2. PICK r \in Seq(S), e \in S : s = Append(r, e)
    BY <2>1, SequenceEmptyOrAppend
  <2>3. Len(r) = n
    BY <2>2, AppendProperties, LenProperties
  <2> QED
    BY <1>2, <2>2, <2>3
<1> HIDE DEF N
<1>3. \A n \in Nat : n \in N
  BY <1>1, <1>2, NatInd
<1> QED
  BY <1>3, LenProperties DEF N

-----------------------------------------------------------------------------
(* FlattenSeq() is a recursive function over the places of its sequence.   *)
Turn(f, ss, i) == IF i = 1 THEN ss[i] ELSE f[i - 1] \o ss[i]

LEMMA FlattenExists ==
  ASSUME NEW ss, NEW m \in Nat
  PROVE  \E f : f = [i \in 1..m |-> Turn(f, ss, i)]
<1> DEFINE T == {n \in Nat : \E f : f = [i \in 1..n |-> Turn(f, ss, i)]}
<1>1. 0 \in T
  <2> DEFINE f == [i \in 1..0 |-> 0]
  <2>1. f = [i \in 1..0 |-> Turn(f, ss, i)]
    <3>1. 1..0 = {}
      OBVIOUS
    <3> QED
      BY <3>1
  <2> HIDE DEF f
  <2> QED
    BY <2>1
<1>2. ASSUME NEW n \in Nat, n \in T PROVE n + 1 \in T
  <2>1. PICK f : f = [i \in 1..n |-> Turn(f, ss, i)]
    BY <1>2
  <2> DEFINE g == [i \in 1..n+1 |-> Turn(f, ss, i)]
  <2>2. \A i \in 1..n : g[i] = f[i]
    <3>1. \A i \in 1..n : f[i] = Turn(f, ss, i)
      BY <2>1, Zenon
    <3>2. \A i \in 1..n : i \in 1..n+1
      OBVIOUS
    <3> QED
      BY <3>1, <3>2, Zenon
  <2>3. \A i \in 1..n+1 : i # 1 => i - 1 \in 1..n
    OBVIOUS
  <2>4. \A i \in 1..n+1 : Turn(g, ss, i) = Turn(f, ss, i)
    <3> SUFFICES ASSUME NEW i \in 1..n+1 PROVE Turn(g, ss, i) = Turn(f, ss, i)
      OBVIOUS
    <3> HIDE DEF g
    <3>1. CASE i = 1
      BY <3>1, Zenon DEF Turn
    <3>2. CASE i # 1
      <4>1. g[i - 1] = f[i - 1]
        BY <2>2, <2>3, <3>2, Zenon
      <4> QED
        BY <3>2, <4>1, Zenon DEF Turn
    <3> QED
      BY <3>1, <3>2
  <2>5. g = [i \in 1..n+1 |-> Turn(g, ss, i)]
    BY <2>4, Zenon
  <2>6. n + 1 \in Nat
    OBVIOUS
  <2> HIDE DEF g
  <2> QED
    BY <2>5, <2>6, Zenon
<1> HIDE DEF T
<1>3. \A n \in Nat : n \in T
  BY <1>1, <1>2, NatInd
<1> QED
  BY <1>3 DEF T

LEMMA FlattenIs ==
  ASSUME NEW S, NEW ss \in Seq(S), ss # <<>>
  PROVE  \E f : f = [i \in 1..Len(ss) |-> Turn(f, ss, i)] /\ FlattenSeq(ss) = f[Len(ss)]
<1>1. Len(ss) \in Nat /\ Len(ss) # 0
  BY EmptySeq, LenProperties
<1>2. \E f : f = [i \in 1..Len(ss) |-> Turn(f, ss, i)]
  BY <1>1, FlattenExists
<1> QED
  BY <1>1, <1>2, Zenon DEF FlattenSeq, Turn

(* FlattenSeq(), one sequence at a time.                                   *)
LEMMA FlattenEmpty == FlattenSeq(<<>>) = <<>>
BY EmptySeq DEF FlattenSeq

LEMMA FlattenAppend ==
  ASSUME NEW S, NEW ss \in Seq(Seq(S)), NEW s \in Seq(S)
  PROVE  FlattenSeq(Append(ss, s)) = FlattenSeq(ss) \o s
<1> DEFINE m == Len(ss)
           tt == Append(ss, s)
<1>1. m \in Nat /\ tt \in Seq(Seq(S)) /\ tt # <<>> /\ Len(tt) = m + 1
  BY AppendProperties, LenProperties
<1>2. tt[m + 1] = s /\ \A i \in 1..m : tt[i] = ss[i]
  BY AppendProperties
<1> HIDE DEF m, tt
<1>3. PICK g : g = [i \in 1..m+1 |-> Turn(g, tt, i)] /\ FlattenSeq(tt) = g[m + 1]
  BY <1>1, FlattenIs
<1>4. g[m + 1] = Turn(g, tt, m + 1)
  <2>1. m + 1 \in 1..m+1
    BY <1>1
  <2> QED
    BY <1>3, <2>1, Zenon
<1>5. CASE ss = <<>>
  <2>1. m = 0
    BY <1>5, EmptySeq DEF m
  <2>2. FlattenSeq(tt) = s
    BY <1>2, <1>3, <1>4, <2>1 DEF Turn
  <2>3. <<>> \o s = s
    BY ConcatEmptySeq
  <2> QED
    BY <1>5, <2>2, <2>3, FlattenEmpty DEF tt
<1>6. CASE ss # <<>>
  <2>1. PICK f : f = [i \in 1..m |-> Turn(f, ss, i)] /\ FlattenSeq(ss) = f[m]
    BY <1>6, FlattenIs DEF m
  <2>2. m # 0
    BY <1>6, EmptySeq DEF m
  <2> DEFINE T == {n \in Nat : n \in 1..m => f[n] = g[n]}
  <2>3. 0 \in T
    OBVIOUS
  <2>4. ASSUME NEW n \in Nat, n \in T PROVE n + 1 \in T
    <3> SUFFICES ASSUME n + 1 \in 1..m PROVE f[n + 1] = g[n + 1]
      OBVIOUS
    <3>1. f[n + 1] = Turn(f, ss, n + 1)
      BY <2>1, Zenon
    <3>2. n + 1 \in 1..m+1 /\ (n # 0 => n \in 1..m) /\ (n + 1) - 1 = n /\ (n + 1 = 1 <=> n = 0)
      BY <1>1
    <3>3. g[n + 1] = Turn(g, tt, n + 1)
      BY <1>3, <3>2, Zenon
    <3> QED
      BY <1>2, <2>4, <3>1, <3>2, <3>3 DEF Turn
  <2> HIDE DEF T
  <2>5. \A n \in Nat : n \in T
    BY <2>3, <2>4, NatInd
  <2>6. f[m] = g[m]
    BY <1>1, <2>2, <2>5 DEF T
  <2>7. FlattenSeq(tt) = g[m] \o s
    <3>1. m + 1 # 1 /\ (m + 1) - 1 = m
      BY <1>1, <2>2
    <3>2. Turn(g, tt, m + 1) = g[(m + 1) - 1] \o tt[m + 1]
      BY <3>1, Zenon DEF Turn
    <3> QED
      BY <1>2, <1>3, <1>4, <3>1, <3>2, Zenon
  <2> QED
    BY <2>1, <2>6, <2>7 DEF tt
<1> QED
  BY <1>5, <1>6

LEMMA FlattenType ==
  ASSUME NEW S, NEW ss \in Seq(Seq(S))
  PROVE  FlattenSeq(ss) \in Seq(S)
<1> DEFINE T == {r \in Seq(Seq(S)) : FlattenSeq(r) \in Seq(S)}
<1>1. <<>> \in T
  BY FlattenEmpty, EmptySeq
<1>2. ASSUME NEW r \in Seq(Seq(S)), NEW s \in Seq(S), r \in T PROVE Append(r, s) \in T
  BY <1>2, FlattenAppend, ConcatProperties, AppendProperties
<1> HIDE DEF T
<1>3. \A r \in Seq(Seq(S)) : r \in T
  BY <1>1, <1>2, SeqInd
<1> QED
  BY <1>3 DEF T

(* A sequence of sequences that is another one with an element more.       *)
LEMMA FlattenLast ==
  ASSUME NEW S, NEW ss \in Seq(Seq(S)), NEW tt \in Seq(Seq(S)),
         Len(tt) = Len(ss) + 1, \A k \in 1..Len(ss) : tt[k] = ss[k]
  PROVE  FlattenSeq(tt) = FlattenSeq(ss) \o tt[Len(ss) + 1]
<1> DEFINE s == tt[Len(ss) + 1]
<1>1. Len(ss) \in Nat /\ s \in Seq(S)
  BY LenProperties, ElementOfSeq
<1>2. /\ Append(ss, s) \in Seq(Seq(S)) /\ Len(Append(ss, s)) = Len(ss) + 1
      /\ \A k \in 1..Len(ss) : Append(ss, s)[k] = ss[k]
      /\ Append(ss, s)[Len(ss) + 1] = s
  BY <1>1, AppendProperties
<1>3. \A k \in 1..Len(tt) : tt[k] = Append(ss, s)[k]
  BY <1>1, <1>2
<1>4. tt = Append(ss, s)
  BY <1>1, <1>2, <1>3, SeqEqual
<1> QED
  BY <1>1, <1>4, FlattenAppend

LEMMA IsSeq ==
  ASSUME NEW S, NEW n \in Nat, NEW f, f \in [1..n -> S]
  PROVE  f \in Seq(S) /\ Len(f) = n
OBVIOUS

-----------------------------------------------------------------------------
(* What the server sends.                                                  *)
Line == Seq(Bytes \ {CR, LF})

Stuff(l) == (IF l # <<>> /\ l[1] = Dot THEN <<Dot>> ELSE <<>>) \o l
Body(mail) == FlattenSeq([k \in DOMAIN mail |-> StuffedLine(mail[k])])

LEMMA Chars ==
  /\ CR \in Bytes /\ LF \in Bytes /\ Dot \in Bytes /\ "+" \in Bytes /\ "-" \in Bytes
  /\ Dot \notin {CR, LF, NUL} /\ CR # LF /\ NUL \notin Bytes
  /\ {"+", "-"} \cap {CR, LF, Dot} = {}
BY DEF Bytes, CR, LF, Dot, NUL

LEMMA Ends ==
  /\ CRLF \in Seq(Bytes) /\ Len(CRLF) = 2 /\ CRLF[1] = CR /\ CRLF[2] = LF
  /\ <<Dot>> \in Seq(Bytes) /\ Len(<<Dot>>) = 1 /\ <<Dot>>[1] = Dot
  /\ <<>> \in Seq(Bytes) /\ Len(<<>>) = 0
BY Chars DEF CRLF

LEMMA AddEnd == ASSUME NEW b \in Seq(Bytes)
  PROVE  /\ b \o CRLF \in Seq(Bytes) /\ Len(b \o CRLF) = Len(b) + 2
         /\ \A k \in 1..Len(b) : (b \o CRLF)[k] = b[k]
         /\ (b \o CRLF)[Len(b) + 1] = CR /\ (b \o CRLF)[Len(b) + 2] = LF
<1>1. /\ b \o CRLF \in Seq(Bytes) /\ Len(b \o CRLF) = Len(b) + Len(CRLF) /\ Len(b) \in Nat
      /\ \A k \in 1..Len(b) + Len(CRLF) :
           (b \o CRLF)[k] = IF k <= Len(b) THEN b[k] ELSE CRLF[k - Len(b)]
  BY Ends, ConcatProperties, LenProperties
<1> DEFINE t == b \o CRLF
           n == Len(b)
<1> HIDE DEF t, n
<1>2. Len(CRLF) = 2 /\ CRLF[1] = CR /\ CRLF[2] = LF
  BY Ends
<1>3. /\ n \in Nat /\ Len(t) = n + 2
      /\ \A k \in 1..n + 2 : t[k] = IF k <= n THEN b[k] ELSE CRLF[k - n]
  BY <1>1, <1>2 DEF t, n
<1>4. (n + 1) - n = 1 /\ (n + 2) - n = 2 /\ n + 1 \in 1..n+2 /\ n + 2 \in 1..n+2
  BY <1>3
<1>5. t[n + 1] = CR /\ t[n + 2] = LF
  BY <1>2, <1>3, <1>4
<1>6. \A k \in 1..n : t[k] = b[k]
  BY <1>3
<1> QED
  BY <1>1, <1>3, <1>5, <1>6 DEF t, n

LEMMA LineIsText == ASSUME NEW l \in Line
  PROVE  l \in Seq(Bytes) /\ Len(l) \in Nat /\ \A k \in 1..Len(l) : l[k] \notin {CR, LF}
<1>1. \A k \in 1..Len(l) : l[k] \in Bytes \ {CR, LF}
  BY ElementOfSeq DEF Line
<1>2. l \in Seq(Bytes)
  BY SeqMonotonic DEF Line
<1> QED
  BY <1>1, <1>2, LenProperties

LEMMA Stuffing == ASSUME NEW l \in Line
  PROVE  /\ Stuff(l) \in Seq(Bytes)
         /\ StuffedLine(l) = Stuff(l) \o CRLF
         /\ StuffedLine(l) \in Seq(Bytes)
<1> DEFINE d == IF l # <<>> /\ l[1] = Dot THEN <<Dot>> ELSE <<>>
<1>1. d \in Seq(Bytes)
  BY Ends
<1> HIDE DEF d
<1>2. d \o l \in Seq(Bytes)
  BY <1>1, LineIsText, ConcatProperties
<1>3. d \o l \o CRLF = (d \o l) \o CRLF /\ (d \o l) \o CRLF \in Seq(Bytes)
  BY <1>2, Ends, ConcatProperties
<1> QED
  BY <1>2, <1>3 DEF d, Stuff, StuffedLine

(* A text of whole lines in which a dot that begins a line is followed by  *)
(* another byte of that line.                                              *)
Whole(b) ==
  /\ b # <<>> => Len(b) >= 2 /\ b[Len(b) - 1] = CR /\ b[Len(b)] = LF
  /\ \A k \in 1..Len(b) :
       b[k] = Dot /\ (k = 1 \/ b[k - 1] = LF) => k < Len(b) /\ b[k + 1] \notin {CR, LF}

LEMMA StuffedIsWhole == ASSUME NEW l \in Line PROVE Whole(StuffedLine(l)) /\ StuffedLine(l) # <<>>
<1> DEFINE s == StuffedLine(l)
           n == Len(l)
<1>1. n \in Nat /\ l \in Seq(Bytes) /\ \A k \in 1..n : l[k] \notin {CR, LF}
  BY LineIsText
<1>2. CASE l # <<>> /\ l[1] = Dot
  <2>1. n # 0
    BY <1>1, <1>2, EmptySeq
  <2>2. /\ s = (<<Dot>> \o l) \o CRLF
    BY <1>2 DEF StuffedLine
  <2>3. /\ <<Dot>> \o l \in Seq(Bytes) /\ Len(<<Dot>> \o l) = n + 1
        /\ \A k \in 1..n+1 : (<<Dot>> \o l)[k] = IF k = 1 THEN Dot ELSE l[k - 1]
    BY <1>1, Ends, ConcatProperties
  <2>4. /\ s \in Seq(Bytes) /\ Len(s) = n + 3 /\ s[1] = Dot
        /\ \A k \in 2..n+1 : s[k] = l[k - 1]
        /\ s[n + 2] = CR /\ s[n + 3] = LF
    <3>1. n + 1 + 1 = n + 2 /\ n + 1 + 2 = n + 3 /\ 1 \in 1..n+1
          /\ \A k \in 2..n+1 : k \in 1..n+1 /\ k # 1
      BY <1>1
    <3>2. /\ s \in Seq(Bytes) /\ Len(s) = n + 1 + 2
          /\ \A k \in 1..n+1 : s[k] = (<<Dot>> \o l)[k]
          /\ s[n + 1 + 1] = CR /\ s[n + 1 + 2] = LF
      BY <2>2, <2>3, AddEnd
    <3> HIDE DEF s, n
    <3> QED
      BY <2>3, <3>1, <3>2
  <2> HIDE DEF s, n
  <2>5. ASSUME NEW k \in 1..Len(s), s[k] = Dot, k = 1 \/ s[k - 1] = LF
        PROVE  k < Len(s) /\ s[k + 1] \notin {CR, LF}
    <3>1. CASE k = 1
      BY <1>1, <2>1, <2>4, <3>1
    <3>2. CASE k \in 2..n+1
      BY <1>1, <2>4, <2>5, <3>2, Chars
    <3>3. CASE k \in {n + 2, n + 3}
      BY <1>1, <2>4, <2>5, <3>3, Chars
    <3> QED
      BY <1>1, <2>4, <3>1, <3>2, <3>3
  <2> QED
    BY <1>1, <2>4, <2>5, Ends DEF Whole, s
<1>3. CASE ~(l # <<>> /\ l[1] = Dot)
  <2>1. s = (<<>> \o l) \o CRLF /\ <<>> \o l = l
    BY <1>1, <1>3, ConcatEmptySeq DEF StuffedLine
  <2>2. /\ s \in Seq(Bytes) /\ Len(s) = n + 2
        /\ \A k \in 1..n : s[k] = l[k]
        /\ s[n + 1] = CR /\ s[n + 2] = LF
    BY <1>1, <2>1, AddEnd
  <2>3. n # 0 => l[1] # Dot
    BY <1>3, Ends DEF n
  <2> HIDE DEF s, n
  <2>4. ASSUME NEW k \in 1..Len(s), s[k] = Dot, k = 1 \/ s[k - 1] = LF
        PROVE  k < Len(s) /\ s[k + 1] \notin {CR, LF}
    <3>1. CASE k \in 1..n
      BY <1>1, <2>2, <2>3, <2>4, <3>1, Chars
    <3>2. CASE k \in {n + 1, n + 2}
      BY <1>1, <2>2, <2>4, <3>2, Chars
    <3> QED
      BY <1>1, <2>2, <3>1, <3>2
  <2> QED
    BY <1>1, <2>2, <2>4, Ends DEF Whole, s
<1> QED
  BY <1>2, <1>3

LEMMA WholeConcat ==
  ASSUME NEW b \in Seq(Bytes), NEW s \in Seq(Bytes), Whole(b), Whole(s), s # <<>>
  PROVE  Whole(b \o s) /\ b \o s # <<>>
<1> DEFINE t == b \o s
           m == Len(b)
           n == Len(s)
<1>1. /\ m \in Nat /\ n \in Nat /\ n >= 2 /\ Len(t) = m + n
      /\ \A k \in 1..m : t[k] = b[k]
      /\ \A k \in m+1..m+n : t[k] = s[k - m]
  BY ConcatProperties, LenProperties DEF Whole
<1>2. m # 0 => b # <<>> /\ b[m] = LF
  BY Ends DEF Whole
<1>3. t[m + n - 1] = CR /\ t[m + n] = LF
  BY <1>1 DEF Whole
<1> HIDE DEF t, m, n
<1>4. ASSUME NEW k \in 1..Len(t), t[k] = Dot, k = 1 \/ t[k - 1] = LF
      PROVE  k < Len(t) /\ t[k + 1] \notin {CR, LF}
  <2>1. CASE k \in 1..m
    <3>1. b[k] = Dot /\ (k = 1 \/ b[k - 1] = LF)
      BY <1>1, <1>4, <2>1
    <3>2. k < m /\ b[k + 1] \notin {CR, LF}
      BY <2>1, <3>1 DEF Whole, m
    <3> QED
      BY <1>1, <2>1, <3>2
  <2>2. CASE k \in m+1..m+n
    <3>1. s[k - m] = Dot /\ (k - m = 1 \/ s[(k - m) - 1] = LF) /\ k - m \in 1..n
      BY <1>1, <1>4, <2>2
    <3>2. k - m < n /\ s[(k - m) + 1] \notin {CR, LF}
      BY <3>1 DEF Whole, n
    <3> QED
      BY <1>1, <2>2, <3>2
  <2> QED
    BY <1>1, <2>1, <2>2
<1> QED
  <2>1. t # <<>> /\ Len(t) >= 2 /\ t[Len(t) - 1] = CR /\ t[Len(t)] = LF
    BY <1>1, <1>3, Ends
  <2> QED
    BY <1>4, <2>1 DEF Whole, t

(* The lines of a mail, one at a time.                                     *)
LEMMA BodyEmpty == Body(<<>>) = <<>>
<1>1. [k \in DOMAIN <<>> |-> StuffedLine(<<>>[k])] = <<>>
  OBVIOUS
<1> QED
  BY <1>1, FlattenEmpty DEF Body

LEMMA BodyAppend ==
  ASSUME NEW m \in Seq(Line), NEW l \in Line
  PROVE  Body(Append(m, l)) = Body(m) \o StuffedLine(l)
<1> DEFINE n == Len(m)
           r == Append(m, l)
           ss == [k \in DOMAIN m |-> StuffedLine(m[k])]
           tt == [k \in DOMAIN r |-> StuffedLine(r[k])]
<1>1. n \in Nat /\ DOMAIN m = 1..n /\ \A k \in 1..n : m[k] \in Line
  BY LenProperties, ElementOfSeq
<1>2. /\ r \in Seq(Line) /\ Len(r) = n + 1 /\ r[n + 1] = l
      /\ \A k \in 1..n : r[k] = m[k]
  BY AppendProperties
<1>3. DOMAIN r = 1..n+1 /\ n + 1 \in Nat /\ \A k \in 1..n+1 : r[k] \in Line
  BY <1>1, <1>2, LenProperties, ElementOfSeq
<1> HIDE DEF n, r
<1>4. ss \in [1..n -> Seq(Bytes)] /\ tt \in [1..n+1 -> Seq(Bytes)]
  BY <1>1, <1>3, Stuffing
<1>5. ss \in Seq(Seq(Bytes)) /\ Len(ss) = n /\ tt \in Seq(Seq(Bytes)) /\ Len(tt) = n + 1
  BY <1>1, <1>3, <1>4, IsSeq
<1>6. (\A k \in 1..n : tt[k] = ss[k]) /\ tt[n + 1] = StuffedLine(l)
  BY <1>1, <1>2, <1>3
<1> HIDE DEF ss, tt
<1>7. FlattenSeq(tt) = FlattenSeq(ss) \o tt[n + 1]
  BY <1>5, <1>6, FlattenLast
<1> QED
  BY <1>6, <1>7 DEF Body, ss, tt, r

LEMMA BodyIsWhole ==
  ASSUME NEW m \in Seq(Line)
  PROVE  Body(m) \in Seq(Bytes) /\ Whole(Body(m)) /\ (m # <<>> => Body(m) # <<>>)
<1> DEFINE T == {r \in Seq(Line) : /\ Body(r) \in Seq(Bytes) /\ Whole(Body(r))
                                   /\ r # <<>> => Body(r) # <<>>}
<1>1. <<>> \in T
  <2>1. Whole(<<>>)
    <3>1. 1..Len(<<>>) = {}
      BY Ends
    <3> QED
      BY <3>1 DEF Whole
  <2>2. <<>> \in Seq(Line)
    BY EmptySeq
  <2> QED
    BY <2>1, <2>2, BodyEmpty, Ends
<1>2. ASSUME NEW r \in Seq(Line), NEW l \in Line, r \in T PROVE Append(r, l) \in T
  <2>1. /\ Append(r, l) \in Seq(Line) /\ Body(Append(r, l)) = Body(r) \o StuffedLine(l)
    BY BodyAppend, AppendProperties
  <2>2. StuffedLine(l) \in Seq(Bytes) /\ Whole(StuffedLine(l)) /\ StuffedLine(l) # <<>>
    BY Stuffing, StuffedIsWhole
  <2>3. Body(r) \in Seq(Bytes) /\ Whole(Body(r))
    BY <1>2
  <2>4. Body(r) \o StuffedLine(l) \in Seq(Bytes)
    BY <2>2, <2>3, ConcatProperties
  <2>5. Whole(Body(r) \o StuffedLine(l)) /\ Body(r) \o StuffedLine(l) # <<>>
    BY <2>2, <2>3, WholeConcat
  <2> QED
    BY <2>1, <2>4, <2>5
<1> HIDE DEF T
<1>3. \A r \in Seq(Line) : r \in T
  BY <1>1, <1>2, SeqInd
<1> QED
  BY <1>3 DEF T

(* The end of the data is found in it once, unless there are no lines.     *)
LEMMA WireEnds ==
  ASSUME NEW m \in Seq(Line)
  PROVE  LET W == Wire(m) n == Len(W) IN
         /\ W \in Seq(Bytes) /\ n >= 3
         /\ W[n - 2] = Dot /\ W[n - 1] = CR /\ W[n] = LF
         /\ W = (Body(m) \o <<Dot>>) \o CRLF
         /\ m = <<>> => n = 3
         /\ m # <<>> => n >= 5 /\ W[n - 3] = LF /\ W[n - 4] = CR
         /\ \A k \in 2..n-1 : W[k] = Dot /\ W[k - 1] = LF /\ W[k + 1] \in {CR, LF} => k = n - 2
         /\ m # <<>> => ~(W[1] = Dot /\ W[2] \in {CR, LF})
<1> DEFINE b == Body(m)
           p == Len(b)
           W == Wire(m)
<1>1. b \in Seq(Bytes) /\ Whole(b) /\ (m # <<>> => b # <<>>) /\ p \in Nat
  BY BodyIsWhole, LenProperties
<1>2. W = (b \o <<Dot>>) \o CRLF
  BY DEF Wire, Body
<1>3. /\ b \o <<Dot>> \in Seq(Bytes) /\ Len(b \o <<Dot>>) = p + 1
      /\ \A k \in 1..p : (b \o <<Dot>>)[k] = b[k]
      /\ (b \o <<Dot>>)[p + 1] = Dot
  BY <1>1, Ends, ConcatProperties
<1>4. /\ W \in Seq(Bytes) /\ Len(W) = p + 3
      /\ \A k \in 1..p : W[k] = b[k]
      /\ W[p + 1] = Dot /\ W[p + 2] = CR /\ W[p + 3] = LF
  <2>1. p + 1 + 1 = p + 2 /\ p + 1 + 2 = p + 3 /\ p + 1 \in 1..p+1
        /\ \A k \in 1..p : k \in 1..p+1
    BY <1>1
  <2>2. /\ W \in Seq(Bytes) /\ Len(W) = p + 1 + 2
        /\ \A k \in 1..p+1 : W[k] = (b \o <<Dot>>)[k]
        /\ W[p + 1 + 1] = CR /\ W[p + 1 + 2] = LF
    BY <1>2, <1>3, AddEnd
  <2> HIDE DEF W, b, p
  <2> QED
    BY <1>3, <2>1, <2>2
<1>5. m = <<>> => p = 0
  BY BodyEmpty, Ends
<1> HIDE DEF W, b, p
<1>6. m # <<>> => p >= 2 /\ b[p - 1] = CR /\ b[p] = LF
  BY <1>1 DEF Whole, p
<1>7. ASSUME NEW k \in 2..p+2, W[k] = Dot, W[k - 1] = LF, W[k + 1] \in {CR, LF}
      PROVE  k = p + 1
  <2>1. CASE k \in 1..p
    <3>1. b[k] = Dot /\ b[k - 1] = LF /\ k \in 1..Len(b)
      BY <1>1, <1>4, <1>7, <2>1 DEF p
    <3>2. k < p /\ b[k + 1] \notin {CR, LF}
      BY <1>1, <3>1 DEF Whole, p
    <3> QED
      BY <1>1, <1>4, <1>7, <2>1, <3>2
  <2>2. CASE k = p + 2
    BY <1>4, <1>7, <2>2, Chars
  <2> QED
    BY <1>1, <2>1, <2>2
<1>8. ASSUME m # <<>>, W[1] = Dot, W[2] \in {CR, LF} PROVE FALSE
  <2>1. b[1] = Dot /\ b[2] \in {CR, LF} /\ 1 \in 1..Len(b)
    BY <1>1, <1>4, <1>6, <1>8 DEF p
  <2> QED
    BY <1>1, <2>1 DEF Whole
<1> DEFINE n == Len(W)
<1>9. /\ n = p + 3 /\ n - 2 = p + 1 /\ n - 1 = p + 2 /\ n >= 3 /\ n - 3 = p /\ n - 4 = p - 1
  BY <1>1, <1>4
<1> HIDE DEF n
<1>10. W \in Seq(Bytes) /\ W[n - 2] = Dot /\ W[n - 1] = CR /\ W[n] = LF
  BY <1>4, <1>9
<1>11. m # <<>> => n >= 5 /\ W[n - 3] = LF /\ W[n - 4] = CR
  BY <1>1, <1>4, <1>6, <1>9
<1>12. m = <<>> => n = 3
  BY <1>5, <1>9
<1>13. \A k \in 2..n-1 : W[k] = Dot /\ W[k - 1] = LF /\ W[k + 1] \in {CR, LF} => k = n - 2
  BY <1>7, <1>9
<1>14. m # <<>> => ~(W[1] = Dot /\ W[2] \in {CR, LF})
  BY <1>8
<1>15. W = (Body(m) \o <<Dot>>) \o CRLF
  BY <1>2 DEF b
<1> QED
  BY <1>9, <1>10, <1>11, <1>12, <1>13, <1>14, <1>15, Zenon DEF W, n

(* What getUnescapeBuffer() makes of a text without its end.               *)
Unstuff(t) == FlattenSeq([i \in DOMAIN t |-> IF Stuffed(t, i) THEN <<>> ELSE <<t[i]>>])

(* Are there bytes that end with LF?                                       *)
Open(t) == t # <<>> /\ t[Len(t)] = LF

LEMMA UnstuffEmpty == Unstuff(<<>>) = <<>>
<1>1. [i \in DOMAIN <<>> |-> IF Stuffed(<<>>, i) THEN <<>> ELSE <<<<>>[i]>>] = <<>>
  OBVIOUS
<1> QED
  BY <1>1, FlattenEmpty DEF Unstuff

LEMMA OneByte == ASSUME NEW c \in Bytes PROVE <<c>> \in Seq(Bytes) /\ Len(<<c>>) = 1 /\ <<c>>[1] = c
OBVIOUS

LEMMA UnstuffAppend ==
  ASSUME NEW t \in Seq(Bytes), NEW c \in Bytes
  PROVE  Unstuff(Append(t, c)) = Unstuff(t) \o (IF Open(t) /\ c = Dot THEN <<>> ELSE <<c>>)
<1> DEFINE n == Len(t)
           r == Append(t, c)
           ss == [i \in DOMAIN t |-> IF Stuffed(t, i) THEN <<>> ELSE <<t[i]>>]
           tt == [i \in DOMAIN r |-> IF Stuffed(r, i) THEN <<>> ELSE <<r[i]>>]
<1>1. n \in Nat /\ DOMAIN t = 1..n /\ \A k \in 1..n : t[k] \in Bytes
  BY LenProperties, ElementOfSeq
<1>2. /\ r \in Seq(Bytes) /\ Len(r) = n + 1 /\ r[n + 1] = c
      /\ \A k \in 1..n : r[k] = t[k]
  BY AppendProperties
<1>3. DOMAIN r = 1..n+1 /\ n + 1 \in Nat /\ \A k \in 1..n+1 : r[k] \in Bytes
  BY <1>1, <1>2, LenProperties, ElementOfSeq
<1>o. Open(t) <=> n # 0 /\ t[n] = LF
  BY EmptySeq DEF Open
<1> HIDE DEF n, r
<1>4. ss \in [1..n -> Seq(Bytes)] /\ tt \in [1..n+1 -> Seq(Bytes)]
  BY <1>1, <1>3, OneByte, Ends
<1>5. ss \in Seq(Seq(Bytes)) /\ Len(ss) = n /\ tt \in Seq(Seq(Bytes)) /\ Len(tt) = n + 1
  BY <1>1, <1>3, <1>4, IsSeq
<1>6. \A k \in 1..n : Stuffed(r, k) <=> Stuffed(t, k)
  BY <1>1, <1>2 DEF Stuffed
<1>7. \A k \in 1..n : tt[k] = ss[k]
  BY <1>1, <1>2, <1>3, <1>6
<1>8. Stuffed(r, n + 1) <=> Open(t) /\ c = Dot
  BY <1>1, <1>2, <1>o DEF Stuffed
<1>9. tt[n + 1] = IF Open(t) /\ c = Dot THEN <<>> ELSE <<c>>
  BY <1>1, <1>2, <1>3, <1>8
<1> HIDE DEF ss, tt
<1>10. FlattenSeq(tt) = FlattenSeq(ss) \o tt[n + 1]
  BY <1>5, <1>7, FlattenLast
<1> QED
  <2>1. Unstuff(t) = FlattenSeq(ss) /\ Unstuff(r) = FlattenSeq(tt)
    BY DEF Unstuff, ss, tt
  <2> QED
    BY <1>9, <1>10, <2>1 DEF r

LEMMA UnstuffType == ASSUME NEW t \in Seq(Bytes) PROVE Unstuff(t) \in Seq(Bytes)
<1> DEFINE T == {r \in Seq(Bytes) : Unstuff(r) \in Seq(Bytes)}
<1>1. <<>> \in T
  BY UnstuffEmpty, Ends
<1>2. ASSUME NEW r \in Seq(Bytes), NEW c \in Bytes, r \in T PROVE Append(r, c) \in T
  <2>1. /\ Append(r, c) \in Seq(Bytes)
        /\ (IF Open(r) /\ c = Dot THEN <<>> ELSE <<c>>) \in Seq(Bytes)
    BY AppendProperties, OneByte, Ends
  <2>2. Unstuff(Append(r, c)) \in Seq(Bytes)
    BY <1>2, <2>1, UnstuffAppend, ConcatProperties
  <2> QED
    BY <2>1, <2>2
<1> HIDE DEF T
<1>3. \A r \in Seq(Bytes) : r \in T
  BY <1>1, <1>2, SeqInd
<1> QED
  BY <1>3 DEF T

(* Bytes among which no dot follows a LF stay as they are, if none begins  *)
(* them after a LF.                                                        *)
Quiet(t, u) ==
  /\ Open(t) /\ u # <<>> => u[1] # Dot
  /\ \A k \in 2..Len(u) : ~(u[k] = Dot /\ u[k - 1] = LF)

LEMMA UnstuffQuiet ==
  ASSUME NEW t \in Seq(Bytes), NEW u \in Seq(Bytes), Quiet(t, u)
  PROVE  Unstuff(t \o u) = Unstuff(t) \o u
<1> DEFINE T == {v \in Seq(Bytes) : Quiet(t, v) => Unstuff(t \o v) = Unstuff(t) \o v}
<1>1. <<>> \in T
  BY UnstuffType, ConcatEmptySeq, Ends
<1>2. ASSUME NEW v \in Seq(Bytes), NEW c \in Bytes, v \in T PROVE Append(v, c) \in T
  <2> DEFINE w == Append(v, c)
             n == Len(v)
  <2>1. /\ w \in Seq(Bytes) /\ w # <<>> /\ Len(w) = n + 1 /\ n \in Nat /\ w[n + 1] = c
        /\ \A k \in 1..n : w[k] = v[k]
    BY AppendProperties, LenProperties
  <2>2. w = v \o <<c>> /\ <<c>> \in Seq(Bytes)
    BY AppendIsConcat, OneByte
  <2> HIDE DEF w
  <2> SUFFICES ASSUME Quiet(t, w) PROVE Unstuff(t \o w) = Unstuff(t) \o w
    BY <2>1 DEF w
  <2>3. v # <<>> => n # 0
    BY EmptySeq
  <2>4. Quiet(t, v)
    <3>1. Open(t) /\ v # <<>> => v[1] # Dot
      <4>1. v # <<>> => w[1] = v[1]
        BY <2>1, <2>3
      <4> QED
        BY <2>1, <4>1 DEF Quiet
    <3>2. \A k \in 2..n : ~(v[k] = Dot /\ v[k - 1] = LF)
      <4>1. \A k \in 2..n : k \in 2..Len(w) /\ w[k] = v[k] /\ w[k - 1] = v[k - 1]
        BY <2>1
      <4> QED
        BY <4>1 DEF Quiet
    <3> QED
      BY <3>1, <3>2 DEF Quiet
  <2>5. Unstuff(t \o v) = Unstuff(t) \o v
    BY <1>2, <2>4
  <2>6. t \o w = Append(t \o v, c) /\ t \o v \in Seq(Bytes)
    BY <2>2, ConcatAssociative, ConcatProperties, AppendIsConcat
  <2>7. ~(Open(t \o v) /\ c = Dot)
    <3>1. CASE v = <<>>
      <4>1. t \o v = t /\ n = 0
        BY <3>1, ConcatEmptySeq, Ends
      <4> QED
        BY <2>1, <4>1 DEF Quiet
    <3>2. CASE v # <<>>
      <4>1. Len(t \o v) = Len(t) + n /\ Len(t) \in Nat /\ n \in 1..n
        BY <2>1, <2>3, <3>2, ConcatProperties, LenProperties
      <4>2. (t \o v)[Len(t) + n] = v[n]
        <5>1. Len(t) + n \in 1..Len(t) + n /\ ~(Len(t) + n <= Len(t)) /\ (Len(t) + n) - Len(t) = n
          BY <4>1
        <5> QED
          BY <5>1, ConcatProperties
      <4>3. ~(v[n] = LF /\ c = Dot)
        BY <2>1, <4>1 DEF Quiet
      <4> QED
        BY <4>1, <4>2, <4>3 DEF Open
    <3> QED
      BY <3>1, <3>2
  <2>8. Unstuff(t \o w) = (Unstuff(t) \o v) \o <<c>>
    BY <2>5, <2>6, <2>7, UnstuffAppend
  <2>9. (Unstuff(t) \o v) \o <<c>> = Unstuff(t) \o (v \o <<c>>)
    BY <2>2, UnstuffType, ConcatAssociative
  <2> QED
    BY <2>2, <2>8, <2>9
<1> HIDE DEF T
<1>3. \A v \in Seq(Bytes) : v \in T
  BY <1>1, <1>2, SeqInd
<1> QED
  BY <1>3 DEF T

LEMMA Joins ==
  ASSUME NEW s \in Seq(Bytes), NEW t \in Seq(Bytes), NEW u \in Seq(Bytes)
  PROVE  /\ s \o t \in Seq(Bytes) /\ Len(s \o t) = Len(s) + Len(t)
         /\ (s \o t) \o u = s \o (t \o u)
BY ConcatAssociative, ConcatProperties

Plain(mail) == FlattenSeq([k \in DOMAIN mail |-> mail[k] \o CRLF])

LEMMA PlainEmpty == Plain(<<>>) = <<>> /\ Joined(<<>>) = <<>>
<1>1. [k \in DOMAIN <<>> |-> <<>>[k] \o CRLF] = <<>>
  OBVIOUS
<1>2. [i \in DOMAIN <<>> |-> IF i < Len(<<>>) THEN <<>>[i] \o CRLF ELSE <<>>[i]] = <<>>
  OBVIOUS
<1> QED
  BY <1>1, <1>2, FlattenEmpty DEF Plain, Joined

LEMMA PlainAppend ==
  ASSUME NEW m \in Seq(Line), NEW l \in Line
  PROVE  /\ Plain(Append(m, l)) = Plain(m) \o (l \o CRLF)
         /\ Joined(Append(m, l)) = Plain(m) \o l
         /\ Plain(m) \in Seq(Bytes)
<1> DEFINE n == Len(m)
           r == Append(m, l)
           ss == [k \in DOMAIN m |-> m[k] \o CRLF]
           tt == [k \in DOMAIN r |-> r[k] \o CRLF]
           uu == [i \in DOMAIN r |-> IF i < Len(r) THEN r[i] \o CRLF ELSE r[i]]
<1>1. n \in Nat /\ DOMAIN m = 1..n /\ \A k \in 1..n : m[k] \in Line
  BY LenProperties, ElementOfSeq
<1>2. /\ r \in Seq(Line) /\ Len(r) = n + 1 /\ r[n + 1] = l
      /\ \A k \in 1..n : r[k] = m[k]
  BY AppendProperties
<1>3. DOMAIN r = 1..n+1 /\ n + 1 \in Nat /\ \A k \in 1..n+1 : r[k] \in Line
  BY <1>1, <1>2, LenProperties, ElementOfSeq
<1> HIDE DEF n, r
<1>l. \A k \in Line : k \in Seq(Bytes) /\ k \o CRLF \in Seq(Bytes)
  BY LineIsText, AddEnd
<1>4. /\ ss \in [1..n -> Seq(Bytes)] /\ tt \in [1..n+1 -> Seq(Bytes)]
      /\ uu \in [1..n+1 -> Seq(Bytes)]
  BY <1>1, <1>3, <1>l
<1>5. /\ ss \in Seq(Seq(Bytes)) /\ Len(ss) = n
      /\ tt \in Seq(Seq(Bytes)) /\ Len(tt) = n + 1
      /\ uu \in Seq(Seq(Bytes)) /\ Len(uu) = n + 1
  BY <1>1, <1>3, <1>4, IsSeq
<1>6. /\ \A k \in 1..n : tt[k] = ss[k] /\ uu[k] = ss[k]
      /\ tt[n + 1] = l \o CRLF /\ uu[n + 1] = l
  <2>1. \A k \in 1..n : k \in 1..n+1 /\ k < n + 1
    BY <1>1
  <2>2. n + 1 \in 1..n+1 /\ ~(n + 1 < n + 1)
    BY <1>1
  <2>3. \A k \in 1..n : tt[k] = ss[k] /\ uu[k] = ss[k]
    BY <1>1, <1>2, <1>3, <2>1
  <2>4. tt[n + 1] = r[n + 1] \o CRLF
    BY <1>3, <2>2
  <2>5. uu[n + 1] = r[n + 1]
    BY <1>2, <1>3, <2>2
  <2> QED
    BY <1>2, <2>3, <2>4, <2>5
<1> HIDE DEF ss, tt, uu
<1>7. FlattenSeq(tt) = FlattenSeq(ss) \o tt[n + 1] /\ FlattenSeq(uu) = FlattenSeq(ss) \o uu[n + 1]
  BY <1>5, <1>6, FlattenLast
<1>8. FlattenSeq(ss) \in Seq(Bytes)
  BY <1>5, FlattenType
<1>9. Plain(m) = FlattenSeq(ss) /\ Plain(r) = FlattenSeq(tt) /\ Joined(r) = FlattenSeq(uu)
  BY DEF Plain, Joined, ss, tt, uu
<1> QED
  BY <1>6, <1>7, <1>8, <1>9 DEF r

-----------------------------------------------------------------------------
(* Unstuffing what was stuffed.                                            *)
Leads(l) == l # <<>> /\ l[1] = Dot

LEMMA UnstuffStuff ==
  ASSUME NEW t \in Seq(Bytes), NEW l \in Line, Open(t) \/ ~Leads(l)
  PROVE  Unstuff(t \o Stuff(l)) = Unstuff(t) \o l
<1>1. l \in Seq(Bytes) /\ Len(l) \in Nat /\ \A k \in 1..Len(l) : l[k] \notin {CR, LF}
  BY LineIsText
<1>2. \A k \in 2..Len(l) : k - 1 \in 1..Len(l) /\ l[k - 1] # LF
  BY <1>1
<1>3. CASE Leads(l)
  <2> DEFINE u == Append(t, Dot)
  <2>1. u \in Seq(Bytes) /\ Len(u) = Len(t) + 1 /\ u[Len(t) + 1] = Dot
    BY Chars, AppendProperties
  <2>2. Stuff(l) = <<Dot>> \o l /\ u = t \o <<Dot>>
    BY <1>3, Chars, AppendIsConcat DEF Stuff, Leads
  <2>3. t \o (<<Dot>> \o l) = (t \o <<Dot>>) \o l
    BY <1>1, Ends, ConcatAssociative
  <2>4. Unstuff(u) = Unstuff(t) \o <<>>
    BY <1>3, Chars, UnstuffAppend
  <2>5. Unstuff(t) \o <<>> = Unstuff(t)
    BY UnstuffType, ConcatEmptySeq
  <2> HIDE DEF u
  <2>6. Quiet(u, l)
    BY <1>2, <2>1, Chars DEF Quiet, Open
  <2>7. Unstuff(u \o l) = Unstuff(u) \o l
    BY <1>1, <2>1, <2>6, UnstuffQuiet
  <2> QED
    BY <2>2, <2>3, <2>4, <2>5, <2>7
<1>4. CASE ~Leads(l)
  <2>1. Stuff(l) = l
    <3>1. Stuff(l) = <<>> \o l
      BY <1>4 DEF Stuff, Leads
    <3> QED
      BY <1>1, <3>1, ConcatEmptySeq
  <2>2. Quiet(t, l)
    BY <1>2, <1>4 DEF Quiet, Leads
  <2> QED
    BY <1>1, <2>1, <2>2, UnstuffQuiet
<1> QED
  BY <1>3, <1>4

LEMMA UnstuffLine ==
  ASSUME NEW t \in Seq(Bytes), NEW l \in Line, Open(t) \/ ~Leads(l)
  PROVE  Unstuff(t \o StuffedLine(l)) = Unstuff(t) \o (l \o CRLF)
<1>1. l \in Seq(Bytes) /\ Stuff(l) \in Seq(Bytes) /\ StuffedLine(l) = Stuff(l) \o CRLF
  BY LineIsText, Stuffing
<1>2. t \o (Stuff(l) \o CRLF) = (t \o Stuff(l)) \o CRLF /\ t \o Stuff(l) \in Seq(Bytes)
  BY <1>1, Ends, Joins
<1>3. Quiet(t \o Stuff(l), CRLF)
  BY Ends, Chars DEF Quiet
<1>4. Unstuff((t \o Stuff(l)) \o CRLF) = Unstuff(t \o Stuff(l)) \o CRLF
  BY <1>2, <1>3, Ends, UnstuffQuiet
<1>5. Unstuff(t \o Stuff(l)) = Unstuff(t) \o l
  BY UnstuffStuff
<1>6. (Unstuff(t) \o l) \o CRLF = Unstuff(t) \o (l \o CRLF)
  <2>1. Unstuff(t) \in Seq(Bytes) /\ CRLF \in Seq(Bytes)
    BY Ends, UnstuffType
  <2> QED
    BY <1>1, <2>1, Joins
<1> QED
  BY <1>1, <1>2, <1>4, <1>5, <1>6

LEMMA BodyOpen == ASSUME NEW m \in Seq(Line), m # <<>> PROVE Open(Body(m))
BY BodyIsWhole DEF Whole, Open

LEMMA StartAppend ==
  ASSUME NEW m \in Seq(Line), NEW l \in Line, ~StartsWithDot(Append(m, l))
  PROVE  /\ ~StartsWithDot(m)
         /\ Open(Body(m)) \/ ~Leads(l)
<1>1. /\ Append(m, l) # <<>> /\ Append(m, l)[Len(m) + 1] = l
      /\ \A k \in 1..Len(m) : Append(m, l)[k] = m[k]
  BY AppendProperties
<1>2. CASE m = <<>>
  BY <1>1, <1>2, Ends DEF StartsWithDot, Leads
<1>3. CASE m # <<>>
  <2>1. Append(m, l)[1] = m[1]
    BY <1>1, <1>3, EmptySeq
  <2> QED
    BY <1>1, <1>3, <2>1, BodyOpen DEF StartsWithDot
<1> QED
  BY <1>2, <1>3

LEMMA UnstuffBody ==
  ASSUME NEW m \in Seq(Line), ~StartsWithDot(m)
  PROVE  Unstuff(Body(m)) = Plain(m)
<1> DEFINE T == {r \in Seq(Line) : StartsWithDot(r) \/ Unstuff(Body(r)) = Plain(r)}
<1>1. <<>> \in T
  BY BodyEmpty, UnstuffEmpty, PlainEmpty, EmptySeq
<1>2. ASSUME NEW r \in Seq(Line), NEW l \in Line, r \in T PROVE Append(r, l) \in T
  <2> SUFFICES ASSUME ~StartsWithDot(Append(r, l))
               PROVE  Unstuff(Body(Append(r, l))) = Plain(Append(r, l))
    BY AppendProperties
  <2>1. ~StartsWithDot(r) /\ (Open(Body(r)) \/ ~Leads(l))
    BY StartAppend
  <2>2. Body(r) \in Seq(Bytes)
    BY BodyIsWhole
  <2>3. Unstuff(Body(r) \o StuffedLine(l)) = Unstuff(Body(r)) \o (l \o CRLF)
    BY <2>1, <2>2, UnstuffLine
  <2> QED
    BY <1>2, <2>1, <2>3, BodyAppend, PlainAppend
<1> HIDE DEF T
<1>3. \A r \in Seq(Line) : r \in T
  BY <1>1, <1>2, SeqInd
<1> QED
  BY <1>3 DEF T

LEMMA SuffixIs ==
  ASSUME NEW a \in Seq(Bytes), NEW e \in Seq(Bytes)
  PROVE  IsSuffix(e, a \o e)
<1> DEFINE t == a \o e
           n == Len(e)
           m == Len(a)
<1>1. /\ m \in Nat /\ n \in Nat /\ Len(t) = m + n
      /\ \A k \in 1..m + n : t[k] = IF k <= m THEN a[k] ELSE e[k - m]
  BY ConcatProperties, LenProperties
<1> HIDE DEF t, n, m
<1> DEFINE re == Reverse(e)
           rt == Reverse(t)
<1>2. /\ re = [i \in 1..n |-> e[(n - i) + 1]]
      /\ rt = [i \in 1..m + n |-> t[((m + n) - i) + 1]]
  BY <1>1 DEF Reverse, n
<1> HIDE DEF re, rt
<1>3. \A k \in 1..n : (n - k) + 1 \in 1..n /\ ((m + n) - k) + 1 \in 1..m + n /\ k \in 1..m + n
  BY <1>1
<1>4. (\A k \in 1..m + n : t[k] \in Bytes) /\ \A k \in 1..n : e[k] \in Bytes
  <2>1. t \in Seq(Bytes)
    BY ConcatProperties DEF t
  <2> QED
    BY <1>1, <2>1, ElementOfSeq DEF n
<1>5. re \in [1..n -> Bytes] /\ rt \in [1..m + n -> Bytes]
  <2>1. \A k \in 1..m + n : ((m + n) - k) + 1 \in 1..m + n
    BY <1>1
  <2> QED
    BY <1>2, <1>3, <1>4, <2>1
<1>6. re \in Seq(Bytes) /\ Len(re) = n /\ rt \in Seq(Bytes) /\ Len(rt) = m + n
  <2>1. re \in Seq(Bytes) /\ Len(re) = n
    BY <1>1, <1>5, IsSeq, Zenon
  <2>2. m + n \in Nat
    BY <1>1
  <2>3. rt \in Seq(Bytes) /\ Len(rt) = m + n
    BY <1>5, <2>2, IsSeq, Zenon
  <2> QED
    BY <2>1, <2>3
<1>7. \A k \in 1..n : re[k] = rt[k]
  <2> SUFFICES ASSUME NEW k \in 1..n PROVE re[k] = rt[k]
    OBVIOUS
  <2>1. re[k] = e[(n - k) + 1] /\ rt[k] = t[((m + n) - k) + 1]
    BY <1>2, <1>3
  <2>2. ((m + n) - k) + 1 \in 1..m + n /\ ~(((m + n) - k) + 1 <= m)
        /\ (((m + n) - k) + 1) - m = (n - k) + 1
    BY <1>1
  <2> QED
    BY <1>1, <2>1, <2>2
<1>8. SubSeq(re, 1, n) = SubSeq(rt, 1, n)
  <2>1. /\ SubSeq(re, 1, n) \in Seq(Bytes) /\ Len(SubSeq(re, 1, n)) = n
        /\ \A k \in 1..n : SubSeq(re, 1, n)[k] = re[k]
    BY <1>1, <1>6, ElementOfSeq, SubSeqProperties
  <2>2. /\ SubSeq(rt, 1, n) \in Seq(Bytes) /\ Len(SubSeq(rt, 1, n)) = n
        /\ \A k \in 1..n : SubSeq(rt, 1, n)[k] = rt[k]
    BY <1>1, <1>6, ElementOfSeq, SubSeqProperties
  <2> QED
    BY <1>7, <2>1, <2>2, SeqEqual
<1> QED
  BY <1>1, <1>6, <1>8 DEF IsSuffix, IsPrefix, re, rt, t

(* retr() gives the mail that the server has, if it does not begin with a  *)
(* dot.                                                                    *)
LEMMA UnescapeIs ==
  ASSUME NEW m \in Seq(Line), ~StartsWithDot(m)
  PROVE  getUnescapeBuffer(Wire(m)) = Joined(m)
<1>1. CASE m = <<>>
  <2>1. Len(Wire(m)) = 3
    BY <1>1, WireEnds
  <2>2. getUnescapeBuffer(Wire(m)) = Unstuff(<<>>)
    BY <2>1 DEF getUnescapeBuffer, Unstuff
  <2> QED
    BY <1>1, <2>2, UnstuffEmpty, PlainEmpty
<1>2. CASE m # <<>>
  <2>1. PICK r \in Seq(Line), l \in Line : m = Append(r, l)
    BY <1>2, SequenceEmptyOrAppend
  <2> DEFINE a == Body(r) \o Stuff(l)
             e == (CRLF \o <<Dot>>) \o CRLF
             W == Wire(m)
  <2>2. Body(r) \in Seq(Bytes) /\ Stuff(l) \in Seq(Bytes) /\ StuffedLine(l) = Stuff(l) \o CRLF
    BY BodyIsWhole, Stuffing
  <2>3. a \in Seq(Bytes)
    BY <2>2, ConcatProperties
  <2>4. CRLF \o <<Dot>> \in Seq(Bytes) /\ e \in Seq(Bytes) /\ Len(e) = 5
    <3>1. CRLF \o <<Dot>> \in Seq(Bytes) /\ Len(CRLF \o <<Dot>>) = 3
      <4>1. /\ CRLF \o <<Dot>> \in Seq(Bytes)
            /\ Len(CRLF \o <<Dot>>) = Len(CRLF) + Len(<<Dot>>)
        BY Ends, Joins, Zenon
      <4> QED
        BY <4>1, Ends
    <3> QED
      BY <3>1, AddEnd
  <2>5. W = ((Body(r) \o (Stuff(l) \o CRLF)) \o <<Dot>>) \o CRLF
    BY <2>1, <2>2, WireEnds, BodyAppend
  <2>6. Body(r) \o (Stuff(l) \o CRLF) = a \o CRLF /\ a \o CRLF \in Seq(Bytes)
    <3>1. Body(r) \o (Stuff(l) \o CRLF) = (Body(r) \o Stuff(l)) \o CRLF
      <4>1. \A u \in Seq(Bytes) : (Body(r) \o Stuff(l)) \o u = Body(r) \o (Stuff(l) \o u)
        BY <2>2, Joins
      <4> QED
        BY <4>1, Ends, Zenon
    <3> QED
      BY <2>3, <3>1, AddEnd
  <2> HIDE DEF a, e, W
  <2>7. (a \o CRLF) \o <<Dot>> = a \o (CRLF \o <<Dot>>)
    BY <2>3, Ends, ConcatAssociative
  <2>8. (a \o (CRLF \o <<Dot>>)) \o CRLF = a \o e
    <3>1. \A s, u \in Seq(Bytes) : (a \o s) \o u = a \o (s \o u)
      BY <2>3, Joins
    <3> QED
      BY <2>4, <3>1, Ends, Zenon DEF e
  <2>9. W = a \o e
    BY <2>5, <2>6, <2>7, <2>8
  <2>10. Len(a) \in Nat /\ Len(W) = Len(a) + 5 /\ SubSeq(W, 1, Len(W) - 5) = a
    <3>1. /\ Len(a) \in Nat /\ Len(W) = Len(a) + 5 /\ W \in Seq(Bytes)
          /\ \A k \in 1..Len(a) : W[k] = a[k]
      <4>1. /\ W \in Seq(Bytes) /\ Len(W) = Len(a) + Len(e)
            /\ \A k \in 1..Len(a) + Len(e) : W[k] = IF k <= Len(a) THEN a[k] ELSE e[k - Len(a)]
        BY <2>3, <2>4, <2>9, ConcatProperties
      <4>2. Len(a) \in Nat
        BY <2>3, LenProperties
      <4> QED
        BY <2>4, <4>1, <4>2
    <3>2. /\ SubSeq(W, 1, Len(a)) \in Seq(Bytes) /\ Len(SubSeq(W, 1, Len(a))) = Len(a)
          /\ \A k \in 1..Len(a) : SubSeq(W, 1, Len(a))[k] = W[k]
      BY <3>1, ElementOfSeq, SubSeqProperties
    <3>3. SubSeq(W, 1, Len(a)) = a
      BY <2>3, <3>1, <3>2, SeqEqual
    <3> QED
      BY <3>1, <3>3
  <2>11. IsSuffix(e, W)
    BY <2>3, <2>4, <2>9, SuffixIs
  <2>12. WithoutEnd(W) = a
    BY <2>10, <2>11 DEF WithoutEnd, e
  <2>13. ~(Len(W) <= 3)
    BY <2>10
  <2>14. getUnescapeBuffer(W) = Unstuff(a)
    BY <2>12, <2>13 DEF getUnescapeBuffer, Unstuff
  <2>15. ~StartsWithDot(r) /\ (Open(Body(r)) \/ ~Leads(l))
    BY <2>1, StartAppend
  <2>16. Unstuff(a) = Plain(r) \o l
    BY <2>2, <2>15, UnstuffStuff, UnstuffBody DEF a
  <2> QED
    BY <2>1, <2>14, <2>16, PlainAppend DEF W
<1> QED
  BY <1>1, <1>2

(* The first place of a byte.                                              *)
LEMMA MinIs == ASSUME NEW T, T \subseteq Nat, T # {} PROVE Min(T) \in T /\ \A k \in T : Min(T) <= k
BY Smallest DEF Min

LEMMA EolIs ==
  ASSUME NEW b \in Seq(Bytes)
  PROVE  /\ Eol(b) \in 0..Len(b)
         /\ Eol(b) = 0 => \A k \in 1..Len(b) : b[k] # LF
         /\ Eol(b) # 0 => b[Eol(b)] = LF /\ \A k \in 1..Eol(b) - 1 : b[k] # LF
<1> DEFINE T == {k \in 1..Len(b) : b[k] = LF}
<1>1. Eol(b) = IF T # {} THEN Min(T) ELSE 0
  BY DEF Eol, SelectInSeq
<1>2. Len(b) \in Nat /\ T \subseteq 1..Len(b) /\ T \subseteq Nat
  BY LenProperties
<1>3. CASE T = {}
  BY <1>1, <1>2, <1>3
<1>4. CASE T # {}
  <2>1. Eol(b) \in T /\ \A k \in T : Eol(b) <= k
    BY <1>1, <1>2, <1>4, MinIs
  <2>2. Eol(b) \in 1..Len(b) /\ b[Eol(b)] = LF
    BY <2>1
  <2>3. \A k \in 1..Eol(b) - 1 : k \in 1..Len(b) /\ ~(Eol(b) <= k)
    BY <1>2, <2>2
  <2> QED
    BY <1>2, <2>1, <2>2, <2>3
<1> QED
  BY <1>3, <1>4

(* The bytes that the reader looks at, by their place in all it has read.  *)
At(t, k) == IF k >= 1 THEN t[k] ELSE NUL

LEMMA Last5Is ==
  ASSUME NEW g \in Seq(Bytes)
  PROVE  /\ Last5(g) \in Seq(Bytes \cup {NUL}) /\ Len(Last5(g)) = 8
         /\ \A j \in 1..8 : Last5(g)[j] = At(g, Len(g) + j - 8)
<1> DEFINE z == [i \in 1..8 |-> NUL]
           all == z \o g
           n == Len(g)
           B == Bytes \cup {NUL}
<1>1. z \in Seq(B) /\ Len(z) = 8 /\ g \in Seq(B) /\ n \in Nat
  <2>1. z \in [1..8 -> B]
    OBVIOUS
  <2> QED
    BY <2>1, IsSeq, SeqMonotonic, LenProperties
<1>2. \A k \in 1..8 : z[k] = NUL
  OBVIOUS
<1> HIDE DEF z, B
<1>3. /\ all \in Seq(B) /\ Len(all) = 8 + n
      /\ \A k \in 1..8 + n : all[k] = IF k <= 8 THEN NUL ELSE g[k - 8]
  <2>1. /\ all \in Seq(B) /\ Len(all) = Len(z) + n
        /\ \A k \in 1..Len(z) + n : all[k] = IF k <= Len(z) THEN z[k] ELSE g[k - Len(z)]
    BY <1>1, ConcatProperties
  <2> HIDE DEF all, n
  <2>2. \A k \in 1..8 + n : k <= 8 => k \in 1..8
    BY <1>1
  <2> QED
    BY <1>1, <1>2, <2>1, <2>2
<1>4. Last5(g) = SubSeq(all, Len(all) - 7, Len(all))
  BY DEF Last5, z
<1> HIDE DEF all, n
<1>5. \A k \in n + 1..n + 8 : all[k] \in B
  BY <1>1, <1>3, ElementOfSeq
<1>6. Len(all) - 7 = n + 1 /\ n + 1 \in Int /\ n + 8 \in Int /\ Len(all) = n + 8
  BY <1>1, <1>3
<1>7. /\ SubSeq(all, n + 1, n + 8) \in Seq(B)
      /\ Len(SubSeq(all, n + 1, n + 8)) = IF n + 1 <= n + 8 THEN (n + 8) - (n + 1) + 1 ELSE 0
      /\ \A k \in 1..(n + 8) - (n + 1) + 1 : SubSeq(all, n + 1, n + 8)[k] = all[(n + 1) + k - 1]
  BY <1>5, <1>6, SubSeqProperties
<1>8. n + 1 <= n + 8 /\ (n + 8) - (n + 1) + 1 = 8
  BY <1>1
<1>9. Last5(g) \in Seq(B) /\ Len(Last5(g)) = 8 /\ \A k \in 1..8 : Last5(g)[k] = all[(n + 1) + k - 1]
  BY <1>4, <1>6, <1>7, <1>8
<1>10. ASSUME NEW j \in 1..8 PROVE Last5(g)[j] = At(g, n + j - 8)
  <2>1. (n + 1) + j - 1 = n + j /\ n + j \in 1..8 + n /\ (n + j <= 8 <=> ~(n + j - 8 >= 1))
    BY <1>1
  <2> QED
    <3>1. Last5(g)[j] = IF n + j <= 8 THEN NUL ELSE g[n + j - 8]
      <4>1. Last5(g)[j] = all[(n + 1) + j - 1]
        BY <1>9, Zenon
      <4>2. Last5(g)[j] = all[n + j]
        BY <2>1, <4>1, Zenon
      <4>3. all[n + j] = IF n + j <= 8 THEN NUL ELSE g[(n + j) - 8]
        BY <1>3, <2>1
      <4>4. (n + j) - 8 = n + j - 8
        BY <1>1
      <4> QED
        BY <4>2, <4>3, <4>4, Zenon
    <3> QED
      BY <2>1, <3>1, Zenon DEF At
<1> QED
  BY <1>9, <1>10 DEF B, n

(* The buffer in which read() searches.                                    *)
LEMMA LookedAt ==
  ASSUME NEW g \in Seq(Bytes), NEW c \in Seq(Bytes)
  PROVE  \A j \in 1..8 + Len(c) :
           (Last5(g) \o c)[j] = At(g \o c, Len(g) + j - 8)
<1> DEFINE n == Len(g)
           B == Bytes \cup {NUL}
           x == g \o c
           s == Last5(g)
<1>1. /\ n \in Nat /\ Len(c) \in Nat /\ c \in Seq(B)
      /\ s \in Seq(B) /\ Len(s) = 8 /\ \A j \in 1..8 : s[j] = At(g, n + j - 8)
  BY Last5Is, SeqMonotonic, LenProperties
<1>2. \A k \in 1..n + Len(c) : x[k] = IF k <= n THEN g[k] ELSE c[k - n]
  BY ConcatProperties
<1> HIDE DEF n, B, x, s
<1>3. \A j \in 1..8 + Len(c) : (s \o c)[j] = IF j <= 8 THEN s[j] ELSE c[j - 8]
  <2>1. \A j \in 1..Len(s) + Len(c) : (s \o c)[j] = IF j <= Len(s) THEN s[j] ELSE c[j - Len(s)]
    BY <1>1, ConcatProperties
  <2> QED
    BY <1>1, <2>1
<1> SUFFICES ASSUME NEW j \in 1..8 + Len(c) PROVE (s \o c)[j] = At(x, n + j - 8)
  BY DEF s, x, n
<1>4. CASE j <= 8
  <2>1. n + j - 8 >= 1 => n + j - 8 \in 1..n + Len(c) /\ n + j - 8 <= n
    BY <1>1, <1>4
  <2>2. (s \o c)[j] = At(g, n + j - 8)
    <3>1. j \in 1..8
      BY <1>4
    <3> QED
      BY <1>1, <1>3, <1>4, <3>1
  <2> QED
    BY <1>2, <2>1, <2>2 DEF At
<1>5. CASE ~(j <= 8)
  <2>1. n + j - 8 >= 1 /\ n + j - 8 \in 1..n + Len(c) /\ ~(n + j - 8 <= n) /\ (n + j - 8) - n = j - 8
    BY <1>1, <1>5
  <2> QED
    BY <1>2, <1>3, <1>5, <2>1 DEF At
<1> QED
  BY <1>4, <1>5

(* A dot that is the whole line, with the byte after it read.              *)
EndsAt(x, k) == x[k] = Dot /\ x[k - 1] = LF /\ x[k + 1] \in {CR, LF}

LEMMA EndPlaces ==
  ASSUME NEW g \in Seq(Bytes), NEW c \in Seq(Bytes), NEW j \in 8..(7 + Len(c))
  PROVE  LET buff == Last5(g) \o c
             k == Len(g) + j - 8
         IN  /\ EndsAt(buff, j) <=> k \in 2..Len(g \o c) - 1 /\ EndsAt(g \o c, k)
             /\ k >= 1 => buff[j + 1] = (g \o c)[k + 1]
<1> DEFINE n == Len(g)
           x == g \o c
           buff == Last5(g) \o c
           k == n + j - 8
<1>1. n \in Nat /\ Len(c) \in Nat /\ Len(x) = n + Len(c)
  BY LenProperties, ConcatProperties
<1>2. \A h \in 1..8 + Len(c) : buff[h] = At(x, n + h - 8)
  BY LookedAt
<1> HIDE DEF n, x, buff, k
<1>3. /\ k \in Int /\ k >= 0 /\ k = n + j - 8 /\ k - 1 = n + (j - 1) - 8 /\ k + 1 = n + (j + 1) - 8
      /\ j \in 1..8 + Len(c) /\ j - 1 \in 1..8 + Len(c) /\ j + 1 \in 1..8 + Len(c)
      /\ k <= Len(x) - 1 /\ k + 1 >= 1
  BY <1>1 DEF k
<1>4. buff[j] = At(x, k) /\ buff[j - 1] = At(x, k - 1) /\ buff[j + 1] = At(x, k + 1)
  BY <1>2, <1>3
<1>5. buff[j + 1] = x[k + 1]
  BY <1>3, <1>4 DEF At
<1>6. NUL # LF /\ NUL # Dot
  BY DEF NUL, LF, Dot
<1>7. CASE k >= 2
  <2>1. k \in 2..Len(x) - 1 /\ k - 1 >= 1 /\ k >= 1
    BY <1>1, <1>3, <1>7
  <2>2. buff[j] = x[k] /\ buff[j - 1] = x[k - 1]
    BY <1>4, <2>1 DEF At
  <2> QED
    BY <1>5, <2>1, <2>2 DEF EndsAt, n, x, buff, k
<1>8. CASE ~(k >= 2)
  <2>1. k \notin 2..Len(x) - 1 /\ ~(k - 1 >= 1)
    BY <1>3, <1>8
  <2>2. buff[j - 1] = NUL
    BY <1>4, <2>1 DEF At
  <2> QED
    BY <1>5, <1>6, <2>1, <2>2 DEF EndsAt, n, x, buff, k
<1> QED
  BY <1>7, <1>8

(* Without the end of the data the search finds nothing.                   *)
LEMMA NoEnd ==
  ASSUME NEW g \in Seq(Bytes), NEW c \in Seq(Bytes),
         \A k \in 2..Len(g \o c) - 1 : ~EndsAt(g \o c, k)
  PROVE  EndOfData(g, c) = 0
<1> DEFINE buff == Last5(g) \o c
           ends == {i \in 8..(7 + Len(c)) :
                      buff[i] = Dot /\ buff[i - 1] = LF /\ buff[i + 1] \in {CR, LF}}
<1>1. \A i \in 8..(7 + Len(c)) : ~EndsAt(buff, i)
  BY EndPlaces
<1>2. ends = {}
  BY <1>1 DEF EndsAt
<1> QED
  BY <1>2, Zenon DEF EndOfData

(* With one end, at the place of the dot, it finds it.                     *)
LEMMA OneEnd ==
  ASSUME NEW g \in Seq(Bytes), NEW c \in Seq(Bytes),
         NEW q \in 2..Len(g \o c) - 1, q >= Len(g), EndsAt(g \o c, q), (g \o c)[q + 1] = CR,
         \A k \in 2..Len(g \o c) - 1 : EndsAt(g \o c, k) => k = q
  PROVE  EndOfData(g, c) = (q - Len(g)) + 2
<1> DEFINE n == Len(g)
           x == g \o c
           buff == Last5(g) \o c
           ends == {i \in 8..(7 + Len(c)) :
                      buff[i] = Dot /\ buff[i - 1] = LF /\ buff[i + 1] \in {CR, LF}}
           e == (q - n) + 8
           dot == CHOOSE i \in ends : \A j \in ends : i <= j
<1>1. n \in Nat /\ Len(c) \in Nat /\ Len(x) = n + Len(c)
  BY LenProperties, ConcatProperties
<1>2. \A j \in 8..(7 + Len(c)) : EndsAt(buff, j) <=> j \in ends
  BY DEF EndsAt
<1>3. \A j \in 8..(7 + Len(c)) :
        /\ EndsAt(buff, j) <=> n + j - 8 \in 2..Len(x) - 1 /\ EndsAt(x, n + j - 8)
        /\ n + j - 8 >= 1 => buff[j + 1] = x[(n + j - 8) + 1]
  BY EndPlaces
<1>s. ends \subseteq 8..(7 + Len(c))
  OBVIOUS
<1>n. ends # {} => EndOfData(g, c) = IF buff[dot + 1] = CR THEN dot - 6 ELSE dot - 7
  BY Zenon DEF EndOfData
<1> HIDE DEF n, x, buff, ends
<1>4. e \in 8..(7 + Len(c)) /\ n + e - 8 = q /\ e \in Int
  BY <1>1 DEF n, x
<1>5. e \in ends /\ buff[e + 1] = CR
  <2>1. q >= 1 /\ q \in 2..Len(x) - 1 /\ EndsAt(x, q) /\ x[q + 1] = CR
    BY DEF x
  <2> QED
    BY <1>2, <1>3, <1>4, <2>1
<1>6. \A j \in ends : j = e
  <2> SUFFICES ASSUME NEW j \in ends PROVE j = e
    OBVIOUS
  <2>1. j \in 8..(7 + Len(c))
    BY <1>s
  <2>2. n + j - 8 \in 2..Len(x) - 1 /\ EndsAt(x, n + j - 8)
    BY <1>2, <1>3, <2>1
  <2>3. n + j - 8 = q
    BY <2>2 DEF x
  <2> QED
    BY <1>1, <2>1, <2>3
<1>7. dot \in ends
  <2>1. \E i \in ends : \A j \in ends : i <= j
    <3>1. e <= e
      BY <1>4
    <3> QED
      BY <1>5, <1>6, <3>1
  <2> QED
    BY <2>1
<1>8. dot = e
  BY <1>6, <1>7
<1> HIDE DEF dot
<1>9. EndOfData(g, c) = e - 6
  BY <1>5, <1>8, <1>n
<1> QED
  BY <1>1, <1>9 DEF n

(* The test for empty content.                                             *)
LEMMA EmptyStart ==
  ASSUME NEW x \in Seq(Bytes), EmptyContent(x)
  PROVE  Len(x) >= 2 /\ x[1] = Dot /\ x[2] \in {CR, LF}
<1> DEFINE last == Last5(x)
           T == {k \in 1..7 : last[k] = Dot}
           dot == IF T # {} THEN Min(T) ELSE 0
           n == Len(x)
<1>1. n \in Nat /\ \A j \in 1..8 : last[j] = At(x, n + j - 8)
  BY Last5Is, LenProperties
<1>2. dot > 1 /\ last[dot - 1] = NUL /\ last[dot + 1] \in {CR, LF}
  BY DEF EmptyContent, SelectInSubSeq
<1>3. T \subseteq 1..7 /\ T \subseteq Nat
  OBVIOUS
<1>4. dot \in T
  <2>1. T # {}
    BY <1>2
  <2> QED
    BY <1>3, <2>1, MinIs
<1>5. dot \in 1..7 /\ last[dot] = Dot
  BY <1>4
<1> HIDE DEF last, T, dot, n
<1>6. dot \in 2..7 /\ dot - 1 \in 1..8 /\ dot + 1 \in 1..8 /\ dot \in 1..8
  BY <1>2, <1>5
<1> DEFINE p == n + dot - 8
<1>7. p \in Int /\ n + (dot - 1) - 8 = p - 1 /\ n + (dot + 1) - 8 = p + 1 /\ p + 1 <= n
  BY <1>1, <1>6
<1>8. At(x, p) = Dot /\ At(x, p - 1) = NUL /\ At(x, p + 1) \in {CR, LF}
  BY <1>1, <1>2, <1>5, <1>6, <1>7
<1> HIDE DEF p
<1>9. p >= 1
  BY <1>8, Chars DEF At
<1>10. ~(p - 1 >= 1)
  <2> SUFFICES ASSUME p - 1 >= 1 PROVE FALSE
    OBVIOUS
  <2>1. x[p - 1] = NUL
    BY <1>8 DEF At
  <2>2. x[p - 1] \in Bytes
    BY <1>1, <1>7, ElementOfSeq DEF n
  <2> QED
    BY <2>1, <2>2, Chars
<1>11. p = 1
  BY <1>7, <1>9, <1>10
<1> QED
  BY <1>1, <1>7, <1>8, <1>11 DEF At, n

LEMMA EmptyWhole ==
  ASSUME NEW x \in Seq(Bytes), Len(x) = 3, x[1] = Dot, x[2] = CR, x[3] = LF
  PROVE  EmptyContent(x)
<1> DEFINE last == Last5(x)
           T == {k \in 1..7 : last[k] = Dot}
           dot == IF T # {} THEN Min(T) ELSE 0
<1>1. \A j \in 1..8 : last[j] = At(x, 3 + j - 8)
  BY Last5Is
<1>2. EmptyContent(x) <=> dot > 1 /\ last[dot - 1] = NUL /\ last[dot + 1] \in {CR, LF}
  BY DEF EmptyContent, SelectInSubSeq
<1>3. last[6] = Dot /\ last[7] = CR /\ \A j \in 1..5 : last[j] = NUL
  BY <1>1 DEF At
<1>4. T = {6}
  <2>1. \A k \in 1..7 : k \in 1..5 \/ k = 6 \/ k = 7
    OBVIOUS
  <2> HIDE DEF last
  <2>2. \A k \in 1..7 : last[k] = Dot <=> k = 6
    BY <1>3, <2>1, Chars
  <2> QED
    BY <2>2
<1>5. dot = 6
  <2>1. T \subseteq Nat /\ T # {}
    BY <1>4
  <2>2. Min(T) \in T
    BY <2>1, MinIs
  <2> QED
    BY <1>4, <2>1, <2>2
<1> HIDE DEF last, T, dot
<1> QED
  BY <1>2, <1>3, <1>5

LEMMA CatIs ==
  ASSUME NEW a \in Seq(Bytes), NEW b \in Seq(Bytes)
  PROVE  /\ a \o b \in Seq(Bytes) /\ Len(a \o b) = Len(a) + Len(b)
         /\ Len(a) \in Nat /\ Len(b) \in Nat
         /\ \A k \in 1..Len(a) : (a \o b)[k] = a[k]
         /\ \A k \in 1..Len(b) : (a \o b)[Len(a) + k] = b[k]
<1>1. /\ a \o b \in Seq(Bytes) /\ Len(a \o b) = Len(a) + Len(b)
      /\ Len(a) \in Nat /\ Len(b) \in Nat
      /\ \A k \in 1..Len(a) + Len(b) :
           (a \o b)[k] = IF k <= Len(a) THEN a[k] ELSE b[k - Len(a)]
  BY ConcatProperties, LenProperties
<1> DEFINE t == a \o b
           m == Len(a)
           n == Len(b)
<1> HIDE DEF t, m, n
<1>2. m \in Nat /\ n \in Nat /\ \A k \in 1..m + n : t[k] = IF k <= m THEN a[k] ELSE b[k - m]
  BY <1>1 DEF t, m, n
<1>3. \A k \in 1..n : m + k \in 1..m + n /\ ~(m + k <= m) /\ (m + k) - m = k
  BY <1>2
<1>4. \A k \in 1..n : t[m + k] = b[k]
  BY <1>2, <1>3
<1>5. \A k \in 1..m : t[k] = a[k]
  BY <1>2
<1> QED
  BY <1>1, <1>4, <1>5 DEF t, m, n

(* A sequence from one place on.                                           *)
LEMMA FromIs ==
  ASSUME NEW w \in Seq(Bytes), NEW n \in Nat
  PROVE  /\ SubSeq(w, n + 1, Len(w)) \in Seq(Bytes)
         /\ Len(SubSeq(w, n + 1, Len(w))) = IF n <= Len(w) THEN Len(w) - n ELSE 0
         /\ \A k \in 1..Len(w) - n : SubSeq(w, n + 1, Len(w))[k] = w[n + k]
<1>1. Len(w) \in Nat /\ n + 1 \in Int /\ \A k \in n + 1..Len(w) : w[k] \in Bytes
  BY LenProperties, ElementOfSeq
<1> DEFINE m == Len(w)
<1> HIDE DEF m
<1>2. /\ SubSeq(w, n + 1, m) \in Seq(Bytes)
      /\ Len(SubSeq(w, n + 1, m)) = IF n + 1 <= m THEN m - (n + 1) + 1 ELSE 0
      /\ \A k \in 1..m - (n + 1) + 1 : SubSeq(w, n + 1, m)[k] = w[(n + 1) + k - 1]
  BY <1>1, SubSeqProperties DEF m
<1>3. m - (n + 1) + 1 = m - n /\ (n + 1 <= m \/ n = m \/ ~(n <= m)) /\ m \in Nat /\ m - m = 0
  BY <1>1 DEF m
<1>4. \A k \in 1..m - n : (n + 1) + k - 1 = n + k
  BY <1>3
<1>5. Len(SubSeq(w, n + 1, m)) = IF n <= m THEN m - n ELSE 0
  BY <1>2, <1>3
<1>6. \A k \in 1..m - n : SubSeq(w, n + 1, m)[k] = w[n + k]
  BY <1>2, <1>3, <1>4
<1> QED
  BY <1>2, <1>5, <1>6 DEF m

LEMMA UpToIs ==
  ASSUME NEW w \in Seq(Bytes), NEW n \in 0..Len(w)
  PROVE  /\ SubSeq(w, 1, n) \in Seq(Bytes) /\ Len(SubSeq(w, 1, n)) = n
         /\ \A k \in 1..n : SubSeq(w, 1, n)[k] = w[k]
<1>1. Len(w) \in Nat /\ n \in Int /\ \A k \in 1..n : w[k] \in Bytes
  BY LenProperties, ElementOfSeq
<1>2. /\ SubSeq(w, 1, n) \in Seq(Bytes)
      /\ Len(SubSeq(w, 1, n)) = IF 1 <= n THEN n - 1 + 1 ELSE 0
      /\ \A k \in 1..n - 1 + 1 : SubSeq(w, 1, n)[k] = w[1 + k - 1]
  BY <1>1, SubSeqProperties
<1>3. n - 1 + 1 = n /\ (~(1 <= n) => n = 0) /\ \A k \in 1..n : 1 + k - 1 = k
  BY <1>1
<1> QED
  BY <1>2, <1>3

LEMMA Cut ==
  ASSUME NEW w \in Seq(Bytes), NEW n \in 0..Len(w)
  PROVE  w = SubSeq(w, 1, n) \o SubSeq(w, n + 1, Len(w))
<1> DEFINE a == SubSeq(w, 1, n)
           b == SubSeq(w, n + 1, Len(w))
           m == Len(w)
<1>1. /\ n \in Nat /\ m \in Nat /\ n <= m
      /\ a \in Seq(Bytes) /\ Len(a) = n /\ \A k \in 1..n : a[k] = w[k]
  BY UpToIs, LenProperties
<1>2. b \in Seq(Bytes) /\ Len(b) = m - n /\ \A k \in 1..m - n : b[k] = w[n + k]
  BY <1>1, FromIs
<1> HIDE DEF a, b, m
<1>3. /\ a \o b \in Seq(Bytes) /\ Len(a \o b) = Len(a) + Len(b)
      /\ \A k \in 1..Len(a) : (a \o b)[k] = a[k]
      /\ \A k \in 1..Len(b) : (a \o b)[Len(a) + k] = b[k]
  BY <1>1, <1>2, CatIs
<1>4. Len(a \o b) = m
  BY <1>1, <1>2, <1>3
<1>5. ASSUME NEW k \in 1..m PROVE (a \o b)[k] = w[k]
  <2>1. CASE k <= n
    BY <1>1, <1>3, <2>1
  <2>2. CASE ~(k <= n)
    <3>1. k - n \in 1..m - n /\ n + (k - n) = k
      BY <1>1, <2>2
    <3> QED
      BY <1>1, <1>2, <1>3, <3>1
  <2> QED
    BY <2>1, <2>2
<1>6. a \o b = w
  BY <1>3, <1>4, <1>5, SeqEqual DEF m
<1> QED
  BY <1>6 DEF a, b

(* x is how w begins.                                                      *)
Starts(x, w) == Len(x) <= Len(w) /\ \A k \in 1..Len(x) : x[k] = w[k]

LEMMA StartsCut ==
  ASSUME NEW a \in Seq(Bytes), NEW b \in Seq(Bytes), NEW w \in Seq(Bytes), Starts(a \o b, w)
  PROVE  Starts(a, w) /\ (Len(a) = Len(w) => a = w /\ b = <<>>)
<1>1. /\ Len(a \o b) = Len(a) + Len(b) /\ Len(a) \in Nat /\ Len(b) \in Nat
      /\ \A k \in 1..Len(a) : (a \o b)[k] = a[k]
  BY CatIs
<1>2. Len(a) + Len(b) <= Len(w) /\ \A k \in 1..Len(a) + Len(b) : (a \o b)[k] = w[k]
  BY <1>1 DEF Starts
<1>3. Len(w) \in Nat
  BY LenProperties
<1> DEFINE m == Len(a)
           n == Len(b)
<1> HIDE DEF m, n
<1>4. m <= Len(w) /\ \A k \in 1..m : k \in 1..m + n
  BY <1>1, <1>2, <1>3 DEF m, n
<1>5. \A k \in 1..m : a[k] = w[k]
  BY <1>1, <1>2, <1>4 DEF m, n
<1>6. ASSUME m = Len(w) PROVE a = w /\ b = <<>>
  <2>1. n = 0
    BY <1>1, <1>2, <1>6 DEF m, n
  <2>2. b = <<>>
    BY <2>1, EmptySeq DEF n
  <2>3. a = w
    BY <1>5, <1>6, SeqEqual DEF m
  <2> QED
    BY <2>2, <2>3
<1> QED
  BY <1>4, <1>5, <1>6 DEF Starts, m

-----------------------------------------------------------------------------
(* What the reader makes of the data, all of it and a part of it.          *)
LEMMA ReadsWhole ==
  ASSUME NEW m \in Seq(Line), NEW g \in Seq(Bytes), NEW c \in Seq(Bytes),
         g \o c = Wire(m), Len(g) + 2 <= Len(Wire(m))
  PROVE  IF m = <<>> THEN EndOfData(g, c) = 0 /\ EmptyContent(Wire(m))
                     ELSE EndOfData(g, c) = Len(c)
<1> DEFINE W == Wire(m)
           n == Len(W)
<1>1. /\ W \in Seq(Bytes) /\ n >= 3
      /\ W[n - 2] = Dot /\ W[n - 1] = CR /\ W[n] = LF
      /\ m = <<>> => n = 3
      /\ m # <<>> => n >= 5 /\ W[n - 3] = LF /\ W[n - 4] = CR
      /\ \A k \in 2..n-1 : W[k] = Dot /\ W[k - 1] = LF /\ W[k + 1] \in {CR, LF} => k = n - 2
  BY WireEnds
<1>2. n = Len(g) + Len(c) /\ Len(g) \in Nat /\ Len(c) \in Nat /\ n \in Nat /\ g \o c = W
  BY CatIs
<1>3. Len(g) + 2 <= n
  OBVIOUS
<1> HIDE DEF W, n
<1>4. CASE m = <<>>
  <2>1. n = 3 /\ W[1] = Dot /\ W[2] = CR /\ W[3] = LF
    BY <1>1, <1>4
  <2>2. \A k \in 2..n - 1 : ~EndsAt(W, k)
    BY <2>1, Chars DEF EndsAt
  <2>3. EndOfData(g, c) = 0
    BY <1>2, <2>2, NoEnd DEF n
  <2>4. EmptyContent(W)
    BY <1>1, <2>1, EmptyWhole DEF n
  <2> QED
    BY <1>4, <2>3, <2>4 DEF W
<1>5. CASE m # <<>>
  <2> DEFINE q == n - 2
  <2>1. q \in 2..n - 1 /\ q >= Len(g) /\ q - 1 = n - 3 /\ q + 1 = n - 1
    BY <1>1, <1>2, <1>3, <1>5
  <2>2. EndsAt(W, q) /\ W[q + 1] = CR
    BY <1>1, <1>5, <2>1 DEF EndsAt
  <2>3. \A k \in 2..n - 1 : EndsAt(W, k) => k = q
    BY <1>1 DEF EndsAt
  <2> HIDE DEF q
  <2>4. EndOfData(g, c) = (q - Len(g)) + 2
    BY <1>2, <2>1, <2>2, <2>3, OneEnd DEF n
  <2>5. (q - Len(g)) + 2 = Len(c)
    BY <1>2, <2>1 DEF q
  <2> QED
    BY <1>5, <2>4, <2>5
<1> QED
  BY <1>4, <1>5

LEMMA ReadsPart ==
  ASSUME NEW m \in Seq(Line), NEW g \in Seq(Bytes), NEW c \in Seq(Bytes),
         Starts(g \o c, Wire(m)), Len(g \o c) + 1 < Len(Wire(m))
  PROVE  EndOfData(g, c) = 0 /\ ~EmptyContent(g \o c)
<1> DEFINE W == Wire(m)
           n == Len(W)
           x == g \o c
           p == Len(x)
<1>1. /\ W \in Seq(Bytes) /\ n >= 3
      /\ m = <<>> => n = 3
      /\ \A k \in 2..n-1 : W[k] = Dot /\ W[k - 1] = LF /\ W[k + 1] \in {CR, LF} => k = n - 2
      /\ m # <<>> => ~(W[1] = Dot /\ W[2] \in {CR, LF})
  BY WireEnds
<1>2. x \in Seq(Bytes) /\ p \in Nat /\ n \in Nat
  BY <1>1, CatIs, LenProperties
<1>3. p + 1 < n /\ \A k \in 1..p : x[k] = W[k]
  BY DEF Starts
<1> HIDE DEF W, n, x, p
<1>4. \A k \in 2..p - 1 : ~EndsAt(x, k)
  <2> SUFFICES ASSUME NEW k \in 2..p - 1, EndsAt(x, k) PROVE FALSE
    OBVIOUS
  <2>1. k \in 1..p /\ k - 1 \in 1..p /\ k + 1 \in 1..p /\ k \in 2..n - 1 /\ k # n - 2
    BY <1>2, <1>3
  <2>2. W[k] = Dot /\ W[k - 1] = LF /\ W[k + 1] \in {CR, LF}
    BY <1>3, <2>1 DEF EndsAt
  <2> QED
    BY <1>1, <2>1, <2>2
<1>5. EndOfData(g, c) = 0
  BY <1>4, NoEnd DEF x, p
<1>6. ~EmptyContent(x)
  <2> SUFFICES ASSUME EmptyContent(x) PROVE FALSE
    OBVIOUS
  <2>1. p >= 2 /\ x[1] = Dot /\ x[2] \in {CR, LF}
    BY <1>2, EmptyStart DEF p
  <2>2. 1 \in 1..p /\ 2 \in 1..p /\ n # 3
    BY <1>2, <1>3, <2>1
  <2>3. W[1] = Dot /\ W[2] \in {CR, LF}
    BY <1>3, <2>1, <2>2
  <2> QED
    BY <1>1, <2>2, <2>3
<1> QED
  BY <1>5, <1>6 DEF x

(* The types of what the client computes, for every text.                  *)
LEMMA EndType ==
  ASSUME NEW g \in Seq(Bytes), NEW c \in Seq(Bytes)
  PROVE  EndOfData(g, c) \in Nat
<1> DEFINE buff == Last5(g) \o c
           ends == {i \in 8..(7 + Len(c)) :
                      buff[i] = Dot /\ buff[i - 1] = LF /\ buff[i + 1] \in {CR, LF}}
           dot == CHOOSE i \in ends : \A j \in ends : i <= j
<1>1. Len(c) \in Nat
  BY LenProperties
<1>2. ends \subseteq 8..(7 + Len(c)) /\ ends \subseteq Nat
  BY <1>1
<1>3. EndOfData(g, c) = IF ends = {} THEN 0 ELSE IF buff[dot + 1] = CR THEN dot - 6 ELSE dot - 7
  BY Zenon DEF EndOfData
<1> HIDE DEF ends, buff
<1>4. ends # {} => dot \in ends
  BY <1>2, Smallest
<1>5. ends # {} => dot \in 8..(7 + Len(c))
  BY <1>2, <1>4
<1> HIDE DEF dot
<1>6. ends # {} => dot - 6 \in Nat /\ dot - 7 \in Nat
  BY <1>1, <1>5
<1> QED
  BY <1>3, <1>6

LEMMA UnescapeType ==
  ASSUME NEW g \in Seq(Bytes)
  PROVE  getUnescapeBuffer(g) \in Seq(Bytes)
<1> DEFINE text == IF Len(g) <= 3 THEN <<>> ELSE WithoutEnd(g)
<1>1. \A n \in Int : n <= Len(g) => SubSeq(g, 1, n) \in Seq(Bytes)
  <2> SUFFICES ASSUME NEW n \in Int, n <= Len(g) PROVE SubSeq(g, 1, n) \in Seq(Bytes)
    OBVIOUS
  <2>1. \A k \in 1..n : k \in 1..Len(g)
    BY LenProperties
  <2>2. \A k \in 1..n : g[k] \in Bytes
    BY <2>1, ElementOfSeq
  <2> QED
    BY <2>2, SubSeqProperties
<1>2. Len(g) \in Nat
  BY LenProperties
<1>3. /\ Len(g) - 5 \in Int /\ Len(g) - 5 <= Len(g)
      /\ Len(g) - 3 \in Int /\ Len(g) - 3 <= Len(g)
  BY <1>2
<1>4. WithoutEnd(g) \in Seq(Bytes)
  BY <1>1, <1>3 DEF WithoutEnd
<1>5. text \in Seq(Bytes)
  BY <1>4, Ends
<1> HIDE DEF text
<1>6. Unstuff(text) \in Seq(Bytes)
  BY <1>5, UnstuffType
<1> QED
  BY <1>6, Zenon DEF getUnescapeBuffer, Unstuff, text

LEMMA WireType ==
  ASSUME Pop3Assumption, NEW mail \in Mails
  PROVE  mail \in Seq(Line) /\ mail # Nil /\ Wire(mail) \in Seq(Bytes)
<1>1. mail \in Seq(Line) /\ mail # Nil
  BY DEF Pop3Assumption, Line
<1> QED
  BY <1>1, WireEnds

(* The line that readline() returns, by its first byte.                    *)
LEMMA LineType ==
  ASSUME NEW b \in Seq(Bytes), NEW n \in Int, n <= Len(b)
  PROVE  FirstByte(SubSeq(b, 1, n)) \in {""} \cup Bytes
<1> DEFINE l == SubSeq(b, 1, n)
<1>1. \A k \in 1..n : k \in 1..Len(b)
  BY LenProperties
<1>2. \A k \in 1..n : b[k] \in Bytes
  BY <1>1, ElementOfSeq
<1>3. l \in Seq(Bytes)
  BY <1>2, SubSeqProperties
<1> HIDE DEF l
<1>4. l # <<>> => l[1] \in Bytes
  <2> SUFFICES ASSUME l # <<>> PROVE l[1] \in Bytes
    OBVIOUS
  <2>1. 1 \in 1..Len(l)
    BY <1>3, EmptySeq
  <2> QED
    BY <1>3, <2>1, ElementOfSeq
<1> QED
  BY <1>4 DEF FirstByte, l

LEMMA Pop3TypeInit == Pop3Init => Pop3TypeOK
<1> SUFFICES ASSUME Pop3Init PROVE Pop3TypeOK
  OBVIOUS
<1>1. sent \in [ok : {"", "+", "-"}, mail : {Nil} \cup Mails]
  BY DEF Pop3Init, Unanswered
<1>2. wire \in Seq(Bytes) /\ mBuffer \in Seq(Bytes) /\ got \in Seq(Bytes)
  BY Ends DEF Pop3Init
<1> QED
  BY <1>1, <1>2 DEF Pop3Init, Pop3TypeOK

LEMMA ServerTypes ==
  ASSUME Pop3Assumption, Pop3TypeOK, Answer \/ Close
  PROVE  Pop3TypeOK'
<1>1. CASE Answer
  <2>1. /\ UNCHANGED <<cmd, stage, closed, mBuffer, mReply, got, out, torn>>
        /\ owed' = FALSE
    BY <1>1 DEF Answer
  <2>2. wire' \in Seq(Bytes) /\ sent' \in [ok : {"", "+", "-"}, mail : {Nil} \cup Mails]
    <3>1. ASSUME NEW ok \in {"+", "-"}
          PROVE  <<ok>> \in Seq(Bytes) /\ wire \o <<ok>> \in Seq(Bytes)
                 /\ (wire \o <<ok>>) \o CRLF \in Seq(Bytes)
      <4>1. ok \in Bytes
        BY Chars
      <4>2. <<ok>> \in Seq(Bytes) /\ wire \o <<ok>> \in Seq(Bytes)
        BY <4>1, OneByte, CatIs DEF Pop3TypeOK
      <4> QED
        BY <4>2, AddEnd
    <3>2. ASSUME NEW ok \in {"+", "-"}, wire' = wire \o <<ok>> \o CRLF, sent' = [ok |-> ok, mail |-> Nil]
          PROVE  wire' \in Seq(Bytes) /\ sent' \in [ok : {"", "+", "-"}, mail : {Nil} \cup Mails]
      BY <3>1, <3>2
    <3>3. ASSUME NEW mail \in Mails, wire' = wire \o <<"+">> \o CRLF \o Wire(mail),
                 sent' = [ok |-> "+", mail |-> mail]
          PROVE  wire' \in Seq(Bytes) /\ sent' \in [ok : {"", "+", "-"}, mail : {Nil} \cup Mails]
      <4>1. (wire \o <<"+">>) \o CRLF \in Seq(Bytes) /\ Wire(mail) \in Seq(Bytes)
        BY <3>1, WireType
      <4>2. wire' \in Seq(Bytes)
        BY <3>3, <4>1, CatIs
      <4> QED
        BY <3>3, <4>2
    <3> QED
      BY <1>1, <3>2, <3>3 DEF Answer
  <2> QED
    BY <2>1, <2>2 DEF Pop3TypeOK
<1>2. CASE Close
  <2>1. UNCHANGED <<cmd, stage, owed, mBuffer, mReply, got, out, sent>> /\ closed' = TRUE
    BY <1>2 DEF Close
  <2>2. PICK n \in 0..Len(wire) : wire' = SubSeq(wire, 1, n) /\ torn' = (torn \/ Tears(n))
    BY <1>2 DEF Close
  <2>3. wire' \in Seq(Bytes)
    BY <2>2, UpToIs DEF Pop3TypeOK
  <2>4. torn' \in BOOLEAN
    BY <2>2 DEF Pop3TypeOK, Tears
  <2> QED
    BY <2>1, <2>3, <2>4 DEF Pop3TypeOK
<1> QED
  BY <1>1, <1>2

LEMMA StatusTypes ==
  ASSUME Pop3TypeOK, NEW n \in 0..Len(wire), ReadStatus(n)
  PROVE  Pop3TypeOK'
<1> DEFINE buff == mBuffer \o SubSeq(wire, 1, n)
           eol == Eol(buff)
           k == IF eol > 1 /\ buff[eol - 1] = CR THEN eol - 2 ELSE eol - 1
<1>1. /\ wire' = SubSeq(wire, n + 1, Len(wire))
      /\ mBuffer' = SubSeq(buff, eol + 1, Len(buff))
      /\ torn' = (torn \/ Tears(n))
      /\ UNCHANGED <<cmd, owed, closed, got, out, sent>>
  BY DEF ReadStatus
<1>2. IF eol = 0 THEN UNCHANGED <<stage, mReply>>
      ELSE /\ mReply' = FirstByte(SubSeq(buff, 1, k))
           /\ stage' = IF cmd \in Multi /\ mReply' = "+" THEN "data" ELSE "done"
  BY DEF ReadStatus
<1>3. buff \in Seq(Bytes)
  BY UpToIs, CatIs DEF Pop3TypeOK
<1> HIDE DEF buff
<1>4. eol \in 0..Len(buff) /\ eol \in Nat /\ Len(buff) \in Nat
  BY <1>3, EolIs, LenProperties
<1> HIDE DEF eol
<1>5. k \in Int /\ k <= Len(buff)
  BY <1>4
<1> HIDE DEF k
<1>6. eol # 0 => mReply' \in {""} \cup Bytes
  BY <1>2, <1>3, <1>5, LineType
<1>7. stage' \in {"status", "data", "done", "failed", "aborted"} /\ mReply' \in {"", "E", "N"} \cup Bytes
  BY <1>2, <1>6 DEF Pop3TypeOK
<1>8. wire' \in Seq(Bytes) /\ mBuffer' \in Seq(Bytes)
  <2>1. n \in Nat /\ wire \in Seq(Bytes)
    <3>1. wire \in Seq(Bytes)
      BY DEF Pop3TypeOK
    <3>2. Len(wire) \in Nat
      BY <3>1, LenProperties
    <3> QED
      BY <3>1, <3>2
  <2> QED
    BY <1>1, <1>3, <1>4, <2>1, FromIs
<1>9. torn' \in BOOLEAN
  BY <1>1 DEF Pop3TypeOK, Tears
<1> QED
  BY <1>1, <1>7, <1>8, <1>9 DEF Pop3TypeOK

LEMMA DataTypes ==
  ASSUME Pop3TypeOK, NEW n \in 0..Len(wire), ReadData(n)
  PROVE  Pop3TypeOK'
<1> DEFINE chunk == IF mBuffer # <<>> THEN mBuffer ELSE SubSeq(wire, 1, n)
           end == EndOfData(got, chunk)
           text == IF end \in DOMAIN chunk THEN SubSeq(chunk, 1, end) ELSE chunk
           ends == end > 0 \/ EmptyContent(got \o chunk)
<1>1. /\ wire' = SubSeq(wire, n + 1, Len(wire))
      /\ mBuffer' = IF end > 0 THEN Unread(SubSeq(chunk, end + 1, Len(chunk)), <<>>) ELSE <<>>
      /\ got' = got \o text
      /\ stage' = IF UnreadFails(Len(chunk) - end) THEN "aborted" ELSE IF ends THEN "done" ELSE stage
      /\ out' = IF ends THEN DataOut(got') ELSE out
      /\ torn' = (torn \/ Tears(n))
      /\ UNCHANGED <<cmd, owed, closed, mReply, sent>>
  BY DEF ReadData
<1>2. chunk \in Seq(Bytes) /\ got \in Seq(Bytes)
  BY UpToIs DEF Pop3TypeOK
<1> HIDE DEF chunk
<1>3. end \in Nat /\ DOMAIN chunk = 1..Len(chunk) /\ Len(chunk) \in Nat
  BY <1>2, EndType, LenProperties
<1> HIDE DEF end
<1>4. text \in Seq(Bytes)
  <2>1. end \in DOMAIN chunk => end \in 0..Len(chunk)
    BY <1>3
  <2> QED
    BY <1>2, <2>1, UpToIs
<1> HIDE DEF text
<1>5. got' \in Seq(Bytes) /\ wire' \in Seq(Bytes)
  <2>1. n \in Nat /\ wire \in Seq(Bytes)
    <3>1. wire \in Seq(Bytes)
      BY DEF Pop3TypeOK
    <3>2. Len(wire) \in Nat
      BY <3>1, LenProperties
    <3> QED
      BY <3>1, <3>2
  <2>2. wire' \in Seq(Bytes)
    BY <1>1, <2>1, FromIs
  <2>3. got \o text \in Seq(Bytes)
    BY <1>2, <1>4, CatIs
  <2> QED
    BY <1>1, <2>2, <2>3
<1>6. mBuffer' \in Seq(Bytes)
  BY <1>1, <1>2, <1>3, FromIs, CatIs, Ends DEF Unread
<1>7. out' = Nil \/ out' \in Seq(Bytes)
  BY <1>1, <1>5, UnescapeType DEF DataOut, Pop3TypeOK
<1>8. stage' \in {"status", "data", "done", "failed", "aborted"}
  BY <1>1 DEF Pop3TypeOK
<1>9. torn' \in BOOLEAN
  BY <1>1 DEF Pop3TypeOK, Tears
<1> QED
  BY <1>1, <1>5, <1>6, <1>7, <1>8, <1>9 DEF Pop3TypeOK

LEMMA OtherTypes ==
  ASSUME Pop3TypeOK,
         \/ \E c \in Single \cup Multi : SendCommand(c) \/ CommandFails(c)
         \/ StatusCut \/ StatusFails \/ DataFails \/ Reconnect
         \/ UNCHANGED pop3Vars
  PROVE  Pop3TypeOK'
<1>1. ASSUME NEW c \in Single \cup Multi, SendCommand(c) \/ CommandFails(c) PROVE Pop3TypeOK'
  <2>1. got' \in Seq(Bytes) /\ sent' \in [ok : {"", "+", "-"}, mail : {Nil} \cup Mails]
    <3>1. got' = <<>> /\ sent' = [ok |-> "", mail |-> Nil]
      BY <1>1 DEF SendCommand, CommandFails, Unanswered
    <3>2. got' \in Seq(Bytes)
      BY <3>1, Ends
    <3>3. sent' \in [ok : {"", "+", "-"}, mail : {Nil} \cup Mails]
      BY <3>1
    <3> QED
      BY <3>2, <3>3
  <2>2. stage' \in {"status", "failed"} /\ mReply' \in {mReply, "E"} /\ owed' \in {TRUE, owed}
    BY <1>1 DEF SendCommand, CommandFails
  <2>3. cmd' = c /\ out' = Nil /\ UNCHANGED <<closed, wire, mBuffer, torn>>
    BY <1>1 DEF SendCommand, CommandFails
  <2> QED
    BY <2>1, <2>2, <2>3 DEF Pop3TypeOK
<1>2. CASE StatusCut
  <2>1. mBuffer # <<>> => mBuffer[1] \in Bytes
    <3> SUFFICES ASSUME mBuffer # <<>> PROVE mBuffer[1] \in Bytes
      OBVIOUS
    <3>1. 1 \in 1..Len(mBuffer)
      <4>1. mBuffer \in Seq(Bytes)
        BY DEF Pop3TypeOK
      <4>2. Len(mBuffer) \in Nat \ {0}
        BY <4>1, EmptySeq
      <4> QED
        BY <4>2
    <3> QED
      BY <3>1, ElementOfSeq DEF Pop3TypeOK
  <2>2. mReply' \in {"", "E", "N"} \cup Bytes /\ stage' \in {"failed", "data", "done"}
    BY <1>2, <2>1 DEF StatusCut
  <2> QED
    BY <1>2, <2>2, Ends DEF StatusCut, Pop3TypeOK
<1>3. CASE StatusFails \/ DataFails
  BY <1>3, Chars DEF StatusFails, DataFails, Pop3TypeOK
<1>4. CASE Reconnect
  BY <1>4, Ends DEF Reconnect, Pop3TypeOK, Unanswered
<1>5. CASE UNCHANGED pop3Vars
  BY <1>5 DEF pop3Vars, Pop3TypeOK
<1> QED
  BY <1>1, <1>2, <1>3, <1>4, <1>5

LEMMA Pop3TypeNext == Pop3Assumption /\ Pop3TypeOK /\ [Pop3Next]_pop3Vars => Pop3TypeOK'
<1> SUFFICES ASSUME Pop3Assumption, Pop3TypeOK, [Pop3Next]_pop3Vars PROVE Pop3TypeOK'
  OBVIOUS
<1>1. CASE Answer \/ Close
  BY <1>1, ServerTypes
<1>2. ASSUME NEW n \in 0..Len(wire), ReadStatus(n) \/ ReadData(n) PROVE Pop3TypeOK'
  BY <1>2, StatusTypes, DataTypes
<1>3. CASE \/ \E c \in Single \cup Multi : SendCommand(c) \/ CommandFails(c)
           \/ StatusCut \/ StatusFails \/ DataFails \/ Reconnect
           \/ UNCHANGED pop3Vars
  BY <1>3, OtherTypes
<1> QED
  BY <1>1, <1>2, <1>3 DEF Pop3Next

-----------------------------------------------------------------------------
(* The inductive invariant: where client and server are in one reply.      *)
ReplyTo(ok, mail) == (<<ok>> \o CRLF) \o (IF mail = Nil THEN <<>> ELSE Wire(mail))

(* What is left of w: all of it, or less if the connection has ended; but  *)
(* if it is data, not all but the last byte.                               *)
Part(x, w) ==
  /\ Starts(x, w)
  /\ ~closed => Len(x) = Len(w)
  /\ sent.mail # Nil => Len(x) # Len(w) - 1

InStatus == stage = "status" =>
  /\ got = <<>>
  /\ owed => wire = <<>> /\ mBuffer = <<>>
  /\ ~owed => /\ sent.ok \in {"+", "-"}
              /\ sent.mail # Nil <=> cmd \in Multi /\ sent.ok = "+"
              /\ Part(mBuffer \o wire, ReplyTo(sent.ok, sent.mail))
              /\ Len(mBuffer) <= 2

(* Between two reads the end of the data is still to come, whole.          *)
InData == stage = "data" =>
  /\ ~owed /\ mReply = sent.ok /\ sent.mail # Nil
  /\ Part(got \o (mBuffer \o wire), Wire(sent.mail))
  /\ Len(got) + 2 <= Len(Wire(sent.mail))
  /\ Len(got) + Len(mBuffer) # Len(Wire(sent.mail)) - 1

Handed ==
  /\ wire = <<>> /\ mBuffer = <<>>
  /\ mReply = sent.ok
  /\ sent.mail # Nil =>
       IF cmd # "RETR" THEN out = Wire(sent.mail)
       ELSE StartsWithDot(sent.mail) \/ out = Joined(sent.mail)

InDone == stage = "done" => ~owed /\ Handed

Steady == ~torn => InStatus /\ InData /\ InDone

Pop3Inv == Pop3TypeOK /\ Steady

-----------------------------------------------------------------------------
LEMMA ReplyIs ==
  ASSUME Pop3Assumption, NEW ok \in {"+", "-"}, NEW mail \in {Nil} \cup Mails
  PROVE  LET R == ReplyTo(ok, mail) IN
         /\ R \in Seq(Bytes) /\ Len(R) \in Nat
         /\ R[1] = ok /\ R[2] = CR /\ R[3] = LF /\ R[Len(R)] = LF
         /\ mail = Nil => Len(R) = 3
         /\ mail # Nil => /\ Len(R) = 3 + Len(Wire(mail)) /\ Len(Wire(mail)) >= 3
                          /\ \A k \in 1..Len(Wire(mail)) : R[3 + k] = Wire(mail)[k]
<1> DEFINE h == <<ok>> \o CRLF
           R == ReplyTo(ok, mail)
           W == Wire(mail)
<1>1. <<ok>> \in Seq(Bytes) /\ Len(<<ok>>) = 1 /\ <<ok>>[1] = ok
  BY Chars, OneByte
<1>2. h \in Seq(Bytes) /\ Len(h) = 3 /\ h[1] = ok /\ h[2] = CR /\ h[3] = LF
  <2> DEFINE b == <<ok>>
  <2> HIDE DEF b
  <2>1. /\ b \o CRLF \in Seq(Bytes) /\ Len(b \o CRLF) = Len(b) + 2
        /\ \A k \in 1..Len(b) : (b \o CRLF)[k] = b[k]
        /\ (b \o CRLF)[Len(b) + 1] = CR /\ (b \o CRLF)[Len(b) + 2] = LF
    BY <1>1, AddEnd DEF b
  <2>2. Len(b) = 1 /\ b[1] = ok
    BY <1>1 DEF b
  <2>3. h = b \o CRLF
    BY DEF b
  <2> HIDE DEF h
  <2>4. h \in Seq(Bytes) /\ Len(h) = 3 /\ h[1] = ok /\ h[1 + 1] = CR /\ h[1 + 2] = LF
    BY <2>1, <2>2, <2>3
  <2> QED
    BY <2>4
<1>3. R = h \o (IF mail = Nil THEN <<>> ELSE W)
  BY DEF ReplyTo
<1> HIDE DEF h, R
<1>4. CASE mail = Nil
  <2>1. R = h
    BY <1>2, <1>3, <1>4, ConcatEmptySeq
  <2>2. /\ R \in Seq(Bytes) /\ Len(R) \in Nat /\ Len(R) = 3
        /\ R[1] = ok /\ R[2] = CR /\ R[3] = LF /\ R[Len(R)] = LF
    <3>1. 3 \in Nat
      OBVIOUS
    <3> QED
      BY <1>2, <2>1, <3>1, Zenon
  <2> QED
    BY <1>4, <2>2, Zenon DEF R
<1>5. CASE mail # Nil
  <2>1. W \in Seq(Bytes) /\ Len(W) >= 3 /\ W[Len(W)] = LF /\ Len(W) \in Nat
    <3>1. mail \in Seq(Line)
      BY <1>5, WireType
    <3>2. W \in Seq(Bytes) /\ Len(W) >= 3 /\ W[Len(W)] = LF
      BY <3>1, WireEnds
    <3> QED
      BY <3>2, LenProperties
  <2>2. R = h \o W
    BY <1>3, <1>5
  <2> HIDE DEF W
  <2>c. /\ h \o W \in Seq(Bytes) /\ Len(h \o W) = Len(h) + Len(W)
        /\ \A k \in 1..Len(h) : (h \o W)[k] = h[k]
        /\ \A k \in 1..Len(W) : (h \o W)[Len(h) + k] = W[k]
    BY <1>2, <2>1, CatIs
  <2>3. /\ R \in Seq(Bytes) /\ Len(R) = 3 + Len(W)
        /\ \A k \in 1..3 : R[k] = h[k]
        /\ \A k \in 1..Len(W) : R[3 + k] = W[k]
    BY <1>2, <2>c, <2>2, Zenon
  <2>4. R[1] = ok /\ R[2] = CR /\ R[3] = LF
    BY <1>2, <2>3
  <2>5. R[3 + Len(W)] = LF
    BY <2>1, <2>3
  <2> QED
    BY <1>5, <2>1, <2>3, <2>4, <2>5 DEF R, W
<1> QED
  BY <1>4, <1>5

(* A read or a close that does not tear does not stop before the last LF.  *)
LEMMA NoTear ==
  ASSUME Pop3TypeOK, NEW a \in Seq(Bytes), NEW w \in Seq(Bytes), w[Len(w)] = LF,
         sent.mail # Nil, Part(a \o wire, w), NEW n \in 0..Len(wire), ~Tears(n)
  PROVE  Len(a) + n # Len(w) - 1
<1> SUFFICES ASSUME Len(a) + n = Len(w) - 1 PROVE FALSE
  OBVIOUS
<1>1. wire \in Seq(Bytes) /\ Len(w) \in Nat
  BY LenProperties DEF Pop3TypeOK
<1>2. /\ Len(a \o wire) = Len(a) + Len(wire) /\ Len(a) \in Nat /\ Len(wire) \in Nat
      /\ \A k \in 1..Len(wire) : (a \o wire)[Len(a) + k] = wire[k]
  BY <1>1, CatIs
<1>3. Len(a) + Len(wire) <= Len(w) /\ Len(a) + Len(wire) # Len(w) - 1
  BY <1>2 DEF Part, Starts
<1>4. /\ Len(wire) = n + 1 /\ Len(a) + Len(wire) = Len(w)
      /\ n + 1 \in 1..Len(wire) /\ n = Len(wire) - 1
  <2> DEFINE la == Len(a)
             lw == Len(w)
             lx == Len(wire)
  <2>1. la \in Nat /\ lw \in Nat /\ lx \in Nat /\ n \in 0..lx /\ la + n = lw - 1
    BY <1>1, <1>2
  <2>2. la + lx <= lw /\ la + lx # lw - 1
    BY <1>3
  <2> HIDE DEF la, lw, lx
  <2>3. lx = n + 1 /\ la + lx = lw /\ n + 1 \in 1..lx /\ n = lx - 1
    BY <2>1, <2>2
  <2> QED
    BY <2>3 DEF la, lw, lx
<1>5. (a \o wire)[Len(w)] = w[Len(w)]
  <2>1. Len(w) \in 1..Len(a \o wire)
    BY <1>2, <1>4
  <2> QED
    BY <2>1 DEF Part, Starts
<1>6. wire[n + 1] = LF
  BY <1>2, <1>4, <1>5
<1>7. wire # <<>>
  BY <1>4, Ends
<1> QED
  BY <1>4, <1>6, <1>7 DEF Tears

LEMMA PartCut ==
  ASSUME Pop3TypeOK, NEW a \in Seq(Bytes), NEW w \in Seq(Bytes), w[Len(w)] = LF,
         Part(a \o wire, w), NEW n \in 0..Len(wire), ~Tears(n)
  PROVE  /\ Starts(a \o SubSeq(wire, 1, n), w)
         /\ sent.mail # Nil => Len(a \o SubSeq(wire, 1, n)) # Len(w) - 1
<1> DEFINE c == SubSeq(wire, 1, n)
           r == SubSeq(wire, n + 1, Len(wire))
<1>1. wire \in Seq(Bytes) /\ n \in Nat
  <2>1. wire \in Seq(Bytes)
    BY DEF Pop3TypeOK
  <2> QED
    BY <2>1, LenProperties
<1>2. c \in Seq(Bytes) /\ Len(c) = n /\ r \in Seq(Bytes) /\ wire = c \o r
  BY <1>1, UpToIs, FromIs, Cut
<1> HIDE DEF c, r
<1>3. a \o wire = (a \o c) \o r /\ a \o c \in Seq(Bytes) /\ Len(a \o c) = Len(a) + n
  BY <1>2, Joins
<1>4. Starts(a \o c, w)
  BY <1>2, <1>3, StartsCut DEF Part
<1>5. sent.mail # Nil => Len(a \o c) # Len(w) - 1
  BY <1>3, NoTear
<1> QED
  BY <1>4, <1>5 DEF c

-----------------------------------------------------------------------------
LEMMA AnswerKeeps ==
  ASSUME Pop3Assumption, Pop3TypeOK, Steady, Answer
  PROVE  Steady'
<1> SUFFICES ASSUME ~torn' PROVE InStatus' /\ InData' /\ InDone'
  BY DEF Steady
<1>1. /\ owed /\ ~closed /\ owed' = FALSE
      /\ UNCHANGED <<cmd, stage, closed, mBuffer, mReply, got, out, torn>>
  BY DEF Answer
<1>2. InStatus /\ InData /\ InDone
  BY <1>1 DEF Steady
<1>3. InData' /\ InDone'
  BY <1>1, <1>2 DEF InData, InDone
<1>4. InStatus'
  <2> SUFFICES ASSUME stage' = "status" PROVE InStatus'
    BY DEF InStatus
  <2>1. wire = <<>> /\ mBuffer = <<>> /\ got = <<>>
    BY <1>1, <1>2 DEF InStatus
  <2>2. /\ sent'.ok \in {"+", "-"} /\ sent'.mail \in {Nil} \cup Mails
        /\ sent'.mail # Nil <=> cmd \in Multi /\ sent'.ok = "+"
        /\ wire' = ReplyTo(sent'.ok, sent'.mail)
    <3>0. \A ok \in {"+", "-"} : <<ok>> \in Seq(Bytes) /\ <<>> \o <<ok>> = <<ok>>
                                   /\ <<ok>> \o CRLF \in Seq(Bytes)
      BY Chars, OneByte, AddEnd, ConcatEmptySeq
    <3>1. ASSUME NEW ok \in {"+", "-"}, ok = "-" \/ cmd \notin Multi,
                 wire' = wire \o <<ok>> \o CRLF, sent' = [ok |-> ok, mail |-> Nil]
          PROVE  <2>2!:
      <4>1. wire' = (<<ok>> \o CRLF) \o <<>>
        BY <2>1, <3>0, <3>1, ConcatEmptySeq
      <4>2. sent'.ok = ok /\ sent'.mail = Nil
        BY <3>1
      <4> QED
        BY <3>1, <4>1, <4>2 DEF ReplyTo
    <3>2. ASSUME NEW mail \in Mails, cmd \in Multi,
                 wire' = wire \o <<"+">> \o CRLF \o Wire(mail), sent' = [ok |-> "+", mail |-> mail]
          PROVE  <2>2!:
      <4>1. wire' = (<<"+">> \o CRLF) \o Wire(mail)
        BY <2>1, <3>0, <3>2
      <4>2. sent'.ok = "+" /\ sent'.mail = mail /\ mail # Nil
        BY <3>2, WireType
      <4> QED
        BY <3>2, <4>1, <4>2 DEF ReplyTo
    <3> QED
      BY <3>1, <3>2 DEF Answer
  <2> DEFINE R == ReplyTo(sent'.ok, sent'.mail)
  <2>3. R \in Seq(Bytes) /\ Len(R) \in Nat
    BY <2>2, ReplyIs
  <2>4. <<>> \o R = R
    BY <2>3, ConcatEmptySeq
  <2>5. mBuffer' \o wire' = R
    BY <1>1, <2>1, <2>2, <2>4
  <2> HIDE DEF R
  <2>6. Starts(R, R) /\ Len(R) # Len(R) - 1
    BY <2>3 DEF Starts
  <2>7. Part(mBuffer \o wire, ReplyTo(sent.ok, sent.mail))'
    BY <2>5, <2>6 DEF Part, R
  <2>8. Len(mBuffer') <= 2
    BY <1>1, <2>1, Ends
  <2> QED
    BY <1>1, <2>1, <2>2, <2>7, <2>8 DEF InStatus
<1> QED
  BY <1>3, <1>4

LEMMA CloseKeeps ==
  ASSUME Pop3Assumption, Pop3TypeOK, Steady, Close
  PROVE  Steady'
<1> SUFFICES ASSUME ~torn' PROVE InStatus' /\ InData' /\ InDone'
  BY DEF Steady
<1>1. ~closed /\ closed' = TRUE /\ UNCHANGED <<cmd, stage, owed, mBuffer, mReply, got, out, sent>>
  BY DEF Close
<1>2. PICK n \in 0..Len(wire) : wire' = SubSeq(wire, 1, n) /\ torn' = (torn \/ Tears(n))
  BY DEF Close
<1>3. InStatus /\ InData /\ InDone /\ ~Tears(n)
  BY <1>2 DEF Steady
<1>t. wire \in Seq(Bytes) /\ mBuffer \in Seq(Bytes) /\ got \in Seq(Bytes) /\ sent.mail \in {Nil} \cup Mails
  BY DEF Pop3TypeOK
<1>4. wire = <<>> => wire' = <<>>
  <2>1. wire = <<>> => Len(wire') = 0 /\ wire' \in Seq(Bytes)
    BY <1>2, <1>t, UpToIs, Ends
  <2> QED
    BY <2>1, EmptySeq
<1>5. InStatus'
  <2> SUFFICES ASSUME stage = "status" PROVE InStatus'
    BY <1>1 DEF InStatus
  <2>1. CASE owed
    BY <1>1, <1>3, <1>4, <2>1 DEF InStatus
  <2>2. CASE ~owed
    <3> DEFINE R == ReplyTo(sent.ok, sent.mail)
    <3>1. sent.ok \in {"+", "-"} /\ Part(mBuffer \o wire, R)
      BY <1>3, <2>2 DEF InStatus
    <3>2. R \in Seq(Bytes) /\ R[Len(R)] = LF
      BY <1>t, <3>1, ReplyIs
    <3> HIDE DEF R
    <3>3. Starts(mBuffer \o wire', R) /\ (sent.mail # Nil => Len(mBuffer \o wire') # Len(R) - 1)
      BY <1>2, <1>3, <1>t, <3>1, <3>2, PartCut
    <3>4. Part(mBuffer \o wire, ReplyTo(sent.ok, sent.mail))'
      BY <1>1, <3>3 DEF Part, R
    <3> QED
      BY <1>1, <1>3, <2>2, <3>4 DEF InStatus
  <2> QED
    BY <2>1, <2>2
<1>6. InData'
  <2> SUFFICES ASSUME stage = "data" PROVE InData'
    BY <1>1 DEF InData
  <2> DEFINE W == Wire(sent.mail)
             a == got \o mBuffer
  <2>1. sent.mail \in Mails /\ Part(got \o (mBuffer \o wire), W)
    BY <1>3, <1>t DEF InData
  <2>2. W \in Seq(Bytes) /\ W[Len(W)] = LF
    BY <2>1, WireType, WireEnds
  <2>3. a \in Seq(Bytes) /\ got \o (mBuffer \o wire) = a \o wire
    BY <1>t, Joins
  <2>4. wire' \in Seq(Bytes)
    BY <1>2, <1>t, UpToIs
  <2>5. got \o (mBuffer \o wire') = a \o wire'
    <3>1. \A u \in Seq(Bytes) : got \o (mBuffer \o u) = (got \o mBuffer) \o u
      BY <1>t, Joins
    <3> QED
      BY <2>4, <3>1
  <2> HIDE DEF W, a
  <2>6. Starts(a \o wire', W) /\ (sent.mail # Nil => Len(a \o wire') # Len(W) - 1)
    BY <1>2, <1>3, <2>1, <2>2, <2>3, PartCut
  <2>7. Part(got \o (mBuffer \o wire), Wire(sent.mail))'
    BY <1>1, <2>5, <2>6 DEF Part, W
  <2> QED
    BY <1>1, <1>3, <2>7 DEF InData
<1>7. InDone'
  BY <1>1, <1>3, <1>4 DEF InDone, Handed
<1> QED
  BY <1>5, <1>6, <1>7

LEMMA OthersKeep ==
  ASSUME Pop3Assumption, Pop3TypeOK, Steady,
         \/ \E c \in Single \cup Multi : SendCommand(c) \/ CommandFails(c)
         \/ StatusFails \/ DataFails \/ Reconnect
         \/ UNCHANGED pop3Vars
  PROVE  Steady'
<1> SUFFICES ASSUME ~torn' PROVE InStatus' /\ InData' /\ InDone'
  BY DEF Steady
<1>1. ASSUME NEW c \in Single \cup Multi, SendCommand(c) PROVE InStatus' /\ InData' /\ InDone'
  BY <1>1 DEF SendCommand, Steady, InStatus, InData, InDone, Handed
<1>2. ASSUME NEW c \in Single \cup Multi, CommandFails(c) PROVE InStatus' /\ InData' /\ InDone'
  BY <1>2 DEF CommandFails, InStatus, InData, InDone
<1>3. CASE StatusFails \/ DataFails
  BY <1>3 DEF StatusFails, DataFails, InStatus, InData, InDone
<1>4. CASE Reconnect
  BY <1>4 DEF Reconnect, InStatus, InData, InDone
<1>5. CASE UNCHANGED pop3Vars
  BY <1>5 DEF pop3Vars, Steady, InStatus, InData, InDone, Handed, Part
<1> QED
  BY <1>1, <1>2, <1>3, <1>4, <1>5

-----------------------------------------------------------------------------
(* Dropping the first d bytes of what has been received drops them of all  *)
(* that is under way.                                                      *)
LEMMA DropIs ==
  ASSUME NEW b \in Seq(Bytes), NEW r \in Seq(Bytes), NEW d \in 0..Len(b)
  PROVE  LET y == SubSeq(b, d + 1, Len(b)) \o r IN
         /\ y \in Seq(Bytes) /\ Len(y) \in Nat /\ Len(b \o r) = d + Len(y)
         /\ \A k \in 1..Len(y) : (b \o r)[d + k] = y[k]
<1> DEFINE s == SubSeq(b, 1, d)
           t == SubSeq(b, d + 1, Len(b))
<1>1. d \in Nat
  BY LenProperties
<1>2. s \in Seq(Bytes) /\ Len(s) = d /\ t \in Seq(Bytes) /\ b = s \o t
  BY <1>1, UpToIs, FromIs, Cut
<1> HIDE DEF s, t
<1>3. b \o r = s \o (t \o r) /\ t \o r \in Seq(Bytes)
  BY <1>2, Joins
<1>4. /\ Len(s \o (t \o r)) = Len(s) + Len(t \o r) /\ Len(t \o r) \in Nat
      /\ \A k \in 1..Len(t \o r) : (s \o (t \o r))[Len(s) + k] = (t \o r)[k]
  BY <1>2, <1>3, CatIs
<1> QED
  BY <1>2, <1>3, <1>4, Zenon DEF t

(* What readline() finds in the first bytes of a reply.                    *)
LEMMA FirstLineIs ==
  ASSUME NEW ok \in {"+", "-"}, NEW b \in Seq(Bytes), NEW w, Starts(b, w),
         w[1] = ok, w[2] = CR, w[3] = LF
  PROVE  /\ Len(b) \in Nat
         /\ Len(b) <= 2 => Eol(b) = 0
         /\ Len(b) > 2 => Eol(b) = 3 /\ b[2] = CR /\ FirstByte(SubSeq(b, 1, 1)) = ok
<1>1. Len(b) \in Nat /\ ok # LF /\ CR # LF
  BY LenProperties, Chars
<1>2. \A k \in 1..Len(b) : b[k] = w[k]
  BY DEF Starts
<1>3. /\ Eol(b) \in 0..Len(b)
      /\ Eol(b) = 0 => \A k \in 1..Len(b) : b[k] # LF
      /\ Eol(b) # 0 => b[Eol(b)] = LF /\ \A k \in 1..Eol(b) - 1 : b[k] # LF
  BY EolIs
<1>4. Eol(b) # 1 /\ Eol(b) # 2
  <2>1. 1 \in 1..Len(b) => b[1] # LF
    BY <1>1, <1>2
  <2>2. 2 \in 1..Len(b) => b[2] # LF
    BY <1>1, <1>2
  <2> QED
    BY <1>1, <1>3, <2>1, <2>2
<1>5. Len(b) > 2 => Eol(b) = 3 /\ b[2] = CR /\ FirstByte(SubSeq(b, 1, 1)) = ok
  <2> SUFFICES ASSUME Len(b) > 2 PROVE Eol(b) = 3 /\ b[2] = CR /\ FirstByte(SubSeq(b, 1, 1)) = ok
    OBVIOUS
  <2>1. 1 \in 1..Len(b) /\ 2 \in 1..Len(b) /\ 3 \in 1..Len(b) /\ 1 \in 0..Len(b)
    BY <1>1
  <2>2. b[1] = ok /\ b[2] = CR /\ b[3] = LF
    BY <1>2, <2>1
  <2>3. Eol(b) = 3
    BY <1>1, <1>3, <1>4, <2>1, <2>2
  <2> DEFINE l == SubSeq(b, 1, 1)
  <2>4. l \in Seq(Bytes) /\ Len(l) = 1 /\ l[1] = b[1]
    BY <2>1, UpToIs
  <2> HIDE DEF l
  <2>5. FirstByte(l) = ok
    <3>1. l # <<>>
      <4>1. Len(<<>>) = 0 /\ 1 # 0
        BY Ends
      <4> QED
        BY <2>4, <4>1, Zenon
    <3> QED
      BY <2>2, <2>4, <3>1, Zenon DEF FirstByte
  <2> QED
    BY <2>2, <2>3, <2>5 DEF l
<1>6. Len(b) <= 2 => Eol(b) = 0
  BY <1>1, <1>3, <1>4
<1> QED
  BY <1>1, <1>5, <1>6

(* Behind its line, the rest of a reply is what has arrived of the data.   *)
LEMMA DataStarts ==
  ASSUME NEW x \in Seq(Bytes), NEW y \in Seq(Bytes), NEW w \in Seq(Bytes), NEW r \in Seq(Bytes),
         Len(x) = 3 + Len(y), \A k \in 1..Len(y) : x[3 + k] = y[k],
         Len(r) = 3 + Len(w), \A k \in 1..Len(w) : r[3 + k] = w[k],
         Starts(x, r)
  PROVE  Starts(y, w)
<1>1. Len(y) \in Nat /\ Len(w) \in Nat
  BY LenProperties
<1>2. 3 + Len(y) <= 3 + Len(w) /\ \A k \in 1..3 + Len(y) : x[k] = r[k]
  BY DEF Starts
<1>3. Len(y) <= Len(w)
  BY <1>1, <1>2
<1>4. ASSUME NEW k \in 1..Len(y) PROVE y[k] = w[k]
  <2>1. 3 + k \in 1..3 + Len(y) /\ k \in 1..Len(w)
    BY <1>1, <1>3
  <2> QED
    BY <1>2, <2>1
<1> QED
  BY <1>3, <1>4 DEF Starts

-----------------------------------------------------------------------------
LEMMA ReadStatusKeeps ==
  ASSUME Pop3Assumption, Pop3TypeOK, Steady, NEW n \in 0..Len(wire), ReadStatus(n)
  PROVE  Steady'
<1> SUFFICES ASSUME ~torn' PROVE InStatus' /\ InData' /\ InDone'
  BY DEF Steady
<1> DEFINE c == SubSeq(wire, 1, n)
           buff == mBuffer \o c
           eol == Eol(buff)
           k == IF eol > 1 /\ buff[eol - 1] = CR THEN eol - 2 ELSE eol - 1
<1>1. /\ stage = "status" /\ IF Eol(mBuffer) > 0 THEN n = 0 ELSE n > 0
      /\ wire' = SubSeq(wire, n + 1, Len(wire))
      /\ mBuffer' = SubSeq(buff, eol + 1, Len(buff))
      /\ ~torn /\ ~Tears(n)
      /\ UNCHANGED <<cmd, owed, closed, got, out, sent>>
  BY DEF ReadStatus
<1>2. IF eol = 0 THEN UNCHANGED <<stage, mReply>>
      ELSE /\ mReply' = FirstByte(SubSeq(buff, 1, k))
           /\ stage' = IF cmd \in Multi /\ mReply' = "+" THEN "data" ELSE "done"
  BY DEF ReadStatus
<1>t. /\ wire \in Seq(Bytes) /\ mBuffer \in Seq(Bytes) /\ got \in Seq(Bytes)
      /\ sent.mail \in {Nil} \cup Mails /\ n \in Nat
  <2>1. /\ wire \in Seq(Bytes) /\ mBuffer \in Seq(Bytes) /\ got \in Seq(Bytes)
        /\ sent.mail \in {Nil} \cup Mails
    BY DEF Pop3TypeOK
  <2>2. Len(wire) \in Nat
    BY <2>1, LenProperties
  <2> QED
    BY <2>1, <2>2
<1>3. c \in Seq(Bytes) /\ Len(c) = n /\ wire' \in Seq(Bytes) /\ wire = c \o wire'
  BY <1>1, <1>t, UpToIs, FromIs, Cut
<1> HIDE DEF c
<1>4. /\ buff \in Seq(Bytes) /\ mBuffer \o wire = buff \o wire'
      /\ Len(buff) = Len(mBuffer) + n /\ Len(mBuffer) \in Nat /\ Len(buff) \in Nat
  <2>1. /\ mBuffer \o c \in Seq(Bytes) /\ Len(mBuffer \o c) = Len(mBuffer) + Len(c)
        /\ (mBuffer \o c) \o wire' = mBuffer \o (c \o wire')
    <3>1. \A u \in Seq(Bytes) : (mBuffer \o c) \o u = mBuffer \o (c \o u)
      BY <1>3, <1>t, Joins
    <3> QED
      BY <1>3, <1>t, <3>1, Joins
  <2>2. Len(mBuffer) \in Nat /\ Len(buff) \in Nat
    BY <1>t, <2>1, LenProperties
  <2> QED
    BY <1>3, <2>1, <2>2, Zenon
<1>5. ~owed
  <2> SUFFICES ASSUME owed PROVE FALSE
    OBVIOUS
  <2>1. wire = <<>> /\ mBuffer = <<>>
    BY <1>1 DEF Steady, InStatus
  <2>2. Len(wire) = 0 /\ Len(mBuffer) = 0
    BY <2>1, Ends
  <2>3. Eol(mBuffer) = 0 /\ n = 0
    <3>1. Eol(mBuffer) \in 0..Len(mBuffer)
      BY <1>t, EolIs
    <3> QED
      BY <2>2, <3>1
  <2> QED
    BY <1>1, <2>3
<1> DEFINE R == ReplyTo(sent.ok, sent.mail)
           W == Wire(sent.mail)
<1>6. /\ got = <<>> /\ sent.ok \in {"+", "-"}
      /\ sent.mail # Nil <=> cmd \in Multi /\ sent.ok = "+"
      /\ Part(mBuffer \o wire, R)
  BY <1>1, <1>5 DEF Steady, InStatus
<1>7. /\ R \in Seq(Bytes) /\ Len(R) \in Nat
      /\ R[1] = sent.ok /\ R[2] = CR /\ R[3] = LF /\ R[Len(R)] = LF
      /\ sent.mail = Nil => Len(R) = 3
      /\ sent.mail # Nil => /\ Len(R) = 3 + Len(W) /\ Len(W) >= 3
                            /\ \A i \in 1..Len(W) : R[3 + i] = W[i]
  BY <1>t, <1>6, ReplyIs
<1>8. Starts(buff, R) /\ (sent.mail # Nil => Len(buff) # Len(R) - 1)
  <2> HIDE DEF R
  <2> QED
    BY <1>1, <1>6, <1>7, <1>t, PartCut DEF c
<1>9. sent.mail # Nil => W \in Seq(Bytes) /\ Len(W) \in Nat
  BY <1>t, WireType, LenProperties
<1> HIDE DEF buff, R, W
<1>10. /\ Len(buff) <= 2 => eol = 0
       /\ Len(buff) > 2 => eol = 3 /\ buff[2] = CR /\ FirstByte(SubSeq(buff, 1, 1)) = sent.ok
  BY <1>4, <1>6, <1>7, <1>8, FirstLineIs
<1>11. CASE Len(buff) <= 2
  <2>1. mBuffer' = buff
    <3>1. mBuffer' = SubSeq(buff, 0 + 1, Len(buff))
      BY <1>1, <1>10, <1>11, Zenon
    <3>2. mBuffer' = SubSeq(buff, 1, Len(buff))
      BY <3>1
    <3> QED
      BY <1>4, <3>2, SubSeqFull
  <2>2. stage' = "status"
    BY <1>1, <1>2, <1>10, <1>11
  <2>3. mBuffer' \o wire' = mBuffer \o wire
    BY <1>4, <2>1
  <2>4. Part(mBuffer \o wire, ReplyTo(sent.ok, sent.mail))'
    BY <1>1, <1>6, <2>3 DEF Part, R
  <2>5. InStatus'
    BY <1>1, <1>5, <1>6, <1>11, <2>1, <2>4 DEF InStatus
  <2> QED
    BY <2>2, <2>5 DEF InData, InDone
<1>12. CASE Len(buff) > 2
  <2>1. eol = 3 /\ buff[2] = CR /\ FirstByte(SubSeq(buff, 1, 1)) = sent.ok
    BY <1>10, <1>12
  <2>2. k = 1
    BY <2>1
  <2> HIDE DEF k
  <2>3. mReply' = sent.ok /\ stage' = IF sent.mail # Nil THEN "data" ELSE "done"
    BY <1>2, <1>6, <2>1, <2>2
  <2>4. mBuffer' = SubSeq(buff, 3 + 1, Len(buff))
    BY <1>1, <2>1, Zenon
  <2> DEFINE y == mBuffer' \o wire'
             x == mBuffer \o wire
  <2>5. /\ y \in Seq(Bytes) /\ Len(y) \in Nat /\ Len(x) = 3 + Len(y)
        /\ \A i \in 1..Len(y) : x[3 + i] = y[i]
    <3>1. 3 \in 0..Len(buff)
      BY <1>4, <1>12
    <3>2. LET z == SubSeq(buff, 3 + 1, Len(buff)) \o wire' IN
          /\ z \in Seq(Bytes) /\ Len(z) \in Nat /\ Len(buff \o wire') = 3 + Len(z)
          /\ \A i \in 1..Len(z) : (buff \o wire')[3 + i] = z[i]
      BY <1>3, <1>4, <3>1, DropIs
    <3> QED
      BY <1>4, <2>4, <3>2, Zenon
  <2>6. mBuffer' \in Seq(Bytes) /\ Len(mBuffer') = Len(buff) - 3 /\ Len(mBuffer') \in Nat
    <3>1. /\ SubSeq(buff, 3 + 1, Len(buff)) \in Seq(Bytes)
          /\ Len(SubSeq(buff, 3 + 1, Len(buff))) = IF 3 <= Len(buff) THEN Len(buff) - 3 ELSE 0
      BY <1>4, FromIs
    <3>2. mBuffer' \in Seq(Bytes) /\ Len(mBuffer') = IF 3 <= Len(buff) THEN Len(buff) - 3 ELSE 0
      BY <2>4, <3>1, Zenon
    <3> QED
      BY <1>4, <1>12, <3>2
  <2>7. x \in Seq(Bytes) /\ Starts(x, R) /\ (~closed => Len(x) = Len(R))
        /\ (sent.mail # Nil => Len(x) # Len(R) - 1)
    BY <1>t, <1>6, Joins DEF Part
  <2>8. Len(y) = Len(mBuffer') + Len(wire') /\ Len(wire') \in Nat
    BY <1>3, <2>6, CatIs
  <2>9. CASE sent.mail = Nil
    <3>1. Len(x) <= 3
      BY <1>7, <2>7, <2>9 DEF Starts
    <3> HIDE DEF x, y
    <3>2. Len(mBuffer') = 0 /\ Len(wire') = 0
      BY <2>5, <2>6, <2>8, <3>1
    <3>3. mBuffer' = <<>> /\ wire' = <<>>
      BY <1>3, <2>6, <3>2, EmptySeq
    <3> QED
      BY <1>1, <1>5, <2>3, <2>9, <3>3 DEF InStatus, InData, InDone, Handed
  <2>10. CASE sent.mail # Nil
    <3>1. Starts(y, W)
      <4> HIDE DEF x, y
      <4> QED
        BY <1>7, <1>9, <2>5, <2>7, <2>10, DataStarts
    <3> DEFINE ly == Len(y)
               lw == Len(W)
               lx == Len(x)
               lr == Len(R)
               lb == Len(buff)
               lm == Len(mBuffer')
    <3>2. /\ lx = 3 + ly /\ lr = 3 + lw /\ lw >= 3 /\ ly \in Nat /\ lw \in Nat
          /\ lb # lr - 1 /\ lm = lb - 3 /\ lb \in Nat /\ lx # lr - 1 /\ (~closed => lx = lr)
      BY <1>4, <1>7, <1>8, <1>9, <2>5, <2>6, <2>7, <2>10
    <3> HIDE DEF ly, lw, lx, lr, lb, lm
    <3>3. ly # lw - 1 /\ (~closed => ly = lw) /\ 0 + 2 <= lw /\ 0 + lm # lw - 1
      BY <3>2
    <3> HIDE DEF y
    <3>4. <<>> \o y = y
      BY <2>5, ConcatEmptySeq
    <3>5. got' \o (mBuffer' \o wire') = y
      BY <1>1, <1>6, <3>4 DEF y
    <3>6. Part(got \o (mBuffer \o wire), Wire(sent.mail))'
      BY <1>1, <3>1, <3>3, <3>5 DEF Part, W, ly, lw
    <3>7. Len(got') = 0
      BY <1>1, <1>6, Ends
    <3>8. Len(got') + 2 <= Len(Wire(sent'.mail)) /\ Len(got') + Len(mBuffer') # Len(Wire(sent'.mail)) - 1
      BY <1>1, <3>3, <3>7 DEF lw, lm, W
    <3>9. InData'
      BY <1>1, <1>5, <2>3, <2>10, <3>6, <3>8 DEF InData
    <3> QED
      BY <2>3, <2>10, <3>9 DEF InStatus, InDone
  <2> QED
    BY <2>9, <2>10
<1> QED
  BY <1>4, <1>11, <1>12

LEMMA StatusCutKeeps ==
  ASSUME Pop3Assumption, Pop3TypeOK, Steady, StatusCut
  PROVE  Steady'
<1> SUFFICES ASSUME ~torn' PROVE InStatus' /\ InData' /\ InDone'
  BY DEF Steady
<1>1. /\ stage = "status" /\ closed /\ wire = <<>> /\ ~torn
      /\ mBuffer' = <<>> /\ UNCHANGED <<cmd, owed, closed, wire, got, out, sent>>
  BY DEF StatusCut
<1>2. CASE mBuffer = <<>>
  <2>1. stage' = "failed"
    BY <1>2 DEF StatusCut
  <2> QED
    BY <2>1 DEF InStatus, InData, InDone
<1>3. CASE mBuffer # <<>>
  <2> DEFINE R == ReplyTo(sent.ok, sent.mail)
             W == Wire(sent.mail)
  <2>1. /\ ~owed /\ got = <<>> /\ sent.ok \in {"+", "-"}
        /\ sent.mail # Nil <=> cmd \in Multi /\ sent.ok = "+"
        /\ Part(mBuffer \o wire, R)
    BY <1>1, <1>3 DEF Steady, InStatus
  <2>2. mBuffer \in Seq(Bytes) /\ sent.mail \in {Nil} \cup Mails
    BY DEF Pop3TypeOK
  <2>3. R[1] = sent.ok /\ (sent.mail # Nil => Len(W) >= 3)
    BY <2>1, <2>2, ReplyIs
  <2> HIDE DEF R
  <2>4. Starts(mBuffer, R)
    <3>1. mBuffer \o <<>> = mBuffer
      BY <2>2, ConcatEmptySeq
    <3> QED
      BY <1>1, <2>1, <3>1 DEF Part
  <2>5. mBuffer[1] = sent.ok
    <3>1. 1 \in 1..Len(mBuffer)
      BY <1>3, <2>2, EmptySeq, LenProperties
    <3> QED
      BY <2>3, <2>4, <3>1 DEF Starts
  <2>6. mReply' = sent.ok /\ stage' = IF sent.mail # Nil THEN "data" ELSE "done"
    BY <1>3, <2>1, <2>5 DEF StatusCut
  <2>7. CASE sent.mail = Nil
    BY <1>1, <2>1, <2>6, <2>7 DEF InStatus, InData, InDone, Handed
  <2>8. CASE sent.mail # Nil
    <3>1. W \in Seq(Bytes) /\ Len(W) \in Nat /\ Len(W) >= 3
      BY <2>2, <2>3, <2>8, WireType, LenProperties
    <3> HIDE DEF W
    <3>2. Len(<<>>) = 0 /\ <<>> \o (<<>> \o <<>>) = <<>>
      BY Ends, ConcatEmptySeq
    <3>3. got' \o (mBuffer' \o wire') = <<>> /\ Len(got') = 0 /\ Len(mBuffer') = 0
      BY <1>1, <2>1, <3>2
    <3>4. Starts(<<>>, W) /\ 0 # Len(W) - 1 /\ 0 + 2 <= Len(W) /\ 0 + 0 # Len(W) - 1
      <4> DEFINE e == <<>>
      <4>1. Len(e) = 0
        BY <3>2
      <4> HIDE DEF e
      <4>2. Len(e) <= Len(W) /\ \A k \in 1..Len(e) : e[k] = W[k]
        BY <3>1, <4>1
      <4>3. Starts(e, W)
        BY <4>2 DEF Starts
      <4>4. Starts(<<>>, W)
        BY <4>3 DEF e
      <4>5. 0 # Len(W) - 1 /\ 0 + 2 <= Len(W) /\ 0 + 0 # Len(W) - 1
        <5>1. \A k \in Nat : k >= 3 => 0 # k - 1 /\ 0 + 2 <= k /\ 0 + 0 # k - 1
          OBVIOUS
        <5> QED
          BY <3>1, <5>1, Zenon
      <4> QED
        BY <4>4, <4>5
    <3>5. Part(got \o (mBuffer \o wire), Wire(sent.mail))'
      BY <1>1, <3>2, <3>3, <3>4 DEF Part, W
    <3>6. Len(got') + 2 <= Len(Wire(sent'.mail)) /\ Len(got') + Len(mBuffer') # Len(Wire(sent'.mail)) - 1
      BY <1>1, <3>3, <3>4 DEF W
    <3>7. InData'
      BY <1>1, <2>1, <2>6, <2>8, <3>5, <3>6 DEF InData
    <3> QED
      BY <2>6, <2>8, <3>7 DEF InStatus, InDone
  <2> QED
    BY <2>7, <2>8
<1> QED
  BY <1>2, <1>3

-----------------------------------------------------------------------------
LEMMA ReadDataKeeps ==
  ASSUME Pop3Assumption, Pop3TypeOK, Steady, NEW n \in 0..Len(wire), ReadData(n)
  PROVE  Steady'
<1> SUFFICES ASSUME ~torn' PROVE InStatus' /\ InData' /\ InDone'
  BY DEF Steady
<1> DEFINE chunk == IF mBuffer # <<>> THEN mBuffer ELSE SubSeq(wire, 1, n)
           end == EndOfData(got, chunk)
           text == IF end \in DOMAIN chunk THEN SubSeq(chunk, 1, end) ELSE chunk
           ends == end > 0 \/ EmptyContent(got \o chunk)
           W == Wire(sent.mail)
           X == got \o chunk
<1>1. /\ stage = "data"
      /\ IF mBuffer # <<>> THEN n = 0 ELSE n > 0
      /\ wire' = SubSeq(wire, n + 1, Len(wire))
      /\ mBuffer' = IF end > 0 THEN Unread(SubSeq(chunk, end + 1, Len(chunk)), <<>>) ELSE <<>>
      /\ got' = got \o text
      /\ stage' = IF UnreadFails(Len(chunk) - end) THEN "aborted" ELSE IF ends THEN "done" ELSE stage
      /\ out' = IF ends THEN DataOut(got') ELSE out
      /\ ~torn /\ ~Tears(n)
      /\ UNCHANGED <<cmd, owed, closed, mReply, sent>>
  BY DEF ReadData
<1>2. /\ ~owed /\ mReply = sent.ok /\ sent.mail # Nil
      /\ Part(got \o (mBuffer \o wire), W)
      /\ Len(got) + 2 <= Len(W)
      /\ Len(got) + Len(mBuffer) # Len(W) - 1
  BY <1>1 DEF Steady, InData
<1>3. wire \in Seq(Bytes) /\ mBuffer \in Seq(Bytes) /\ got \in Seq(Bytes) /\ sent.mail \in Mails
  BY <1>2 DEF Pop3TypeOK
<1>4. /\ W \in Seq(Bytes) /\ W[Len(W)] = LF /\ sent.mail \in Seq(Line)
      /\ Len(W) \in Nat /\ Len(got) \in Nat
  <2>1. sent.mail \in Seq(Line) /\ W \in Seq(Bytes)
    BY <1>3, WireType
  <2>2. W[Len(W)] = LF
    BY <2>1, WireEnds
  <2> QED
    BY <1>3, <2>1, <2>2, LenProperties
<1> HIDE DEF W
<1>5. chunk \in Seq(Bytes) /\ wire' \in Seq(Bytes) /\ mBuffer \o wire = chunk \o wire'
  <2>1. CASE mBuffer # <<>>
    <3>1. n = 0 /\ chunk = mBuffer
      BY <1>1, <2>1
    <3>2. wire' = SubSeq(wire, 1, Len(wire))
      BY <1>1, <3>1
    <3>3. wire' = wire
      BY <1>3, <3>2, SubSeqFull
    <3> QED
      BY <1>3, <3>1, <3>3
  <2>2. CASE mBuffer = <<>>
    <3>1. mBuffer \o wire = wire
      BY <1>3, <2>2, ConcatEmptySeq
    <3>2. chunk = SubSeq(wire, 1, n) /\ chunk \in Seq(Bytes) /\ wire = chunk \o wire'
      BY <1>1, <1>3, <2>2, UpToIs, Cut
    <3>3. n \in Nat
      BY <1>3, LenProperties
    <3>4. wire' \in Seq(Bytes)
      BY <1>1, <1>3, <3>3, FromIs
    <3> QED
      BY <3>1, <3>2, <3>4
  <2> QED
    BY <2>1, <2>2
<1>6. X \in Seq(Bytes) /\ Len(X) = Len(got) + Len(chunk) /\ got \o (mBuffer \o wire) = X \o wire'
  <2> HIDE DEF chunk
  <2>1. \A u \in Seq(Bytes) : (got \o chunk) \o u = got \o (chunk \o u)
    BY <1>3, <1>5, Joins
  <2> QED
    BY <1>3, <1>5, <2>1, Joins
<1>7. Starts(X, W) /\ Len(X) # Len(W) - 1
  <2>1. CASE mBuffer # <<>>
    <3>1. chunk = mBuffer
      BY <2>1
    <3> HIDE DEF X, chunk
    <3>2. Starts(X \o wire', W)
      BY <1>2, <1>6 DEF Part
    <3>3. Starts(X, W)
      BY <1>4, <1>5, <1>6, <3>2, StartsCut
    <3> QED
      BY <1>2, <1>6, <3>1, <3>3
  <2>2. CASE mBuffer = <<>>
    <3>1. mBuffer \o wire = wire /\ chunk = SubSeq(wire, 1, n)
      BY <1>3, <2>2, ConcatEmptySeq
    <3>2. Part(got \o wire, W)
      BY <1>2, <3>1
    <3> HIDE DEF chunk
    <3> QED
      BY <1>1, <1>2, <1>3, <1>4, <3>1, <3>2, PartCut
  <2> QED
    BY <2>1, <2>2
<1>8. Len(chunk) \in Nat /\ DOMAIN chunk = 1..Len(chunk) /\ Len(X) \in Nat
  BY <1>5, <1>6, LenProperties
<1> HIDE DEF chunk
<1>9. CASE Len(X) = Len(W)
  <2>1. X = W /\ wire' = <<>>
    <3> HIDE DEF X
    <3>1. Starts(X \o wire', W)
      BY <1>2, <1>6 DEF Part
    <3> QED
      BY <1>4, <1>5, <1>6, <1>9, <3>1, StartsCut
  <2>2. Len(chunk) >= 2
    BY <1>2, <1>4, <1>6, <1>8, <1>9
  <2>3. IF sent.mail = <<>> THEN end = 0 /\ EmptyContent(W) ELSE end = Len(chunk)
    BY <1>2, <1>3, <1>4, <1>5, <2>1, ReadsWhole DEF W
  <2> HIDE DEF end
  <2>4. text = chunk /\ mBuffer' = <<>> /\ Len(chunk) - end >= 0 /\ ends
    <3>1. CASE end = 0
      BY <1>1, <1>8, <2>1, <2>2, <2>3, <3>1
    <3>2. CASE end = Len(chunk)
      <4>1. end \in DOMAIN chunk /\ end > 0
        BY <1>8, <2>2, <3>2
      <4>2. text = chunk
        BY <1>5, <3>2, <4>1, SubSeqFull
      <4>3. SubSeq(chunk, end + 1, Len(chunk)) = <<>>
        BY <1>8, <3>2, SubSeqEmpty
      <4>4. mBuffer' = <<>>
        <5>1. <<>> \o <<>> = <<>>
          BY Ends, ConcatEmptySeq
        <5> QED
          BY <1>1, <4>1, <4>3, <5>1 DEF Unread
      <4> QED
        BY <1>8, <3>2, <4>1, <4>2, <4>4
    <3> QED
      BY <2>3, <3>1, <3>2
  <2> HIDE DEF ends, text
  <2>5. stage' = "done" /\ got' = W /\ out' = DataOut(W)
    <3>1. got' = W
      BY <1>1, <2>1, <2>4
    <3>2. ~UnreadFails(Len(chunk) - end)
      <4>1. end = 0 \/ end = Len(chunk)
        BY <2>3
      <4> QED
        BY <1>8, <2>4, <4>1 DEF UnreadFails
    <3> QED
      BY <1>1, <2>4, <3>1, <3>2
  <2>6. IF cmd # "RETR" THEN out' = W ELSE StartsWithDot(sent.mail) \/ out' = Joined(sent.mail)
    BY <1>4, <2>5, UnescapeIs DEF DataOut, W
  <2>7. InDone'
    BY <1>1, <1>2, <2>1, <2>4, <2>6 DEF InDone, Handed, W
  <2> QED
    BY <2>5, <2>7 DEF InStatus, InData
<1>10. CASE Len(X) # Len(W)
  <2>1. Len(X) + 1 < Len(W)
    BY <1>4, <1>7, <1>8, <1>10 DEF Starts
  <2>2. end = 0 /\ ~EmptyContent(X)
    BY <1>3, <1>4, <1>5, <1>7, <2>1, ReadsPart DEF W
  <2> HIDE DEF end
  <2>3. /\ text = chunk /\ mBuffer' = <<>> /\ ~ends
        /\ ~UnreadFails(Len(chunk) - end)
    BY <1>1, <1>8, <2>2 DEF UnreadFails
  <2>4. stage' = "data" /\ got' = X
    BY <1>1, <2>3
  <2> HIDE DEF X
  <2>5. got' \o (mBuffer' \o wire') = got \o (mBuffer \o wire)
    <3>1. \A u \in Seq(Bytes) : <<>> \o u = u
      BY ConcatEmptySeq
    <3> QED
      BY <1>5, <1>6, <2>3, <2>4, <3>1
  <2>6. Part(got \o (mBuffer \o wire), Wire(sent.mail))'
    BY <1>1, <1>2, <2>5 DEF Part, W
  <2>7. Len(got') + 2 <= Len(W) /\ Len(got') + Len(mBuffer') # Len(W) - 1
    <3>1. Len(mBuffer') = 0
      BY <2>3, Ends
    <3> QED
      BY <1>4, <1>7, <1>8, <2>1, <2>4, <3>1
  <2>8. InData'
    BY <1>1, <1>2, <2>6, <2>7 DEF InData, W
  <2> QED
    BY <2>4, <2>8 DEF InStatus, InDone
<1> QED
  BY <1>9, <1>10

-----------------------------------------------------------------------------
LEMMA Pop3InvInit == Pop3Init => Pop3Inv
<1> SUFFICES ASSUME Pop3Init PROVE Pop3Inv
  OBVIOUS
<1>1. Pop3TypeOK
  BY Pop3TypeInit
<1>2. Steady
  BY DEF Pop3Init, Steady, InStatus, InData, InDone
<1> QED
  BY <1>1, <1>2 DEF Pop3Inv

LEMMA Pop3InvNext == Pop3Assumption /\ Pop3Inv /\ [Pop3Next]_pop3Vars => Pop3Inv'
<1> SUFFICES ASSUME Pop3Assumption, Pop3Inv, [Pop3Next]_pop3Vars PROVE Pop3Inv'
  OBVIOUS
<1>1. Pop3TypeOK /\ Steady
  BY DEF Pop3Inv
<1>2. Pop3TypeOK'
  BY <1>1, Pop3TypeNext
<1>3. ASSUME Answer PROVE Steady'
  BY <1>1, <1>3, AnswerKeeps
<1>4. ASSUME Close PROVE Steady'
  BY <1>1, <1>4, CloseKeeps
<1>5. ASSUME NEW n \in 0..Len(wire), ReadStatus(n) PROVE Steady'
  BY <1>1, <1>5, ReadStatusKeeps
<1>6. ASSUME NEW n \in 0..Len(wire), ReadData(n) PROVE Steady'
  BY <1>1, <1>6, ReadDataKeeps
<1>7. ASSUME StatusCut PROVE Steady'
  BY <1>1, <1>7, StatusCutKeeps
<1>8. ASSUME \/ \E c \in Single \cup Multi : SendCommand(c) \/ CommandFails(c)
             \/ StatusFails \/ DataFails \/ Reconnect
             \/ UNCHANGED pop3Vars
      PROVE  Steady'
  BY <1>1, <1>8, OthersKeep
<1>9. Steady'
  BY <1>3, <1>4, <1>5, <1>6, <1>7, <1>8 DEF Pop3Next
<1> QED
  BY <1>2, <1>9 DEF Pop3Inv

(* Every value of the session is one that its declaration can hold.        *)
THEOREM Pop3TypeCorrect == Pop3Spec => []Pop3TypeOK
<1>1. Pop3Init => Pop3TypeOK
  BY Pop3TypeInit
<1>2. Pop3TypeOK /\ [Pop3Next]_pop3Vars => Pop3TypeOK'
  BY Pop3TypeNext, Pop3Assumption
<1> QED
  BY <1>1, <1>2, PTL DEF Pop3Spec

LEMMA Pop3InvHolds == Pop3Spec => []Pop3Inv
<1>1. Pop3Inv /\ [Pop3Next]_pop3Vars => Pop3Inv'
  BY Pop3InvNext, Pop3Assumption
<1> QED
  BY <1>1, Pop3InvInit, PTL DEF Pop3Spec

(* The client never waits for bytes of a reply that it has already read:   *)
(* the search for the end of the data (spnkreader.cpp:48-56) misses none,  *)
(* wherever the reads of the socket cut it.                                *)
THEOREM NeverWaitsHolds == Pop3Spec => []NeverWaitsInVain
<1>1. Pop3Inv => NeverWaitsInVain
  <2> SUFFICES ASSUME Pop3Inv, stage \in {"status", "data"}, wire = <<>>, mBuffer = <<>>,
                      ~torn, ~owed, ~closed
               PROVE  FALSE
    BY DEF NeverWaitsInVain
  <2>1. InStatus /\ InData /\ Pop3TypeOK
    BY DEF Pop3Inv, Steady
  <2>2. Len(<<>>) = 0 /\ <<>> \o <<>> = <<>> /\ <<>> \in Seq(Bytes)
    BY Ends, ConcatEmptySeq
  <2>3. CASE stage = "status"
    <3> DEFINE R == ReplyTo(sent.ok, sent.mail)
    <3>1. sent.ok \in {"+", "-"} /\ Len(mBuffer \o wire) = Len(R)
      BY <2>1, <2>3 DEF InStatus, Part
    <3>2. sent.mail \in {Nil} \cup Mails
      BY <2>1 DEF Pop3TypeOK
    <3>3. Len(R) >= 3
      <4>1. /\ sent.mail = Nil => Len(R) = 3
            /\ sent.mail # Nil => Len(R) = 3 + Len(Wire(sent.mail)) /\ Len(Wire(sent.mail)) >= 3
        BY <3>1, <3>2, Pop3Assumption, ReplyIs
      <4>2. sent.mail # Nil => Wire(sent.mail) \in Seq(Bytes)
        BY <3>2, Pop3Assumption, WireType
      <4>3. sent.mail # Nil => Len(Wire(sent.mail)) \in Nat
        BY <4>2, LenProperties
      <4> QED
        BY <4>1, <4>3
    <3> HIDE DEF R
    <3> QED
      BY <2>2, <3>1, <3>3
  <2>4. CASE stage = "data"
    <3> DEFINE W == Wire(sent.mail)
    <3>1. sent.mail # Nil /\ Len(got \o (mBuffer \o wire)) = Len(W) /\ Len(got) + 2 <= Len(W)
      BY <2>1, <2>4 DEF InData, Part
    <3>2. got \o (mBuffer \o wire) = got /\ Len(got) \in Nat
      BY <2>1, <2>2, ConcatEmptySeq, LenProperties DEF Pop3TypeOK
    <3> HIDE DEF W
    <3> QED
      BY <3>1, <3>2
  <2> QED
    BY <2>3, <2>4
<1> QED
  BY <1>1, Pop3InvHolds, PTL

(* A call that returns success has read its own reply to the last byte and *)
(* no further, reports the server's answer, and hands out the data that    *)
(* the server sent, for every mail and every way the network cuts it.      *)
THEOREM AnswerIsOwnHolds == Pop3Spec => []AnswerIsOwn
<1>1. Pop3Inv => AnswerIsOwn
  BY DEF Pop3Inv, Steady, InDone, Handed, AnswerIsOwn
<1> QED
  BY <1>1, Pop3InvHolds, PTL
=============================================================================
