----------------------------- MODULE Pop3Client -----------------------------
(***************************************************************************)
(* SP_NKPop3Client and SP_NKPop3Protocol (src/spnetkit/spnkpop3cli.cpp)    *)
(* over the buffer of SP_NKSocket (spnksocket.cpp): a session in which     *)
(* every command must read its own reply to the last byte, however the     *)
(* network cuts the replies into pieces.                                   *)
(*                                                                         *)
(* One step is one read of the socket and what the client makes of it.     *)
(* The peer is a server that stuffs dots as it should; it may refuse a     *)
(* command, fall silent, or close amid a reply.                            *)
(***************************************************************************)
EXTENDS DotTermReader

CONSTANTS
  Mails,      \* what the server may send as data: sequences of lines
  MaxUnread,  \* bound: bytes of earlier replies that a new command may find
  Nil         \* no text

Bytes == {"+", "-", "x", CR, LF, Dot}

(* CR and LF end lines and are not in them.                                *)
ASSUME Pop3Assumption ==
  /\ Mails \subseteq Seq(Seq(Bytes \ {CR, LF})) /\ Nil \notin Mails
  /\ MaxUnread \in Nat

(* The commands whose reply is a line, and those that read data after a    *)
(* reply that is OK.                                                       *)
Single == {"USER", "PASS", "LIST n", "DELE", "QUIT"}
Multi  == {"UIDL", "LIST", "TOP", "RETR"}

VARIABLES
  cmd,      \* the command whose reply is awaited or was read last
  stage,    \* "status", "data", "done", "failed" (-1), or "aborted"
  owed,     \* the server has not answered the command
  closed,   \* the peer has closed the connection
  wire,     \* bytes sent by the server and not read
  mBuffer,  \* the buffer of SP_NKSocket
  mReply,   \* the first byte of mReplyString
  got,      \* mBuffer of the reader
  out,      \* the text handed to the caller, Nil for none
  sent,     \* what the server answered: its first byte, and a mail or Nil
  torn      \* a read or the connection ended between the last CR and LF of data

pop3Vars == <<cmd, stage, owed, closed, wire, mBuffer, mReply, got, out, sent, torn>>

Unanswered == [ok |-> "", mail |-> Nil]

(* A connected socket, and welcome(), which only reads.                    *)
Pop3Init ==
  /\ cmd = "welcome" /\ stage = "status" /\ owed = TRUE /\ closed = FALSE
  /\ wire = <<>> /\ mBuffer = <<>>
  /\ mReply = "" /\ got = <<>> /\ out = Nil
  /\ sent = Unanswered /\ torn = FALSE

-----------------------------------------------------------------------------
(* The server.                                                             *)
StuffedLine(l) == (IF l # <<>> /\ l[1] = Dot THEN <<Dot>> ELSE <<>>) \o l \o CRLF
Wire(mail) ==
  FlattenSeq([i \in DOMAIN mail |-> StuffedLine(mail[i])]) \o <<Dot>> \o CRLF

Answer ==
  /\ owed /\ ~closed
  /\ \/ \E ok \in {"+", "-"} :
          /\ ok = "-" \/ cmd \notin Multi
          /\ wire' = wire \o <<ok>> \o CRLF
          /\ sent' = [ok |-> ok, mail |-> Nil]
     \/ /\ cmd \in Multi
        /\ \E mail \in Mails :
             /\ wire' = wire \o <<"+">> \o CRLF \o Wire(mail)
             /\ sent' = [ok |-> "+", mail |-> mail]
  /\ owed' = FALSE
  /\ UNCHANGED <<cmd, stage, closed, mBuffer, mReply, got, out, torn>>

(* The last LF of an answer with data is cut from what comes before it.    *)
Tears(n) == wire # <<>> /\ n = Len(wire) - 1 /\ wire[n + 1] = LF /\ sent.mail # Nil

(* The connection ends; what was on its way may be lost.                   *)
Close ==
  /\ ~closed
  /\ closed' = TRUE
  /\ \E n \in 0..Len(wire) :
       wire' = SubSeq(wire, 1, n) /\ torn' = (torn \/ Tears(n))
  /\ UNCHANGED <<cmd, stage, owed, mBuffer, mReply, got, out, sent>>

-----------------------------------------------------------------------------
(* The client.                                                             *)

(* login() goes on from welcome to USER and from USER to PASS if the reply *)
(* was OK; the other calls come in any order, the last one being quit().   *)
MaySend(c) ==
  IF cmd = "welcome" /\ mReply = "+" THEN c = "USER"
  ELSE IF cmd = "USER" /\ mReply = "+" THEN c = "PASS"
  ELSE c \notin {"USER", "PASS"}

(* printf() of a command succeeds.                                         *)
SendCommand(c) ==
  /\ stage = "done" /\ cmd # "QUIT" /\ MaySend(c)
  /\ Len(wire) + Len(mBuffer) <= MaxUnread
  /\ cmd' = c /\ stage' = "status" /\ owed' = TRUE
  /\ got' = <<>> /\ out' = Nil /\ sent' = Unanswered
  /\ UNCHANGED <<closed, wire, mBuffer, mReply, torn>>

(* printf() fails.                                                         *)
CommandFails(c) ==
  /\ stage = "done" /\ cmd # "QUIT" /\ MaySend(c) /\ closed
  /\ cmd' = c /\ stage' = "failed" /\ mReply' = "E"
  /\ got' = <<>> /\ out' = Nil /\ sent' = Unanswered
  /\ UNCHANGED <<owed, closed, wire, mBuffer, torn>>

(* Slips the code could make: strtok() for the line, which gives NULL for  *)
(* an empty one; the dots removed in the wrong call.                       *)
FirstByteOrNull(line) == IF line = <<>> THEN Nil ELSE line[1]

DataOutRaw(text) == IF cmd = "TOP" THEN getUnescapeBuffer(text) ELSE text

FirstByte(line) == IF line = <<>> THEN "" ELSE line[1]

(* What the caller of a command with data is given: retr() is the one that *)
(* removes dots.                                                           *)
DataOut(text) == IF cmd = "RETR" THEN getUnescapeBuffer(text) ELSE text

(* readline() for the first line of the reply: n bytes are received if     *)
(* mBuffer has no line yet; a line that is found leaves the rest in        *)
(* mBuffer.  The LF and a CR before it are not part of the line.           *)
Eol(buff) == SelectInSeq(buff, LAMBDA c : c = LF)

ReadStatus(n) ==
  LET buff == mBuffer \o SubSeq(wire, 1, n)
      eol  == Eol(buff)
      line == SubSeq(buff, 1, IF eol > 1 /\ buff[eol - 1] = CR THEN eol - 2 ELSE eol - 1)
  IN
  /\ stage = "status"
  /\ IF Eol(mBuffer) > 0 THEN n = 0 ELSE n > 0
  /\ wire' = SubSeq(wire, n + 1, Len(wire))
  /\ mBuffer' = SubSeq(buff, eol + 1, Len(buff))
  /\ IF eol = 0 THEN UNCHANGED <<stage, mReply>>
     ELSE /\ mReply' = FirstByte(line)
          /\ stage' = IF cmd \in Multi /\ mReply' = "+" THEN "data" ELSE "done"
  /\ torn' = (torn \/ Tears(n))
  /\ UNCHANGED <<cmd, owed, closed, got, out, sent>>

(* readline() when the peer has closed returns what it has, if anything.   *)
StatusCut ==
  /\ stage = "status" /\ closed /\ wire = <<>>
  /\ Eol(mBuffer) = 0
  /\ IF mBuffer = <<>> THEN mReply' = "N" /\ stage' = "failed"
     ELSE /\ mReply' = mBuffer[1]
          /\ stage' = IF cmd \in Multi /\ mReply' = "+" THEN "data" ELSE "done"
  /\ mBuffer' = <<>>
  /\ UNCHANGED <<cmd, owed, closed, wire, got, out, sent, torn>>

(* readline() that times out or fails keeps what it has and returns -1.    *)
StatusFails ==
  /\ stage = "status" /\ wire = <<>>
  /\ Eol(mBuffer) = 0
  /\ stage' = "failed" /\ mReply' = "N"
  /\ UNCHANGED <<cmd, owed, closed, wire, mBuffer, got, out, sent, torn>>

(* unread() of len bytes puts them before what is left in the buffer.  It  *)
(* fails when they do not fit: here only with a len of -1, a size_t, since *)
(* they have just been read.                                               *)
UnreadFails(len) == len < 0
Unread(rest, buff) == rest \o buff

(* A turn of the reader's loop.  SP_NKSocket::read() gives all of mBuffer, *)
(* or n bytes that it receives.  The assert() around unread() fails with   *)
(* it.                                                                     *)
ReadData(n) ==
  LET chunk == IF mBuffer # <<>> THEN mBuffer ELSE SubSeq(wire, 1, n)
      end   == EndOfData(got, chunk)
      text  == IF end \in DOMAIN chunk THEN SubSeq(chunk, 1, end) ELSE chunk
      ends  == end > 0 \/ EmptyContent(got \o chunk)
  IN
  /\ stage = "data"
  /\ IF mBuffer # <<>> THEN n = 0 ELSE n > 0
  /\ wire' = SubSeq(wire, n + 1, Len(wire))
  /\ mBuffer' = IF end > 0 THEN Unread(SubSeq(chunk, end + 1, Len(chunk)), <<>>) ELSE <<>>
  /\ got' = got \o text
  /\ stage' = IF UnreadFails(Len(chunk) - end) THEN "aborted" ELSE IF ends THEN "done" ELSE stage
  /\ out' = IF ends THEN DataOut(got') ELSE out
  /\ torn' = (torn \/ Tears(n))
  /\ UNCHANGED <<cmd, owed, closed, mReply, sent>>

(* read() times out, fails, or finds the connection closed.                *)
DataFails ==
  /\ stage = "data" /\ mBuffer = <<>> /\ wire = <<>>
  /\ stage' = "failed" /\ mReply' = "-"
  /\ UNCHANGED <<cmd, owed, closed, wire, mBuffer, got, out, sent, torn>>

(* The application gives the session up and opens another one.             *)
Reconnect ==
  /\ stage \in {"done", "failed"}
  /\ cmd' = "welcome" /\ stage' = "status" /\ owed' = TRUE /\ closed' = FALSE
  /\ wire' = <<>> /\ mBuffer' = <<>>
  /\ mReply' = "" /\ got' = <<>> /\ out' = Nil
  /\ sent' = Unanswered /\ torn' = FALSE

Pop3Next ==
  \/ Answer
  \/ Close
  \/ \E c \in Single \cup Multi : SendCommand(c) \/ CommandFails(c)
  \/ \E n \in 0..Len(wire) : ReadStatus(n) \/ ReadData(n)
  \/ StatusCut
  \/ StatusFails
  \/ DataFails
  \/ Reconnect

Pop3Spec == Pop3Init /\ [][Pop3Next]_pop3Vars

-----------------------------------------------------------------------------
(* Every variable ranges over what its C++ declaration can hold.           *)
Pop3TypeOK ==
  /\ cmd \in {"welcome"} \cup Single \cup Multi
  /\ stage \in {"status", "data", "done", "failed", "aborted"}
  /\ owed \in BOOLEAN /\ closed \in BOOLEAN /\ torn \in BOOLEAN
  /\ wire \in Seq(Bytes) /\ mBuffer \in Seq(Bytes) /\ got \in Seq(Bytes)
  /\ mReply \in {"", "E", "N"} \cup Bytes
  /\ out = Nil \/ out \in Seq(Bytes)
  /\ sent \in [ok : {"", "+", "-"}, mail : {Nil} \cup Mails]

(* A client that waits for the network waits for bytes the server has yet  *)
(* to send: the end of a reply is found over every boundary of the reads   *)
(* (spnkreader.cpp:48-56), also the one that readline() leaves behind.     *)
(* Left out are the sessions that were torn: after a read that ended       *)
(* between the last CR and LF of data the reader may be a reply behind.    *)
NeverWaitsInVain ==
  stage \in {"status", "data"} /\ wire = <<>> /\ mBuffer = <<>> /\ ~torn
    => owed \/ closed

Joined(mail) == FlattenSeq([i \in DOMAIN mail |->
                              IF i < Len(mail) THEN mail[i] \o CRLF ELSE mail[i]])
StartsWithDot(mail) == mail # <<>> /\ mail[1] # <<>> /\ mail[1][1] = Dot

(* When a call returns success its reply has been read to the last byte    *)
(* and no further, however it came in pieces, so that the next command     *)
(* reads its own; the one cut that breaks this is between the CR and the   *)
(* LF of a reply without content (spnkreader.cpp:76).  The call reports    *)
(* the server's answer and hands out its data: retr() the mail as the      *)
(* server has it, if it does not begin with a dot, the other calls the     *)
(* lines as they were sent.                                                *)
AnswerIsOwn ==
  stage = "done" /\ ~torn =>
    /\ wire = <<>> /\ mBuffer = <<>>
    /\ mReply = sent.ok
    /\ sent.mail # Nil =>
         IF cmd # "RETR" THEN out = Wire(sent.mail)
         ELSE StartsWithDot(sent.mail) \/ out = Joined(sent.mail)
=============================================================================
