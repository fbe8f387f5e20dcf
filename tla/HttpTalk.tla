------------------------------ MODULE HttpTalk ------------------------------
(***************************************************************************)
(* The library's HTTP and ICAP clients (SP_NKHttpProtocol in               *)
(* src/spnetkit/spnkhttpcli.cpp, SP_NKIcapProtocol in spnkicapcli.cpp) and *)
(* its HTTP server (SP_NKHttpServer::dispatch in spnkhttpsvr.cpp), each at *)
(* one end of a connection with the other or with a foreign peer.          *)
(*                                                                         *)
(* One step is one readline(), readn() or read().  What is written arrives *)
(* later, a unit at a time; reads time out while nothing has arrived; the  *)
(* connection may break anywhere.                                          *)
(***************************************************************************)
EXTENDS HttpMsg

CONSTANTS
  Pairs,            \* which <<client, server>> talk: "http", "icap", "other"
  OwnRequests,      \* what the application asks for: start, headers, content
  ForeignRequests,  \* what a foreign client sends: start, headers, chunks
  HandlerAnswers,   \* what the handler may answer: start, headers, content
  ForeignAnswers,   \* what a foreign HTTP server answers: as ForeignRequests
  IcapAnswers,      \* what an ICAP server answers: start, headers, the units
                    \* of the first parts, whether a part in chunks follows
  Encs,             \* values of Encapsulated: sequences of <<name, offset>>
  MaxCalls,         \* bound: calls on one connection
  Nil

Ends == {"C", "S"}
Peer(e) == IF e = "C" THEN "S" ELSE "C"

VARIABLES
  ends,    \* the pair that talks
  out,     \* what each end has written and the other has not received
  pipe,    \* what has arrived at each end and is unread, mBuffer included
  open,    \* which ends have the connection open
  at,      \* what each end is doing
  msg,     \* the message each end is reading
  pend,    \* multiLine in recvHeaders()
  size,    \* size in recvBody() and recvPart()
  parts,   \* the parts of the ICAP answer not yet read, the current one first
  calls,   \* calls begun on the connection
  asked,   \* the request of the current call, Nil before the first
  given,   \* the answer to it, Nil while there is none
  ret,     \* what the handler returned last
  torn     \* a read timed out amid content, and what it had read was lost

readVars == <<at, msg, pend, size, parts>>
callVars == <<calls, asked, given, ret>>
vars == <<ends, out, pipe, open, readVars, callVars, torn>>

Icap(e) == e = "C" /\ ends[1] = "icap"
Ours(e) == IF e = "C" THEN ends[1] # "other" ELSE ends[2] # "other"

Init ==
  /\ ends \in Pairs
  /\ out = [e \in Ends |-> <<>>] /\ pipe = [e \in Ends |-> <<>>]
  /\ open = [e \in Ends |-> TRUE]
  /\ at = [C |-> "idle", S |-> IF ends[2] = "http" THEN "start" ELSE "wait"]
  /\ msg = [e \in Ends |-> Message] /\ pend = [e \in Ends |-> <<>>]
  /\ size = [e \in Ends |-> 0] /\ parts = <<>>
  /\ calls = 0 /\ asked = Nil /\ given = Nil /\ ret = 0 /\ torn = FALSE

-----------------------------------------------------------------------------
(* The network.                                                            *)
Arrive(e) ==
  /\ Ours(e) /\ open[e] /\ out[Peer(e)] # <<>>
  /\ pipe' = [pipe EXCEPT ![e] = Append(@, Head(out[Peer(e)]))]
  /\ out' = [out EXCEPT ![Peer(e)] = Tail(@)]
  /\ UNCHANGED <<ends, open, readVars, callVars, torn>>

(* What is on its way to e is lost, perhaps from the middle of a line on.  *)
Break(e) ==
  LET o == out[Peer(e)] IN
  /\ Ours(e) /\ open[e] /\ (open[Peer(e)] \/ o # <<>>)
  /\ \/ UNCHANGED pipe
     \/ /\ o # <<>> /\ Head(o)[1] \notin {"data", "size"}
        /\ pipe' = [pipe EXCEPT ![e] = Append(@, <<"cut", <<>>>>)]
  /\ out' = [out EXCEPT ![Peer(e)] = <<>>]
  /\ open' = [open EXCEPT ![Peer(e)] = FALSE]
  /\ UNCHANGED <<ends, readVars, callVars, torn>>

Eof(e) == ~open[Peer(e)] /\ out[Peer(e)] = <<>>

(* readline() takes bytes of content before a line for a part of it.       *)
LineAt(e) == SelectInSeq(pipe[e], LAMBDA u : u[1] # "data")
HasLine(e) == LineAt(e) # 0 \/ (Eof(e) /\ pipe[e] # <<>>)
Line(e) == IF LineAt(e) = 1 THEN pipe[e][1] ELSE <<"garbage", <<>>>>
AfterLine(e) == IF LineAt(e) = 0 THEN <<>> ELSE SubSeq(pipe[e], LineAt(e) + 1, Len(pipe[e]))

Values(units) == FlattenSeq([i \in DOMAIN units |-> units[i][2]])

-----------------------------------------------------------------------------
(* Going on.                                                               *)
Goto(e, place) == at' = [at EXCEPT ![e] = place]

(* The call, or the reading of the request, has failed: the application    *)
(* gives the connection up, and dispatch() returns.                        *)
Fail(e) ==
  /\ Goto(e, "fail")
  /\ open' = [open EXCEPT ![e] = FALSE]
  /\ size' = [size EXCEPT ![e] = 0] /\ parts' = <<>>

Complete(e) ==
  /\ Goto(e, IF e = "C" THEN "done" ELSE "handle")
  /\ size' = [size EXCEPT ![e] = 0] /\ parts' = <<>>
  /\ UNCHANGED open

(* The part ps[1] is the next one to read; a length of 0 means chunks.     *)
ReadPart(e, ps) ==
  /\ parts' = ps /\ size' = [size EXCEPT ![e] = Head(ps).len]
  /\ Goto(e, IF Head(ps).len = 0 THEN "size" ELSE "block")
  /\ UNCHANGED open

(* The content or the part has been read, or not.  In ICAP the next part   *)
(* follows whatever became of this one.                                    *)
EndContent(e, ok) ==
  IF Icap(e) /\ Len(parts) > 1 THEN ReadPart(e, Tail(parts))
  ELSE IF ok THEN Complete(e) ELSE Fail(e)

(* The headers have been read: what follows them.                          *)
AfterHeaders(e, m) ==
  IF Icap(e) THEN
    IF ~HasHeader(m.headers, Encapsulated) THEN Fail(e)
    ELSE LET ps == parseEnc(Encs[getHeaderValue(m.headers, Encapsulated)[1]]) IN
         IF ps = <<>> THEN Complete(e) ELSE ReadPart(e, ps)
  ELSE
    LET framing == Framing(m, e = "C")
        n == IF framing = "length" THEN getHeaderValue(m.headers, CL)[1] ELSE 0
    IN
    IF \/ e = "C" /\ (asked.start[1] = "HEAD" \/ m.start[2] = <<304>>)
       \/ framing = "none"
       \/ framing = "length" /\ n = 0
    THEN Complete(e)
    ELSE /\ Goto(e, CASE framing = "chunked" -> "size"
                      [] framing = "length" -> "block"
                      [] framing = "close" -> "close")
         /\ size' = [size EXCEPT ![e] = n]
         /\ UNCHANGED <<parts, open>>

-----------------------------------------------------------------------------
(* Reading a message.                                                      *)
Expected(e, line) == e = "S" \/ line[1] = IF Icap(e) THEN "ICAP" ELSE "HTTP"

ReadStart(e) ==
  /\ at[e] = "start" /\ HasLine(e)
  /\ pipe' = [pipe EXCEPT ![e] = AfterLine(e)]
  /\ IF Expected(e, Line(e))
     THEN /\ msg' = [msg EXCEPT ![e].start = Line(e)]
          /\ Goto(e, "headers")
          /\ UNCHANGED <<open, size, parts>>
     ELSE Fail(e) /\ UNCHANGED msg
  /\ UNCHANGED <<ends, out, pend, callVars, torn>>

ReadHeader(e) ==
  LET m == [msg[e] EXCEPT !.headers = Flushed(@, pend[e], Line(e))] IN
  /\ at[e] = "headers" /\ HasLine(e)
  /\ pipe' = [pipe EXCEPT ![e] = AfterLine(e)]
  /\ msg' = [msg EXCEPT ![e] = m]
  /\ pend' = [pend EXCEPT ![e] = Gathered(@, Line(e))]
  /\ IF Line(e) = Eol THEN AfterHeaders(e, m) ELSE UNCHANGED <<at, open, size, parts>>
  /\ UNCHANGED <<ends, out, callVars, torn>>

SizeOf(line) == IF line[1] = "size" THEN line[2][1] ELSE 0

ReadSize(e) ==
  LET n == SizeOf(Line(e)) IN
  /\ at[e] = "size" /\ HasLine(e)
  /\ pipe' = [pipe EXCEPT ![e] = AfterLine(e)]
  /\ IF n > 0
     THEN Goto(e, "chunk") /\ size' = [size EXCEPT ![e] = n] /\ UNCHANGED <<open, parts>>
     ELSE EndContent(e, TRUE)
  /\ UNCHANGED <<ends, out, msg, pend, callVars, torn>>

(* What readn() brings is appended to the content, except that of an ICAP  *)
(* part that is not a body.                                                *)
Keeps(e) == ~Icap(e) \/ Head(parts).name \in {"res-body", "opt-body"}

ReadN(e) ==
  /\ Len(pipe[e]) >= size[e]
  /\ msg' = IF Keeps(e)
            THEN [msg EXCEPT ![e].content = @ \o Values(SubSeq(pipe[e], 1, size[e]))]
            ELSE msg
  /\ pipe' = [pipe EXCEPT ![e] = SubSeq(@, size[e] + 1, Len(@))]

(* readn() ends early: what it has read so far is lost to the caller.      *)
ReadNFails(e) ==
  /\ Len(pipe[e]) < size[e]
  /\ pipe' = [pipe EXCEPT ![e] = <<>>]
  /\ torn' = (torn \/ ~Eof(e))

(* The HTTP client reads the line after a chunk, the ICAP client does not. *)
AfterChunk(e) == IF Icap(e) THEN "size" ELSE "crlf"

ReadChunk(e) ==
  /\ at[e] = "chunk" /\ ReadN(e)
  /\ Goto(e, AfterChunk(e)) /\ size' = [size EXCEPT ![e] = 0]
  /\ UNCHANGED <<ends, out, open, pend, parts, callVars, torn>>

(* recvBody() goes on to the line after the chunk all the same.            *)
ChunkFails(e) ==
  /\ at[e] = "chunk" /\ ReadNFails(e)
  /\ IF Icap(e) THEN EndContent(e, FALSE)
     ELSE Goto(e, "crlf") /\ size' = [size EXCEPT ![e] = 0] /\ UNCHANGED <<open, parts>>
  /\ UNCHANGED <<ends, out, msg, pend, callVars>>

ReadCrlf(e) ==
  /\ at[e] = "crlf" /\ HasLine(e)
  /\ pipe' = [pipe EXCEPT ![e] = AfterLine(e)]
  /\ Goto(e, "size")
  /\ UNCHANGED <<ends, out, open, msg, pend, size, parts, callVars, torn>>

ReadBlock(e) ==
  /\ at[e] = "block" /\ ReadN(e) /\ EndContent(e, TRUE)
  /\ UNCHANGED <<ends, out, pend, callVars, torn>>

BlockFails(e) ==
  /\ at[e] = "block" /\ ReadNFails(e) /\ EndContent(e, FALSE)
  /\ UNCHANGED <<ends, out, msg, pend, callVars>>

ReadToClose(e) ==
  /\ at[e] = "close" /\ pipe[e] # <<>>
  /\ msg' = [msg EXCEPT ![e].content = @ \o Values(pipe[e])]
  /\ pipe' = [pipe EXCEPT ![e] = <<>>]
  /\ UNCHANGED <<ends, out, open, at, pend, size, parts, callVars, torn>>

Closed(e) ==
  /\ at[e] = "close" /\ pipe[e] = <<>> /\ EndContent(e, Eof(e))
  /\ UNCHANGED <<ends, out, pipe, msg, pend, callVars, torn>>

(* readline() gives 0 or -1: the end of the connection, or a timeout.      *)
LineFails(e) ==
  /\ at[e] \in {"start", "headers", "size", "crlf"} /\ ~HasLine(e)
  /\ IF at[e] = "size" THEN EndContent(e, FALSE) ELSE Fail(e)
  /\ UNCHANGED <<ends, out, pipe, msg, pend, callVars, torn>>

-----------------------------------------------------------------------------
(* Calls of the application: get(), post(), head(), options(), respMod().  *)

(* The requests of ICAP; respMod() gives up after the size of an empty     *)
(* buffer, since writen() of nothing returns 0.                            *)
IcapOnWire(req) ==
  IF req.start[1] = "OPTIONS" THEN <<req.start, Eol>>
  ELSE <<req.start, Eol, <<"size", <<Len(req.content)>>>>>> \o
       (IF req.content = <<>> THEN <<>>
        ELSE Bytes(req.content) \o <<Eol, <<"size", <<0>>>>, Eol>>)

Protocol(req) == IF req.start[1] \in {"OPTIONS", "RESPMOD"} THEN "icap" ELSE "http"

Call(req) ==
  /\ Protocol(req) = ends[1] /\ at["C"] \in {"idle", "done"} /\ calls < MaxCalls
  /\ calls' = calls + 1 /\ asked' = req /\ given' = Nil
  /\ out' = [out EXCEPT !["C"] = @ \o (IF Icap("C") THEN IcapOnWire(req) ELSE RequestOnWire(req))]
  /\ IF req.start[1] = "RESPMOD" /\ req.content = <<>> THEN Fail("C")
     ELSE Goto("C", "start") /\ UNCHANGED <<open, size, parts>>
  /\ msg' = [msg EXCEPT !["C"] = Message] /\ pend' = [pend EXCEPT !["C"] = <<>>]
  /\ UNCHANGED <<ends, pipe, ret, torn>>

(* A write fails because the server has closed the connection.             *)
CallFails(req) ==
  /\ Protocol(req) = ends[1] /\ at["C"] \in {"idle", "done"} /\ calls < MaxCalls
  /\ ~open["S"]
  /\ calls' = calls + 1 /\ asked' = req /\ given' = Nil
  /\ Fail("C")
  /\ UNCHANGED <<ends, out, pipe, msg, pend, ret, torn>>

(* dispatch() has the whole request: the handler, its answer, and the test *)
(* of the loop.  The sockRet that the answer sets is one declared within   *)
(* the loop; the one tested stays 0, so that no handler keeps the          *)
(* connection (spnkhttpsvr.cpp:20, 28, 40).                                *)
TestedSockRet == 0

Dispatch(a, r) ==
  LET resp == fixRespHeaders(msg["S"], a) IN
  /\ at["S"] = "handle"
  /\ given' = resp /\ ret' = r
  /\ msg' = [msg EXCEPT !["S"] = Message]
  /\ out' = [out EXCEPT !["S"] = @ \o sendResp(resp)]
  /\ IF r = 0 /\ TestedSockRet > 0
     THEN Goto("S", "start") /\ UNCHANGED open
     ELSE Goto("S", "end") /\ open' = [open EXCEPT !["S"] = FALSE]
  /\ UNCHANGED <<ends, pipe, pend, size, parts, calls, asked, torn>>

-----------------------------------------------------------------------------
(* Foreign peers.                                                          *)

(* They fold a header with two values over two lines.                      *)
Folded(h) ==
  IF Len(h[2]) < 2 THEN <<h>> ELSE <<<<h[1], SubSeq(h[2], 1, 1)>>, <<"fold", Tail(h[2])>>>>

InChunks(chunks) ==
  FlattenSeq([i \in DOMAIN chunks |->
                <<<<"size", <<Len(chunks[i])>>>>>> \o Bytes(chunks[i]) \o <<Eol>>])
  \o <<<<"size", <<0>>>>, Eol>>

ForeignOnWire(m, content) ==
  <<m.start>> \o FlattenSeq([i \in DOMAIN m.headers |-> Folded(m.headers[i])]) \o <<Eol>>
  \o content

Plain(m) == [start |-> m.start, headers |-> m.headers, content |-> FlattenSeq(m.chunks)]

Content(m) == IF HasHeader(m.headers, TE) THEN InChunks(m.chunks)
              ELSE Bytes(FlattenSeq(m.chunks))

ForeignCall(req) ==
  /\ ends[1] = "other" /\ at["C"] = "idle"
  /\ asked' = Plain(req)
  /\ out' = [out EXCEPT !["C"] = ForeignOnWire(req, Content(req))]
  /\ Goto("C", "end")
  /\ UNCHANGED <<ends, pipe, open, msg, pend, size, parts, calls, given, ret, torn>>

(* Where an answer of a foreign server ends is HTTP's rule and not the     *)
(* client's: an answer to HEAD and a 204 or 304 have no content, others    *)
(* have it in chunks, of a length, or up to the close.                     *)
WithoutContent(a) == asked.start[1] = "HEAD" \/ a.start[2] \in {<<204>>, <<304>>}

EndsByClose(a) ==
  ~WithoutContent(a) /\ ~HasHeader(a.headers, TE) /\ ~HasHeader(a.headers, CL)

(* The server has the whole request and answers; one whose answer ends     *)
(* with the connection closes it, and others may close it too              *)
(* (ForeignQuits).                                                         *)
ForeignAnswer(a) ==
  LET content == IF Icap("C")
                 THEN a.head \o (IF a.chunked THEN InChunks(a.chunks) ELSE <<>>)
                 ELSE IF WithoutContent(a) THEN <<>> ELSE Content(a)
  IN
  /\ at["S"] = "wait" /\ open["S"] /\ out["C"] # <<>> /\ at["C"] = "start"
  /\ given' = [start |-> a.start, headers |-> a.headers,
               content |-> IF WithoutContent(a) THEN <<>> ELSE FlattenSeq(a.chunks)]
  /\ out' = [C |-> <<>>, S |-> ForeignOnWire(a, content)]
  /\ IF ~Icap("C") /\ EndsByClose(a)
     THEN Goto("S", "end") /\ open' = [open EXCEPT !["S"] = FALSE]
     ELSE UNCHANGED <<at, open>>
  /\ UNCHANGED <<ends, pipe, msg, pend, size, parts, calls, asked, ret, torn>>

ForeignQuits ==
  /\ at["S"] = "wait" /\ open["S"]
  /\ open' = [open EXCEPT !["S"] = FALSE]
  /\ UNCHANGED <<ends, out, pipe, readVars, callVars, torn>>

Next ==
  \/ \E e \in Ends :
       \/ Arrive(e) \/ Break(e)
       \/ ReadStart(e) \/ ReadHeader(e)
       \/ ReadSize(e) \/ ReadChunk(e) \/ ChunkFails(e) \/ ReadCrlf(e)
       \/ ReadBlock(e) \/ BlockFails(e) \/ ReadToClose(e) \/ Closed(e)
       \/ LineFails(e)
  \/ \E req \in OwnRequests : Call(req) \/ CallFails(req)
  \/ \E a \in HandlerAnswers, r \in {0, -1} : Dispatch(a, r)
  \/ \E req \in ForeignRequests : ForeignCall(req)
  \/ \E a \in IF ends[1] = "icap" THEN IcapAnswers ELSE ForeignAnswers : ForeignAnswer(a)
  \/ ForeignQuits

Spec == Init /\ [][Next]_vars

-----------------------------------------------------------------------------
(* The properties.                                                         *)
Reading == {"start", "headers", "size", "chunk", "crlf", "block", "close"}

(* Sizes and parts are set exactly where they are used, and a message that *)
(* is not being read any more has no header lines pending.                 *)
TypeOK ==
  /\ ends \in Pairs /\ open \in [Ends -> BOOLEAN] /\ torn \in BOOLEAN
  /\ ret \in {0, -1}
  /\ at["C"] \in {"idle", "done", "fail", "end"} \cup Reading
  /\ at["S"] \in {"wait", "handle", "fail", "end"} \cup Reading
  /\ calls \in 0..MaxCalls
  /\ \A e \in Ends :
       /\ (size[e] > 0) = (at[e] \in {"chunk", "block"})
       /\ at[e] \notin {"headers", "fail"} => pend[e] = <<>>
       /\ at[e] = "fail" => ~open[e]
  /\ parts # <<>> => at["C"] \in {"size", "chunk", "block"}

(* What a reader at this place can use has arrived.                        *)
Ready(e) ==
  CASE at[e] \in {"chunk", "block"} -> Len(pipe[e]) >= size[e]
    [] at[e] = "close" -> pipe[e] # <<>>
    [] OTHER -> HasLine(e)

(* The client reads a 204 without a length to the end of the connection,   *)
(* since it exempts only 304 (spnkhttpcli.cpp:31, 61), and a server that   *)
(* keeps the connection has nothing more to send.                          *)
WaitsFor204(e) ==
  e = "C" /\ at[e] = "close" /\ given # Nil /\ given.start[2] = <<204>>

(* A reader that waits for the network waits for something that the other  *)
(* end has still to do: client and server, each by its own rules, agree    *)
(* where every message ends (recvBody(), recvPart(), sendReqHeader(),      *)
(* fixRespHeaders()), and never wait for each other, except in the one     *)
(* case named above.                                                       *)
NeverWaitsInVain ==
  \A e \in Ends : Ours(e) /\ at[e] \in Reading /\ ~torn =>
    \/ Ready(e) \/ Eof(e) \/ out[Peer(e)] # <<>>
    \/ e = "C" /\ (at["S"] \in Reading \cup {"handle"} \/ out["C"] # <<>>)
    \/ e = "S" /\ at["C"] = "idle"
    \/ WaitsFor204(e)

(* The answer that a call returns with success is the one to its own       *)
(* request and whole, whether the connection breaks, is used again, or     *)
(* has bytes left over from the last call.  Content up to the end of the   *)
(* connection may be cut; and a read that times out within a chunk is not  *)
(* noticed (spnkhttputils.cpp:273), nor the second chunk of an ICAP body   *)
(* (spnkicapcli.cpp:223).                                                  *)
AnswerWhole ==
  at["C"] = "done" /\ ~torn =>
    /\ given # Nil
    /\ msg["C"].start = given.start /\ msg["C"].headers = given.headers
    /\ LET got == msg["C"].content
           cut == Icap("C") \/ EndsByClose(given)
       IN /\ IF cut THEN IsPrefix(got, given.content)
             ELSE got = IF asked.start[1] = "HEAD" THEN <<>> ELSE given.content
          /\ Icap("C") /\ given.content # <<>> => got # <<>>

(* The handler is called only with a request that has come whole, with the *)
(* content its sender meant and none of the bytes around it.               *)
HandlerGetsWhole ==
  at["S"] = "handle" /\ ~torn =>
    /\ msg["S"].start = asked.start
    /\ msg["S"].content = asked.content
    /\ \A h \in ToSet(asked.headers) : h[1] # CL => h \in ToSet(msg["S"].headers)

(* Both sides of a talk get what the other one meant.                      *)
MessagesWhole == AnswerWhole /\ HandlerGetsWhole

(* The result 0 of a handler keeps the connection, -1 closes it            *)
(* (spnkhttpsvr.hpp:17): dispatch() closes no connection over which the    *)
(* handler's answer has gone out with 0.                                   *)
ZeroKeepsConnection == ends[2] = "http" /\ at["S"] = "end" => ret = -1
=============================================================================
