------------------------------- MODULE HttpMsg -------------------------------
(***************************************************************************)
(* SP_NKHttpMessage (src/spnetkit/spnkhttpmsg.cpp) and the helpers of      *)
(* spnkhttputils.cpp and spnkicapcli.cpp that work on one message.         *)
(*                                                                         *)
(* A message in memory is a record of its first line, its headers, a list  *)
(* of <<name, value>>, and its content.  On the wire it is a sequence of   *)
(* units: a line, or a byte of content.  Every unit is a pair <<kind, v>>  *)
(* with a sequence of numbers v; "eol" is an empty line, "size" the line   *)
(* before a chunk, "fold" a line that continues a header, "cut" a line     *)
(* that the end of the connection cut short.                               *)
(***************************************************************************)
EXTENDS Integers, Sequences, FiniteSets, SequencesExt

CL == "Content-Length"
TE == "Transfer-Encoding"
KA == "Connection"     \* its value is always Keep-Alive
Encapsulated == "Encapsulated"

Eol == <<"eol", <<>>>>
Bytes(s) == [i \in DOMAIN s |-> <<"data", <<s[i]>>>>]

Message == [start |-> <<"", <<>>>>, headers |-> <<>>, content |-> <<>>]

-----------------------------------------------------------------------------
(* Headers.                                                                *)
Seek(headers, name) == SelectInSeq(headers, LAMBDA h : h[1] = name)

HasHeader(headers, name) == Seek(headers, name) # 0

(* The first one of the name.                                              *)
getHeaderValue(headers, name) == headers[Seek(headers, name)][2]

addHeader(headers, name, value) == Append(headers, <<name, value>>)

(* Removes the first one of the name, if there is one.                     *)
removeHeader(headers, name) ==
  IF HasHeader(headers, name) THEN RemoveAt(headers, Seek(headers, name)) ELSE headers

isKeepAlive(headers) == HasHeader(headers, KA)

AddIfMissing(headers, name, value) ==
  IF HasHeader(headers, name) THEN headers ELSE addHeader(headers, name, value)

Renewed(headers, name, value) == addHeader(removeHeader(headers, name), name, value)

(* What the server makes of the headers a handler leaves; Content-Type and *)
(* Server have no effect on the reading of the message and are left out.   *)
fixRespHeaders(req, resp) ==
  LET alive == IF isKeepAlive(req.headers) THEN AddIfMissing(resp.headers, KA, <<>>)
               ELSE resp.headers
      sized == IF req.start[1] = "HEAD" THEN alive
               ELSE Renewed(alive, CL, <<Len(resp.content)>>)
  IN [resp EXCEPT !.headers = Renewed(sized, "Date", <<>>)]

-----------------------------------------------------------------------------
(* Messages on the wire.                                                   *)

(* A slip the code could make: the application's Content-Length is sent.   *)
AllHeaders(req) == req.headers

(* sendReqHeader() leaves out the Content-Length of the application.       *)
SentHeaders(req) == SelectSeq(req.headers, LAMBDA h : h[1] # CL)

(* sendReqHeader() and what get(), head() and post() send after it.        *)
RequestOnWire(req) ==
  <<req.start>> \o SentHeaders(req) \o
  (IF req.start[1] = "POST" /\ req.content # <<>>
   THEN <<<<CL, <<Len(req.content)>>>>, Eol>> \o Bytes(req.content)
   ELSE <<Eol>>)

sendResp(resp) ==
  <<resp.start>> \o resp.headers \o <<Eol>> \o Bytes(resp.content)

-----------------------------------------------------------------------------
(* Reading.                                                                *)

(* Slips the code could make: the empty line drops the header before it,   *)
(* or ends nothing.                                                        *)
FlushedNotLast(headers, pend, line) ==
  IF line[1] \in {"fold", "eol"} \/ pend = <<>> THEN headers
  ELSE addHeader(headers, pend[1], pend[2])

GatheredOn(pend, line) ==
  IF line[1] = "fold" /\ pend # <<>> THEN <<pend[1], pend[2] \o line[2]>> ELSE line

(* A turn of the loop of recvHeaders() and of the ICAP recvHeader(): pend  *)
(* is multiLine, the header whose lines are being gathered, or <<>>.  A    *)
(* line that does not continue it moves it to the list of headers.         *)
Flushed(headers, pend, line) ==
  IF line[1] = "fold" \/ pend = <<>> THEN headers
  ELSE addHeader(headers, pend[1], pend[2])

Gathered(pend, line) ==
  IF line = Eol THEN <<>>
  ELSE IF line[1] = "fold" /\ pend # <<>> THEN <<pend[1], pend[2] \o line[2]>>
  ELSE line

(* How recvBody() finds the content of a message: by chunks, by length,    *)
(* to the end of the connection, or there is none.                         *)
Framing(msg, isResponse) ==
  IF HasHeader(msg.headers, TE) THEN "chunked"
  ELSE IF HasHeader(msg.headers, CL) THEN "length"
  ELSE IF isResponse THEN "close" ELSE "none"

(* The parts of an ICAP message with the lengths that parseEnc() computes  *)
(* from their offsets: each from the next one, 0 for the last, which is in *)
(* chunks unless it is a null-body.                                        *)
parseEnc(enc) ==
  LET parts == [i \in DOMAIN enc |->
                  [name |-> enc[i][1],
                   len  |-> IF i < Len(enc) THEN enc[i + 1][2] - enc[i][2] ELSE 0]]
  IN IF Last(parts).name = "null-body" THEN Front(parts) ELSE parts
=============================================================================
