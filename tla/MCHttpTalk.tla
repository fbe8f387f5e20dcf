----------------------------- MODULE MCHttpTalk -----------------------------
(* HttpTalk with short messages of every form.                             *)
EXTENDS HttpTalk, TLC

Msg(start, headers, content) == [start |-> start, headers |-> headers, content |-> content]
Foreign(start, headers, chunks) == [start |-> start, headers |-> headers, chunks |-> chunks]

TestPairs == {<<"http", "http">>, <<"http", "other">>, <<"other", "http">>, <<"icap", "other">>}

\* an application may set a length of its own, and a header to keep alive
TestRequests ==
  {Msg(<<"GET", <<>>>>, <<<<CL, <<3>>>>, <<KA, <<>>>>>>, <<>>),
   Msg(<<"HEAD", <<>>>>, <<>>, <<>>),
   Msg(<<"POST", <<>>>>, <<<<"X", <<1, 2>>>>>>, <<7, 8>>),
   Msg(<<"OPTIONS", <<>>>>, <<>>, <<>>),
   Msg(<<"RESPMOD", <<>>>>, <<>>, <<7>>),
   Msg(<<"RESPMOD", <<>>>>, <<>>, <<>>)}

TestForeignRequests ==
  {Foreign(<<"GET", <<>>>>, <<<<"X", <<1, 2>>>>>>, <<>>),
   Foreign(<<"POST", <<>>>>, <<<<CL, <<2>>>>, <<KA, <<>>>>>>, <<<<7, 8>>>>),
   Foreign(<<"POST", <<>>>>, <<<<TE, <<>>>>>>, <<<<7, 8>>, <<9>>>>)}

\* a handler may leave a wrong length
TestHandlerAnswers ==
  {Msg(<<"HTTP", <<200>>>>, <<<<CL, <<5>>>>, <<"X", <<1>>>>>>, <<4, 5>>),
   Msg(<<"HTTP", <<200>>>>, <<>>, <<>>)}

TestAnswers ==
  {Foreign(<<"HTTP", <<200>>>>, <<<<"X", <<1, 2>>>>, <<CL, <<2>>>>>>, <<<<4, 5>>>>),
   Foreign(<<"HTTP", <<200>>>>, <<<<TE, <<>>>>>>, <<<<4, 5>>, <<6>>>>),
   Foreign(<<"HTTP", <<200>>>>, <<<<"X", <<1, 2>>>>>>, <<<<4, 5>>>>),
   Foreign(<<"HTTP", <<200>>>>, <<<<CL, <<0>>>>>>, <<>>),
   Foreign(<<"HTTP", <<304>>>>, <<<<CL, <<2>>>>>>, <<>>),
   Foreign(<<"HTTP", <<304>>>>, <<>>, <<>>),
   Foreign(<<"HTTP", <<204>>>>, <<>>, <<>>)}

TestEncs ==
  << <<<<"null-body", 0>>>>,
     <<<<"res-hdr", 0>>, <<"null-body", 2>>>>,
     <<<<"res-hdr", 0>>, <<"res-body", 2>>>>,
     <<<<"opt-body", 0>>>> >>

IcapAnswer(enc, head, chunked, chunks) ==
  [start |-> <<"ICAP", <<200>>>>, headers |-> <<<<Encapsulated, <<enc>>>>>>,
   head |-> head, chunked |-> chunked, chunks |-> chunks]

Part == <<<<"HTTP", <<200>>>>, Eol>>

TestIcapAnswers ==
  {IcapAnswer(1, <<>>, FALSE, <<>>),
   IcapAnswer(2, Part, FALSE, <<>>),
   IcapAnswer(3, Part, TRUE, <<<<4, 5>>, <<6>>>>),
   IcapAnswer(3, Part, TRUE, <<<<4>>>>),
   IcapAnswer(4, <<>>, TRUE, <<<<4, 5>>>>),
   [IcapAnswer(1, <<>>, FALSE, <<>>) EXCEPT !.start = <<"ICAP", <<204>>>>, !.headers = <<>>]}
=============================================================================
