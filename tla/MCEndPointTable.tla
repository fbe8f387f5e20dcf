--------------------------- MODULE MCEndPointTable ---------------------------
(* The containers with a few items, tables of up to three buckets, and     *)
(* files with what people write into them.                                 *)
EXTENDS EndPointTableProps, TLC

TestItems == {<<1, "a">>, <<1, "b">>, <<2, "a">>}

TestNumber == ("0" :> 0) @@ ("1" :> 1) @@ ("2" :> 2) @@ ("3" :> 3) @@ ("4" :> 4) @@ ("-1" :> -1)

Section(name) ==
  <<[kind |-> "section", name |-> name, eq |-> FALSE, text |-> <<>>, nl |-> TRUE]>>
Set(key, text) == <<[kind |-> "item", name |-> <<key>>, eq |-> TRUE, text |-> text, nl |-> TRUE]>>
Words(name, text) == <<[kind |-> "item", name |-> name, eq |-> TRUE, text |-> text, nl |-> TRUE]>>
Bare(key, nl) == <<[kind |-> "item", name |-> <<key>>, eq |-> FALSE, text |-> <<>>, nl |-> nl]>>
Comment == <<[kind |-> "skip", name |-> <<>>, eq |-> FALSE, text |-> <<>>, nl |-> TRUE]>>

Spaced(n) == <<" ", n, " ", ";", "x">>

Bucket(section, lo, hi, ip) ==
  Section(section) \o Set("KeyMin", <<lo>>) \o Set("KeyMax", Spaced(hi)) \o Set("ServerIP", <<" ", ip>>)

Table(count, max) ==
  Section("EndPointTable") \o Set("EndPointCount", <<count>>) \o Set("TableKeyMax", <<max>>)

TestFiles == {
  <<>>,
  Table("2", "4") \o Bucket("EndPoint0", "2", "3", "ip0") \o Bucket("EndPoint1", "0", "1", "ip1"),
  Table("3", "4") \o Bucket("EndPoint0", "0", "0", "ip0") \o Bucket("EndPoint2", "2", "3", "ip2"),
  Table("2", "-1") \o Bucket("EndPoint0", "2", "-1", "ip0") \o Bucket("EndPoint1", "0", "1", "ip1"),
  Table("1", "0") \o Bucket("EndPoint0", "0", "3", "ip0")
    \o Section("SocketPool") \o Set("MaxIdleTime", <<"-1">>) \o Set("SocketTimeout", <<"3">>)
    \o Section("Prefork") \o Set("LogLevel", <<"-1">>) \o Set("MaxProcs", <<"0">>),
  Section("Server") \o Set("MaxThreads", Spaced("2")) \o Comment \o Set("MaxThreads", <<"3">>)
    \o Section("Database") \o Set("MaxThreads", <<"4">>) \o Set("Port", <<"#", "4">>)
    \o Section("Server") \o Set("SocketTimeout", <<"4">>),
  Section("Server") \o Words(<<"MaxThreads", "now">>, <<"x">>) \o Bare("SocketTimeout", TRUE)
    \o Section("Database") \o Set("Port", <<"-1">>) \o Bare("Host", FALSE),
  Section("Server") \o Set("MaxThreads", <<"-1">>) \o Set("SocketTimeout", <<>>)
    \o Words(<<>>, <<"1">>) \o Bare("Port", TRUE)}

TestRanges == {<<0, 0>>, <<1, 2>>, <<3, 3>>, <<0, 2>>}
TestLists == {<< <<"ip0", 1>>, <<"ip1", 2>> >>, << <<"ip1", 1>> >>}

TestMail == ("x" :> 10) @@ ("y" :> 20) @@ ("z" :> 30)
=============================================================================
