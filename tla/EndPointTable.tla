---------------------------- MODULE EndPointTable ----------------------------
(***************************************************************************)
(* SP_NKEndPointTable over an SP_NKVector of buckets, read from an         *)
(* SP_NKIniFile or built by hand, and the settings of spnkconfig.cpp read  *)
(* from the same file.  A bucket is <<keyMin, keyMax, list>>, so that the  *)
(* vector's sort is by keyMin, and its list a sequence of end points.      *)
(***************************************************************************)
EXTENDS NKList

CONSTANTS
  Number,      \* see IniFile
  Files,       \* the files there are to read
  Lists,       \* the lists a program adds: sequences of <<ip, weight>>
  Ranges,      \* and their key ranges
  Draws,       \* the values of rand_r()
  MaxKeys,     \* the sizes of the key space
  Wrap,        \* how many values a uint32_t has: 2^32 in the code
  MaxNow, MaxMarks, Pause

(* Only the last line of a file may lack its newline, no value is NULL,    *)
(* and no end point weighs less than nothing.                              *)
ASSUME TableAssumption ==
  /\ \A word \in DOMAIN Number : Number[word] \in Int
  /\ \A f \in Files :
       /\ Len(f) \in Nat /\ DOMAIN f = 1..Len(f)
       /\ \A i \in DOMAIN f :
            /\ Len(f[i].name) \in Nat
            /\ LET words == ToSet(f[i].text) IN f[i].text \in Seq(words) /\ NULL \notin Seq(words)
            /\ i < Len(f) => f[i].nl
  /\ \A list \in Lists :
       /\ Len(list) \in Nat /\ DOMAIN list = 1..Len(list)
       /\ \A i \in DOMAIN list : list[i][2] \in Nat
  /\ Ranges \subseteq Nat \X Nat /\ Pause \in Nat /\ Wrap \in Nat \ {0}

VARIABLES
  file,        \* the file as it is now
  tableKeyMax, \* mTableKeyMax, NULL when there is no table
  conf,        \* the settings of the config objects, NULL before init()
  now,         \* time()
  answer,      \* of getEndPoint() and getRandomEndPoint(): the address, or NULL
  marks,       \* how many end points have been paused or started
  crashed      \* a division by zero

tableVars == <<file, tableKeyMax, conf, now, answer, marks, crashed>>

Ini == INSTANCE IniFile

EndPoint(ip, weight) == [ip |-> ip, weight |-> weight, enableTime |-> 0]

Buckets == InUse(vec)
KeyMin(b) == b[1]
KeyMax(b) == b[2]
EndPoints(b) == b[3]

(* addBucket().                                                            *)
WithBucket(v, b) == Sorted(Appended(v, b))

(* getList(): the binary search looks at the bucket in the middle of what  *)
(* is left, r, which is from r.begin to before r.end.                      *)
Middle(r) == (r.end + r.begin) \div 2
HasKey(b, k) == KeyMin(b) <= k /\ k <= KeyMax(b)

(* A slip the code could make: end is taken for the last one.              *)
NarrowedShort(v, k, r) ==
  LET b == v.first[Middle(r)] IN
  IF r.begin >= r.end \/ HasKey(b, k) THEN r
  ELSE IF k < KeyMin(b) THEN [r EXCEPT !.end = Middle(r) - 1]
  ELSE [r EXCEPT !.begin = Middle(r) + 1]

Narrowed(v, k, r) ==
  LET b == v.first[Middle(r)] IN
  IF r.begin >= r.end \/ HasKey(b, k) THEN r
  ELSE IF k < KeyMin(b) THEN [r EXCEPT !.end = Middle(r)]
  ELSE [r EXCEPT !.begin = Middle(r) + 1]

(* The place of the bucket, LAST_INDEX if the table has none: nothing is   *)
(* left after as many steps as there are buckets.                          *)
Place(v, k) ==
  LET left[n \in 0..v.count] ==
        IF n = 0 THEN [begin |-> 0, end |-> v.count] ELSE Narrowed(v, k, left[n - 1])
      r == left[v.count] IN
  IF r.begin >= r.end THEN LAST_INDEX ELSE Middle(r)

(* getRandomEndPoint() of a list: the weights, added up, of those that are *)
(* not paused.                                                             *)
IsOn(e, t) == e.enableTime < t

Weights(list, t) ==
  LET sum[n \in 0..Len(list)] ==
        IF n = 0 THEN 0 ELSE sum[n - 1] + IF IsOn(list[n], t) THEN list[n].weight ELSE 0
  IN sum

TotalWeight(list, t) == Weights(list, t)[Len(list)]

(* The first with which they exceed the draw, or the last.                 *)
Drawn(list, t, draw) ==
  LET on == {i \in DOMAIN list : IsOn(list[i], t)}
      sum == Weights(list, t)
      weight == draw % TotalWeight(list, t)
      enough == {i \in on : sum[i] > weight} IN
  IF enough = {} THEN Max(on) ELSE Min(enough)

(* markPause() and markStart(): every end point of the list with the       *)
(* address.                                                                *)
Marked(list, ip, t) ==
  [i \in DOMAIN list |-> IF list[i].ip = ip THEN [list[i] EXCEPT !.enableTime = t] ELSE list[i]]

(* readTable(): as many sections as EndPointCount says, each a bucket of   *)
(* one end point, whatever is missing being 0 or empty.                    *)
EndPointSection == <<"EndPoint0", "EndPoint1", "EndPoint2", "EndPoint3">>

Unsigned(n) == n % Wrap

BucketOf(f, section) ==
  <<Unsigned(Ini!IntValue(f, section, <<"KeyMin">>)),
    Unsigned(Ini!IntValue(f, section, <<"KeyMax">>)),
    <<EndPoint(Ini!StrValue(f, section, <<"ServerIP">>), 10)>>>>

TableOf(f) ==
  LET count == Ini!IntValue(f, "EndPointTable", <<"EndPointCount">>)
      read[n \in 0..Len(EndPointSection)] ==
        IF n = 0 THEN NewVector(0)
        ELSE IF n > count THEN read[n - 1]
        ELSE WithBucket(read[n - 1], BucketOf(f, EndPointSection[n]))
  IN read[Len(EndPointSection)]

(* The integers each config object reads, with the default init() puts in  *)
(* the place of what is not positive, 0 where there is none: of a socket   *)
(* pool, the two servers, and a database.                                  *)
SocketPoolSettings ==
  [ConnectTimeout |-> 6, SocketTimeout |-> 6, MaxIdlePerEndPoint |-> 8, MaxIdleTime |-> 60]

ServerSettings ==
  [ServerPort |-> 0, MaxConnections |-> 128, MaxThreads |-> 10, MaxReqQueueSize |-> 100,
   SocketTimeout |-> 600]

PreforkServerSettings ==
  [ServerPort |-> 0, MaxProcs |-> 10, MaxRequestsPerChild |-> 100, SocketTimeout |-> 600,
   LogLevel |-> 0]

DatabaseSettings == [Port |-> 0, ConnectTimeout |-> 0, SocketTimeout |-> 0]

(* The sections a program reads them from.                                 *)
Settings ==
  [SocketPool |-> SocketPoolSettings, Server |-> ServerSettings,
   Prefork |-> PreforkServerSettings, Database |-> DatabaseSettings]

(* init() of a config: BatchLoad(), then the defaults.                     *)
ConfOf(f, section) ==
  [key \in DOMAIN Settings[section] |->
     LET n == Ini!IntValue(f, section, <<key>>) IN
     IF n <= 0 /\ Settings[section][key] > 0 THEN Settings[section][key] ELSE n]
-----------------------------------------------------------------------------
(* A program that reads its table from files, and one that builds it.      *)
Alive(k) == kind = k /\ ~crashed /\ UNCHANGED <<kind, vals, links, buf, call, ret>>
HasTable(k) == Alive(k) /\ tableKeyMax # NULL

(* Somebody edits the file.                                                *)
Edit(f) ==
  /\ Alive("config") /\ file' = f
  /\ UNCHANGED <<vec, tableKeyMax, conf, now, answer, marks, crashed>>

(* SP_NKEndPointTableConfig::init() deletes the table there was.           *)
InitTable ==
  /\ Alive("config")
  /\ tableKeyMax' = Unsigned(Ini!IntValue(file, "EndPointTable", <<"TableKeyMax">>))
  /\ vec' = TableOf(file) /\ answer' = NULL
  /\ UNCHANGED <<file, conf, now, marks, crashed>>

InitConf(section) ==
  /\ Alive("config") /\ conf' = [conf EXCEPT ![section] = ConfOf(file, section)]
  /\ UNCHANGED <<file, vec, tableKeyMax, now, answer, marks, crashed>>

NewTable(max) ==
  /\ Alive("table") /\ tableKeyMax = NULL
  /\ tableKeyMax' = max /\ vec' = NewVector(0)
  /\ UNCHANGED <<file, conf, now, answer, marks, crashed>>

AddBucket(r, list) ==
  /\ HasTable("table") /\ vec.count < MaxLen
  /\ vec' = WithBucket(vec, <<r[1], r[2], [i \in DOMAIN list |-> EndPoint(list[i][1], list[i][2])]>>)
  /\ UNCHANGED <<file, tableKeyMax, conf, now, answer, marks, crashed>>

(* key % mTableKeyMax.                                                     *)
Divide(n) == crashed' = (n = 0)
List(key) == LET i == Place(vec, key % tableKeyMax) IN IF i < 0 THEN <<>> ELSE EndPoints(vec.first[i])

(* SP_NKEndPointTableConfig::getEndPoint(): the first of the list.         *)
GetEndPoint(key) ==
  /\ HasTable("config") /\ Divide(tableKeyMax)
  /\ LET list == List(key) IN
     answer' = IF tableKeyMax = 0 \/ list = <<>> THEN NULL ELSE Head(list).ip
  /\ UNCHANGED <<file, vec, tableKeyMax, conf, now, marks>>

GetRandomEndPoint(key, draw) ==
  /\ HasTable("table")
  /\ LET list == List(key)  total == TotalWeight(list, now) IN
     IF tableKeyMax = 0 THEN Divide(0) /\ UNCHANGED answer
     ELSE IF list = <<>> THEN answer' = NULL /\ UNCHANGED crashed
     ELSE /\ Divide(total)
          /\ answer' = IF total = 0 THEN NULL ELSE list[Drawn(list, now, draw)].ip
  /\ UNCHANGED <<file, vec, tableKeyMax, conf, now, marks>>

Mark(key, ip, t) ==
  /\ HasTable("table") /\ tableKeyMax # 0
  /\ marks < MaxMarks /\ marks' = marks + 1
  /\ LET i == Place(vec, key % tableKeyMax) IN
     i >= 0 /\ vec' = [vec EXCEPT !.first[i][3] = Marked(@, ip, t)]
  /\ UNCHANGED <<file, tableKeyMax, conf, now, answer, crashed>>

MarkPause(key, ip) == Mark(key, ip, now + Pause)
MarkStart(key, ip) == Mark(key, ip, 0)

Tick ==
  /\ Alive("table") /\ now < MaxNow /\ now' = now + 1
  /\ UNCHANGED <<file, vec, tableKeyMax, conf, answer, marks, crashed>>

TableInit ==
  /\ file = <<>> /\ tableKeyMax = NULL /\ conf = [section \in DOMAIN Settings |-> NULL]
  /\ now = 1 /\ answer = NULL /\ marks = 0 /\ crashed = FALSE

TableKeys == 0 .. Max(MaxKeys)
Addresses == UNION {{list[i][1] : i \in DOMAIN list} : list \in Lists}

TableNext ==
  \/ \E f \in Files : Edit(f)
  \/ InitTable \/ Tick
  \/ \E section \in DOMAIN Settings : InitConf(section)
  \/ \E max \in MaxKeys : NewTable(max)
  \/ \E r \in Ranges, list \in Lists : AddBucket(r, list)
  \/ \E key \in TableKeys :
       \/ GetEndPoint(key)
       \/ \E draw \in Draws : GetRandomEndPoint(key, draw)
       \/ \E ip \in Addresses : MarkPause(key, ip) \/ MarkStart(key, ip)
=============================================================================
