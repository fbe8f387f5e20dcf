---------------------------- MODULE MemClientProofs ----------------------------
(***************************************************************************)
(* Theorems about MemClient for any threads, servers and sockets, and any  *)
(* number of items in a reply: each talk has a connection of its own, and  *)
(* what goes back to the pool has nothing left to be read.                 *)
(***************************************************************************)
EXTENDS MemClientProps, SequenceTheorems, FiniteSetTheorems, TLAPS

(* A thread that is in a call has an operation and a server to talk to.    *)
InCall ==
  /\ op \in [Users -> Ops \cup {"out"}]
  /\ todo \in [Users -> Seq(EndPoints)]
  /\ at \in [Users -> Places]
  /\ \A u \in Users :
       (at[u] = "out" <=> todo[u] = <<>>) /\ (at[u] = "out" <=> op[u] = "out")

-----------------------------------------------------------------------------
(* The lists of servers that a call may go through.                        *)
LEMMA Lists ==
  ASSUME NEW eps \in {<<e>> : e \in EndPoints} \cup SetToSeqs(EndPoints)
  PROVE  eps \in Seq(EndPoints) /\ eps # <<>>
<1>1. CASE eps \in {<<e>> : e \in EndPoints}
  <2>1. PICK e \in EndPoints : eps = <<e>>
    BY <1>1
  <2>2. <<e>> \in Seq(EndPoints) /\ <<e>> # <<>>
    OBVIOUS
  <2> QED
    BY <2>1, <2>2
<1>2. CASE eps \in SetToSeqs(EndPoints)
  <2> DEFINE n == Cardinality(EndPoints)
  <2>1. n \in Nat /\ n # 0
    BY MemAssumption, FS_CardinalityType, FS_EmptySet
  <2>2. eps \in [1..n -> EndPoints]
    BY <1>2 DEF SetToSeqs
  <2> HIDE DEF n
  <2>3. eps \in Seq(EndPoints)
    BY <2>1, <2>2, SeqDef
  <2>4. Len(eps) = n
    BY <2>1, <2>2, <2>3, LenProperties
  <2>5. Len(<<>>) = 0
    OBVIOUS
  <2> QED
    BY <2>1, <2>3, <2>4, <2>5
<1> QED
  BY <1>1, <1>2

LEMMA FirstServer ==
  ASSUME InCall, NEW u \in Users, at[u] # "out"
  PROVE  todo[u][1] \in EndPoints
<1>1. todo[u] \in Seq(EndPoints) /\ todo[u] # <<>>
  BY DEF InCall
<1>2. Len(todo[u]) \in Nat /\ Len(todo[u]) > 0
  BY <1>1, LenProperties, EmptySeq
<1> QED
  BY <1>1, <1>2, ElementOfSeq

(* The calls keep InCall, wherever they go.                             *)
LEMMA GotoKeeps ==
  ASSUME InCall, NEW u \in Users, at[u] # "out", NEW l \in Places \ {"out"}, Goto(u, l)
  PROVE  InCall'
BY DEF InCall, Goto

LEMMA NextEndPointKeeps ==
  ASSUME InCall, NEW u \in Users, at[u] # "out", NextEndPoint(u)
  PROVE  InCall'
<1> DEFINE rest == Tail(todo[u])
<1>1. rest \in Seq(EndPoints)
  <2>1. todo[u] \in Seq(EndPoints) /\ todo[u] # <<>>
    BY DEF InCall
  <2> QED
    BY <2>1, HeadTailProperties
<1> HIDE DEF rest
<1>2. /\ todo' = [todo EXCEPT ![u] = rest]
      /\ at' = [at EXCEPT ![u] = IF rest = <<>> THEN "out" ELSE "get"]
      /\ op' = [op EXCEPT ![u] = IF rest = <<>> THEN "out" ELSE @]
  BY DEF NextEndPoint, rest
<1>3. CASE rest = <<>>
  BY <1>1, <1>2, <1>3 DEF InCall, Places
<1>4. CASE rest # <<>>
  BY <1>1, <1>2, <1>4 DEF InCall, Places
<1> QED
  BY <1>3, <1>4

LEMMA CallKeeps ==
  ASSUME InCall, NEW u \in Users, NEW o \in Ops,
         NEW eps \in {<<e>> : e \in EndPoints} \cup SetToSeqs(EndPoints), Call(u, o, eps)
  PROVE  InCall'
<1>1. eps \in Seq(EndPoints) /\ eps # <<>>
  BY Lists
<1> QED
  BY <1>1 DEF InCall, Call, Places, Ops, OneLine

LEMMA StayKeeps ==
  ASSUME InCall, UNCHANGED callVars PROVE InCall'
BY DEF InCall, callVars

-----------------------------------------------------------------------------
(* Each step of MemClient is one of the pool, or leaves the pool alone.    *)
LEMMA PoolAlone == UNCHANGED poolVars => UNCHANGED Pool!vars
BY DEF poolVars, Pool!vars

LEMMA MemStep ==
  ASSUME InCall, [Next]_vars
  PROVE  InCall' /\ [Pool!Next]_(Pool!vars)
<1>1. ASSUME NEW u \in Users, NEW o \in Ops,
             NEW eps \in {<<e>> : e \in EndPoints} \cup SetToSeqs(EndPoints), Call(u, o, eps)
      PROVE  InCall' /\ [Pool!Next]_(Pool!vars)
  BY <1>1, CallKeeps, PoolAlone DEF Call
<1>2. ASSUME NEW u \in Users, GetPooled(u) PROVE InCall' /\ Pool!Next
  <2>1. at[u] # "out" /\ Goto(u, "send") /\ Pool!GetIdle(u, todo[u][1])
    BY <1>2 DEF GetPooled
  <2>2. InCall'
    BY <2>1, GotoKeeps DEF Places
  <2> QED
    BY <2>1, <2>2, FirstServer DEF Pool!Next
<1>3. ASSUME NEW u \in Users, GetNew(u) PROVE InCall' /\ Pool!Next
  <2>1. at[u] # "out" /\ Goto(u, "connect") /\ Pool!GetNone(u, todo[u][1], FALSE)
    BY <1>3 DEF GetNew
  <2>2. InCall'
    BY <2>1, GotoKeeps DEF Places
  <2> QED
    BY <2>1, <2>2, FirstServer DEF Pool!Next
<1>4. ASSUME NEW u \in Users, Connected(u) PROVE InCall' /\ Pool!Next
  <2>1. InCall'
    BY <1>4, GotoKeeps DEF Connected, Places
  <2> QED
    BY <1>4, <2>1 DEF Connected, Pool!Next
<1>5. ASSUME NEW u \in Users, NotConnected(u) PROVE InCall' /\ Pool!Next
  <2>1. InCall'
    BY <1>5, NextEndPointKeeps DEF NotConnected
  <2> QED
    BY <1>5, <2>1 DEF NotConnected, Pool!Next
<1>6. ASSUME NEW u \in Users, NEW s \in Sockets,
             \/ Send(u, s) \/ SendFails(u, s)
             \/ ReadLine(u, s) \/ ReadData(u, s) \/ ReadAfter(u, s) \/ ReadFails(u, s)
      PROVE  InCall' /\ Pool!Next
  <2>1. Pool!Use(u, s) /\ at[u] # "out"
    BY <1>6 DEF Send, SendFails, ReadLine, ReadData, ReadAfter, ReadFails
  <2>2. \E l \in Places \ {"out"} : Goto(u, l)
    <3>1. CASE Send(u, s) \/ SendFails(u, s) \/ ReadFails(u, s)
      BY <3>1 DEF Send, SendFails, ReadFails, Places
    <3>2. CASE ReadLine(u, s)
      <4>1. AfterLine(op[u], Head(pipe[s])) \in Places \ {"out"}
        BY DEF AfterLine, Places
      <4> QED
        BY <3>2, <4>1 DEF ReadLine
    <3>3. CASE ReadData(u, s)
      BY <3>3 DEF ReadData, Places
    <3>4. CASE ReadAfter(u, s)
      <4>1. (IF op[u] = "retr" THEN "save" ELSE "line") \in Places \ {"out"}
        BY DEF Places
      <4> QED
        BY <3>4, <4>1 DEF ReadAfter
    <3> QED
      BY <1>6, <3>1, <3>2, <3>3, <3>4
  <2>3. InCall'
    BY <2>1, <2>2, GotoKeeps
  <2> QED
    BY <2>1, <2>3 DEF Pool!Next
<1>7. ASSUME NEW u \in Users, NEW s \in Sockets, Save(u, s) PROVE InCall' /\ Pool!Next
  <2>1. InCall'
    BY <1>7, NextEndPointKeeps DEF Save
  <2> QED
    BY <1>7, <2>1 DEF Save, Pool!Next
<1>8. ASSUME NEW u \in Users, NEW s \in Sockets, Delete(u, s) PROVE InCall' /\ Pool!Next
  <2>1. InCall'
    BY <1>8, NextEndPointKeeps DEF Delete
  <2> QED
    BY <1>8, <2>1 DEF Delete, Pool!Next
<1>9. ASSUME NEW s \in Sockets, Answer(s) \/ Close(s)
      PROVE  InCall' /\ UNCHANGED Pool!vars
  <2>1. UNCHANGED callVars /\ UNCHANGED poolVars
    BY <1>9 DEF Answer, Close
  <2> QED
    BY <2>1, StayKeeps, PoolAlone
<1>10. CASE Destroy
  <2>1. InCall'
    BY <1>10, StayKeeps DEF Destroy
  <2> QED
    BY <1>10, <2>1 DEF Destroy, Pool!Next
<1>11. CASE UNCHANGED vars
  <2>1. UNCHANGED callVars /\ UNCHANGED poolVars
    BY <1>11 DEF vars
  <2> QED
    BY <2>1, StayKeeps, PoolAlone
<1> QED
  BY <1>1, <1>2, <1>3, <1>4, <1>5, <1>6, <1>7, <1>8, <1>9, <1>10, <1>11, Zenon DEF Next

-----------------------------------------------------------------------------
(* The pool that the calls share is the pool of the theorems about         *)
(* SocketPool.                                                             *)
Shared == INSTANCE SocketPoolProofs WITH MaxIdleTime <- 0, age <- [s \in Sockets |-> 0]

LEMMA SharedAssumption == Shared!PoolAssumption
BY MemAssumption, SMT DEF Shared!PoolAssumption

LEMMA SharedInit == Pool!Init => Shared!Init
BY DEF Pool!Init, Shared!Init, Pool!Names, Shared!Names

LEMMA SharedStep == [Pool!Next]_(Pool!vars) => [Shared!Next]_(Shared!vars)
BY Zenon DEF Pool!Next, Shared!Next, Pool!vars, Shared!vars, Pool!GetIdle, Shared!GetIdle,
   Pool!GetNone, Shared!GetNone, Pool!Clean, Shared!Clean, Pool!Create, Shared!Create,
   Pool!CreateFails, Shared!CreateFails, Pool!Save, Shared!Save, Pool!Use, Shared!Use,
   Pool!Discard, Shared!Discard, Pool!Tick, Shared!Tick, Pool!Destroy, Shared!Destroy,
   Pool!Ready, Shared!Ready, Pool!Names, Shared!Names, Pool!Idle, Shared!Idle,
   Pool!Items, Shared!Items, Pool!StopsAt, Shared!StopsAt, Pool!Expired, Shared!Expired

(* What the theorems about SocketPool give here: nobody else has a socket  *)
(* that a thread has, and what is idle is nobody's.                        *)
LEMMA SharedFacts ==
  ASSUME Shared!PoolInv
  PROVE  /\ held \in [Users -> SUBSET Sockets] /\ peer \in [Sockets -> Pool!Names]
         /\ idle \in [Pool!Names -> Seq(Sockets)]
         /\ \A u, v \in Users : u # v => held[u] \cap held[v] = {}
         /\ \A u \in Users : held[u] \cap Pool!Idle = {}
         /\ live = Pool!Idle \cup UNION {held[u] : u \in Users}
<1>1. Pool!Names = Shared!Names /\ Pool!Idle = Shared!Idle
  BY DEF Pool!Names, Shared!Names, Pool!Idle, Shared!Idle, Pool!Items, Shared!Items
<1> QED
  BY <1>1 DEF Shared!PoolInv, Shared!TypeOK, Shared!OneHolder

-----------------------------------------------------------------------------
(* What a reply may be, and what is left of it.                            *)
Lines == {"ok", "no", "error", "END", "VALUE", "data", "eol", "STAT", "cut"}

EndIsLast(q) == \A i \in DOMAIN q : q[i] = "END" => i = Len(q)

LEMMA Emptied == <<>> \in Seq(Lines) /\ EndIsLast(<<>>) /\ Len(<<>>) = 0
BY EmptySeq DEF EndIsLast

LEMMA Rested ==
  ASSUME NEW q \in Seq(Lines), EndIsLast(q), NEW n \in Nat, n <= Len(q)
  PROVE  /\ SubSeq(q, n + 1, Len(q)) \in Seq(Lines)
         /\ EndIsLast(SubSeq(q, n + 1, Len(q)))
         /\ Len(SubSeq(q, n + 1, Len(q))) = Len(q) - n
<1> DEFINE r == SubSeq(q, n + 1, Len(q))
<1>1. Len(q) \in Nat
  BY LenProperties
<1>2. /\ r \in Seq(Lines) /\ Len(r) = Len(q) - n /\ DOMAIN r = 1..(Len(q) - n)
      /\ \A i \in 1..(Len(q) - n) : r[i] = q[n + i]
  BY <1>1, SMT
<1>3. \A i \in 1..(Len(q) - n) : n + i \in DOMAIN q
  BY <1>1, LenProperties, SMT
<1>4. EndIsLast(r)
  <2> SUFFICES ASSUME NEW i \in 1..(Len(q) - n), q[n + i] = "END" PROVE i = Len(q) - n
    BY <1>2 DEF EndIsLast
  <2>1. n + i = Len(q)
    BY <1>3 DEF EndIsLast
  <2> QED
    BY <1>1, <2>1, SMT
<1> QED
  BY <1>2, <1>4

LEMMA Tailed ==
  ASSUME NEW q \in Seq(Lines), EndIsLast(q), q # <<>>
  PROVE  /\ Tail(q) \in Seq(Lines) /\ EndIsLast(Tail(q)) /\ Len(Tail(q)) = Len(q) - 1
         /\ Head(q) \in Lines /\ (Head(q) = "END" => Len(q) = 1)
<1>1. Len(q) \in Nat /\ Len(q) >= 1
  BY LenProperties, EmptySeq, SMT
<1>2. Tail(q) = SubSeq(q, 1 + 1, Len(q))
  BY <1>1, TailIsSubSeq, SMT
<1>3. 1 \in DOMAIN q /\ Head(q) = q[1] /\ Head(q) \in Lines
  BY <1>1, SMT
<1>4. Head(q) = "END" => Len(q) = 1
  BY <1>3 DEF EndIsLast
<1>5. /\ SubSeq(q, 1 + 1, Len(q)) \in Seq(Lines) /\ EndIsLast(SubSeq(q, 1 + 1, Len(q)))
      /\ Len(SubSeq(q, 1 + 1, Len(q))) = Len(q) - 1
  <2>1. 1 \in Nat /\ 1 <= Len(q)
    BY <1>1, SMT
  <2> QED
    BY <2>1, Rested
<1> QED
  BY <1>2, <1>3, <1>4, <1>5

LEMMA Begun ==
  ASSUME NEW q \in Seq(Lines), EndIsLast(q), NEW n \in 0..Len(q)
  PROVE  /\ SubSeq(q, 1, n) \in Seq(Lines) /\ EndIsLast(SubSeq(q, 1, n))
         /\ Len(SubSeq(q, 1, n)) = n
         /\ n < Len(q) => /\ Append(SubSeq(q, 1, n), "cut") \in Seq(Lines)
                          /\ EndIsLast(Append(SubSeq(q, 1, n), "cut"))
                          /\ Len(Append(SubSeq(q, 1, n), "cut")) = n + 1
<1> DEFINE r == SubSeq(q, 1, n)
<1>1. Len(q) \in Nat /\ DOMAIN q = 1..Len(q)
  BY LenProperties
<1>2. /\ r \in Seq(Lines) /\ Len(r) = n /\ DOMAIN r = 1..n
      /\ \A i \in 1..n : r[i] = q[i]
  BY <1>1, SMT
<1>3. \A i \in 1..n : q[i] = "END" => i = Len(q)
  <2>1. \A i \in 1..n : i \in DOMAIN q
    BY <1>1, SMT
  <2> QED
    BY <2>1 DEF EndIsLast
<1>4. EndIsLast(r)
  <2> SUFFICES ASSUME NEW i \in 1..n, q[i] = "END" PROVE i = n
    BY <1>2 DEF EndIsLast
  <2>1. i = Len(q)
    BY <1>3
  <2>2. \A l \in Nat : n \in 0..l /\ i = l => i = n
    BY SMT
  <2> QED
    BY <1>1, <2>1, <2>2, Zenon
<1>5. ASSUME n < Len(q)
      PROVE  /\ Append(r, "cut") \in Seq(Lines) /\ EndIsLast(Append(r, "cut"))
             /\ Len(Append(r, "cut")) = n + 1
  <2>1. "cut" \in Lines
    BY DEF Lines
  <2>2. /\ Append(r, "cut") \in Seq(Lines) /\ Len(Append(r, "cut")) = n + 1
        /\ DOMAIN Append(r, "cut") = 1..(n + 1)
        /\ \A i \in 1..n : Append(r, "cut")[i] = r[i]
        /\ Append(r, "cut")[n + 1] = "cut"
    <3> HIDE DEF r
    <3> QED
      BY <1>2, <2>1, SMT
  <2>3. \A i \in 1..n : q[i] # "END"
    BY <1>3, <1>5, SMT
  <2>4. \A i \in 1..(n + 1) : i \in 1..n \/ i = n + 1
    BY SMT
  <2>5. \A i \in 1..(n + 1) : Append(r, "cut")[i] # "END"
    BY <1>2, <2>2, <2>3, <2>4
  <2> QED
    BY <2>2, <2>5 DEF EndIsLast
<1> QED
  BY <1>2, <1>4, <1>5

(* A number of equal parts, then "END".                                    *)
LEMMA Ended ==
  ASSUME NEW q \in Seq(Lines \ {"END"})
  PROVE  /\ Append(q, "END") \in Seq(Lines) /\ EndIsLast(Append(q, "END"))
         /\ Len(Append(q, "END")) = Len(q) + 1
<1>1. "END" \in Lines
  BY DEF Lines
<1>2. q \in Seq(Lines) /\ Len(q) \in Nat /\ DOMAIN q = 1..Len(q)
  BY LenProperties, SeqMonotonic
<1>3. /\ Append(q, "END") \in Seq(Lines) /\ Len(Append(q, "END")) = Len(q) + 1
      /\ DOMAIN Append(q, "END") = 1..(Len(q) + 1)
      /\ \A i \in 1..Len(q) : Append(q, "END")[i] = q[i]
  BY <1>1, <1>2, SMT
<1>4. \A i \in 1..Len(q) : q[i] # "END"
  BY <1>2, ElementOfSeq
<1>5. \A i \in 1..(Len(q) + 1) : i \in 1..Len(q) \/ i = Len(q) + 1
  BY <1>2, SMT
<1> QED
  BY <1>3, <1>4, <1>5 DEF EndIsLast

LEMMA Repeated ==
  ASSUME NEW S, NEW part \in Seq(S), part # <<>>, NEW n \in Nat
  PROVE  Repeat(part, n) \in Seq(S)
<1>1. Len(part) \in Nat /\ Len(part) >= 1
  BY LenProperties, EmptySeq, SMT
<1>2. n * Len(part) \in Nat
  BY <1>1, SMT
<1>3. ASSUME NEW i \in 1..(n * Len(part)) PROVE part[((i - 1) % Len(part)) + 1] \in S
  <2>1. i - 1 \in Int /\ (i - 1) % Len(part) \in 0..(Len(part) - 1)
    BY <1>1, <1>2, SMT
  <2>2. ((i - 1) % Len(part)) + 1 \in 1..Len(part)
    BY <1>1, <2>1, SMT
  <2> QED
    BY <2>2, ElementOfSeq
<1> QED
  BY <1>2, <1>3, IsASeq DEF Repeat

LEMMA ReplyForm ==
  ASSUME NEW o \in Ops, NEW r \in Replies(o)
  PROVE  /\ r \in Seq(Lines) /\ EndIsLast(r)
         /\ o \in OneLine => Len(r) <= 1
         /\ o = "retr" => Len(r) <= 4
<1> DEFINE item == <<"VALUE", "data", "eol">>
           Whole == Lines \ {"END"}
<1>1. item \in Seq(Whole) /\ Len(item) = 3 /\ <<"STAT">> \in Seq(Whole) /\ <<>> \in Seq(Whole)
      /\ item # <<>> /\ <<"STAT">> # <<>> /\ Len(<<>>) = 0
  BY SMT DEF Lines
<1>2. CASE r = <<"error">> \/ o \in OneLine
  <2>1. r \in {<<"error">>, <<"ok">>, <<"no">>}
    BY <1>2 DEF Replies, OneLine
  <2>2. ASSUME NEW l \in Lines \ {"END"}
        PROVE  <<l>> \in Seq(Lines) /\ EndIsLast(<<l>>) /\ Len(<<l>>) = 1
    <3>1. <<l>> \in Seq(Lines) /\ Len(<<l>>) = 1 /\ DOMAIN <<l>> = 1..1 /\ <<l>>[1] = l
      BY SMT
    <3> QED
      BY <3>1, SMT DEF EndIsLast
  <2>3. \E l \in Lines \ {"END"} : r = <<l>>
    BY <2>1 DEF Lines
  <2>4. r \in Seq(Lines) /\ EndIsLast(r) /\ Len(r) = 1
    BY <2>2, <2>3
  <2> QED
    BY <2>4, SMT
<1>3. CASE r # <<"error">> /\ o = "retr"
  <2>1. r \in {<<"END">>, Append(item, "END")}
    BY <1>3 DEF Replies, OneLine
  <2>2. <<"END">> = Append(<<>>, "END")
    BY SMT
  <2>3. \E q \in Seq(Whole) : r = Append(q, "END") /\ Len(q) <= 3
    <3>1. Len(item) <= 3 /\ Len(<<>>) <= 3
      BY <1>1, SMT
    <3> HIDE DEF item
    <3> QED
      BY <1>1, <2>1, <2>2, <3>1, Zenon
  <2>4. PICK q \in Seq(Whole) : r = Append(q, "END") /\ Len(q) <= 3
    BY <2>3
  <2>5. Len(q) \in Nat
    BY LenProperties
  <2>6. r \in Seq(Lines) /\ EndIsLast(r) /\ Len(r) = Len(q) + 1
    BY <2>4, Ended
  <2> QED
    BY <1>3, <2>4, <2>5, <2>6, SMT DEF OneLine
<1>4. CASE r # <<"error">> /\ o \in {"gets", "stat"}
  <2>1. \E n \in 0..MaxItems : \/ r = Append(Repeat(item, n), "END")
                               \/ r = Append(Repeat(<<"STAT">>, n), "END")
    BY <1>4 DEF Replies, OneLine
  <2>2. \A n \in 0..MaxItems : n \in Nat
    BY MemAssumption, SMT
  <2>3. \E q \in Seq(Whole) : r = Append(q, "END")
    <3>1. \A n \in Nat : Repeat(item, n) \in Seq(Whole) /\ Repeat(<<"STAT">>, n) \in Seq(Whole)
      BY <1>1, Repeated
    <3> QED
      BY <2>1, <2>2, <3>1
  <2> QED
    BY <1>4, <2>3, Ended DEF OneLine
<1> QED
  BY <1>2, <1>3, <1>4 DEF Ops

-----------------------------------------------------------------------------
(* What a connection has in it.  A reply ends in "END" and comes to where  *)
(* nothing is left of an earlier one.                                      *)
Conns ==
  /\ owes \in [Sockets -> Ops \cup {Nil}] /\ eof \in [Sockets -> BOOLEAN]
  /\ pipe \in [Sockets -> Seq(Lines)]
  /\ \A s \in Sockets : EndIsLast(pipe[s]) /\ (owes[s] # Nil => pipe[s] = <<>>)

(* Nothing is to be read, now or later.                                    *)
Silent(s) == pipe[s] = <<>> /\ owes[s] = Nil

(* What may be to be read from its socket where a thread is: after a       *)
(* request of one reply, no more than that reply has from there on.        *)
Reads(u, s) ==
  /\ at[u] \in {"send", "save"} => Silent(s)
  /\ at[u] \in {"data", "after"} => owes[s] = Nil /\ op[u] \notin OneLine
  /\ at[u] = "line" => owes[s] \in {Nil, op[u]}
  /\ at[u] = "line" /\ op[u] \in OneLine => Len(pipe[s]) <= 1
  /\ at[u] = "line" /\ op[u] = "retr" => Len(pipe[s]) <= 4
  /\ at[u] = "data" /\ op[u] = "retr" => Len(pipe[s]) <= 3
  /\ at[u] = "after" /\ op[u] = "retr" => Len(pipe[s]) <= 1

(* A thread has a socket only from the connect to the end of its talk, and *)
(* one at most; one that no thread has is silent.                          *)
HasNone == \A u \in Users : at[u] \in {"out", "get", "connect"} => held[u] = {}
HasOne == \A u \in Users : \A s, t \in held[u] : s = t
SpareSilent == \A s \in Sockets : (\A u \in Users : s \notin held[u]) => Silent(s)
HeldRead == \A u \in Users : \A s \in held[u] : Reads(u, s)

Talks == HasNone /\ HasOne /\ SpareSilent /\ HeldRead

MemInv == InCall /\ Shared!PoolInv /\ Conns /\ Talks

(* Each step keeps what the pool and the calls need.                       *)
LEMMA MemInvStep ==
  ASSUME MemInv, [Next]_vars
  PROVE  InCall' /\ Shared!PoolInv'
<1>1. InCall' /\ [Shared!Next]_(Shared!vars)
  BY MemStep, SharedStep DEF MemInv
<1> QED
  BY <1>1, SharedAssumption, Shared!PoolInvNext DEF MemInv

(* What is forgotten with a deleted socket takes nothing from the others.  *)
LEMMA ForgetKeeps ==
  ASSUME Conns, Forget
  PROVE  /\ Conns'
         /\ \A s \in Sockets : /\ pipe'[s] \in {pipe[s], <<>>} /\ owes'[s] \in {owes[s], Nil}
                               /\ Silent(s) => Silent(s)'
                               /\ s \notin live' => Silent(s)'
<1>1. \A s \in Sockets :
        \/ pipe'[s] = pipe[s] /\ owes'[s] = owes[s] /\ s \in live'
        \/ pipe'[s] = <<>> /\ owes'[s] = Nil
  BY DEF Forget
<1>2. Conns'
  <2>1. /\ owes' \in [Sockets -> Ops \cup {Nil}] /\ eof' \in [Sockets -> BOOLEAN]
        /\ pipe' \in [Sockets -> Seq(Lines)]
    BY Emptied DEF Forget, Conns
  <2>2. \A s \in Sockets : EndIsLast(pipe'[s]) /\ (owes'[s] # Nil => pipe'[s] = <<>>)
    BY <1>1, Emptied DEF Conns
  <2> QED
    BY <2>1, <2>2 DEF Conns
<1> QED
  BY <1>1, <1>2 DEF Silent

(* Less to read is never wrong.                                            *)
LEMMA LessToRead ==
  ASSUME MemInv, Conns', NEW u \in Users, NEW s \in Sockets, Reads(u, s),
         at'[u] = at[u], op'[u] = op[u],
         pipe'[s] \in {pipe[s], <<>>}, owes'[s] \in {owes[s], Nil}
  PROVE  Reads(u, s)'
<1>1. Silent(s) => Silent(s)'
  BY DEF Silent
<1>2. Len(pipe[s]) \in Nat /\ Len(pipe'[s]) \in Nat /\ Len(pipe'[s]) <= Len(pipe[s])
  <2>1. pipe[s] \in Seq(Lines)
    BY DEF MemInv, Conns
  <2>2. Len(pipe[s]) \in Nat /\ Len(<<>>) = 0
    BY <2>1, LenProperties, Emptied
  <2> QED
    BY <2>2, SMT
<1>3. at'[u] = "line" => owes'[s] \in {Nil, op'[u]}
  BY DEF Reads
<1>4. at'[u] \in {"data", "after"} => owes'[s] = Nil /\ op'[u] \notin OneLine
  BY DEF Reads
<1>5. \A n \in {1, 3, 4} : Len(pipe[s]) <= n => Len(pipe'[s]) <= n
  BY <1>2, SMT
<1>6. Len(pipe[s]) <= 1 => Len(pipe'[s]) <= 1
  BY <1>5
<1>7. Len(pipe[s]) <= 3 => Len(pipe'[s]) <= 3
  BY <1>5
<1>8. Len(pipe[s]) <= 4 => Len(pipe'[s]) <= 4
  BY <1>5
<1> QED
  BY <1>1, <1>3, <1>4, <1>6, <1>7, <1>8 DEF Reads

(* A thread that uses its socket disturbs no other.                        *)
LEMMA TalkStep ==
  ASSUME MemInv, Conns', NEW u \in Users, NEW s \in held[u], UNCHANGED held,
         NEW l \in {"line", "data", "after", "save", "delete"}, Goto(u, l),
         at[u] \notin {"out", "get", "connect"},
         \A t \in Sockets : t # s => pipe'[t] = pipe[t] /\ owes'[t] = owes[t],
         Reads(u, s)'
  PROVE  Talks'
<1>1. Shared!PoolInv /\ Talks /\ InCall
  BY DEF MemInv
<1>2. s \in Sockets /\ \A v \in Users : held[v] \subseteq Sockets
  BY <1>1, SharedFacts
<1>3. /\ op' = op /\ at'[u] = l /\ l \notin {"out", "get", "connect"}
      /\ \A v \in Users : v # u => at'[v] = at[v]
  BY <1>1 DEF Goto, InCall
<1>4. HasNone'
  BY <1>1, <1>3 DEF Talks, HasNone
<1>5. HasOne'
  BY <1>1 DEF Talks, HasOne
<1>6. SpareSilent'
  BY <1>1 DEF Talks, SpareSilent, Silent
<1>7. HeldRead'
  <2> SUFFICES ASSUME NEW v \in Users, NEW t \in held[v] PROVE Reads(v, t)'
    BY DEF HeldRead
  <2>1. CASE v = u
    BY <1>1, <2>1 DEF Talks, HasOne
  <2>2. CASE v # u
    <3>1. t # s /\ t \in Sockets
      BY <1>1, <1>2, <2>2, SharedFacts
    <3>2. Reads(v, t)
      BY <1>1 DEF Talks, HeldRead
    <3> QED
      BY <1>3, <2>2, <3>1, <3>2, LessToRead
  <2> QED
    BY <2>1, <2>2
<1> QED
  BY <1>4, <1>5, <1>6, <1>7 DEF Talks

(* A thread between two talks: it gets a silent socket, or what it gives   *)
(* back is silent.                                                         *)
LEMMA BetweenTalks ==
  ASSUME MemInv, Conns', NEW u \in Users, held' \in [Users -> SUBSET Sockets],
         \A v \in Users : v # u => at'[v] = at[v] /\ op'[v] = op[v] /\ held'[v] = held[v],
         \A s \in Sockets : /\ pipe'[s] \in {pipe[s], <<>>} /\ owes'[s] \in {owes[s], Nil}
                            /\ Silent(s) => Silent(s)',
         \/ at'[u] \in {"out", "get", "connect"} /\ held'[u] = {}
         \/ at'[u] = "send" /\ \E s \in Sockets : held'[u] = {s} /\ Silent(s),
         \A s \in held[u] : s \in held'[u] \/ Silent(s)'
  PROVE  Talks'
<1>1. Shared!PoolInv /\ Talks /\ InCall
  BY DEF MemInv
<1>2. \A v \in Users : held[v] \subseteq Sockets /\ held'[v] \subseteq Sockets
  BY <1>1, SharedFacts
<1>3. HasNone'
  BY <1>1 DEF Talks, HasNone
<1>4. HasOne'
  BY <1>1 DEF Talks, HasOne
<1>5. SpareSilent'
  <2> SUFFICES ASSUME NEW s \in Sockets, \A v \in Users : s \notin held'[v] PROVE Silent(s)'
    BY DEF SpareSilent
  <2>1. CASE s \in held[u]
    BY <2>1
  <2>2. CASE s \notin held[u]
    BY <1>1, <2>2 DEF Talks, SpareSilent
  <2> QED
    BY <2>1, <2>2
<1>6. HeldRead'
  <2> SUFFICES ASSUME NEW v \in Users, NEW s \in held'[v] PROVE Reads(v, s)'
    BY DEF HeldRead
  <2>1. s \in Sockets
    BY <1>2
  <2>2. CASE v = u
    <3>1. at'[u] = "send" /\ Silent(s)'
      BY <2>1, <2>2
    <3> QED
      BY <2>2, <3>1 DEF Reads
  <2>3. CASE v # u
    <3>1. Reads(v, s)
      BY <1>1, <2>3 DEF Talks, HeldRead
    <3> QED
      BY <2>1, <2>3, <3>1, LessToRead
  <2> QED
    BY <2>2, <2>3
<1> QED
  BY <1>3, <1>4, <1>5, <1>6 DEF Talks

-----------------------------------------------------------------------------
(* The calls of the pool.                                                  *)
LEMMA SameConns == Conns /\ UNCHANGED netVars => Conns'
BY DEF Conns, netVars

LEMMA GetPooledKeeps ==
  ASSUME MemInv, NEW u \in Users, GetPooled(u), Shared!PoolInv'
  PROVE  Conns' /\ Talks'
<1>1. Shared!PoolInv /\ Talks /\ InCall /\ Conns
  BY DEF MemInv
<1>2. Pool!GetIdle(u, todo[u][1]) /\ at[u] = "get" /\ Goto(u, "send") /\ Forget
  BY DEF GetPooled
<1>3. todo[u][1] \in Pool!Names
  BY <1>1, <1>2, FirstServer DEF Pool!Names
<1>4. PICK s \in Pool!Idle : held' = [held EXCEPT ![u] = @ \cup {s}]
  <2>1. PICK j \in 1..Len(idle[todo[u][1]]) :
          held' = [held EXCEPT ![u] = @ \cup {idle[todo[u][1]][j]}]
    BY <1>2 DEF Pool!GetIdle
  <2>2. DOMAIN idle[todo[u][1]] = 1..Len(idle[todo[u][1]])
    BY <1>1, <1>3, SharedFacts, LenProperties
  <2>3. idle[todo[u][1]][j] \in Pool!Idle
    BY <1>3, <2>2 DEF Pool!Idle, Pool!Items
  <2> QED
    BY <2>1, <2>3
<1>5. s \in Sockets /\ Silent(s)
  <2>1. s \in Sockets
    <3>1. PICK e \in Pool!Names : s \in Pool!Items(idle[e])
      BY DEF Pool!Idle
    <3>2. idle[e] \in Seq(Sockets)
      BY <1>1, SharedFacts
    <3> QED
      BY <3>1, <3>2, LenProperties, ElementOfSeq DEF Pool!Items
  <2>2. \A v \in Users : s \notin held[v]
    BY <1>1, SharedFacts
  <2> QED
    BY <1>1, <2>1, <2>2 DEF Talks, SpareSilent
<1>6. held' \in [Users -> SUBSET Sockets] /\ held'[u] = {s}
      /\ \A v \in Users : v # u => held'[v] = held[v]
  <2>1. held[u] = {}
    BY <1>1, <1>2 DEF Talks, HasNone
  <2> QED
    BY <1>1, <1>4, <1>5, <2>1, SharedFacts
<1>7. at'[u] = "send" /\ \A v \in Users : v # u => at'[v] = at[v] /\ op'[v] = op[v]
  BY <1>1, <1>2 DEF Goto, InCall
<1>8. /\ Conns'
      /\ \A t \in Sockets : /\ pipe'[t] \in {pipe[t], <<>>} /\ owes'[t] \in {owes[t], Nil}
                            /\ Silent(t) => Silent(t)'
  BY <1>1, <1>2, ForgetKeeps
<1>9. held[u] = {}
  BY <1>1, <1>2 DEF Talks, HasNone
<1> QED
  BY <1>5, <1>6, <1>7, <1>8, <1>9, BetweenTalks

LEMMA GetNewKeeps ==
  ASSUME MemInv, NEW u \in Users, GetNew(u)
  PROVE  Conns' /\ Talks'
<1>1. Shared!PoolInv /\ Talks /\ InCall /\ Conns
  BY DEF MemInv
<1>2. at[u] = "get" /\ Goto(u, "connect") /\ Forget /\ UNCHANGED held
  BY DEF GetNew, Pool!GetNone
<1>3. held[u] = {} /\ held \in [Users -> SUBSET Sockets]
  BY <1>1, <1>2, SharedFacts DEF Talks, HasNone
<1>4. at'[u] = "connect" /\ \A v \in Users : v # u => at'[v] = at[v] /\ op'[v] = op[v]
  BY <1>1, <1>2 DEF Goto, InCall
<1>5. /\ Conns'
      /\ \A t \in Sockets : /\ pipe'[t] \in {pipe[t], <<>>} /\ owes'[t] \in {owes[t], Nil}
                            /\ Silent(t) => Silent(t)'
  BY <1>1, <1>2, ForgetKeeps
<1> QED
  BY <1>2, <1>3, <1>4, <1>5, BetweenTalks

LEMMA NetAlone ==
  UNCHANGED netVars =>
    \A t \in Sockets : /\ pipe'[t] \in {pipe[t], <<>>} /\ owes'[t] \in {owes[t], Nil}
                       /\ Silent(t) => Silent(t)'
BY DEF netVars, Silent

LEMMA ConnectedKeeps ==
  ASSUME MemInv, NEW u \in Users, Connected(u)
  PROVE  Conns' /\ Talks'
<1>1. Shared!PoolInv /\ Talks /\ InCall /\ Conns
  BY DEF MemInv
<1>2. at[u] = "connect" /\ Goto(u, "send") /\ UNCHANGED netVars /\ Pool!Create(u)
  BY DEF Connected
<1>3. PICK s \in Sockets \ live : held' = [held EXCEPT ![u] = @ \cup {s}]
  BY <1>2 DEF Pool!Create
<1>4. Silent(s)
  <2>1. \A v \in Users : s \notin held[v]
    BY <1>1, SharedFacts
  <2> QED
    BY <1>1, <2>1 DEF Talks, SpareSilent
<1>5. held[u] = {}
  BY <1>1, <1>2 DEF Talks, HasNone
<1>6. held' \in [Users -> SUBSET Sockets] /\ held'[u] = {s}
      /\ \A v \in Users : v # u => held'[v] = held[v]
  BY <1>1, <1>3, <1>5, SharedFacts
<1>7. at'[u] = "send" /\ \A v \in Users : v # u => at'[v] = at[v] /\ op'[v] = op[v]
  BY <1>1, <1>2 DEF Goto, InCall
<1> QED
  BY <1>1, <1>2, <1>4, <1>5, <1>6, <1>7, SameConns, NetAlone, BetweenTalks

(* Where the end of an endpoint leads.                                     *)
LEMMA NextIs ==
  ASSUME InCall, NEW u \in Users, NextEndPoint(u)
  PROVE  /\ at'[u] \in {"out", "get"}
         /\ \A v \in Users : v # u => at'[v] = at[v] /\ op'[v] = op[v]
BY DEF InCall, NextEndPoint

LEMMA NotConnectedKeeps ==
  ASSUME MemInv, NEW u \in Users, NotConnected(u)
  PROVE  Conns' /\ Talks'
<1>1. Shared!PoolInv /\ Talks /\ InCall /\ Conns
  BY DEF MemInv
<1>2. at[u] = "connect" /\ NextEndPoint(u) /\ UNCHANGED netVars /\ UNCHANGED held
  BY DEF NotConnected, Pool!CreateFails
<1>3. held[u] = {} /\ held \in [Users -> SUBSET Sockets]
  BY <1>1, <1>2, SharedFacts DEF Talks, HasNone
<1> QED
  BY <1>1, <1>2, <1>3, NextIs, SameConns, NetAlone, BetweenTalks

(* Save() gives back a silent socket; a deleted one is silent afterwards.  *)
LEMMA EndOfTalk ==
  ASSUME MemInv, NEW u \in Users, NEW s \in held[u], NextEndPoint(u), Forget,
         held' = [held EXCEPT ![u] = @ \ {s}], Silent(s) \/ s \notin live'
  PROVE  Conns' /\ Talks'
<1>1. Shared!PoolInv /\ Talks /\ InCall /\ Conns
  BY DEF MemInv
<1>2. s \in Sockets /\ held[u] = {s}
  BY <1>1, SharedFacts DEF Talks, HasOne
<1>3. held' \in [Users -> SUBSET Sockets] /\ held'[u] = {}
      /\ \A v \in Users : v # u => held'[v] = held[v]
  BY <1>1, <1>2, SharedFacts
<1>4. /\ Conns'
      /\ \A t \in Sockets : /\ pipe'[t] \in {pipe[t], <<>>} /\ owes'[t] \in {owes[t], Nil}
                            /\ Silent(t) => Silent(t)'
                            /\ t \notin live' => Silent(t)'
  BY <1>1, ForgetKeeps
<1>5. \A t \in held[u] : Silent(t)'
  BY <1>2, <1>4
<1>6. at'[u] \in {"out", "get"} /\ \A v \in Users : v # u => at'[v] = at[v] /\ op'[v] = op[v]
  BY <1>1, NextIs
<1> QED
  BY <1>3, <1>4, <1>5, <1>6, BetweenTalks

LEMMA SaveKeeps ==
  ASSUME MemInv, NEW u \in Users, NEW s \in Sockets, Save(u, s)
  PROVE  Conns' /\ Talks'
<1>1. /\ at[u] = "save" /\ s \in held[u] /\ NextEndPoint(u) /\ Forget
      /\ held' = [held EXCEPT ![u] = @ \ {s}]
  BY DEF Save, Pool!Save
<1>2. Silent(s)
  BY <1>1 DEF MemInv, Talks, HeldRead, Reads
<1> QED
  BY <1>1, <1>2, EndOfTalk

LEMMA DeleteKeeps ==
  ASSUME MemInv, NEW u \in Users, NEW s \in Sockets, Delete(u, s)
  PROVE  Conns' /\ Talks'
<1>1. /\ s \in held[u] /\ NextEndPoint(u) /\ Forget
      /\ held' = [held EXCEPT ![u] = @ \ {s}] /\ s \notin live'
  BY DEF Delete, Pool!Discard
<1> QED
  BY <1>1, EndOfTalk

LEMMA DestroyKeeps ==
  ASSUME MemInv, Destroy
  PROVE  Conns' /\ Talks'
<1>1. Shared!PoolInv /\ Talks /\ InCall /\ Conns
  BY DEF MemInv
<1>2. Forget /\ UNCHANGED held /\ UNCHANGED callVars /\ \A u \in Users : at[u] = "out"
  BY DEF Destroy, Pool!Destroy
<1>3. /\ Conns' /\ \A s \in Sockets : Silent(s) => Silent(s)'
  BY <1>1, <1>2, ForgetKeeps
<1>4. \A u \in Users : held[u] = {}
  BY <1>1, <1>2 DEF Talks, HasNone
<1>5. HasNone' /\ HasOne' /\ HeldRead'
  BY <1>2, <1>4 DEF HasNone, HasOne, HeldRead
<1>6. SpareSilent'
  BY <1>1, <1>2, <1>3 DEF Talks, SpareSilent
<1> QED
  BY <1>3, <1>5, <1>6 DEF Talks

LEMMA CallKeepsTalks ==
  ASSUME MemInv, NEW u \in Users, NEW o \in Ops, NEW eps, Call(u, o, eps)
  PROVE  Conns' /\ Talks'
<1>1. Shared!PoolInv /\ Talks /\ InCall /\ Conns
  BY DEF MemInv
<1>2. /\ at[u] = "out" /\ at' = [at EXCEPT ![u] = "get"] /\ op' = [op EXCEPT ![u] = o]
      /\ UNCHANGED held /\ UNCHANGED netVars
  BY DEF Call, poolVars
<1>3. held[u] = {} /\ held \in [Users -> SUBSET Sockets]
  BY <1>1, <1>2, SharedFacts DEF Talks, HasNone
<1>4. at'[u] = "get" /\ \A v \in Users : v # u => at'[v] = at[v] /\ op'[v] = op[v]
  BY <1>1, <1>2 DEF InCall
<1> QED
  BY <1>1, <1>2, <1>3, <1>4, SameConns, NetAlone, BetweenTalks

-----------------------------------------------------------------------------
(* The talk.                                                               *)
LEMMA Using ==
  ASSUME MemInv, NEW u \in Users, NEW s \in Sockets, Pool!Use(u, s)
  PROVE  /\ s \in held[u] /\ UNCHANGED held /\ Reads(u, s)
         /\ pipe[s] \in Seq(Lines) /\ EndIsLast(pipe[s])
         /\ pipe[s] # <<>> => owes[s] = Nil
         /\ at[u] # "out" => op[u] \in Ops
<1>1. s \in held[u] /\ UNCHANGED held
  BY DEF Pool!Use
<1>2. at[u] # "out" => op[u] \in Ops
  BY DEF MemInv, InCall
<1> QED
  BY <1>1, <1>2 DEF MemInv, Talks, HeldRead, Conns

LEMMA SendKeeps ==
  ASSUME MemInv, NEW u \in Users, NEW s \in Sockets, Send(u, s)
  PROVE  Conns' /\ Talks'
<1>1. /\ at[u] = "send" /\ Pool!Use(u, s) /\ Goto(u, "line") /\ UNCHANGED <<pipe, eof>>
      /\ owes' = [owes EXCEPT ![s] = IF eof[s] THEN Nil ELSE op[u]]
  BY DEF Send
<1>2. s \in held[u] /\ UNCHANGED held /\ Silent(s) /\ op[u] \in Ops
  BY <1>1, Using DEF Reads
<1>3. Conns'
  BY <1>1, <1>2 DEF MemInv, Conns, Silent
<1>4. at'[u] = "line" /\ UNCHANGED op /\ pipe'[s] = <<>> /\ owes'[s] \in {Nil, op[u]}
      /\ \A t \in Sockets : t # s => pipe'[t] = pipe[t] /\ owes'[t] = owes[t]
  BY <1>1, <1>2 DEF MemInv, Conns, InCall, Goto, Silent
<1>5. Reads(u, s)'
  <2>1. Len(<<>>) <= 1 /\ Len(<<>>) <= 4
    BY SMT
  <2> QED
    BY <1>4, <2>1 DEF Reads
<1> QED
  BY <1>1, <1>2, <1>3, <1>4, <1>5, TalkStep

LEMMA FailureKeeps ==
  ASSUME MemInv, NEW u \in Users, NEW s \in Sockets, SendFails(u, s) \/ ReadFails(u, s)
  PROVE  Conns' /\ Talks'
<1>1. /\ at[u] \in {"send", "line", "data", "after"} /\ Pool!Use(u, s) /\ Goto(u, "delete")
      /\ UNCHANGED netVars
  BY DEF SendFails, ReadFails
<1>2. s \in held[u] /\ UNCHANGED held
  BY <1>1, Using
<1>3. at'[u] = "delete"
  BY <1>1 DEF MemInv, InCall, Goto
<1>4. Reads(u, s)'
  BY <1>3 DEF Reads
<1> QED
  BY <1>1, <1>2, <1>4, SameConns, TalkStep DEF MemInv, netVars

(* A read takes what it asks for from the pipe.                            *)
LEMMA TakenKeeps ==
  ASSUME MemInv, NEW u \in Users, NEW s \in Sockets, Pool!Use(u, s), pipe[s] # <<>>,
         at[u] \in {"line", "data", "after"},
         NEW q \in Seq(Lines), EndIsLast(q), pipe' = [pipe EXCEPT ![s] = q],
         UNCHANGED <<owes, eof>>,
         NEW l \in {"line", "data", "after", "save", "delete"}, Goto(u, l),
         l = "save" => q = <<>>,
         op[u] \in OneLine => l \notin {"line", "data", "after"},
         op[u] = "retr" => /\ l = "line" => Len(q) <= 4
                           /\ l = "data" => Len(q) <= 3
                           /\ l = "after" => Len(q) <= 1
  PROVE  Conns' /\ Talks'
<1>1. s \in held[u] /\ UNCHANGED held /\ owes[s] = Nil
  BY Using
<1>2. Conns'
  BY <1>1 DEF MemInv, Conns
<1>3. at'[u] = l /\ UNCHANGED op /\ pipe'[s] = q /\ owes'[s] = Nil
      /\ \A t \in Sockets : t # s => pipe'[t] = pipe[t] /\ owes'[t] = owes[t]
  BY <1>1 DEF MemInv, Conns, InCall, Goto
<1>4. Reads(u, s)'
  BY <1>3 DEF Reads, Silent
<1> QED
  BY <1>1, <1>2, <1>3, <1>4, TalkStep

LEMMA ReadLineKeeps ==
  ASSUME MemInv, NEW u \in Users, NEW s \in Sockets, ReadLine(u, s)
  PROVE  Conns' /\ Talks'
<1> DEFINE q == Tail(pipe[s])
           l == AfterLine(op[u], Head(pipe[s]))
<1>1. /\ at[u] = "line" /\ Pool!Use(u, s) /\ pipe[s] # <<>> /\ Goto(u, l)
      /\ pipe' = [pipe EXCEPT ![s] = q] /\ UNCHANGED <<owes, eof>>
  BY DEF ReadLine
<1>2. /\ pipe[s] \in Seq(Lines) /\ EndIsLast(pipe[s]) /\ Reads(u, s)
  BY <1>1, Using
<1>3. /\ q \in Seq(Lines) /\ EndIsLast(q) /\ Len(q) = Len(pipe[s]) - 1
      /\ Head(pipe[s]) = "END" => Len(pipe[s]) = 1
  BY <1>1, <1>2, Tailed
<1>4. Len(pipe[s]) \in Nat /\ Len(q) \in Nat /\ (Len(q) = 0 => q = <<>>)
  BY <1>2, <1>3, LenProperties, EmptySeq
<1>5. l \in {"line", "data", "save", "delete"}
  BY DEF AfterLine
<1>6. l = "save" => op[u] \in OneLine \/ Head(pipe[s]) = "END"
  BY DEF AfterLine
<1>7. op[u] \in OneLine => l \notin {"line", "data", "after"}
  BY DEF AfterLine
<1>8. op[u] = "retr" => l # "line"
  BY DEF AfterLine
<1> HIDE DEF q, l
<1>9. l = "save" => q = <<>>
  <2>1. op[u] \in OneLine => Len(q) = 0
    <3>1. op[u] \in OneLine => Len(pipe[s]) <= 1
      BY <1>1, <1>2 DEF Reads
    <3>2. \A m, k \in Nat : m <= 1 /\ k = m - 1 => k = 0
      BY SMT
    <3> QED
      BY <1>3, <1>4, <3>1, <3>2, Zenon
  <2>2. Head(pipe[s]) = "END" => Len(q) = 0
    BY <1>3
  <2> QED
    BY <1>4, <1>6, <2>1, <2>2
<1>10. op[u] = "retr" => Len(q) <= 3
  BY <1>1, <1>2, <1>3, <1>4 DEF Reads
<1> QED
  BY <1>1, <1>3, <1>5, <1>7, <1>8, <1>9, <1>10, TakenKeeps

LEMMA ReadDataKeeps ==
  ASSUME MemInv, NEW u \in Users, NEW s \in Sockets, ReadData(u, s)
  PROVE  Conns' /\ Talks'
<1> DEFINE n == Block(op[u])
           q == SubSeq(pipe[s], n + 1, Len(pipe[s]))
<1>1. /\ at[u] = "data" /\ Pool!Use(u, s) /\ pipe[s] # <<>> /\ UNCHANGED <<owes, eof>>
      /\ \/ Len(pipe[s]) >= n /\ pipe' = [pipe EXCEPT ![s] = q] /\ Goto(u, "after")
         \/ pipe' = [pipe EXCEPT ![s] = <<>>] /\ Goto(u, "delete")
  BY DEF ReadData
<1>2. pipe[s] \in Seq(Lines) /\ EndIsLast(pipe[s]) /\ Reads(u, s) /\ Len(pipe[s]) \in Nat
  BY <1>1, Using, LenProperties
<1>3. n \in Nat /\ (op[u] = "retr" => n = 2)
  BY DEF Block
<1> HIDE DEF n
<1>4. CASE Len(pipe[s]) >= n /\ pipe' = [pipe EXCEPT ![s] = q] /\ Goto(u, "after")
  <2>1. q \in Seq(Lines) /\ EndIsLast(q) /\ Len(q) = Len(pipe[s]) - n
    <3>1. n <= Len(pipe[s])
      BY <1>2, <1>3, <1>4
    <3> QED
      BY <1>2, <1>3, <3>1, Rested
  <2> HIDE DEF q
  <2>2. op[u] = "retr" => Len(q) <= 1
    BY <1>1, <1>2, <1>3, <2>1 DEF Reads
  <2> QED
    BY <1>1, <1>2, <1>4, <2>1, <2>2, TakenKeeps DEF Reads
<1>5. CASE pipe' = [pipe EXCEPT ![s] = <<>>] /\ Goto(u, "delete")
  BY <1>1, <1>5, Emptied, TakenKeeps
<1> QED
  BY <1>1, <1>4, <1>5

LEMMA ReadAfterKeeps ==
  ASSUME MemInv, NEW u \in Users, NEW s \in Sockets, ReadAfter(u, s)
  PROVE  Conns' /\ Talks'
<1> DEFINE q == Tail(pipe[s])
           l == IF op[u] = "retr" THEN "save" ELSE "line"
<1>1. /\ at[u] = "after" /\ Pool!Use(u, s) /\ pipe[s] # <<>> /\ Goto(u, l)
      /\ pipe' = [pipe EXCEPT ![s] = q] /\ UNCHANGED <<owes, eof>>
  BY DEF ReadAfter
<1>2. pipe[s] \in Seq(Lines) /\ EndIsLast(pipe[s]) /\ Reads(u, s)
  BY <1>1, Using
<1>3. q \in Seq(Lines) /\ EndIsLast(q) /\ Len(q) = Len(pipe[s]) - 1
  BY <1>1, <1>2, Tailed
<1>4. Len(pipe[s]) \in Nat /\ Len(q) \in Nat /\ (Len(q) = 0 => q = <<>>)
  BY <1>2, <1>3, LenProperties, EmptySeq
<1>5. op[u] = "retr" => q = <<>>
  BY <1>1, <1>2, <1>3, <1>4 DEF Reads
<1>6. op[u] \notin OneLine
  BY <1>1, <1>2 DEF Reads
<1> QED
  BY <1>1, <1>3, <1>5, <1>6, TakenKeeps DEF OneLine

-----------------------------------------------------------------------------
(* The servers.                                                            *)
(* What comes on one connection is of no matter to the others.             *)
LEMMA ServerStep ==
  ASSUME MemInv, Conns', NEW s \in Sockets, UNCHANGED <<held, at, op>>,
         \A t \in Sockets : t # s => pipe'[t] = pipe[t] /\ owes'[t] = owes[t],
         Silent(s) => Silent(s)',
         \A u \in Users : Reads(u, s) => Reads(u, s)'
  PROVE  Talks'
<1>1. Shared!PoolInv /\ Talks
  BY DEF MemInv
<1>2. HasNone' /\ HasOne'
  BY <1>1 DEF Talks, HasNone, HasOne
<1>3. SpareSilent'
  BY <1>1 DEF Talks, SpareSilent, Silent
<1>4. HeldRead'
  <2> SUFFICES ASSUME NEW u \in Users, NEW t \in held[u] PROVE Reads(u, t)'
    BY DEF HeldRead
  <2>1. t \in Sockets /\ Reads(u, t)
    BY <1>1, SharedFacts DEF Talks, HeldRead
  <2>2. CASE t = s
    BY <2>1, <2>2
  <2>3. CASE t # s
    BY <2>1, <2>3, LessToRead
  <2> QED
    BY <2>2, <2>3
<1> QED
  BY <1>2, <1>3, <1>4 DEF Talks

LEMMA AnswerKeeps ==
  ASSUME MemInv, NEW s \in Sockets, Answer(s)
  PROVE  Conns' /\ Talks'
<1>1. PICK r \in Replies(owes[s]) : pipe' = [pipe EXCEPT ![s] = @ \o r]
  BY DEF Answer
<1>2. /\ owes[s] # Nil /\ owes' = [owes EXCEPT ![s] = Nil]
      /\ UNCHANGED <<poolVars, callVars, eof>>
  BY DEF Answer
<1>3. owes[s] \in Ops /\ pipe[s] = <<>> /\ pipe \in [Sockets -> Seq(Lines)]
  BY <1>2 DEF MemInv, Conns
<1>4. /\ r \in Seq(Lines) /\ EndIsLast(r)
      /\ owes[s] \in OneLine => Len(r) <= 1
      /\ owes[s] = "retr" => Len(r) <= 4
  BY <1>3, ReplyForm
<1>5. pipe' = [pipe EXCEPT ![s] = r]
  BY <1>1, <1>3, <1>4, ConcatEmptySeq
<1>6. Conns'
  BY <1>2, <1>4, <1>5 DEF MemInv, Conns
<1>7. /\ pipe'[s] = r /\ owes'[s] = Nil
      /\ \A t \in Sockets : t # s => pipe'[t] = pipe[t] /\ owes'[t] = owes[t]
  BY <1>2, <1>3, <1>5 DEF MemInv, Conns
<1>8. ASSUME NEW u \in Users, Reads(u, s) PROVE Reads(u, s)'
  <2>1. at[u] \notin {"send", "save", "data", "after"}
    BY <1>2, <1>8 DEF Reads, Silent
  <2>2. at[u] = "line" => op[u] = owes[s]
    BY <1>2, <1>8 DEF Reads
  <2> QED
    BY <1>2, <1>4, <1>7, <2>1, <2>2 DEF Reads, callVars
<1> QED
  BY <1>2, <1>6, <1>7, <1>8, ServerStep DEF poolVars, callVars, Silent

LEMMA CloseKeeps ==
  ASSUME MemInv, NEW s \in Sockets, Close(s)
  PROVE  Conns' /\ Talks'
<1>1. pipe \in [Sockets -> Seq(Lines)] /\ EndIsLast(pipe[s]) /\ pipe[s] \in Seq(Lines)
  BY DEF MemInv, Conns
<1>2. PICK n \in 0..Len(pipe[s]) :
        \/ pipe' = [pipe EXCEPT ![s] = SubSeq(@, 1, n)]
        \/ n < Len(pipe[s]) /\ pipe' = [pipe EXCEPT ![s] = Append(SubSeq(@, 1, n), "cut")]
  BY DEF Close
<1>3. owes' = [owes EXCEPT ![s] = Nil] /\ eof' = [eof EXCEPT ![s] = TRUE]
      /\ UNCHANGED <<poolVars, callVars>>
  BY DEF Close
<1>4. PICK q \in Seq(Lines) :
        EndIsLast(q) /\ Len(q) <= Len(pipe[s]) /\ pipe' = [pipe EXCEPT ![s] = q]
  <2>1. Len(pipe[s]) \in Nat
    BY <1>1, LenProperties
  <2>2. CASE pipe' = [pipe EXCEPT ![s] = SubSeq(@, 1, n)]
    <3> DEFINE q == SubSeq(pipe[s], 1, n)
    <3>1. q \in Seq(Lines) /\ EndIsLast(q) /\ Len(q) = n
      BY <1>1, Begun
    <3> HIDE DEF q
    <3>2. Len(q) <= Len(pipe[s])
      BY <2>1, <3>1
    <3>3. pipe' = [pipe EXCEPT ![s] = q]
      BY <2>2 DEF q
    <3> QED
      BY <3>1, <3>2, <3>3
  <2>3. CASE n < Len(pipe[s]) /\ pipe' = [pipe EXCEPT ![s] = Append(SubSeq(@, 1, n), "cut")]
    <3> DEFINE q == Append(SubSeq(pipe[s], 1, n), "cut")
    <3>1. q \in Seq(Lines) /\ EndIsLast(q) /\ Len(q) = n + 1
      BY <1>1, <2>3, Begun
    <3> HIDE DEF q
    <3>2. Len(q) <= Len(pipe[s])
      BY <2>1, <2>3, <3>1
    <3>3. pipe' = [pipe EXCEPT ![s] = q]
      BY <2>3 DEF q
    <3> QED
      BY <3>1, <3>2, <3>3
  <2> QED
    BY <1>2, <2>2, <2>3
<1>5. /\ pipe'[s] = q /\ owes'[s] = Nil
      /\ \A t \in Sockets : t # s => pipe'[t] = pipe[t] /\ owes'[t] = owes[t]
  BY <1>1, <1>3, <1>4 DEF MemInv, Conns
<1>6. Conns'
  BY <1>3, <1>4 DEF MemInv, Conns
<1>7. Len(pipe[s]) \in Nat /\ Len(q) \in Nat /\ (pipe[s] = <<>> => q = <<>>)
  <2>1. Len(pipe[s]) \in Nat /\ Len(q) \in Nat /\ (Len(q) = 0 => q = <<>>)
    BY <1>1, LenProperties, EmptySeq
  <2>2. pipe[s] = <<>> => Len(pipe[s]) = 0
    BY EmptySeq
  <2> QED
    BY <1>4, <2>1, <2>2
<1>8. Silent(s) => Silent(s)'
  BY <1>5, <1>7 DEF Silent
<1>9. \A k \in {1, 3, 4} : Len(pipe[s]) <= k => Len(pipe'[s]) <= k
  BY <1>4, <1>5, <1>7
<1>10. ASSUME NEW u \in Users, Reads(u, s) PROVE Reads(u, s)'
  <2>1. (Len(pipe[s]) <= 1 => Len(pipe'[s]) <= 1) /\ (Len(pipe[s]) <= 3 => Len(pipe'[s]) <= 3)
        /\ (Len(pipe[s]) <= 4 => Len(pipe'[s]) <= 4)
    BY <1>9
  <2>2. at' = at /\ op' = op
    BY <1>3 DEF callVars
  <2> QED
    BY <1>5, <1>8, <1>10, <2>1, <2>2 DEF Reads
<1> QED
  BY <1>3, <1>5, <1>6, <1>8, <1>10, ServerStep DEF poolVars, callVars

-----------------------------------------------------------------------------
LEMMA MemInvNext == MemInv /\ [Next]_vars => MemInv'
<1> SUFFICES ASSUME MemInv, [Next]_vars PROVE Conns' /\ Talks'
  BY MemInvStep DEF MemInv
<1>1. ASSUME NEW u \in Users, NEW o \in Ops,
             NEW eps \in {<<e>> : e \in EndPoints} \cup SetToSeqs(EndPoints), Call(u, o, eps)
      PROVE  Conns' /\ Talks'
  BY <1>1, CallKeepsTalks
<1>2. ASSUME NEW u \in Users,
             GetPooled(u) \/ GetNew(u) \/ Connected(u) \/ NotConnected(u)
      PROVE  Conns' /\ Talks'
  BY <1>2, MemInvStep, GetPooledKeeps, GetNewKeeps, ConnectedKeeps, NotConnectedKeeps
<1>3. ASSUME NEW u \in Users, NEW s \in Sockets,
             \/ Send(u, s) \/ SendFails(u, s)
             \/ ReadLine(u, s) \/ ReadData(u, s) \/ ReadAfter(u, s) \/ ReadFails(u, s)
      PROVE  Conns' /\ Talks'
  BY <1>3, SendKeeps, FailureKeeps, ReadLineKeeps, ReadDataKeeps, ReadAfterKeeps
<1>4. ASSUME NEW u \in Users, NEW s \in Sockets, Save(u, s) \/ Delete(u, s)
      PROVE  Conns' /\ Talks'
  BY <1>4, SaveKeeps, DeleteKeeps
<1>5. ASSUME NEW s \in Sockets, Answer(s) \/ Close(s) PROVE Conns' /\ Talks'
  BY <1>5, AnswerKeeps, CloseKeeps
<1>6. CASE Destroy
  BY <1>6, DestroyKeeps
<1>7. CASE UNCHANGED vars
  <2>1. UNCHANGED <<held, at, op, todo, owes, pipe, eof>>
    BY <1>7 DEF vars, poolVars, callVars, netVars
  <2>2. Conns'
    BY <2>1 DEF MemInv, Conns
  <2>3. Talks'
    BY <2>1 DEF MemInv, Talks, HasNone, HasOne, SpareSilent, HeldRead, Reads, Silent
  <2> QED
    BY <2>2, <2>3
<1> QED
  BY <1>1, <1>2, <1>3, <1>4, <1>5, <1>6, <1>7, Zenon DEF Next

LEMMA MemInvInit == Init => MemInv
<1> SUFFICES ASSUME Init PROVE MemInv
  OBVIOUS
<1>1. Shared!PoolInv
  BY SharedInit, SharedAssumption, Shared!PoolInvInit DEF Init
<1>2. InCall
  BY EmptySeq DEF Init, InCall, Places
<1>3. Conns
  BY Emptied DEF Init, Conns
<1>4. \A u \in Users : held[u] = {}
  BY DEF Init, Pool!Init
<1>5. \A s \in Sockets : Silent(s)
  BY DEF Init, Silent
<1>6. Talks
  BY <1>4, <1>5 DEF Talks, HasNone, HasOne, SpareSilent, HeldRead
<1> QED
  BY <1>1, <1>2, <1>3, <1>6 DEF MemInv

LEMMA MemInvHolds == Spec => []MemInv
BY MemInvInit, MemInvNext, PTL DEF Spec

(* The variables of the calls and of the connections have their types, and *)
(* a thread has servers left to talk to just as long as its call lasts.    *)
THEOREM TypeCorrect == Spec => []TypeOK
<1>1. MemInv => TypeOK
  <2> SUFFICES ASSUME MemInv PROVE TypeOK
    OBVIOUS
  <2>1. \A S : \A q \in Seq(S) : Range(q) \subseteq S
    BY ElementOfSeq, LenProperties DEF Range
  <2>2. InCall /\ Conns
    BY DEF MemInv
  <2>3. \A u \in Users : Range(todo[u]) \subseteq EndPoints
    BY <2>1, <2>2 DEF InCall
  <2>4. \A s \in Sockets : Range(pipe[s]) \subseteq Lines
    BY <2>1, <2>2 DEF Conns
  <2>5. \A u \in Users :
          (at[u] = "out") = (todo[u] = <<>>) /\ (at[u] = "out") = (op[u] = "out")
    BY <2>2 DEF InCall
  <2> QED
    BY <2>2, <2>3, <2>4, <2>5 DEF TypeOK, InCall, Conns, Lines
<1> QED
  BY <1>1, MemInvHolds, PTL

(* However the threads, the servers and the pool go on, a connection in    *)
(* the pool has no answer in it, nor one on its way, and no thread leaves  *)
(* its call with a connection.                                             *)
THEOREM GivenBackHolds == Spec => []GivenBack
<1>1. MemInv => GivenBack
  <2> SUFFICES ASSUME MemInv PROVE GivenBack
    OBVIOUS
  <2>1. \A s \in Pool!Idle : s \in Sockets /\ \A u \in Users : s \notin held[u]
    <3>1. /\ idle \in [Pool!Names -> Seq(Sockets)]
          /\ \A u \in Users : held[u] \cap Pool!Idle = {}
      BY SharedFacts DEF MemInv
    <3>2. \A e \in Pool!Names : Pool!Items(idle[e]) \subseteq Sockets
      BY <3>1, LenProperties, ElementOfSeq DEF Pool!Items
    <3> QED
      BY <3>1, <3>2 DEF Pool!Idle
  <2>2. \A s \in Pool!Idle : Silent(s)
    BY <2>1 DEF MemInv, Talks, SpareSilent
  <2> QED
    BY <2>2 DEF GivenBack, MemInv, Talks, HasNone, Silent
<1> QED
  BY <1>1, MemInvHolds, PTL

-----------------------------------------------------------------------------
(* A thread waits for, and then has, a connection to the endpoint whose    *)
(* turn it is.                                                             *)
Its(u) ==
  /\ at[u] = "connect" => asked[u] = todo[u][1]
  /\ Talking(u) => \E s \in held[u] : dest[s] = todo[u][1]

AllIts == \A u \in Users : Its(u)

(* A thread that does not step keeps what it has.                          *)
LEMMA OthersIts ==
  ASSUME NEW v \in Users, Its(v), at'[v] = at[v], todo'[v] = todo[v],
         asked'[v] = asked[v], held'[v] = held[v], \A s \in held[v] : dest'[s] = dest[s]
  PROVE  Its(v)'
BY DEF Its, Talking

LEMMA SameIts ==
  ASSUME AllIts, UNCHANGED <<at, todo, asked, held, dest>>
  PROVE  AllIts'
BY OthersIts DEF AllIts

(* A thread that goes on with its talk, and one whose call goes on.        *)
LEMMA TalkKeepsIts ==
  ASSUME MemInv, AllIts, NEW u \in Users, NEW s \in Sockets, Talking(u),
         NEW l \in Places \ {"connect"}, Goto(u, l), Pool!Use(u, s)
  PROVE  AllIts'
<1>1. UNCHANGED <<todo, asked, held, dest>> /\ at'[u] = l
      /\ \A v \in Users : v # u => at'[v] = at[v]
  BY DEF Goto, Pool!Use, MemInv, InCall
<1>2. Its(u)'
  BY <1>1 DEF AllIts, Its, Talking
<1> QED
  BY <1>1, <1>2, OthersIts DEF AllIts

LEMMA NextKeepsIts ==
  ASSUME MemInv, AllIts, NEW u \in Users, NextEndPoint(u), UNCHANGED dest,
         \A v \in Users : v # u => asked'[v] = asked[v] /\ held'[v] = held[v]
  PROVE  AllIts'
<1>1. /\ at'[u] \in {"out", "get"}
      /\ \A v \in Users : v # u => at'[v] = at[v] /\ todo'[v] = todo[v]
  BY DEF NextEndPoint, MemInv, InCall
<1>2. Its(u)'
  BY <1>1 DEF Its, Talking
<1> QED
  BY <1>1, <1>2, OthersIts DEF AllIts

LEMMA GetPooledIts ==
  ASSUME MemInv, AllIts, NEW u \in Users, GetPooled(u)
  PROVE  AllIts'
<1> DEFINE e == todo[u][1]
<1>1. at[u] = "get" /\ Goto(u, "send") /\ Pool!GetIdle(u, e)
  BY DEF GetPooled
<1>2. e \in EndPoints /\ e \in Pool!Names
  BY <1>1, FirstServer DEF MemInv, Pool!Names
<1> HIDE DEF e
<1>3. PICK j \in 1..Len(idle[e]) : held' = [held EXCEPT ![u] = @ \cup {idle[e][j]}]
  BY <1>1 DEF Pool!GetIdle
<1>4. /\ held \in [Users -> SUBSET Sockets] /\ idle[e] \in Seq(Sockets)
      /\ Pool!Idle \subseteq live
  BY <1>2, SharedFacts DEF MemInv
<1>5. dest[idle[e][j]] = e
  <2>1. j \in DOMAIN idle[e]
    BY <1>3, <1>4, LenProperties
  <2>2. idle[e][j] \in live
    BY <1>2, <1>4, <2>1 DEF Pool!Idle, Pool!Items
  <2>3. peer[idle[e][j]] = e /\ peer[idle[e][j]] \in {dest[idle[e][j]], Unknown}
    BY <1>2, <2>1, <2>2 DEF MemInv, Shared!PoolInv, Shared!FiledByPeer, Pool!Names, Shared!Names
  <2> QED
    BY <1>2, <2>3, MemAssumption
<1>6. /\ UNCHANGED <<asked, dest, todo>> /\ at'[u] = "send" /\ idle[e][j] \in held'[u]
      /\ \A v \in Users : v # u => at'[v] = at[v] /\ held'[v] = held[v]
  BY <1>1, <1>3, <1>4 DEF Pool!GetIdle, Goto, MemInv, InCall
<1>7. Its(u)'
  BY <1>5, <1>6 DEF Its, Talking, e
<1> QED
  BY <1>6, <1>7, OthersIts DEF AllIts

LEMMA ConnectedIts ==
  ASSUME MemInv, AllIts, NEW u \in Users, Connected(u)
  PROVE  AllIts'
<1>1. at[u] = "connect" /\ Goto(u, "send") /\ Pool!Create(u)
  BY DEF Connected
<1>2. PICK s \in Sockets \ live :
        /\ held' = [held EXCEPT ![u] = @ \cup {s}]
        /\ dest' = [dest EXCEPT ![s] = asked[u]]
  BY <1>1 DEF Pool!Create
<1>3. /\ held \in [Users -> SUBSET Sockets] /\ \A v \in Users : held[v] \subseteq live
      /\ dest \in [Sockets -> EndPoints \cup {Nil}]
      /\ asked \in [Users -> EndPoints \cup {Nil}]
  BY SharedFacts DEF MemInv, Shared!PoolInv, Shared!TypeOK
<1>4. /\ UNCHANGED todo /\ at'[u] = "send" /\ s \in held'[u] /\ dest'[s] = asked[u]
      /\ \A v \in Users : v # u => /\ at'[v] = at[v] /\ held'[v] = held[v]
                                  /\ asked'[v] = asked[v]
                                  /\ \A t \in held[v] : dest'[t] = dest[t]
  BY <1>1, <1>2, <1>3 DEF Pool!Create, Goto, MemInv, InCall
<1>5. Its(u)'
  BY <1>1, <1>4 DEF AllIts, Its, Talking
<1> QED
  BY <1>4, <1>5, OthersIts DEF AllIts

LEMMA ItsNext ==
  ASSUME MemInv, AllIts, [Next]_vars
  PROVE  AllIts'
<1>1. ASSUME NEW u \in Users, NEW o \in Ops, NEW eps, Call(u, o, eps) PROVE AllIts'
  <2>1. /\ UNCHANGED <<asked, held, dest>> /\ at'[u] = "get"
        /\ \A v \in Users : v # u => at'[v] = at[v] /\ todo'[v] = todo[v]
    BY <1>1 DEF Call, poolVars, MemInv, InCall
  <2>2. Its(u)'
    BY <2>1 DEF Its, Talking
  <2> QED
    BY <2>1, <2>2, OthersIts DEF AllIts
<1>2. ASSUME NEW u \in Users, GetNew(u) PROVE AllIts'
  <2>1. /\ UNCHANGED <<held, dest, todo>> /\ at'[u] = "connect" /\ asked'[u] = todo[u][1]
        /\ \A v \in Users : v # u => at'[v] = at[v] /\ asked'[v] = asked[v]
    <3>1. asked \in [Users -> EndPoints \cup {Nil}]
      BY DEF MemInv, Shared!PoolInv, Shared!TypeOK
    <3> QED
      BY <1>2, <3>1 DEF GetNew, Pool!GetNone, Goto, MemInv, InCall
  <2>2. Its(u)'
    BY <2>1 DEF Its, Talking
  <2> QED
    BY <2>1, <2>2, OthersIts DEF AllIts
<1>3. ASSUME NEW u \in Users, NotConnected(u) PROVE AllIts'
  BY <1>3, NextKeepsIts DEF NotConnected, Pool!CreateFails
<1>4. ASSUME NEW u \in Users, NEW s \in Sockets,
             \/ Send(u, s) \/ SendFails(u, s)
             \/ ReadLine(u, s) \/ ReadData(u, s) \/ ReadAfter(u, s) \/ ReadFails(u, s)
      PROVE  AllIts'
  <2>1. Talking(u) /\ Pool!Use(u, s)
    BY <1>4 DEF Talking, Send, SendFails, ReadLine, ReadData, ReadAfter, ReadFails
  <2>2. \E l \in Places \ {"connect"} : Goto(u, l)
    <3>1. AfterLine(op[u], Head(pipe[s])) \in Places \ {"connect"}
          /\ (IF op[u] = "retr" THEN "save" ELSE "line") \in Places \ {"connect"}
      BY DEF AfterLine, Places
    <3>2. CASE ReadLine(u, s) \/ ReadAfter(u, s)
      BY <3>1, <3>2 DEF ReadLine, ReadAfter
    <3>3. CASE Send(u, s) \/ SendFails(u, s) \/ ReadData(u, s) \/ ReadFails(u, s)
      BY <3>3 DEF Send, SendFails, ReadData, ReadFails, Places
    <3> QED
      BY <1>4, <3>2, <3>3
  <2> QED
    BY <2>1, <2>2, TalkKeepsIts
<1>5. ASSUME NEW u \in Users, NEW s \in Sockets, Save(u, s) \/ Delete(u, s) PROVE AllIts'
  <2>1. /\ NextEndPoint(u) /\ UNCHANGED <<asked, dest>>
        /\ held' = [held EXCEPT ![u] = @ \ {s}]
    BY <1>5 DEF Save, Delete, Pool!Save, Pool!Discard
  <2>2. \A v \in Users : v # u => held'[v] = held[v]
    BY <2>1, SharedFacts DEF MemInv
  <2> QED
    BY <2>1, <2>2, NextKeepsIts
<1>6. CASE (\E s \in Sockets : Answer(s) \/ Close(s)) \/ Destroy \/ UNCHANGED vars
  BY <1>6, SameIts
     DEF Answer, Close, Destroy, Pool!Destroy, vars, poolVars, callVars
<1> QED
  BY <1>1, <1>2, <1>3, <1>4, <1>5, <1>6, GetPooledIts, ConnectedIts, Zenon DEF Next

(* In any number of calls, over any endpoints and whatever fails, a thread *)
(* that talks has one connection, to the endpoint whose turn it is, that   *)
(* no other thread and not the pool has; and no other connections are      *)
(* left over.                                                              *)
THEOREM OwnConnectionHolds == Spec => []OwnConnection
<1>1. MemInv /\ AllIts => OwnConnection
  <2> SUFFICES ASSUME MemInv, AllIts PROVE OwnConnection
    OBVIOUS
  <2>1. /\ held \in [Users -> SUBSET Sockets]
        /\ \A u, v \in Users : u # v => held[u] \cap held[v] = {}
        /\ \A u \in Users : held[u] \cap Pool!Idle = {}
        /\ live = Pool!Idle \cup UNION {held[u] : u \in Users}
    BY SharedFacts DEF MemInv
  <2>2. HasNone /\ HasOne
    BY DEF MemInv, Talks
  <2>3. ASSUME NEW u \in Users, Talking(u)
        PROVE  \E s \in live \ Pool!Idle :
                 /\ held[u] = {s} /\ dest[s] = todo[u][1]
                 /\ \A v \in Users \ {u} : s \notin held[v]
    <3>1. PICK s \in held[u] : dest[s] = todo[u][1]
      BY <2>3 DEF AllIts, Its
    <3>2. held[u] = {s}
      BY <2>2, <3>1 DEF HasOne
    <3>3. s \in live \ Pool!Idle /\ \A v \in Users \ {u} : s \notin held[v]
      BY <2>1, <3>1
    <3> QED
      BY <3>1, <3>2, <3>3
  <2>4. ASSUME NEW s \in live \ Pool!Idle PROVE \E u \in Users : Talking(u) /\ s \in held[u]
    <3>1. PICK u \in Users : s \in held[u]
      BY <2>1
    <3>2. at[u] \in Places /\ at[u] \notin {"out", "get", "connect"}
      BY <2>2, <3>1 DEF MemInv, InCall, HasNone
    <3> QED
      BY <3>1, <3>2 DEF Talking, Places
  <2> QED
    BY <2>1, <2>3, <2>4 DEF OwnConnection
<1>2. Init => AllIts
  BY DEF Init, AllIts, Its, Talking
<1>3. MemInv /\ AllIts /\ [Next]_vars => AllIts'
  BY ItsNext
<1> QED
  BY <1>1, <1>2, <1>3, MemInvHolds, PTL DEF Spec
===============================================================================
