----------------------------- MODULE MemClient -----------------------------
(***************************************************************************)
(* SP_NKMemClient and SP_NKMemProtocol (src/spnetkit/spnkmemcli.cpp) over  *)
(* the shared SP_NKSocketPool: threads that get a connection from the      *)
(* pool, talk to a memcached server over it, and save or delete it by the  *)
(* result of the talk.                                                     *)
(*                                                                         *)
(* One step is a call of the pool, a write, or a read of one line or data  *)
(* block.  Replies are sequences of lines and data blocks; keys appear     *)
(* only as the endpoint they hash to.  The pool is module SocketPool.      *)
(***************************************************************************)
EXTENDS Integers, Sequences, FiniteSets, SequencesExt

CONSTANTS Users, EndPoints, Unknown, Sockets, MaxIdle, Nil,  \* of SocketPool
          MaxItems   \* bound: items or statistics in a reply

ASSUME MemAssumption ==
  /\ MaxItems \in Nat /\ IsFiniteSet(EndPoints) /\ EndPoints # {}
  /\ MaxIdle \in Nat /\ Unknown \notin EndPoints /\ Nil \notin EndPoints \cup Sockets

VARIABLES
  idle, held, asked, live, peer, dest, pool,   \* of SocketPool
  op,      \* the operation each thread is in, "out" if none
  todo,    \* the endpoints it has yet to talk to, the first being current
  at,      \* where in the talk it is
  owes,    \* the request on each connection that the server has not answered
  pipe,    \* what each connection brings and the client has not read
  eof      \* connections that the server has closed

Pool == INSTANCE SocketPool WITH MaxIdleTime <- 0, age <- [s \in Sockets |-> 0]

poolVars == <<idle, held, asked, live, peer, dest, pool>>
callVars == <<op, todo, at>>
netVars  == <<owes, pipe, eof>>
vars == <<poolVars, callVars, netVars>>

OneLine == {"stor", "dele", "incr"}   \* decr() has the form of incr()
Ops == OneLine \cup {"retr", "gets", "stat"}

Init ==
  /\ Pool!Init
  /\ op = [u \in Users |-> "out"]
  /\ todo = [u \in Users |-> <<>>]
  /\ at = [u \in Users |-> "out"]
  /\ owes = [s \in Sockets |-> Nil]
  /\ pipe = [s \in Sockets |-> <<>>]
  /\ eof = [s \in Sockets |-> FALSE]

(* What a deleted socket had to read is gone.                              *)
Forget ==
  /\ owes' = [s \in Sockets |-> IF s \in live' THEN owes[s] ELSE Nil]
  /\ pipe' = [s \in Sockets |-> IF s \in live' THEN pipe[s] ELSE <<>>]
  /\ eof' = [s \in Sockets |-> IF s \in live' THEN eof[s] ELSE FALSE]

Goto(u, l) == at' = [at EXCEPT ![u] = l] /\ UNCHANGED <<op, todo>>

-----------------------------------------------------------------------------
(* The servers.                                                            *)
Repeat(part, n) == [i \in 1..(n * Len(part)) |-> part[((i - 1) % Len(part)) + 1]]

Replies(o) ==
  LET item == <<"VALUE", "data", "eol">> IN
  {<<"error">>} \cup
  CASE o \in OneLine -> {<<"ok">>, <<"no">>}
    [] o = "retr"    -> {<<"END">>, Append(item, "END")}
    [] o = "gets"    -> {Append(Repeat(item, n), "END") : n \in 0..MaxItems}
    [] o = "stat"    -> {Append(Repeat(<<"STAT">>, n), "END") : n \in 0..MaxItems}

Answer(s) ==
  /\ s \in live /\ owes[s] # Nil /\ ~eof[s]
  /\ \E r \in Replies(owes[s]) : pipe' = [pipe EXCEPT ![s] = @ \o r]
  /\ owes' = [owes EXCEPT ![s] = Nil]
  /\ UNCHANGED <<poolVars, callVars, eof>>

(* The server closes, idle or amid a reply, even amid a line or a block.   *)
Close(s) ==
  /\ s \in live /\ ~eof[s]
  /\ \E n \in 0..Len(pipe[s]) :
       \/ pipe' = [pipe EXCEPT ![s] = SubSeq(@, 1, n)]
       \/ n < Len(pipe[s]) /\ pipe' = [pipe EXCEPT ![s] = Append(SubSeq(@, 1, n), "cut")]
  /\ eof' = [eof EXCEPT ![s] = TRUE]
  /\ owes' = [owes EXCEPT ![s] = Nil]
  /\ UNCHANGED <<poolVars, callVars>>

-----------------------------------------------------------------------------
(* Getting a connection.                                                   *)

(* A call: stor(), retr(), dele(), incr() and decr() talk to the endpoint  *)
(* of the key, retr() of a list and stat() to several in turn.             *)
Call(u, o, eps) ==
  /\ at[u] = "out" /\ pool = "open"
  /\ o \in OneLine \cup {"retr"} => Len(eps) = 1
  /\ op' = [op EXCEPT ![u] = o]
  /\ todo' = [todo EXCEPT ![u] = eps]
  /\ at' = [at EXCEPT ![u] = "get"]
  /\ UNCHANGED <<poolVars, netVars>>

GetPooled(u) ==
  /\ at[u] = "get"
  /\ Pool!GetIdle(u, todo[u][1])
  /\ Goto(u, "send")
  /\ Forget

GetNew(u) ==
  /\ at[u] = "get"
  /\ Pool!GetNone(u, todo[u][1], FALSE)
  /\ Goto(u, "connect")
  /\ Forget

Connected(u) ==
  /\ at[u] = "connect"
  /\ Pool!Create(u)
  /\ Goto(u, "send")
  /\ UNCHANGED netVars

(* A slip the code could make: a loop that ends one endpoint early.        *)
NextEndPointEarly(u) ==
  LET rest == Tail(todo[u])
      over == Len(rest) <= 1 IN
  /\ todo' = [todo EXCEPT ![u] = rest]
  /\ at' = [at EXCEPT ![u] = IF over THEN "out" ELSE "get"]
  /\ op' = [op EXCEPT ![u] = IF over THEN "out" ELSE @]

(* The endpoint is done; the call goes on with the next one or is over.    *)
NextEndPoint(u) ==
  LET rest == Tail(todo[u]) IN
  /\ todo' = [todo EXCEPT ![u] = rest]
  /\ at' = [at EXCEPT ![u] = IF rest = <<>> THEN "out" ELSE "get"]
  /\ op' = [op EXCEPT ![u] = IF rest = <<>> THEN "out" ELSE @]

NotConnected(u) ==
  /\ at[u] = "connect"
  /\ Pool!CreateFails(u)
  /\ NextEndPoint(u)
  /\ UNCHANGED netVars

-----------------------------------------------------------------------------
(* The talk.                                                               *)

Send(u, s) ==
  /\ at[u] = "send" /\ Pool!Use(u, s)
  /\ owes' = [owes EXCEPT ![s] = IF eof[s] THEN Nil ELSE op[u]]
  /\ Goto(u, "line")
  /\ UNCHANGED <<pipe, eof>>

SendFails(u, s) ==
  /\ at[u] = "send" /\ eof[s] /\ Pool!Use(u, s)
  /\ Goto(u, "delete")
  /\ UNCHANGED netVars

(* A slip the code could make: the two bytes after the block forgotten.    *)
BlockWithoutEol(o) == 1

(* What readn() is asked for: bytes + 2 in retr() of one key, bytes in     *)
(* retr() of a list, where a readline() follows.                           *)
Block(o) == IF o = "retr" THEN 2 ELSE 1

(* What follows a line: ret = 0 is "save", ret = -1 is "delete".           *)
AfterLine(o, line) ==
  IF o \in OneLine \/ line = "END" THEN "save"
  ELSE IF o = "stat" THEN "line"
  ELSE IF line = "VALUE" THEN "data" ELSE "delete"

ReadLine(u, s) ==
  /\ at[u] = "line" /\ Pool!Use(u, s) /\ pipe[s] # <<>>
  /\ pipe' = [pipe EXCEPT ![s] = Tail(@)]
  /\ Goto(u, AfterLine(op[u], Head(pipe[s])))
  /\ UNCHANGED <<owes, eof>>

(* readn() of the block: it comes as a whole or is cut by the close.       *)
ReadData(u, s) ==
  LET n == Block(op[u]) IN
  /\ at[u] = "data" /\ Pool!Use(u, s) /\ pipe[s] # <<>>
  /\ IF Len(pipe[s]) >= n /\ \A i \in 1..n : pipe[s][i] # "cut"
     THEN /\ pipe' = [pipe EXCEPT ![s] = SubSeq(@, n + 1, Len(@))]
          /\ Goto(u, "after")
     ELSE /\ pipe' = [pipe EXCEPT ![s] = <<>>]
          /\ Goto(u, "delete")
  /\ UNCHANGED <<owes, eof>>

(* The readline() after the block, whose text retr() of a list ignores and *)
(* retr() of one key uses for mLastError only.                             *)
ReadAfter(u, s) ==
  /\ at[u] = "after" /\ Pool!Use(u, s) /\ pipe[s] # <<>>
  /\ pipe' = [pipe EXCEPT ![s] = Tail(@)]
  /\ Goto(u, IF op[u] = "retr" THEN "save" ELSE "line")
  /\ UNCHANGED <<owes, eof>>

(* A read that finds nothing: a timeout, or the end of the connection.     *)
ReadFails(u, s) ==
  /\ at[u] \in {"line", "data", "after"} /\ Pool!Use(u, s)
  /\ pipe[s] = <<>>
  /\ Goto(u, "delete")
  /\ UNCHANGED netVars

Save(u, s) ==
  /\ at[u] = "save" /\ Pool!Save(u, s)
  /\ NextEndPoint(u)
  /\ Forget

(* A slip the code could make: a failed talk ends in save() and delete.    *)
DeletePooled(u, s) ==
  /\ at[u] = "delete" /\ s \in held[u]
  /\ live' = live \ {s}
  /\ held' = [held EXCEPT ![u] = @ \ {s}]
  /\ idle' = [idle EXCEPT ![peer[s]] = Append(@, s)]
  /\ NextEndPoint(u)
  /\ UNCHANGED <<netVars, asked, peer, dest, pool>>

Delete(u, s) ==
  /\ at[u] = "delete" /\ Pool!Discard(u, s)
  /\ NextEndPoint(u)
  /\ Forget

(* The destructor, when no thread is inside a call, deletes the pool.      *)
Destroy ==
  /\ \A u \in Users : at[u] = "out"
  /\ Pool!Destroy
  /\ Forget
  /\ UNCHANGED callVars

Next ==
  \/ \E u \in Users :
       \/ \E o \in Ops, eps \in {<<e>> : e \in EndPoints} \cup SetToSeqs(EndPoints) :
            Call(u, o, eps)
       \/ GetPooled(u) \/ GetNew(u) \/ Connected(u) \/ NotConnected(u)
       \/ \E s \in Sockets :
            \/ Send(u, s) \/ SendFails(u, s)
            \/ ReadLine(u, s) \/ ReadData(u, s) \/ ReadAfter(u, s) \/ ReadFails(u, s)
            \/ Save(u, s) \/ Delete(u, s)
  \/ \E s \in Sockets : Answer(s) \/ Close(s)
  \/ Destroy

Spec == Init /\ [][Next]_vars
=============================================================================
