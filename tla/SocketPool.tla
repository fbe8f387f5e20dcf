----------------------------- MODULE SocketPool -----------------------------
(***************************************************************************)
(* SP_NKSocketPool (src/spnetkit/spnksocketpool.cpp): idle connections by  *)
(* endpoint, shared by threads that get() a connection, talk over it and   *)
(* save() it, or delete it when the talk failed, as SP_NKMemClient does.   *)
(*                                                                         *)
(* Each critical section of mMutex is one step.  get() has two steps when  *)
(* it finds no idle socket: the new connection is made without mMutex.     *)
(* An endpoint without an Entry_t and one whose list is empty behave the   *)
(* same and are not told apart.                                            *)
(***************************************************************************)
EXTENDS Integers, Sequences, FiniteSets

CONSTANTS
  Users,      \* threads
  EndPoints,  \* the <ip, port> pairs they ask for
  Unknown,    \* the peer name of a socket whose getpeername() failed
  Sockets,    \* addresses of SP_NKSocket objects, used again after delete
  MaxIdle,    \* mMaxIdlePerEndPoint
  MaxIdleTime,\* mMaxIdleTime in ticks of time(), 0 for no limit
  Nil         \* no socket, no endpoint

ASSUME PoolAssumption ==
  /\ MaxIdle \in Nat /\ MaxIdleTime \in Nat
  /\ Unknown \notin EndPoints /\ Nil \notin EndPoints \cup Sockets

VARIABLES
  idle,    \* the list of each Entry_t, by the peer name of its sockets
  held,    \* the sockets each thread has got and not saved or deleted
  asked,   \* the endpoint of a get() that is making a connection, or Nil
  live,    \* the SP_NKSocket objects that exist
  peer,    \* the peer name of each socket
  dest,    \* the endpoint each socket is connected to
  age,     \* time since mLastActiveTime, up to MaxIdleTime + 1
  pool     \* "open", or "deleted"

vars == <<idle, held, asked, live, peer, dest, age, pool>>

Names == EndPoints \cup {Unknown}

Init ==
  /\ idle = [e \in Names |-> <<>>]
  /\ held = [u \in Users |-> {}]
  /\ asked = [u \in Users |-> Nil]
  /\ live = {}
  /\ peer = [s \in Sockets |-> Unknown]
  /\ dest = [s \in Sockets |-> Nil]
  /\ age = [s \in Sockets |-> 0]
  /\ pool = "open"

Items(q) == {q[i] : i \in DOMAIN q}
Idle == UNION {Items(idle[e]) : e \in Names}
Ready(u) == pool = "open" /\ asked[u] = Nil

-----------------------------------------------------------------------------
Expired(s) == MaxIdleTime > 0 /\ age[s] > MaxIdleTime

(* Slips the code could make, each named for its definition: the newest    *)
(* socket taken without a look at the time; getItem() for takeItem(); NULL *)
(* kept as if it were a socket.                                            *)
StopsAtLast(q, j) == j = Len(q)

GetIdlePeeks(u, e) ==
  /\ Ready(u)
  /\ \E j \in 1..Len(idle[e]) : held' = [held EXCEPT ![u] = @ \cup {idle[e][j]}]
  /\ UNCHANGED <<idle, asked, live, peer, dest, age, pool>>

CreateFailsNull(u) ==
  /\ pool = "open" /\ asked[u] # Nil
  /\ held' = [held EXCEPT ![u] = @ \cup {Nil}]
  /\ asked' = [asked EXCEPT ![u] = Nil]
  /\ UNCHANGED <<idle, live, peer, dest, age, pool>>

(* The loop of get(): from the last item down, expired sockets are deleted *)
(* until one is not; j is where the loop stops, 0 if it finds none.        *)
StopsAt(q, j) ==
  /\ j \in 0..Len(q)
  /\ j > 0 => ~Expired(q[j])
  /\ \A i \in (j + 1)..Len(q) : Expired(q[i])

(* get() that takes an idle socket, whatever lies below it in the list.    *)
GetIdle(u, e) ==
  /\ Ready(u)
  /\ \E j \in 1..Len(idle[e]) :
       /\ StopsAt(idle[e], j)
       /\ idle' = [idle EXCEPT ![e] = SubSeq(@, 1, j - 1)]
       /\ held' = [held EXCEPT ![u] = @ \cup {idle[e][j]}]
       /\ live' = live \ Items(SubSeq(idle[e], j + 1, Len(idle[e])))
  /\ UNCHANGED <<asked, peer, dest, age, pool>>

(* get() that finds none that is usable, or is told not to look.           *)
GetNone(u, e, forceNew) ==
  /\ Ready(u)
  /\ \/ forceNew /\ UNCHANGED <<idle, live>>
     \/ /\ ~forceNew
        /\ StopsAt(idle[e], 0)
        /\ idle' = [idle EXCEPT ![e] = <<>>]
        /\ live' = live \ Items(idle[e])
  /\ asked' = [asked EXCEPT ![u] = e]
  /\ UNCHANGED <<held, peer, dest, age, pool>>

(* SP_NKTcpSocketFactory::create() in get(): a connected socket, or NULL.  *)
Create(u) ==
  /\ pool = "open" /\ asked[u] # Nil
  /\ \E s \in Sockets \ live, name \in {asked[u], Unknown} :
       /\ live' = live \cup {s}
       /\ held' = [held EXCEPT ![u] = @ \cup {s}]
       /\ peer' = [peer EXCEPT ![s] = name]
       /\ dest' = [dest EXCEPT ![s] = asked[u]]
       /\ age' = [age EXCEPT ![s] = 0]
  /\ asked' = [asked EXCEPT ![u] = Nil]
  /\ UNCHANGED <<idle, pool>>

CreateFails(u) ==
  /\ pool = "open" /\ asked[u] # Nil
  /\ asked' = [asked EXCEPT ![u] = Nil]
  /\ UNCHANGED <<idle, held, live, peer, dest, age, pool>>

(* save(): the socket joins the list of its peer name, or is deleted.      *)
Save(u, s) ==
  LET e == peer[s] IN
  /\ Ready(u) /\ s \in held[u]
  /\ held' = [held EXCEPT ![u] = @ \ {s}]
  /\ IF Len(idle[e]) < MaxIdle
     THEN idle' = [idle EXCEPT ![e] = Append(@, s)] /\ UNCHANGED live
     ELSE live' = live \ {s} /\ UNCHANGED idle
  /\ UNCHANGED <<asked, peer, dest, age, pool>>

Clean(u, e) ==
  /\ Ready(u)
  /\ idle' = [idle EXCEPT ![e] = <<>>]
  /\ live' = live \ Items(idle[e])
  /\ UNCHANGED <<held, asked, peer, dest, age, pool>>

-----------------------------------------------------------------------------
(* What the threads do with a socket they have: a talk over it sets        *)
(* mLastActiveTime; a talk that fails ends in delete.                      *)
Use(u, s) ==
  /\ s \in held[u]
  /\ age' = [age EXCEPT ![s] = 0]
  /\ UNCHANGED <<idle, held, asked, live, peer, dest, pool>>

Discard(u, s) ==
  /\ s \in held[u]
  /\ held' = [held EXCEPT ![u] = @ \ {s}]
  /\ live' = live \ {s}
  /\ UNCHANGED <<idle, asked, peer, dest, age, pool>>

(* time() advances; a tick that changes no age is no step.                 *)
Tick ==
  /\ age' = [s \in Sockets |->
               IF s \in live /\ age[s] <= MaxIdleTime THEN age[s] + 1 ELSE age[s]]
  /\ age' # age
  /\ UNCHANGED <<idle, held, asked, live, peer, dest, pool>>

(* The destructor, when no thread is inside a call, deletes idle sockets.  *)
Destroy ==
  /\ \A u \in Users : Ready(u)
  /\ idle' = [e \in Names |-> <<>>]
  /\ live' = live \ Idle
  /\ pool' = "deleted"
  /\ UNCHANGED <<held, asked, peer, dest, age>>

Next ==
  \/ \E u \in Users :
       \/ \E e \in EndPoints :
            \/ GetIdle(u, e)
            \/ \E forceNew \in BOOLEAN : GetNone(u, e, forceNew)
            \/ Clean(u, e)
       \/ Create(u)
       \/ CreateFails(u)
       \/ \E s \in Sockets : Save(u, s) \/ Use(u, s) \/ Discard(u, s)
  \/ Tick
  \/ Destroy

Spec == Init /\ [][Next]_vars
=============================================================================
