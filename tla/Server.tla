------------------------------- MODULE Server -------------------------------
(***************************************************************************)
(* SP_NKServer (src/spnetkit/spnkserver.cpp): a pool of detached threads   *)
(* that take turns in accept() under mMutex, run a handler on each         *)
(* connection and close it; shutdown(), which sets a flag and connects to  *)
(* the server itself to wake the thread that sits in accept(); and the     *)
(* destructor, which repeats shutdown() until no thread counts as active.  *)
(*                                                                         *)
(* One thread owns the SP_NKServer object and calls run(), shutdown() and  *)
(* the destructor.  The flag and the counter are also read without mMutex: *)
(* each such read is a step of its own.                                    *)
(***************************************************************************)
EXTENDS Integers, Sequences, FiniteSets

CONSTANTS
  Workers,      \* the mMaxThreads threads that start() creates
  Clients,      \* each connects at most once
  Backlog,      \* completed connections the kernel queues (1024 in the code)
  Connectable,  \* can shutdown() connect to mBindIP?  Not if it is ""
  AcceptErrors, \* may accept() fail?
  Wake,         \* the connection that shutdown() makes
  Nothing       \* no connection, no thread

ASSUME ServerAssumption ==
  /\ IsFiniteSet(Workers)
  /\ Backlog \in Nat \ {0}
  /\ Connectable \in BOOLEAN /\ AcceptErrors \in BOOLEAN
  /\ Wake \notin Clients /\ Nothing \notin Clients \cup Workers /\ Wake # Nothing

VARIABLES
  mActiveThreads, mIsShutdown,
  mListenFD,   \* "unset" (0, from calloc), or "open"
  mMutex,      \* the thread that holds mMutex from one step to the next
  worker,      \* where each thread is in sp_nkserverthread()
  fd,          \* the connection each thread handles
  backlog,     \* connections that wait for accept(), oldest first
  conn,        \* what became of each client's connection
  main,        \* where the owner of the object is
  inDtor       \* whether its shutdown() is the destructor's

vars == <<mActiveThreads, mIsShutdown, mListenFD, mMutex, worker, fd,
          backlog, conn, main, inDtor>>
workerVars == <<mActiveThreads, mMutex, worker, fd>>
ownerVars == <<mIsShutdown, mListenFD, main, inDtor>>

(* Threads between the ++ of line 104 and the -- of line 130.              *)
Counted == {w \in Workers : worker[w] \in {"loop", "lock", "accept", "handle", "leave"}}

Init ==
  /\ mActiveThreads = 0 /\ mIsShutdown = FALSE
  /\ mListenFD = "unset" /\ mMutex = Nothing
  /\ worker = [w \in Workers |-> "none"]
  /\ fd = [w \in Workers |-> Nothing]
  /\ backlog = <<>>
  /\ conn = [c \in Clients |-> "new"]
  /\ main = "idle" /\ inDtor = FALSE

-----------------------------------------------------------------------------
(* start(), called by run() and runForever().  tcpListen() fails when the  *)
(* address is in use, by this very server for one.                         *)
Listen ==
  /\ main = "idle" /\ mListenFD = "unset"
  /\ mListenFD' = "open"
  /\ main' = "starting"
  /\ UNCHANGED <<workerVars, mIsShutdown, backlog, conn, inDtor>>

ListenFails == main = "idle" /\ UNCHANGED vars

CreateThread ==
  /\ main = "starting"
  /\ \E w \in Workers :
       worker[w] = "none" /\ worker' = [worker EXCEPT ![w] = "created"]
  /\ UNCHANGED <<mActiveThreads, mMutex, fd, ownerVars, backlog, conn>>

(* All threads exist, or one could not be created: start() returns.        *)
Started ==
  /\ main = "starting"
  /\ main' = "idle"
  /\ UNCHANGED <<workerVars, mIsShutdown, mListenFD, inDtor, backlog, conn>>

-----------------------------------------------------------------------------
(* shutdown(): the flag, then the counter, then the connection.            *)
BeginShutdown(next) ==
  /\ mIsShutdown' = TRUE
  /\ main' = next
  /\ UNCHANGED <<workerVars, mListenFD, backlog, conn>>

Shutdown == main = "idle" /\ BeginShutdown("test") /\ UNCHANGED inDtor

Returned == IF inDtor THEN "dtor" ELSE "idle"

TestActive ==
  /\ main = "test"
  /\ main' = IF mActiveThreads > 0 THEN "connect" ELSE Returned
  /\ UNCHANGED <<workerVars, mIsShutdown, mListenFD, inDtor, backlog, conn>>

(* No connection is made when the queue is full, or when inet_addr() does  *)
(* not know the address: the failure is ignored.                           *)
ConnectSelf ==
  /\ main = "connect"
  /\ main' = Returned
  /\ backlog' = IF Connectable /\ Len(backlog) < Backlog
                THEN Append(backlog, Wake) ELSE backlog
  /\ UNCHANGED <<workerVars, mIsShutdown, mListenFD, inDtor, conn>>

(* The destructor's loop reads the counter without mMutex.                 *)
Destroy ==
  /\ main = "idle"
  /\ main' = "dtor" /\ inDtor' = TRUE
  /\ UNCHANGED <<workerVars, mIsShutdown, mListenFD, backlog, conn>>

DtorLoop == main = "dtor" /\ mActiveThreads > 0 /\ BeginShutdown("test") /\ UNCHANGED inDtor

DtorDone ==
  /\ main = "dtor" /\ mActiveThreads = 0
  /\ main' = "destroyed"
  /\ UNCHANGED <<workerVars, mIsShutdown, mListenFD, inDtor, backlog, conn>>

Owner ==
  \/ Listen \/ ListenFails \/ CreateThread \/ Started
  \/ Shutdown \/ TestActive \/ ConnectSelf
  \/ Destroy \/ DtorLoop \/ DtorDone

-----------------------------------------------------------------------------
(* Slips sp_nkserverthread() could make: a thread that is not counted; the *)
(* flag not read again under mMutex; fd not closed.                        *)
EnterUncounted(w) ==
  /\ worker[w] = "created" /\ mMutex = Nothing
  /\ worker' = [worker EXCEPT ![w] = "loop"]
  /\ UNCHANGED <<mActiveThreads, mMutex, fd, ownerVars, backlog, conn>>

LockAcceptNoRecheck(w) ==
  /\ worker[w] = "lock" /\ mMutex = Nothing
  /\ mMutex' = w /\ worker' = [worker EXCEPT ![w] = "accept"]
  /\ UNCHANGED <<mActiveThreads, fd, ownerVars, backlog, conn>>

HandleNoClose(w) ==
  /\ worker[w] = "handle"
  /\ fd' = [fd EXCEPT ![w] = Nothing]
  /\ worker' = [worker EXCEPT ![w] = "loop"]
  /\ UNCHANGED <<mActiveThreads, mMutex, ownerVars, backlog, conn>>

(* sp_nkserverthread().  A thread is counted once it has had mMutex, which *)
(* an earlier thread may already hold in accept().                         *)
Enter(w) ==
  /\ worker[w] = "created" /\ mMutex = Nothing
  /\ mActiveThreads' = mActiveThreads + 1
  /\ worker' = [worker EXCEPT ![w] = "loop"]
  /\ UNCHANGED <<mMutex, fd, ownerVars, backlog, conn>>

LoopTest(w) ==
  /\ worker[w] = "loop"
  /\ worker' = [worker EXCEPT ![w] = IF mIsShutdown THEN "leave" ELSE "lock"]
  /\ UNCHANGED <<mActiveThreads, mMutex, fd, ownerVars, backlog, conn>>

(* With mMutex the flag is read again: accept(), or unlock and loop.       *)
LockAccept(w) ==
  /\ worker[w] = "lock" /\ mMutex = Nothing
  /\ IF mIsShutdown
     THEN mMutex' = mMutex /\ worker' = [worker EXCEPT ![w] = "loop"]
     ELSE mMutex' = w /\ worker' = [worker EXCEPT ![w] = "accept"]
  /\ UNCHANGED <<mActiveThreads, fd, ownerVars, backlog, conn>>

Accept(w) ==
  /\ worker[w] = "accept" /\ backlog # <<>>
  /\ fd' = [fd EXCEPT ![w] = Head(backlog)]
  /\ conn' = [c \in Clients |-> IF c = Head(backlog) THEN "open" ELSE conn[c]]
  /\ backlog' = Tail(backlog)
  /\ mMutex' = Nothing
  /\ worker' = [worker EXCEPT ![w] = "handle"]
  /\ UNCHANGED <<mActiveThreads, ownerVars>>

AcceptFails(w) ==
  /\ AcceptErrors
  /\ worker[w] = "accept"
  /\ mMutex' = Nothing
  /\ worker' = [worker EXCEPT ![w] = "loop"]
  /\ UNCHANGED <<mActiveThreads, fd, ownerVars, backlog, conn>>

(* The handler returns (it does not close fd), and the thread closes fd.   *)
Handle(w) ==
  /\ worker[w] = "handle"
  /\ conn' = [c \in Clients |-> IF c = fd[w] THEN "closed" ELSE conn[c]]
  /\ fd' = [fd EXCEPT ![w] = Nothing]
  /\ worker' = [worker EXCEPT ![w] = "loop"]
  /\ UNCHANGED <<mActiveThreads, mMutex, ownerVars, backlog>>

(* The counter goes down under mMutex; the owner may see it before the     *)
(* thread unlocks.                                                         *)
Leave(w) ==
  /\ worker[w] = "leave" /\ mMutex = Nothing
  /\ mActiveThreads' = mActiveThreads - 1
  /\ mMutex' = w
  /\ worker' = [worker EXCEPT ![w] = "unlock"]
  /\ UNCHANGED <<fd, ownerVars, backlog, conn>>

Exit(w) ==
  /\ worker[w] = "unlock"
  /\ mMutex' = Nothing
  /\ worker' = [worker EXCEPT ![w] = "gone"]
  /\ UNCHANGED <<mActiveThreads, fd, ownerVars, backlog, conn>>

Thread(w) ==
  \/ Enter(w) \/ LoopTest(w) \/ LockAccept(w) \/ Accept(w) \/ AcceptFails(w)
  \/ Handle(w) \/ Leave(w) \/ Exit(w)

(* A client connects: external, the kernel completes the connection.       *)
ClientConnect(c) ==
  /\ mListenFD = "open" /\ conn[c] = "new" /\ Len(backlog) < Backlog
  /\ backlog' = Append(backlog, c)
  /\ conn' = [conn EXCEPT ![c] = "queued"]
  /\ UNCHANGED <<workerVars, ownerVars>>

-----------------------------------------------------------------------------
(* Nothing is modelled of the object's memory after it is freed.           *)
Running == main # "destroyed"

Next ==
  /\ Running
  /\ \/ Owner
     \/ \E w \in Workers : Thread(w)
     \/ \E c \in Clients : ClientConnect(c)

Spec == Init /\ [][Next]_vars

(* Threads are scheduled and get the mutex, handlers return, and accept()  *)
(* returns when a connection waits, if it is tried again and again.  The   *)
(* owner finishes what it has begun.                                       *)
FairSpec ==
  /\ Spec
  /\ SF_vars(Running /\ \E w \in Workers : Accept(w))
  /\ \A w \in Workers :
       /\ WF_vars(Running /\ (Enter(w) \/ LoopTest(w) \/ LockAccept(w)))
       /\ WF_vars(Running /\ (Handle(w) \/ Leave(w) \/ Exit(w)))
  /\ WF_vars(CreateThread \/ TestActive \/ ConnectSelf \/ DtorLoop \/ DtorDone)
=============================================================================
