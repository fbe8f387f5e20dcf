---------------------------- MODULE ServerProps ----------------------------
(***************************************************************************)
(* The properties of Server.                                               *)
(***************************************************************************)
EXTENDS Server

(* Every variable ranges over what its C++ declaration can hold.           *)
TypeOK ==
  /\ mActiveThreads \in 0..Cardinality(Workers)
  /\ mIsShutdown \in BOOLEAN
  /\ mListenFD \in {"unset", "open"}
  /\ mMutex \in Workers \cup {Nothing}
  /\ worker \in [Workers -> {"none", "created", "loop", "lock", "accept",
                             "handle", "leave", "unlock", "gone"}]
  /\ fd \in [Workers -> Clients \cup {Wake, Nothing}]
  /\ backlog \in Seq(Clients \cup {Wake})
  /\ conn \in [Clients -> {"new", "queued", "open", "closed"}]
  /\ main \in {"idle", "starting", "test", "connect", "dtor", "destroyed"}
  /\ inDtor \in BOOLEAN

(* mActiveThreads, updated under mMutex and read without it by shutdown(), *)
(* isRunning() and the destructor, is the number of threads in the loop.   *)
ActiveCount == mActiveThreads = Cardinality(Counted)

(* Every accepted connection is in the hands of exactly one thread until   *)
(* the framework closes it (testserver.cpp:28), so it is closed once; and  *)
(* the object is not freed while one is being handled: a handler does not  *)
(* use its mArgs and mHandler after that.                                  *)
OneHandlerPerConnection ==
  /\ \A c \in Clients :
       Cardinality({w \in Workers : fd[w] = c}) = IF conn[c] = "open" THEN 1 ELSE 0
  /\ main = "destroyed" => \A w \in Workers : worker[w] \notin {"accept", "handle"}

-----------------------------------------------------------------------------
(* After shutdown() the threads all end, whichever of them was in accept() *)
(* and however many wait for mMutex behind it, unless the destructor frees *)
(* the object first.  spnkserver.cpp:77 says that shutdown() wakes the     *)
(* accept thread.                                                          *)
ShutdownStops ==
  mIsShutdown ~>
    (main = "destroyed" \/ \A w \in Workers : worker[w] \in {"none", "gone"})

(* The destructor returns.                                                 *)
DtorReturns == main = "dtor" ~> main = "destroyed"

(* A connection the kernel has queued is handled and closed, or the server *)
(* is shut down, or destroyed before it was ever shut down.                *)
ClientServed ==
  \A c \in Clients :
    (conn[c] = "queued" /\ \E w \in Workers : worker[w] # "none") ~>
      (conn[c] = "closed" \/ mIsShutdown \/ main = "destroyed")

(* The server serves until it is told to stop, stops when it is told, and  *)
(* its destructor ends: no wakeup is lost between the flag, the counter    *)
(* and mMutex, in whatever order the threads come.                         *)
ServesThenStops == ClientServed /\ ShutdownStops /\ DtorReturns
=============================================================================
