---------------------------- MODULE TokenLockProps ----------------------------
(***************************************************************************)
(* The properties of TokenLock, and its refinement of FifoLock.            *)
(***************************************************************************)
EXTENDS TokenLock

(* Every variable ranges over what its C++ declaration can hold.           *)
TypeOK ==
  /\ entries \subseteq Tokens
  /\ waiters \in [Tokens -> Seq(Waiter)]
  /\ called \subseteq Threads /\ late \subseteq Threads
  /\ pc \in [Threads -> {"out"} \cup Blocked \cup Woken]
  /\ want \in [Threads -> Tokens \cup {NoToken}]
  /\ slot \in [Threads -> Slots]
  /\ granted \in [Threads -> SUBSET Tokens]
  /\ mStop \in BOOLEAN
  /\ dtor \in {"live", "stopping", "waitempty", "emptied", "destroyed"}
  /\ assertLine \in {0, 239, 279}

-----------------------------------------------------------------------------
(* An entry exists exactly while it has waiters (the assert()s at lines    *)
(* 207, 234, 273 and 289), however the callers behave.                     *)
EntriesMatchQueues == \A k \in Tokens : k \in entries <=> waiters[k] # <<>>

(* The pointers "entry" and "waiter" that lock() keeps over the wait are   *)
(* good when it uses them again: the entry was not deleted meanwhile and   *)
(* the waiter is still in its list (the assert() at line 222).             *)
OwnWaiterQueued ==
  \A t \in Threads : pc[t] # "out" =>
    /\ want[t] \in entries
    /\ \E i \in 1..Len(waiters[want[t]]) : waiters[want[t]][i] = <<t, slot[t]>>

(* No two threads have both been told by lock() that they own a token.     *)
MutualExclusion ==
  \A t, u \in Threads : t # u => granted[t] \cap granted[u] = {}

(* The owner of a token is the head of its queue, so that its unlock()     *)
(* returns 0 (testlock.cpp asserts it) and hands the token to the next.    *)
OwnerHeadsQueue ==
  \A t \in Threads : \A k \in granted[t] :
    k \in entries /\ Len(waiters[k]) > 0 /\ waiters[k][1][1] = t

(* No wakeup is lost: the head of every queue owns the token or has been   *)
(* woken and is on its way; nobody sleeps in front of a free token, even   *)
(* when a timeout and the signal of an unlock() cross.                     *)
NoLostWakeup ==
  \A k \in entries : LET t == waiters[k][1][1] IN
    k \in granted[t] \/ (pc[t] \in Woken /\ want[t] = k)

(* None of the assert()s of lock() and unlock() can fail.                  *)
NoAssertFails == assertLine = 0

(* When the destructor stops waiting, nobody waits in lock() or owns a     *)
(* token: all who got mMutex before have left (spnklock.cpp:170-183, 253,  *)
(* 300).  Only a thread whose call was still at line 195 can be let in     *)
(* after that, while the destructor has yet to get mMutex back; the code   *)
(* does not keep it out, nor one that is still there when mMutex goes.     *)
DestructorAlone ==
  dtor \in {"emptied", "destroyed"} =>
    \A t \in Threads : pc[t] # "out" \/ granted[t] # {} => t \in late

-----------------------------------------------------------------------------
(* Every lock() call returns if owners unlock, whatever it waits for; but  *)
(* one that the end of the manager finds at line 195, or let in late, has  *)
(* no manager to return from.                                              *)
Inside(t) == t \in called \/ pc[t] # "out"
CallReturns ==
  \A t \in Threads :
    Inside(t) ~> ~Inside(t) \/ (dtor = "destroyed" /\ t \in called \cup late)

(* A call with a timeout returns even if no owner ever unlocks, and even   *)
(* in a cycle of threads that wait for each other's tokens or in a thread  *)
(* that waits for its own.                                                 *)
TimedCallReturns ==
  \A t \in Threads : pc[t] = "timedwait" ~> (pc[t] = "out" \/ ~Running)

(* The destructor returns: the threads that wait when it starts hand the   *)
(* wakeup to each other until the last one leaves.                         *)
DestructorReturns == dtor = "stopping" ~> dtor = "destroyed"

(* Nobody stays in the manager: neither a caller of lock() whose owners    *)
(* unlock, nor the thread that deletes it (spnklock.cpp:170-183, 253).     *)
EverybodyReturns == CallReturns /\ DestructorReturns

-----------------------------------------------------------------------------
(* The refinement: the head of a queue is the owner once lock() returned 0 *)
(* to it, and the rest of the queue is the line.                           *)
Nobody == NoToken
Granted(k) == Len(waiters[k]) > 0 /\ k \in granted[waiters[k][1][1]]
Owner == [k \in Tokens |-> IF Granted(k) THEN waiters[k][1][1] ELSE Nobody]
Line ==
  [k \in Tokens |->
     IF Granted(k) THEN [i \in 1..(Len(waiters[k]) - 1) |-> waiters[k][i + 1][1]]
                   ELSE [i \in 1..Len(waiters[k]) |-> waiters[k][i][1]]]

Fifo == INSTANCE FifoLock WITH owner <- Owner, line <- Line

(* The manager is a first-come first-served lock per token: nobody         *)
(* overtakes a thread that queued before it, timeouts only remove.         *)
FifoSpec == Fifo!Spec
===============================================================================
