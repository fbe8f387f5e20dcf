------------------------------ MODULE TokenLock ------------------------------
(***************************************************************************)
(* SP_NKTokenLockManager (src/spnetkit/spnklock.cpp): a lock per token     *)
(* (a string), with waiting, timed waiting and no waiting, shared by the   *)
(* threads of a process, and its destructor, which may run while threads   *)
(* still hold tokens and wait for them.                                    *)
(*                                                                         *)
(* All of lock() before the wait, all of it after the wait, and all of     *)
(* unlock() run under mMutex: each is one step.  A call of lock() and its  *)
(* first step are two, since the thread may be blocked on mMutex between   *)
(* them while others run, the destructor among them.  A wait releases      *)
(* mMutex; when it ends the thread must get mMutex back, so that the end   *)
(* of a wait and the code after it are two steps as well.                  *)
(***************************************************************************)
EXTENDS Integers, Sequences

CONSTANTS
  Threads,   \* the threads that call lock() and unlock()
  Tokens,    \* the tokens they lock
  Slots,     \* addresses a thread's SP_NKTokenWaiter objects can have
  Habits,    \* what callers may do beyond lock, use, unlock (MayAsk, CallLock)
  Spurious,  \* whether a condition wait may end without a signal (POSIX)
  NoToken    \* "not inside lock()"

ASSUME LockAssumption ==
  /\ Habits \subseteq {"nested", "relock", "latecall"}
  /\ Spurious \in BOOLEAN
  /\ NoToken \notin Tokens \cup Threads
  /\ Slots # {}

VARIABLES
  entries,    \* mEntryList: the tokens that have a SP_NKTokenWaiterEntry
  waiters,    \* the mList of each entry: waiter objects <<thread, slot>>
  called,     \* threads that have called lock() and have yet to get mMutex
  pc,         \* where the others are in lock(): "out", in a wait, past it
  want,       \* the token of the lock() call a thread is inside
  slot,       \* the local variable "waiter" of that call
  granted,    \* the tokens for which lock() has returned 0 to each thread
  mStop,      \* mStop
  dtor,       \* where ~SP_NKTokenLockManager is
  late,       \* history: threads let in when the destructor waited no more
  assertLine  \* line of the assert() that aborted the process, or 0

vars == <<entries, waiters, called, pc, want, slot, granted, mStop, dtor, late,
          assertLine>>

Waiter == Threads \X Slots
Blocked == {"wait", "timedwait"}        \* inside the condition wait
Woken == {"signalled", "timedout"}      \* wait over, mMutex not yet regained

Init ==
  /\ entries = {}
  /\ waiters = [k \in Tokens |-> <<>>]
  /\ called = {} /\ late = {}
  /\ pc = [t \in Threads |-> "out"]
  /\ want = [t \in Threads |-> NoToken]
  /\ slot \in [Threads -> {CHOOSE s \in Slots : TRUE}]
  /\ granted = [t \in Threads |-> {}]
  /\ mStop = FALSE
  /\ dtor = "live"
  /\ assertLine = 0

-----------------------------------------------------------------------------
(* Variants of the definitions below, with the slips the code could make:  *)
(* each is named for its definition, and a property must notice it.        *)

(* takeItem() that forgets to lower its count.                             *)
TakeWaiterNull(q, i) ==
  [j \in 1..Len(q) |-> IF j < i THEN q[j]
                       ELSE IF j < Len(q) THEN q[j + 1] ELSE NoToken]

(* takeItem() that fills the hole with the last item.                      *)
TakeWaiterSwap(q, i) ==
  [j \in 1..(Len(q) - 1) |-> IF j = i THEN q[Len(q)] ELSE q[j]]

(* findWaiter() that does not compare the thread ids.                      *)
FindWaiterAny(q, t, i) == i = 1 /\ q # <<>>

(* SP_NKVector::takeItem: the items after the taken one move down.         *)
TakeWaiter(q, i) == [j \in 1..(Len(q) - 1) |-> IF j < i THEN q[j] ELSE q[j + 1]]

(* findWaiter returns the first waiter object that carries the thread id.  *)
FindWaiter(q, t, i) ==
  /\ i \in 1..Len(q)
  /\ q[i][1] = t
  /\ \A j \in 1..(i - 1) : q[j][1] # t

(* Is thread u blocked on the condition variable of waiter object w of k?  *)
WaitsOn(u, k, w) == pc[u] \in Blocked /\ want[u] = k /\ w = <<u, slot[u]>>

(* The threads after signal() on waiter w of token k: a signal reaches the *)
(* thread only if it is still blocked, else it is lost.                    *)
Signal(k, w) == [u \in Threads |-> IF WaitsOn(u, k, w) THEN "signalled" ELSE pc[u]]

(* The i-th waiter leaves the queue of k; the entry goes with the last one.*)
Remove(k, i) ==
  /\ waiters' = [waiters EXCEPT ![k] = TakeWaiter(@, i)]
  /\ entries' = IF Len(waiters[k]) = 1 THEN entries \ {k} ELSE entries

(* The signal goes to the waiter that is leaving; to the newest    *)
(* waiter, whoever leaves.                                                 *)
PassOnOld(k, i) == IF i = 1 THEN Signal(k, waiters[k][1]) ELSE pc
PassOnNewest(k, i) ==
  IF Len(waiters[k]) > 1 THEN Signal(k, waiters[k][Len(waiters[k])]) ELSE pc

(* A departure from the head of the queue signals the next waiter.         *)
PassOn(k, i) ==
  IF i = 1 /\ Len(waiters[k]) > 1 THEN Signal(k, waiters[k][2]) ELSE pc

(* The destructor is never told.                                           *)
SignalEmptyNever == UNCHANGED dtor

(* The end of lock() and unlock(): tell the destructor the list is empty.  *)
SignalEmpty ==
  dtor' = IF entries' = {} /\ dtor = "waitempty" THEN "emptied" ELSE dtor

(* A failing assert() aborts the process.  Only the asserts at lines 239   *)
(* and 279 can fail; those at 207, 222, 234, 273 and 289 are the           *)
(* invariants EntriesMatchQueues and OwnWaiterQueued of TokenLockProps.    *)
Abort(line) ==
  /\ assertLine' = line
  /\ UNCHANGED <<entries, waiters, called, pc, want, slot, granted, mStop, dtor, late>>

-----------------------------------------------------------------------------
(* A caller asks for a token while it owns another only if it is "nested", *)
(* and for one of its own only if "relock".                                *)
MayAsk(t, k) ==
  /\ k \in granted[t] => "relock" \in Habits
  /\ granted[t] \ {k} # {} => "nested" \in Habits

(* A call of lock(), as far as line 195; after destruction has begun only  *)
(* by who is "latecall".  Which token it is for matters in the next step.  *)
CallLock(t) ==
  /\ pc[t] = "out" /\ t \notin called
  /\ \E k \in Tokens : MayAsk(t, k)
  /\ dtor # "live" => "latecall" \in Habits
  /\ called' = called \cup {t}
  /\ UNCHANGED <<entries, waiters, pc, want, slot, granted, mStop, dtor, late, assertLine>>

(* The thread gets mMutex, and looks for the entry of k.                   *)
GetsMutex(t, k) == t \in called /\ called' = called \ {t} /\ MayAsk(t, k)

LetIn(t) == late' = IF dtor = "emptied" THEN late \cup {t} ELSE late

(* lock() of a token without an entry: a new entry with the caller's       *)
(* waiter as its holder, whatever mStop says.                              *)
LockFree(t, k) ==
  /\ GetsMutex(t, k) /\ LetIn(t)
  /\ k \notin entries
  /\ \E s \in Slots : waiters' = [waiters EXCEPT ![k] = <<<<t, s>>>>]
  /\ entries' = entries \cup {k}
  /\ granted' = [granted EXCEPT ![t] = @ \cup {k}]
  /\ SignalEmpty
  /\ UNCHANGED <<pc, want, slot, mStop, assertLine>>

(* lock(token, 0) of a locked token returns -1.                            *)
LockNoWait(t, k) ==
  /\ GetsMutex(t, k)
  /\ k \in entries
  /\ UNCHANGED <<entries, waiters, pc, want, slot, granted, mStop, dtor, late, assertLine>>

(* lock(token, -1) or lock(token, ms) of a locked token queues a new       *)
(* waiter object and waits on its condition variable.                      *)
LockWait(t, k, mode) ==
  /\ GetsMutex(t, k) /\ LetIn(t)
  /\ k \in entries
  /\ \E s \in Slots :
       /\ \A i \in 1..Len(waiters[k]) : waiters[k][i] # <<t, s>>
       /\ waiters' = [waiters EXCEPT ![k] = Append(@, <<t, s>>)]
       /\ slot' = [slot EXCEPT ![t] = s]
  /\ pc' = [pc EXCEPT ![t] = mode]
  /\ want' = [want EXCEPT ![t] = k]
  /\ UNCHANGED <<entries, granted, mStop, dtor, assertLine>>

Enter(t) == \E k \in Tokens : LockFree(t, k) \/ LockNoWait(t, k)
              \/ \E mode \in Blocked : LockWait(t, k, mode)

(* A timed wait that starts over when its deadline passes.                 *)
TimeoutRestarts(t) == pc[t] = "timedwait" /\ UNCHANGED vars

(* The timed wait ends: the deadline has passed, or timedwait() computed a *)
(* tv_nsec of 10^9 and failed at once.                                     *)
Timeout(t) ==
  /\ pc[t] = "timedwait"
  /\ pc' = [pc EXCEPT ![t] = "timedout"]
  /\ UNCHANGED <<entries, waiters, called, want, slot, granted, mStop, dtor, late, assertLine>>

SpuriousWakeup(t) ==
  /\ Spurious
  /\ pc[t] \in Blocked
  /\ pc' = [pc EXCEPT ![t] = "signalled"]
  /\ UNCHANGED <<entries, waiters, called, want, slot, granted, mStop, dtor, late, assertLine>>

(* The rest of lock() when the wait returned 0 and mStop is not set.       *)
Acquire(t) ==
  LET k == want[t] IN
  /\ pc[t] = "signalled"
  /\ ~mStop
  /\ IF waiters[k] = <<>> \/ waiters[k][1] # <<t, slot[t]>> THEN Abort(239)
     ELSE /\ granted' = [granted EXCEPT ![t] = @ \cup {k}]
          /\ pc' = [pc EXCEPT ![t] = "out"]
          /\ want' = [want EXCEPT ![t] = NoToken]
          /\ UNCHANGED <<entries, waiters, called, slot, mStop, dtor, late, assertLine>>

(* The rest of lock() when the wait failed or the manager is stopping.     *)
Withdraw(t) ==
  LET k == want[t] IN
  /\ pc[t] = "timedout" \/ (pc[t] = "signalled" /\ mStop)
  /\ \E i \in 1..Len(waiters[k]) :
       /\ FindWaiter(waiters[k], t, i)
       /\ Remove(k, i)
       /\ pc' = [PassOn(k, i) EXCEPT ![t] = "out"]
       /\ want' = [want EXCEPT ![t] = NoToken]
       /\ SignalEmpty
       /\ UNCHANGED <<called, slot, granted, mStop, late, assertLine>>

(* unlock() finds the first waiter of the calling thread; it must be the   *)
(* head of the queue.                                                      *)
Unlock(t, k) ==
  /\ pc[t] = "out" /\ t \notin called
  /\ k \in entries
  /\ \E i \in 1..Len(waiters[k]) :
       /\ FindWaiter(waiters[k], t, i)
       /\ IF i # 1 THEN Abort(279)
          ELSE /\ Remove(k, i)
               /\ pc' = PassOn(k, i)
               /\ granted' = [granted EXCEPT ![t] = @ \ {k}]
               /\ SignalEmpty
               /\ UNCHANGED <<called, want, slot, mStop, late, assertLine>>

(* unlock() of a token that is not locked, or not by the caller: -1.       *)
UnlockNotHeld(t, k) ==
  /\ pc[t] = "out" /\ t \notin called
  /\ k \in entries => \A i \in 1..Len(waiters[k]) : waiters[k][i][1] # t
  /\ UNCHANGED vars

-----------------------------------------------------------------------------
(* ~SP_NKTokenLockManager: mStop is set without mMutex; then, under it,    *)
(* one wait (an if, not a loop) for the list to become empty.              *)
BeginDestroy ==
  /\ dtor = "live"
  /\ mStop' = TRUE
  /\ dtor' = "stopping"
  /\ UNCHANGED <<entries, waiters, called, pc, want, slot, granted, late, assertLine>>

(* The destructor does not wait for the list to become empty.              *)
TestEmptyNot ==
  /\ dtor = "stopping"
  /\ dtor' = "destroyed"
  /\ UNCHANGED <<entries, waiters, called, pc, want, slot, granted, mStop, late, assertLine>>

TestEmpty ==
  /\ dtor = "stopping"
  /\ dtor' = IF entries # {} THEN "waitempty" ELSE "destroyed"
  /\ UNCHANGED <<entries, waiters, called, pc, want, slot, granted, mStop, late, assertLine>>

SpuriousEmpty ==
  /\ Spurious
  /\ dtor = "waitempty"
  /\ dtor' = "emptied"
  /\ UNCHANGED <<entries, waiters, called, pc, want, slot, granted, mStop, late, assertLine>>

FinishDestroy ==
  /\ dtor = "emptied"
  /\ dtor' = "destroyed"
  /\ UNCHANGED <<entries, waiters, called, pc, want, slot, granted, mStop, late, assertLine>>

Destructor == BeginDestroy \/ TestEmpty \/ SpuriousEmpty \/ FinishDestroy

Call(t) ==
  \/ CallLock(t)
  \/ Enter(t)
  \/ \E k \in Tokens : Unlock(t, k) \/ UnlockNotHeld(t, k)
  \/ Timeout(t)
  \/ SpuriousWakeup(t)
  \/ Acquire(t)
  \/ Withdraw(t)

(* An aborted process and a destroyed manager do nothing more.             *)
Running == assertLine = 0 /\ dtor # "destroyed"

Next == Running /\ (Destructor \/ \E t \in Threads : Call(t))

Spec == Init /\ [][Next]_vars

(* The scheduler runs every thread that can run, a mutex is eventually     *)
(* granted, and a deadline passes.                                         *)
Scheduling ==
  /\ \A t \in Threads : /\ WF_vars(Running /\ Enter(t))
                        /\ WF_vars(Running /\ Timeout(t))
                        /\ WF_vars(Running /\ (Acquire(t) \/ Withdraw(t)))
  /\ WF_vars(Running /\ TestEmpty)
  /\ WF_vars(Running /\ FinishDestroy)

(* Callers give back what they hold, as testlock.cpp does.                 *)
CallersUnlock ==
  \A t \in Threads : \A k \in Tokens : WF_vars(Running /\ Unlock(t, k))

TimedSpec == Spec /\ Scheduling
FairSpec == Spec /\ Scheduling /\ CallersUnlock
=============================================================================
