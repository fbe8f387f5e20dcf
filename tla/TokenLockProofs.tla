---------------------------- MODULE TokenLockProofs ----------------------------
(***************************************************************************)
(* Theorems about TokenLock for any sets of threads, tokens and waiter     *)
(* addresses.                                                              *)
(***************************************************************************)
EXTENDS TokenLockProps, SequenceTheorems, TLAPS

(* What the queues and the waiting threads satisfy however callers behave. *)
BasicInv ==
  /\ TypeOK
  /\ EntriesMatchQueues
  /\ \A t \in Threads : pc[t] = "out" <=> want[t] = NoToken
  /\ \A t \in called : pc[t] = "out"
  /\ OwnWaiterQueued

(* Callers that do not lock a token they own, on a platform without        *)
(* spurious wakeups.                                                       *)
Calm ==
  /\ ~Spurious
  /\ "relock" \notin Habits

(* A thread has at most one waiter in a queue.                             *)
OneWaiterEach ==
  \A k \in Tokens : \A i, j \in 1..Len(waiters[k]) :
    waiters[k][i][1] = waiters[k][j][1] => i = j

(* Each waiter in a queue is the owner's or that of a thread inside lock().*)
WaitersAccounted ==
  \A k \in Tokens : \A i \in 1..Len(waiters[k]) :
    LET t == waiters[k][i][1] IN
    \/ k \in granted[t]
    \/ want[t] = k /\ waiters[k][i] = <<t, slot[t]>>

(* A thread does not wait for what it owns, and a signalled one is first.  *)
WaitsWithReason ==
  \A t \in Threads : pc[t] # "out" =>
    /\ want[t] \notin granted[t]
    /\ pc[t] = "signalled" => waiters[want[t]][1][1] = t

(* The inductive invariant of calm behaviours.                             *)
CalmInv ==
  /\ BasicInv
  /\ OneWaiterEach
  /\ WaitersAccounted
  /\ WaitsWithReason
  /\ OwnerHeadsQueue
  /\ NoLostWakeup
  /\ DestructorAlone
  /\ NoAssertFails

-----------------------------------------------------------------------------
(* takeItem removes exactly one item and keeps the order of the others.    *)
LEMMA TakeWaiterProperties ==
  ASSUME NEW S, NEW q \in Seq(S), NEW i \in 1..Len(q)
  PROVE  /\ TakeWaiter(q, i) \in Seq(S)
         /\ Len(TakeWaiter(q, i)) = Len(q) - 1
         /\ \A j \in 1..(Len(q) - 1) :
              TakeWaiter(q, i)[j] = IF j < i THEN q[j] ELSE q[j + 1]
<1>1. Len(q) - 1 \in Nat
  BY LenProperties
<1>2. TakeWaiter(q, i) \in [1..(Len(q) - 1) -> S]
  BY ElementOfSeq, LenProperties DEF TakeWaiter
<1>3. TakeWaiter(q, i) \in Seq(S)
  BY <1>1, <1>2, SeqDef
<1>4. Len(TakeWaiter(q, i)) = Len(q) - 1
  BY <1>1, <1>2, <1>3, LenProperties
<1> QED
  BY <1>3, <1>4 DEF TakeWaiter

LEMMA EmptyIffLenZero ==
  ASSUME NEW S, NEW q \in Seq(S)
  PROVE  q = <<>> <=> Len(q) = 0
BY EmptySeq

(* signal() only moves a blocked thread past its wait.                     *)
LEMMA PassOnType ==
  ASSUME TypeOK, NEW k \in Tokens, NEW i
  PROVE  PassOn(k, i) \in [Threads -> {"out"} \cup Blocked \cup Woken]
BY DEF PassOn, Signal, TypeOK, Blocked, Woken

LEMMA RemoveType ==
  ASSUME TypeOK, NEW k \in Tokens, NEW i \in 1..Len(waiters[k]), Remove(k, i)
  PROVE  entries' \subseteq Tokens /\ waiters' \in [Tokens -> Seq(Waiter)]
BY TakeWaiterProperties DEF Remove, TypeOK

-----------------------------------------------------------------------------
(* BasicInv, step by step.                                                 *)

LEMMA BasicLockFree ==
  ASSUME BasicInv, NEW t \in Threads, NEW k \in Tokens, LockFree(t, k)
  PROVE  BasicInv'
<1>1. PICK s \in Slots : waiters' = [waiters EXCEPT ![k] = <<<<t, s>>>>]
  BY DEF LockFree
<1> DEFINE q == <<<<t, s>>>>
<1>2. q \in Seq(Waiter) /\ q # <<>>
  BY DEF Waiter
<1>3. waiters' = [waiters EXCEPT ![k] = q]
  BY <1>1
<1> HIDE DEF q
<1>4. waiters' \in [Tokens -> Seq(Waiter)]
  BY <1>2, <1>3 DEF BasicInv, TypeOK
<1>5. TypeOK'
  BY <1>4 DEF BasicInv, TypeOK, LockFree, GetsMutex, LetIn, SignalEmpty
<1>6. EntriesMatchQueues'
  BY <1>2, <1>3 DEF BasicInv, TypeOK, EntriesMatchQueues, LockFree
<1>7. ASSUME NEW u \in Threads, pc[u] # "out"
      PROVE  want[u] \in entries /\ waiters'[want[u]] = waiters[want[u]]
  BY <1>3, <1>7 DEF BasicInv, TypeOK, OwnWaiterQueued, LockFree
<1>8. OwnWaiterQueued'
  BY <1>7 DEF BasicInv, OwnWaiterQueued, LockFree
<1> QED
  BY <1>5, <1>6, <1>8 DEF BasicInv, LockFree, GetsMutex

LEMMA BasicLockWait ==
  ASSUME BasicInv, NEW t \in Threads, NEW k \in Tokens, NEW mode \in Blocked,
         LockWait(t, k, mode)
  PROVE  BasicInv'
<1>1. PICK s \in Slots :
        /\ waiters' = [waiters EXCEPT ![k] = Append(@, <<t, s>>)]
        /\ slot' = [slot EXCEPT ![t] = s]
  BY Zenon DEF LockWait
<1> DEFINE q == Append(waiters[k], <<t, s>>)
<1>2. waiters[k] \in Seq(Waiter) /\ <<t, s>> \in Waiter
  BY DEF BasicInv, TypeOK, Waiter
<1>3. /\ q \in Seq(Waiter) /\ q # <<>>
      /\ Len(q) = Len(waiters[k]) + 1
      /\ \A i \in 1..Len(waiters[k]) : q[i] = waiters[k][i]
      /\ q[Len(q)] = <<t, s>>
  BY <1>2, AppendProperties
<1>4. Len(waiters[k]) \in Nat
  BY <1>2, LenProperties
<1>5. waiters' = [waiters EXCEPT ![k] = q]
  BY <1>1
<1> HIDE DEF q
<1>6. TypeOK'
  <2>1. waiters' \in [Tokens -> Seq(Waiter)]
    BY <1>3, <1>5 DEF BasicInv, TypeOK
  <2>2. slot' \in [Threads -> Slots]
    BY <1>1 DEF BasicInv, TypeOK
  <2> QED
    BY <2>1, <2>2 DEF BasicInv, TypeOK, LockWait, GetsMutex, LetIn
<1>7. EntriesMatchQueues'
  <2>1. k \in entries' /\ entries' = entries
    BY DEF LockWait
  <2> QED
    BY <1>3, <1>5, <2>1 DEF BasicInv, TypeOK, EntriesMatchQueues
<1>8. ASSUME NEW u \in Threads
      PROVE  pc'[u] = "out" <=> want'[u] = NoToken
  BY <1>8, LockAssumption DEF BasicInv, TypeOK, LockWait, Blocked
<1>9. ASSUME NEW u \in Threads, pc'[u] # "out"
      PROVE  /\ want'[u] \in entries'
             /\ \E i \in 1..Len(waiters'[want'[u]]) :
                  waiters'[want'[u]][i] = <<u, slot'[u]>>
  <2>1. CASE u = t
    <3>1. want'[u] = k /\ slot'[u] = s /\ k \in entries'
      BY <1>1, <2>1 DEF BasicInv, TypeOK, LockWait
    <3>2. waiters'[k] = q
      BY <1>5 DEF BasicInv, TypeOK
    <3> QED
      BY <1>3, <1>4, <2>1, <3>1, <3>2
  <2>2. CASE u # t
    <3>1. /\ want'[u] = want[u] /\ slot'[u] = slot[u] /\ pc[u] # "out"
          /\ want[u] \in entries /\ entries' = entries
      BY <1>1, <1>9, <2>2 DEF BasicInv, TypeOK, LockWait, OwnWaiterQueued
    <3>2. PICK i \in 1..Len(waiters[want[u]]) :
            waiters[want[u]][i] = <<u, slot[u]>>
      BY <3>1 DEF BasicInv, OwnWaiterQueued
    <3>3. i \in 1..Len(waiters'[want[u]]) /\ waiters'[want[u]][i] = <<u, slot[u]>>
      BY <1>3, <1>4, <1>5, <3>1, <3>2 DEF BasicInv, TypeOK
    <3> QED
      BY <3>1, <3>3
  <2> QED
    BY <2>1, <2>2
<1>10. \A u \in called' : pc'[u] = "out"
  BY DEF BasicInv, TypeOK, LockWait, GetsMutex
<1> QED
  BY <1>6, <1>7, <1>8, <1>9, <1>10 DEF BasicInv, OwnWaiterQueued

(* A waiter of a thread outside lock(), or leaving it, can go: the threads *)
(* that stay inside keep theirs.                                           *)
LEMMA BasicRemove ==
  ASSUME BasicInv, NEW t \in Threads, NEW k \in Tokens,
         NEW i \in 1..Len(waiters[k]), waiters[k][i][1] = t, Remove(k, i)
  PROVE  /\ waiters' \in [Tokens -> Seq(Waiter)]
         /\ entries' \subseteq Tokens
         /\ EntriesMatchQueues'
         /\ \A u \in Threads : pc[u] # "out" /\ u # t =>
              /\ want[u] \in entries'
              /\ \E j \in 1..Len(waiters'[want[u]]) :
                   waiters'[want[u]][j] = <<u, slot[u]>>
<1> DEFINE q == TakeWaiter(waiters[k], i)
<1>1. waiters[k] \in Seq(Waiter) /\ Len(waiters[k]) \in Nat
  BY LenProperties DEF BasicInv, TypeOK
<1>2. /\ q \in Seq(Waiter)
      /\ Len(q) = Len(waiters[k]) - 1
      /\ \A j \in 1..(Len(waiters[k]) - 1) :
           q[j] = IF j < i THEN waiters[k][j] ELSE waiters[k][j + 1]
  BY <1>1, TakeWaiterProperties
<1>3. waiters' = [waiters EXCEPT ![k] = q]
  BY DEF Remove
<1> HIDE DEF q
<1>4. q = <<>> <=> Len(waiters[k]) = 1
  <2>1. q = <<>> <=> Len(q) = 0
    BY <1>2, EmptyIffLenZero, Zenon
  <2>2. Len(q) = Len(waiters[k]) - 1
    BY <1>2
  <2> QED
    BY <1>1, <2>1, <2>2
<1>5. waiters' \in [Tokens -> Seq(Waiter)] /\ entries' \subseteq Tokens
  BY <1>2, <1>3 DEF BasicInv, TypeOK, Remove
<1>6. k \in entries
  <2>1. waiters[k] # <<>>
    BY <1>1
  <2> QED
    BY <2>1 DEF BasicInv, EntriesMatchQueues
<1>7. EntriesMatchQueues'
  BY <1>3, <1>4, <1>6 DEF BasicInv, TypeOK, EntriesMatchQueues, Remove
<1>8. ASSUME NEW u \in Threads, pc[u] # "out", u # t
      PROVE  /\ want[u] \in entries'
             /\ \E j \in 1..Len(waiters'[want[u]]) :
                  waiters'[want[u]][j] = <<u, slot[u]>>
  <2>1. want[u] \in entries /\ want[u] \in Tokens
    BY <1>8 DEF BasicInv, OwnWaiterQueued, TypeOK
  <2>2. PICK j \in 1..Len(waiters[want[u]]) : waiters[want[u]][j] = <<u, slot[u]>>
    BY <1>8 DEF BasicInv, OwnWaiterQueued
  <2>3. CASE want[u] # k
    BY <1>3, <2>1, <2>2, <2>3 DEF BasicInv, TypeOK, Remove
  <2>4. CASE want[u] = k
    <3>1. j # i
      BY <1>8, <2>2, <2>4
    <3>2. Len(waiters[k]) # 1
      BY <1>1, <2>2, <2>4, <3>1
    <3>3. waiters'[k] = q /\ k \in entries'
      BY <1>3, <2>1, <2>4, <3>2 DEF BasicInv, TypeOK, Remove
    <3>4. CASE j < i
      BY <1>1, <1>2, <2>2, <2>4, <3>3, <3>4
    <3>5. CASE j > i
      <4>1. j - 1 \in 1..Len(q) /\ q[j - 1] = waiters[k][j]
        BY <1>1, <1>2, <2>2, <2>4, <3>5
      <4> QED
        BY <2>2, <2>4, <3>3, <4>1
    <3> QED
      BY <1>1, <2>2, <2>4, <3>1, <3>4, <3>5
  <2> QED
    BY <2>3, <2>4
<1> QED
  BY <1>5, <1>7, <1>8

(* A step that leaves the queues alone and lets no thread into lock().     *)
LEMMA KeptQueues ==
  ASSUME BasicInv, TypeOK', UNCHANGED <<entries, waiters, slot>>,
         \A u \in Threads : pc'[u] = "out" <=> want'[u] = NoToken,
         \A u \in Threads : pc'[u] # "out" => pc[u] # "out" /\ want'[u] = want[u],
         \A u \in called' : pc'[u] = "out"
  PROVE  BasicInv'
<1>1. EntriesMatchQueues'
  BY DEF BasicInv, EntriesMatchQueues
<1>2. entries' = entries /\ waiters' = waiters /\ slot' = slot
  OBVIOUS
<1>3. ASSUME NEW u \in Threads, pc'[u] # "out"
      PROVE  /\ want'[u] \in entries'
             /\ \E i \in 1..Len(waiters'[want'[u]]) :
                  waiters'[want'[u]][i] = <<u, slot'[u]>>
  <2>1. pc[u] # "out" /\ want'[u] = want[u]
    BY <1>3
  <2> QED
    BY <1>2, <2>1 DEF BasicInv, OwnWaiterQueued
<1> QED
  BY <1>1, <1>3 DEF BasicInv, OwnWaiterQueued

LEMMA BasicAbort ==
  ASSUME BasicInv, NEW line \in {239, 279}, Abort(line)
  PROVE  BasicInv'
<1>1. TypeOK'
  BY DEF Abort, BasicInv, TypeOK
<1> QED
  BY <1>1, KeptQueues DEF Abort, BasicInv

LEMMA BasicUnlock ==
  ASSUME BasicInv, NEW t \in Threads, NEW k \in Tokens, Unlock(t, k)
  PROVE  BasicInv'
<1>1. PICK i \in 1..Len(waiters[k]) :
        /\ FindWaiter(waiters[k], t, i)
        /\ IF i # 1 THEN Abort(279)
           ELSE /\ Remove(k, i)
                /\ pc' = PassOn(k, i)
                /\ granted' = [granted EXCEPT ![t] = @ \ {k}]
                /\ SignalEmpty
                /\ UNCHANGED <<called, want, slot, mStop, late, assertLine>>
  BY Zenon DEF Unlock
<1>2. CASE i # 1
  BY <1>1, <1>2, BasicAbort
<1>3. CASE i = 1
  <2>1. Remove(k, i) /\ waiters[k][i][1] = t
    BY <1>1, <1>3 DEF FindWaiter
  <2>2. /\ waiters' \in [Tokens -> Seq(Waiter)]
        /\ entries' \subseteq Tokens
        /\ EntriesMatchQueues'
        /\ \A u \in Threads : pc[u] # "out" /\ u # t =>
             /\ want[u] \in entries'
             /\ \E j \in 1..Len(waiters'[want[u]]) :
                  waiters'[want[u]][j] = <<u, slot[u]>>
    BY <2>1, BasicRemove
  <2>3. pc' \in [Threads -> {"out"} \cup Blocked \cup Woken]
    BY <1>1, <1>3, PassOnType DEF BasicInv
  <2>4. \A u \in Threads : pc'[u] = "out" <=> pc[u] = "out"
    BY <1>1, <1>3 DEF PassOn, Signal, WaitsOn, Blocked, BasicInv, TypeOK
  <2>5. TypeOK'
    <3>1. granted' \in [Threads -> SUBSET Tokens]
      BY <1>1, <1>3 DEF BasicInv, TypeOK
    <3>2. dtor' \in {"live", "stopping", "waitempty", "emptied", "destroyed"}
      BY <1>1, <1>3 DEF BasicInv, TypeOK, SignalEmpty
    <3>3. UNCHANGED <<called, want, slot, mStop, late, assertLine>>
      BY <1>1, <1>3
    <3> QED
      BY <2>2, <2>3, <3>1, <3>2, <3>3 DEF BasicInv, TypeOK
  <2>6. pc[t] = "out"
    BY DEF Unlock
  <2>7. OwnWaiterQueued'
    BY <1>1, <1>3, <2>2, <2>4, <2>6 DEF OwnWaiterQueued
  <2> QED
    BY <1>1, <1>3, <2>2, <2>4, <2>5, <2>7 DEF BasicInv, TypeOK
<1> QED
  BY <1>2, <1>3

LEMMA BasicWithdraw ==
  ASSUME BasicInv, NEW t \in Threads, Withdraw(t)
  PROVE  BasicInv'
<1> DEFINE k == want[t]
<1>1. pc[t] # "out"
  BY DEF Withdraw
<1>2. k \in Tokens
  BY <1>1 DEF BasicInv, OwnWaiterQueued, TypeOK
<1>3. PICK i \in 1..Len(waiters[k]) :
        /\ FindWaiter(waiters[k], t, i)
        /\ Remove(k, i)
        /\ pc' = [PassOn(k, i) EXCEPT ![t] = "out"]
        /\ want' = [want EXCEPT ![t] = NoToken]
        /\ SignalEmpty
        /\ UNCHANGED <<called, slot, granted, mStop, late, assertLine>>
  BY Zenon DEF Withdraw
<1> HIDE DEF k
<1>4. /\ waiters' \in [Tokens -> Seq(Waiter)]
      /\ entries' \subseteq Tokens
      /\ EntriesMatchQueues'
      /\ \A u \in Threads : pc[u] # "out" /\ u # t =>
           /\ want[u] \in entries'
           /\ \E j \in 1..Len(waiters'[want[u]]) :
                waiters'[want[u]][j] = <<u, slot[u]>>
  <2>1. Remove(k, i) /\ waiters[k][i][1] = t
    BY <1>3 DEF FindWaiter
  <2> QED
    BY <1>2, <2>1, BasicRemove
<1>5. PassOn(k, i) \in [Threads -> {"out"} \cup Blocked \cup Woken]
  BY <1>2, PassOnType DEF BasicInv
<1>6. TypeOK'
  BY <1>3, <1>4, <1>5 DEF BasicInv, TypeOK, SignalEmpty
<1>7. \A u \in Threads : PassOn(k, i)[u] = "out" <=> pc[u] = "out"
  BY DEF PassOn, Signal, WaitsOn, Blocked, BasicInv, TypeOK
<1>8. \A u \in Threads : pc'[u] = "out" <=> u = t \/ pc[u] = "out"
  BY <1>3, <1>5, <1>7
<1>9. \A u \in Threads : want'[u] = IF u = t THEN NoToken ELSE want[u]
  BY <1>3 DEF BasicInv, TypeOK
<1>10. OwnWaiterQueued'
  <2>1. ASSUME NEW u \in Threads, pc'[u] # "out"
        PROVE  /\ want'[u] \in entries'
               /\ \E j \in 1..Len(waiters'[want'[u]]) :
                    waiters'[want'[u]][j] = <<u, slot'[u]>>
    <3>1. u # t /\ pc[u] # "out" /\ want'[u] = want[u] /\ slot'[u] = slot[u]
      BY <1>3, <1>8, <1>9, <2>1
    <3> QED
      BY <1>4, <3>1
  <2> QED
    BY <2>1 DEF OwnWaiterQueued
<1>11. \A u \in Threads : pc'[u] = "out" <=> want'[u] = NoToken
  BY <1>8, <1>9 DEF BasicInv
<1>12. \A u \in called' : pc'[u] = "out"
  BY <1>3, <1>8 DEF BasicInv, TypeOK
<1> QED
  BY <1>4, <1>6, <1>10, <1>11, <1>12 DEF BasicInv

LEMMA BasicAcquire ==
  ASSUME BasicInv, NEW t \in Threads, Acquire(t)
  PROVE  BasicInv'
<1> DEFINE k == want[t]
<1>1. k \in Tokens
  BY DEF Acquire, BasicInv, OwnWaiterQueued, TypeOK
<1>2. CASE waiters[k] = <<>> \/ waiters[k][1] # <<t, slot[t]>>
  <2>1. Abort(239)
    BY <1>2, Zenon DEF Acquire
  <2> QED
    BY <2>1, BasicAbort
<1>3. CASE ~(waiters[k] = <<>> \/ waiters[k][1] # <<t, slot[t]>>)
  <2>1. /\ granted' = [granted EXCEPT ![t] = @ \cup {k}]
        /\ pc' = [pc EXCEPT ![t] = "out"]
        /\ want' = [want EXCEPT ![t] = NoToken]
        /\ UNCHANGED <<entries, waiters, called, slot, mStop, dtor, late, assertLine>>
    BY <1>3, Zenon DEF Acquire
  <2>2. TypeOK'
    BY <1>1, <2>1 DEF BasicInv, TypeOK
  <2>3. \A u \in Threads : /\ pc'[u] = IF u = t THEN "out" ELSE pc[u]
                           /\ want'[u] = IF u = t THEN NoToken ELSE want[u]
    BY <2>1 DEF BasicInv, TypeOK
  <2> QED
    BY <2>1, <2>2, <2>3, KeptQueues DEF BasicInv, TypeOK
<1> QED
  BY <1>2, <1>3

(* Steps that touch neither the queues nor the tokens the threads wait for.*)
LEMMA BasicOther ==
  ASSUME BasicInv,
         \/ \E t \in Threads : Timeout(t) \/ SpuriousWakeup(t) \/ CallLock(t)
         \/ \E t \in Threads : \E k \in Tokens : LockNoWait(t, k)
         \/ Destructor
         \/ UNCHANGED vars
  PROVE  BasicInv'
<1>1. ASSUME NEW t \in Threads, Timeout(t) \/ SpuriousWakeup(t) PROVE BasicInv'
  <2>1. PICK s \in Woken : pc' = [pc EXCEPT ![t] = s]
    BY <1>1 DEF Timeout, SpuriousWakeup, Woken
  <2>2. /\ pc[t] # "out"
        /\ UNCHANGED <<entries, waiters, called, want, slot, granted, mStop, dtor, late, assertLine>>
    BY <1>1 DEF Timeout, SpuriousWakeup, Blocked
  <2>3. TypeOK'
    BY <2>1, <2>2 DEF BasicInv, TypeOK
  <2>4. \A u \in Threads : pc'[u] = IF u = t THEN s ELSE pc[u]
    BY <2>1 DEF BasicInv, TypeOK
  <2> QED
    BY <2>2, <2>3, <2>4, KeptQueues DEF BasicInv, TypeOK, Woken
<1>2. CASE Destructor
  <2>1. UNCHANGED <<entries, waiters, called, pc, want, slot, granted, late, assertLine>>
    BY <1>2 DEF Destructor, BeginDestroy, TestEmpty, SpuriousEmpty, FinishDestroy
  <2>2. /\ mStop' \in BOOLEAN
        /\ dtor' \in {"live", "stopping", "waitempty", "emptied", "destroyed"}
    BY <1>2 DEF Destructor, BeginDestroy, TestEmpty, SpuriousEmpty, FinishDestroy,
                BasicInv, TypeOK
  <2>3. TypeOK'
    BY <2>1, <2>2 DEF BasicInv, TypeOK
  <2> QED
    BY <2>1, <2>3, KeptQueues DEF BasicInv
<1>3. CASE UNCHANGED vars
  <2>1. TypeOK'
    BY <1>3 DEF vars, BasicInv, TypeOK
  <2> QED
    BY <1>3, <2>1, KeptQueues DEF vars, BasicInv
<1>4. ASSUME NEW t \in Threads, CallLock(t) \/ \E k \in Tokens : LockNoWait(t, k)
      PROVE  BasicInv'
  <2>1. UNCHANGED <<entries, waiters, pc, want, slot, granted, mStop, dtor, late, assertLine>>
    BY <1>4 DEF CallLock, LockNoWait
  <2>2. called' \subseteq Threads /\ \A u \in called' : u \in called \/ pc[u] = "out"
    BY <1>4 DEF CallLock, LockNoWait, GetsMutex, BasicInv, TypeOK
  <2>3. TypeOK'
    BY <2>1, <2>2 DEF BasicInv, TypeOK
  <2> QED
    BY <2>1, <2>2, <2>3, KeptQueues DEF BasicInv
<1> QED
  BY <1>1, <1>2, <1>3, <1>4

LEMMA BasicInit == Init => BasicInv
<1> SUFFICES ASSUME Init PROVE BasicInv
  OBVIOUS
<1>1. TypeOK
  <2>1. waiters \in [Tokens -> Seq(Waiter)]
    BY EmptySeq DEF Init
  <2>2. slot \in [Threads -> Slots]
    BY LockAssumption DEF Init
  <2> QED
    BY <2>1, <2>2 DEF Init, TypeOK
<1> QED
  BY <1>1 DEF Init, BasicInv, EntriesMatchQueues, OwnWaiterQueued

LEMMA BasicNext == BasicInv /\ [Next]_vars => BasicInv'
<1> SUFFICES ASSUME BasicInv, [Next]_vars PROVE BasicInv'
  OBVIOUS
<1>1. CASE UNCHANGED vars
  BY <1>1, BasicOther
<1>2. CASE Destructor
  BY <1>2, BasicOther
<1>3. ASSUME NEW t \in Threads, Call(t) PROVE BasicInv'
  <2>1. CASE \E k \in Tokens : LockFree(t, k)
    BY <2>1, BasicLockFree
  <2>2. CASE CallLock(t) \/ \E k \in Tokens : LockNoWait(t, k) \/ UnlockNotHeld(t, k)
    BY <2>2, BasicOther, Zenon DEF UnlockNotHeld
  <2>3. CASE \E k \in Tokens : \E mode \in Blocked : LockWait(t, k, mode)
    BY <2>3, BasicLockWait
  <2>4. CASE \E k \in Tokens : Unlock(t, k)
    BY <2>4, BasicUnlock
  <2>5. CASE Timeout(t) \/ SpuriousWakeup(t)
    BY <2>5, BasicOther
  <2>6. CASE Acquire(t)
    BY <2>6, BasicAcquire
  <2>7. CASE Withdraw(t)
    BY <2>7, BasicWithdraw
  <2> QED
    BY <1>3, <2>1, <2>2, <2>3, <2>4, <2>5, <2>6, <2>7, Zenon DEF Call, Enter
<1> QED
  BY <1>1, <1>2, <1>3, Zenon DEF Next

LEMMA BasicHolds == Spec => []BasicInv
BY BasicInit, BasicNext, PTL DEF Spec

(* However callers behave and whatever wakes a thread, the variables of    *)
(* the manager keep their types.                                           *)
THEOREM TypeCorrect == Spec => []TypeOK
BY BasicHolds, PTL DEF BasicInv

(* And entries and waiter lists agree, and the pointers lock() keeps       *)
(* across its wait stay good.                                              *)
THEOREM BasicCorrect == Spec => [](EntriesMatchQueues /\ OwnWaiterQueued)
BY BasicHolds, PTL DEF BasicInv

-----------------------------------------------------------------------------
(* CalmInv, step by step.                                                  *)

(* A thread inside lock() wants a token, one outside wants none.           *)
LEMMA WantInside ==
  ASSUME BasicInv, NEW t \in Threads
  PROVE  /\ pc[t] # "out" => want[t] \in Tokens /\ want[t] \in entries
         /\ pc[t] = "out" => want[t] \notin Tokens
BY LockAssumption DEF BasicInv, TypeOK, OwnWaiterQueued

(* An entry has a head, a waiter of some thread.                           *)
LEMMA HeadOfEntry ==
  ASSUME BasicInv, NEW k \in entries
  PROVE  /\ k \in Tokens
         /\ Len(waiters[k]) \in Nat /\ Len(waiters[k]) > 0
         /\ waiters[k][1] \in Waiter /\ waiters[k][1][1] \in Threads
<1>1. k \in Tokens
  BY DEF BasicInv, TypeOK
<1>2. waiters[k] \in Seq(Waiter) /\ waiters[k] # <<>>
  BY <1>1 DEF BasicInv, TypeOK, EntriesMatchQueues
<1>3. Len(waiters[k]) \in Nat /\ Len(waiters[k]) > 0
  BY <1>2, LenProperties, EmptySeq
<1>4. waiters[k][1] \in Waiter
  BY <1>2, <1>3, ElementOfSeq
<1> QED
  BY <1>1, <1>3, <1>4 DEF Waiter

(* With the list empty nobody waits or owns a token.                       *)
LEMMA Drained ==
  ASSUME BasicInv', OwnerHeadsQueue', entries' = {}
  PROVE  DestructorAlone'
BY DEF BasicInv, OwnWaiterQueued, OwnerHeadsQueue, DestructorAlone

(* A waiter of t leaves the queue of k, because t unlocks k or gives up    *)
(* waiting for it.                                                         *)
LEMMA CalmDepart ==
  ASSUME CalmInv, BasicInv', NEW t \in Threads, NEW k \in Tokens,
         NEW i \in 1..Len(waiters[k]),
         FindWaiter(waiters[k], t, i), Remove(k, i), SignalEmpty,
         pc[t] # "out" => want[t] = k,
         \A u \in Threads : pc'[u] = IF u = t THEN "out" ELSE PassOn(k, i)[u],
         \A u \in Threads : want'[u] = IF u = t THEN NoToken ELSE want[u],
         \A u \in Threads : granted'[u] = IF u = t THEN granted[t] \ {k} ELSE granted[u],
         UNCHANGED <<late, slot, assertLine>>
  PROVE  CalmInv'
<1> DEFINE q == waiters[k]
           r == TakeWaiter(waiters[k], i)
<1>1. q \in Seq(Waiter) /\ Len(q) \in Nat /\ i \in 1..Len(q)
  BY LenProperties DEF CalmInv, BasicInv, TypeOK
<1>2. /\ r \in Seq(Waiter)
      /\ Len(r) = Len(q) - 1
      /\ \A j \in 1..(Len(q) - 1) : r[j] = IF j < i THEN q[j] ELSE q[j + 1]
  BY <1>1, TakeWaiterProperties
<1>3. waiters'[k] = r /\ \A l \in Tokens : l # k => waiters'[l] = waiters[l]
  BY DEF Remove, CalmInv, BasicInv, TypeOK
<1>4. entries' = (IF Len(q) = 1 THEN entries \ {k} ELSE entries) /\ k \in entries
  <2>1. waiters[k] # <<>>
    BY <1>1
  <2> QED
    BY <2>1 DEF Remove, CalmInv, BasicInv, EntriesMatchQueues
<1>5. q[i][1] = t /\ \A j \in 1..Len(q) : q[j][1] = t => j = i
  BY <1>1 DEF FindWaiter, CalmInv, OneWaiterEach
<1>6. \A j \in 1..Len(r) : \E l \in 1..Len(q) : l # i /\ r[j] = q[l]
  <2> SUFFICES ASSUME NEW j \in 1..Len(r)
               PROVE  \E l \in 1..Len(q) : l # i /\ r[j] = q[l]
    OBVIOUS
  <2>1. CASE j < i
    BY <1>1, <1>2, <2>1
  <2>2. CASE j >= i
    <3>1. j + 1 \in 1..Len(q) /\ j + 1 # i /\ r[j] = q[j + 1]
      BY <1>1, <1>2, <2>2
    <3> QED
      BY <3>1
  <2> QED
    BY <1>1, <1>2, <2>1, <2>2
<1>7. i # 1 => Len(r) > 0 /\ r[1] = q[1]
  BY <1>1, <1>2
<1>8. i = 1 /\ Len(q) > 1 => Len(r) > 0 /\ r[1] = q[2]
  BY <1>1, <1>2
<1> HIDE DEF q, r
<1> DEFINE n == Len(q)
<1>0. n \in Nat /\ i \in 1..n /\ n > 0
  <2>1. n \in Nat /\ i \in 1..n
    BY <1>1
  <2> HIDE DEF n
  <2> QED
    BY <2>1
<1>9. \A u \in Threads : PassOn(k, i)[u] # pc[u] =>
        /\ PassOn(k, i)[u] = "signalled" /\ pc[u] # "out" /\ want[u] = k
        /\ i = 1 /\ Len(q) > 1 /\ q[2] = <<u, slot[u]>>
  BY DEF PassOn, Signal, WaitsOn, Blocked, q, CalmInv, BasicInv, TypeOK
<1>10. OneWaiterEach'
  <2> SUFFICES ASSUME NEW l \in Tokens, NEW a \in 1..Len(waiters'[l]),
                      NEW b \in 1..Len(waiters'[l]),
                      waiters'[l][a][1] = waiters'[l][b][1]
               PROVE  a = b
    BY DEF OneWaiterEach
  <2>1. CASE l # k
    BY <1>3, <2>1 DEF CalmInv, OneWaiterEach
  <2>2. CASE l = k
    <3>1. \A c, d \in 1..Len(q) : q[c][1] = q[d][1] => c = d
      BY DEF q, CalmInv, OneWaiterEach
    <3>2. a \in 1..Len(r) /\ b \in 1..Len(r) /\ r[a][1] = r[b][1]
      BY <1>3, <2>2
    <3> DEFINE From(j) == IF j < i THEN j ELSE j + 1
    <3>3. \A j \in 1..Len(r) : From(j) \in 1..Len(q) /\ r[j] = q[From(j)]
      BY <1>1, <1>2, SMTT(60)
    <3>4. From(a) = From(b)
      BY <3>1, <3>2, <3>3
    <3> QED
      BY <1>1, <1>2, <3>2, <3>4
  <2> QED
    BY <2>1, <2>2
<1>11. WaitersAccounted'
  <2> SUFFICES ASSUME NEW l \in Tokens, NEW a \in 1..Len(waiters'[l]), NEW u,
                      u = waiters'[l][a][1]
               PROVE  \/ l \in granted'[u]
                      \/ want'[u] = l /\ waiters'[l][a] = <<u, slot'[u]>>
    BY DEF WaitersAccounted
  <2>1. PICK b \in 1..Len(waiters[l]) :
          waiters'[l][a] = waiters[l][b] /\ (l = k => b # i)
    BY <1>3, <1>6 DEF q
  <2>2. u \in Threads
    <3>1. waiters[l][b] \in Waiter
      BY ElementOfSeq DEF CalmInv, BasicInv, TypeOK
    <3> QED
      BY <2>1, <3>1 DEF Waiter
  <2>3. \/ l \in granted[u]
        \/ want[u] = l /\ waiters[l][b] = <<u, slot[u]>>
    BY <2>1 DEF CalmInv, WaitersAccounted
  <2>4. l = k => u # t
    BY <1>5, <2>1 DEF q
  <2>5. CASE u # t
    BY <2>1, <2>2, <2>3, <2>5
  <2>6. CASE u = t
    <3>1. l # k /\ want[t] # l
      BY <2>4, <2>6, WantInside DEF CalmInv
    <3> QED
      BY <2>2, <2>3, <2>6, <3>1
  <2> QED
    BY <2>5, <2>6
<1>12. WaitsWithReason'
  <2> SUFFICES ASSUME NEW u \in Threads, pc'[u] # "out"
               PROVE  /\ want'[u] \notin granted'[u]
                      /\ pc'[u] = "signalled" => waiters'[want'[u]][1][1] = u
    BY DEF WaitsWithReason
  <2>1. u # t /\ pc'[u] = PassOn(k, i)[u] /\ want'[u] = want[u] /\ granted'[u] = granted[u]
    OBVIOUS
  <2>2. pc[u] # "out"
    BY <1>9, <2>1
  <2>3. want'[u] \notin granted'[u]
    BY <2>1, <2>2 DEF CalmInv, WaitsWithReason
  <2>4. want[u] \in Tokens
    BY <2>2, WantInside DEF CalmInv
  <2>5. CASE PassOn(k, i)[u] # pc[u]
    BY <1>3, <1>8, <1>9, <2>1, <2>3, <2>5
  <2>6. CASE PassOn(k, i)[u] = pc[u]
    <3>1. ASSUME pc[u] = "signalled" PROVE waiters'[want[u]][1][1] = u
      <4>1. waiters[want[u]][1][1] = u
        BY <2>2, <3>1 DEF CalmInv, WaitsWithReason
      <4>2. CASE want[u] # k
        BY <1>3, <2>4, <4>1, <4>2
      <4>3. CASE want[u] = k
        BY <1>3, <1>5, <1>7, <2>1, <4>1, <4>3 DEF q
      <4> QED
        BY <4>2, <4>3
    <3> QED
      BY <2>1, <2>3, <2>6, <3>1
  <2> QED
    BY <2>5, <2>6
<1>13. OwnerHeadsQueue'
  <2> SUFFICES ASSUME NEW u \in Threads, NEW l \in granted'[u]
               PROVE  /\ l \in entries' /\ Len(waiters'[l]) > 0
                      /\ waiters'[l][1][1] = u
    BY DEF OwnerHeadsQueue
  <2>1. l \in granted[u] /\ (u = t => l # k)
    OBVIOUS
  <2>2. l \in entries /\ l \in Tokens /\ Len(waiters[l]) > 0 /\ waiters[l][1][1] = u
    BY <2>1 DEF CalmInv, OwnerHeadsQueue, BasicInv, TypeOK
  <2>3. CASE l # k
    BY <1>3, <1>4, <2>2, <2>3
  <2>4. CASE l = k
    <3>1. i # 1
      BY <1>5, <2>1, <2>2, <2>4 DEF q
    <3>2. Len(q) # 1
      <4> HIDE DEF n
      <4>1. n # 1
        BY <1>0, <3>1
      <4> QED
        BY <4>1 DEF n
    <3>3. k \in entries' /\ Len(r) > 0 /\ r[1] = q[1] /\ waiters'[k] = r
      BY <1>3, <1>4, <1>7, <3>1, <3>2
    <3> QED
      BY <2>2, <2>4, <3>3 DEF q
  <2> QED
    BY <2>3, <2>4
<1>14. NoLostWakeup'
  <2> SUFFICES ASSUME NEW l \in entries', NEW u, u = waiters'[l][1][1]
               PROVE  l \in granted'[u] \/ (pc'[u] \in Woken /\ want'[u] = l)
    BY DEF NoLostWakeup
  <2>1. l \in entries /\ l \in Tokens
    BY <1>4 DEF CalmInv, BasicInv, TypeOK
  <2>2. Len(waiters[l]) \in Nat /\ Len(waiters[l]) > 0
    BY <2>1, HeadOfEntry DEF CalmInv
  <2>3. waiters[l][1][1] \in Threads
    BY <2>1, HeadOfEntry DEF CalmInv
  <2>4. CASE waiters'[l][1] = waiters[l][1] /\ u # t
    <3>1. u \in Threads /\ granted'[u] = granted[u] /\ want'[u] = want[u]
      BY <2>3, <2>4
    <3>2. l \in granted[u] \/ (pc[u] \in Woken /\ want[u] = l)
      BY <2>1, <2>4 DEF CalmInv, NoLostWakeup
    <3>3. pc[u] \in Woken => pc'[u] \in Woken
      BY <1>9, <2>4, <3>1 DEF Woken
    <3> QED
      BY <3>1, <3>2, <3>3
  <2>5. CASE l # k /\ u = t
    <3>1. waiters[l][1][1] = t
      BY <1>3, <2>1, <2>5
    <3>2. l \in granted[t] \/ (pc[t] \in Woken /\ want[t] = l)
      BY <2>1, <3>1 DEF CalmInv, NoLostWakeup
    <3>3. l \in granted[t]
      BY <2>5, <3>2 DEF Woken
    <3> QED
      BY <2>5, <3>3
  <2>6. CASE l = k /\ i = 1
    <3>1. Len(q) > 1
      <4>1. n # 1
        BY <1>4, <2>6
      <4> HIDE DEF n
      <4>2. n > 1
        BY <1>0, <4>1
      <4> QED
        BY <4>2 DEF n
    <3>2. waiters'[k][1] = q[2] /\ u = q[2][1]
      BY <1>3, <1>8, <2>6, <3>1
    <3>3. u \in Threads /\ u # t
      <4>1. q[2] \in Waiter
        BY <1>1, <3>1, ElementOfSeq
      <4>2. q[2][1] # t
        BY <1>1, <1>5, <2>6, <3>1
      <4> QED
        BY <3>2, <4>1, <4>2 DEF Waiter
    <3>4. k \notin granted[u]
      BY <1>5, <2>6, <3>3 DEF q, CalmInv, OwnerHeadsQueue
    <3>5. want[u] = k /\ q[2] = <<u, slot[u]>>
      BY <1>1, <3>1, <3>2, <3>4 DEF q, CalmInv, WaitersAccounted
    <3>6. pc[u] # "out"
      BY <3>3, <3>5, WantInside DEF CalmInv
    <3>7. PassOn(k, i)[u] \in Woken
      BY <2>6, <3>1, <3>3, <3>5, <3>6
      DEF PassOn, Signal, WaitsOn, Blocked, Woken, q, CalmInv, BasicInv, TypeOK
    <3> QED
      BY <2>6, <3>3, <3>5, <3>7
  <2>7. CASE l = k /\ i # 1
    <3>1. waiters'[l][1] = waiters[l][1]
      BY <1>3, <1>7, <2>7 DEF q
    <3>2. u # t
      BY <1>1, <1>5, <2>2, <2>7, <3>1 DEF q
    <3> QED
      BY <2>4, <3>1, <3>2
  <2> QED
    BY <1>3, <2>1, <2>4, <2>5, <2>6, <2>7
<1>15. DestructorAlone'
  <2>1. CASE dtor' = dtor
    <3>1. \A u \in Threads : (pc'[u] # "out" => pc[u] # "out") /\ granted'[u] \subseteq granted[u]
      BY <1>9
    <3> QED
      BY <2>1, <3>1 DEF DestructorAlone, CalmInv
  <2>2. CASE entries' = {}
    BY <1>13, <2>2, Drained
  <2> QED
    BY <2>1, <2>2 DEF SignalEmpty
<1>16. NoAssertFails'
  BY DEF CalmInv, NoAssertFails
<1> QED
  BY <1>10, <1>11, <1>12, <1>13, <1>14, <1>15, <1>16 DEF CalmInv

LEMMA CalmUnlock ==
  ASSUME CalmInv, BasicInv', NEW t \in Threads, NEW k \in Tokens, Unlock(t, k)
  PROVE  CalmInv'
<1>1. PICK i \in 1..Len(waiters[k]) :
        /\ FindWaiter(waiters[k], t, i)
        /\ IF i # 1 THEN Abort(279)
           ELSE /\ Remove(k, i)
                /\ pc' = PassOn(k, i)
                /\ granted' = [granted EXCEPT ![t] = @ \ {k}]
                /\ SignalEmpty
                /\ UNCHANGED <<called, want, slot, mStop, late, assertLine>>
  BY Zenon DEF Unlock
<1>2. pc[t] = "out" /\ want[t] = NoToken /\ want[t] \notin Tokens
  BY WantInside DEF Unlock, CalmInv, BasicInv
<1>3. k \in granted[t]
  BY <1>1, <1>2 DEF FindWaiter, CalmInv, WaitersAccounted
<1>4. i = 1
  <2>1. Len(waiters[k]) > 0 /\ waiters[k][1][1] = t
    BY <1>3 DEF CalmInv, OwnerHeadsQueue
  <2>2. waiters[k] \in Seq(Waiter)
    BY DEF CalmInv, BasicInv, TypeOK
  <2>3. 1 \in 1..Len(waiters[k])
    BY <2>1, <2>2, LenProperties
  <2> QED
    BY <1>1, <2>1, <2>3 DEF FindWaiter, CalmInv, OneWaiterEach
<1>5. Remove(k, i) /\ SignalEmpty /\ UNCHANGED <<late, slot, assertLine>>
  BY <1>1, <1>4
<1>6. \A u \in Threads : pc'[u] = IF u = t THEN "out" ELSE PassOn(k, i)[u]
  BY <1>1, <1>2, <1>4 DEF PassOn, Signal, WaitsOn, Blocked
<1>7. \A u \in Threads : want'[u] = IF u = t THEN NoToken ELSE want[u]
  BY <1>1, <1>2, <1>4
<1>8. \A u \in Threads :
        granted'[u] = IF u = t THEN granted[t] \ {k} ELSE granted[u]
  BY <1>1, <1>4 DEF CalmInv, BasicInv, TypeOK
<1> QED
  BY <1>1, <1>2, <1>5, <1>6, <1>7, <1>8, CalmDepart

LEMMA CalmWithdraw ==
  ASSUME CalmInv, BasicInv', NEW t \in Threads, Withdraw(t)
  PROVE  CalmInv'
<1> DEFINE k == want[t]
<1>1. pc[t] # "out" /\ k \in Tokens
  BY WantInside DEF Withdraw, CalmInv
<1>2. PICK i \in 1..Len(waiters[k]) :
        /\ FindWaiter(waiters[k], t, i)
        /\ Remove(k, i)
        /\ pc' = [PassOn(k, i) EXCEPT ![t] = "out"]
        /\ want' = [want EXCEPT ![t] = NoToken]
        /\ SignalEmpty
        /\ UNCHANGED <<called, slot, granted, mStop, late, assertLine>>
  BY Zenon DEF Withdraw
<1>3. k \notin granted[t]
  BY <1>1 DEF CalmInv, WaitsWithReason
<1> HIDE DEF k
<1>4. PassOn(k, i) \in [Threads -> {"out"} \cup Blocked \cup Woken]
  BY <1>1, PassOnType DEF CalmInv, BasicInv
<1>5. \A u \in Threads : pc'[u] = IF u = t THEN "out" ELSE PassOn(k, i)[u]
  BY <1>2, <1>4
<1>6. \A u \in Threads : want'[u] = IF u = t THEN NoToken ELSE want[u]
  BY <1>2 DEF CalmInv, BasicInv, TypeOK
<1>7. \A u \in Threads :
        granted'[u] = IF u = t THEN granted[t] \ {k} ELSE granted[u]
  BY <1>2, <1>3
<1>8. pc[t] # "out" => want[t] = k
  BY DEF k
<1> QED
  BY <1>1, <1>2, <1>5, <1>6, <1>7, <1>8, CalmDepart

LEMMA CalmLockFree ==
  ASSUME Calm, CalmInv, BasicInv', Running, NEW t \in Threads, NEW k \in Tokens,
         LockFree(t, k)
  PROVE  CalmInv'
<1>1. PICK s \in Slots : waiters' = [waiters EXCEPT ![k] = <<<<t, s>>>>]
  BY DEF LockFree
<1>2. /\ waiters'[k] = <<<<t, s>>>>
      /\ \A l \in Tokens : l # k => waiters'[l] = waiters[l]
  BY <1>1 DEF CalmInv, BasicInv, TypeOK
<1>3. Len(waiters'[k]) = 1 /\ waiters'[k][1][1] = t
  BY <1>2
<1>4. /\ pc[t] = "out" /\ k \notin entries
      /\ entries' = entries \cup {k}
      /\ UNCHANGED <<pc, want, slot, mStop, assertLine>>
  BY DEF LockFree, GetsMutex, CalmInv, BasicInv
<1>5. \A u \in Threads : granted'[u] = IF u = t THEN granted[t] \cup {k} ELSE granted[u]
  BY DEF LockFree, CalmInv, BasicInv, TypeOK
<1>6. \A u \in Threads : k \notin granted[u] /\ (pc[u] # "out" => want[u] # k)
  BY <1>4, WantInside DEF CalmInv, OwnerHeadsQueue
<1>7. OneWaiterEach'
  BY <1>2, <1>3 DEF CalmInv, OneWaiterEach
<1>8. WaitersAccounted'
  <2> SUFFICES ASSUME NEW l \in Tokens, NEW a \in 1..Len(waiters'[l]), NEW u,
                      u = waiters'[l][a][1]
               PROVE  \/ l \in granted'[u]
                      \/ want'[u] = l /\ waiters'[l][a] = <<u, slot'[u]>>
    BY DEF WaitersAccounted
  <2>1. CASE l = k
    BY <1>3, <1>5, <2>1
  <2>2. CASE l # k
    <3>1. waiters'[l] = waiters[l]
      BY <1>2, <2>2
    <3>2. u \in Threads
      <4>1. waiters[l][a] \in Waiter
        BY <3>1, ElementOfSeq DEF CalmInv, BasicInv, TypeOK
      <4> QED
        BY <3>1, <4>1 DEF Waiter
    <3>3. l \in granted[u] \/ (want[u] = l /\ waiters[l][a] = <<u, slot[u]>>)
      BY <3>1 DEF CalmInv, WaitersAccounted
    <3> QED
      BY <1>4, <1>5, <3>1, <3>2, <3>3
  <2> QED
    BY <2>1, <2>2
<1>9. WaitsWithReason'
  <2> SUFFICES ASSUME NEW u \in Threads, pc'[u] # "out"
               PROVE  /\ want'[u] \notin granted'[u]
                      /\ pc'[u] = "signalled" => waiters'[want'[u]][1][1] = u
    BY DEF WaitsWithReason
  <2>1. u # t /\ pc[u] # "out" /\ want'[u] = want[u] /\ want[u] \in Tokens /\ want[u] # k
    BY <1>4, <1>6, WantInside DEF CalmInv
  <2> QED
    BY <1>2, <1>4, <1>5, <2>1 DEF CalmInv, WaitsWithReason
<1>10. OwnerHeadsQueue'
  <2> SUFFICES ASSUME NEW u \in Threads, NEW l \in granted'[u]
               PROVE  /\ l \in entries' /\ Len(waiters'[l]) > 0
                      /\ waiters'[l][1][1] = u
    BY DEF OwnerHeadsQueue
  <2>1. CASE l = k
    BY <1>3, <1>4, <1>5, <1>6, <2>1
  <2>2. CASE l # k
    <3>1. l \in granted[u]
      BY <1>5, <2>2
    <3>2. l \in Tokens
      BY <3>1 DEF CalmInv, BasicInv, TypeOK
    <3> QED
      BY <1>2, <1>4, <2>2, <3>1, <3>2 DEF CalmInv, OwnerHeadsQueue
  <2> QED
    BY <2>1, <2>2
<1>11. NoLostWakeup'
  <2> SUFFICES ASSUME NEW l \in entries', NEW u, u = waiters'[l][1][1]
               PROVE  l \in granted'[u] \/ (pc'[u] \in Woken /\ want'[u] = l)
    BY DEF NoLostWakeup
  <2>1. CASE l = k
    BY <1>3, <1>5, <2>1
  <2>2. CASE l # k
    <3>1. l \in entries /\ l \in Tokens /\ waiters'[l] = waiters[l]
      BY <1>2, <1>4, <2>2 DEF CalmInv, BasicInv, TypeOK
    <3>2. l \in granted[u] \/ (pc[u] \in Woken /\ want[u] = l)
      BY <3>1 DEF CalmInv, NoLostWakeup
    <3>3. u \in Threads => (l \in granted[u] => l \in granted'[u])
      BY <1>5
    <3>4. u \in Threads
      BY <3>1, HeadOfEntry DEF CalmInv
    <3> QED
      BY <1>4, <3>2, <3>3, <3>4
  <2> QED
    BY <2>1, <2>2
<1>12. DestructorAlone' /\ NoAssertFails'
  <2>1. dtor' = dtor /\ late \subseteq late' /\ (dtor = "emptied" => t \in late')
    BY <1>4 DEF LockFree, SignalEmpty, LetIn
  <2>2. dtor # "destroyed"
    BY DEF Running
  <2> QED
    BY <1>4, <1>5, <2>1, <2>2 DEF CalmInv, DestructorAlone, NoAssertFails
<1> QED
  BY <1>7, <1>8, <1>9, <1>10, <1>11, <1>12 DEF CalmInv

LEMMA CalmLockWait ==
  ASSUME Calm, CalmInv, BasicInv', Running, NEW t \in Threads, NEW k \in Tokens,
         NEW mode \in Blocked, LockWait(t, k, mode)
  PROVE  CalmInv'
<1>1. PICK s \in Slots :
        /\ waiters' = [waiters EXCEPT ![k] = Append(@, <<t, s>>)]
        /\ slot' = [slot EXCEPT ![t] = s]
  BY Zenon DEF LockWait
<1> DEFINE q == waiters[k]
           r == Append(waiters[k], <<t, s>>)
           n == Len(q)
<1>2. q \in Seq(Waiter) /\ n \in Nat /\ <<t, s>> \in Waiter
  BY LenProperties DEF CalmInv, BasicInv, TypeOK, Waiter
<1>3. /\ r \in Seq(Waiter) /\ Len(r) = n + 1
      /\ \A i \in 1..n : r[i] = q[i]
      /\ r[n + 1] = <<t, s>>
  BY <1>2, AppendProperties
<1>4. waiters'[k] = r /\ \A l \in Tokens : l # k => waiters'[l] = waiters[l]
  BY <1>1 DEF CalmInv, BasicInv, TypeOK
<1>5. /\ pc[t] = "out" /\ k \in entries /\ k \notin granted[t]
      /\ UNCHANGED <<entries, granted, mStop, dtor, assertLine>>
  BY DEF LockWait, GetsMutex, MayAsk, Calm, CalmInv, BasicInv
<1>6. \A u \in Threads : /\ pc'[u] = IF u = t THEN mode ELSE pc[u]
                         /\ want'[u] = IF u = t THEN k ELSE want[u]
                         /\ slot'[u] = IF u = t THEN s ELSE slot[u]
  BY <1>1 DEF LockWait, CalmInv, BasicInv, TypeOK
<1>7. want[t] \notin Tokens
  BY <1>5, WantInside DEF CalmInv
<1>8. \A i \in 1..n : q[i][1] # t
  BY <1>5, <1>7 DEF CalmInv, WaitersAccounted
<1>9. n > 0
  <2>1. q # <<>>
    BY <1>5 DEF CalmInv, BasicInv, EntriesMatchQueues
  <2> QED
    BY <1>2, <2>1, EmptySeq
<1> HIDE DEF q, r, n
<1>10. r[1] = q[1]
  BY <1>2, <1>3, <1>9
<1>11. OneWaiterEach'
  <2> SUFFICES ASSUME NEW l \in Tokens, NEW a \in 1..Len(waiters'[l]),
                      NEW b \in 1..Len(waiters'[l]),
                      waiters'[l][a][1] = waiters'[l][b][1]
               PROVE  a = b
    BY DEF OneWaiterEach
  <2>1. CASE l # k
    BY <1>4, <2>1 DEF CalmInv, OneWaiterEach
  <2>2. CASE l = k
    <3>1. \A c, d \in 1..n : q[c][1] = q[d][1] => c = d
      BY DEF q, n, CalmInv, OneWaiterEach
    <3>2. a \in 1..(n + 1) /\ b \in 1..(n + 1) /\ r[a][1] = r[b][1]
      BY <1>3, <1>4, <2>2
    <3>3. CASE a \in 1..n /\ b \in 1..n
      BY <1>3, <3>1, <3>2, <3>3
    <3>4. CASE a = n + 1 \/ b = n + 1
      BY <1>2, <1>3, <1>8, <3>2, <3>4
    <3> QED
      BY <1>2, <3>2, <3>3, <3>4
  <2> QED
    BY <2>1, <2>2
<1>12. WaitersAccounted'
  <2> SUFFICES ASSUME NEW l \in Tokens, NEW a \in 1..Len(waiters'[l]), NEW u,
                      u = waiters'[l][a][1]
               PROVE  \/ l \in granted'[u]
                      \/ want'[u] = l /\ waiters'[l][a] = <<u, slot'[u]>>
    BY DEF WaitersAccounted
  <2>1. CASE l = k /\ a = n + 1
    BY <1>3, <1>4, <1>6, <2>1
  <2>2. CASE ~(l = k /\ a = n + 1)
    <3>1. a \in 1..Len(waiters[l]) /\ waiters'[l][a] = waiters[l][a]
      BY <1>2, <1>3, <1>4, <2>2 DEF q, n
    <3>2. u \in Threads
      <4>1. waiters[l][a] \in Waiter
        BY <3>1, ElementOfSeq DEF CalmInv, BasicInv, TypeOK
      <4> QED
        BY <3>1, <4>1 DEF Waiter
    <3>3. l \in granted[u] \/ (want[u] = l /\ waiters[l][a] = <<u, slot[u]>>)
      BY <3>1 DEF CalmInv, WaitersAccounted
    <3>4. want[u] = l => u # t
      BY <1>7
    <3> QED
      BY <1>5, <1>6, <3>1, <3>2, <3>3, <3>4
  <2> QED
    BY <2>1, <2>2
<1>13. WaitsWithReason'
  <2> SUFFICES ASSUME NEW u \in Threads, pc'[u] # "out"
               PROVE  /\ want'[u] \notin granted'[u]
                      /\ pc'[u] = "signalled" => waiters'[want'[u]][1][1] = u
    BY DEF WaitsWithReason
  <2>1. CASE u = t
    BY <1>5, <1>6, <2>1 DEF Blocked
  <2>2. CASE u # t
    <3>1. pc'[u] = pc[u] /\ want'[u] = want[u] /\ want[u] \in Tokens
      BY <1>6, <2>2, WantInside DEF CalmInv
    <3>2. waiters'[want[u]][1] = waiters[want[u]][1]
      BY <1>4, <1>10, <3>1 DEF q
    <3> QED
      BY <1>5, <3>1, <3>2 DEF CalmInv, WaitsWithReason
  <2> QED
    BY <2>1, <2>2
<1>14. \A l \in Tokens : /\ waiters'[l][1] = waiters[l][1]
                         /\ Len(waiters[l]) > 0 => Len(waiters'[l]) > 0
  <2> SUFFICES ASSUME NEW l \in Tokens
               PROVE  /\ waiters'[l][1] = waiters[l][1]
                      /\ Len(waiters[l]) > 0 => Len(waiters'[l]) > 0
    OBVIOUS
  <2>1. Len(r) > 0
    BY <1>2, <1>3
  <2> QED
    BY <1>4, <1>10, <2>1 DEF q
<1>15. OwnerHeadsQueue'
  <2> SUFFICES ASSUME NEW u \in Threads, NEW l \in granted'[u]
               PROVE  /\ l \in entries' /\ Len(waiters'[l]) > 0
                      /\ waiters'[l][1][1] = u
    BY DEF OwnerHeadsQueue
  <2>1. l \in entries /\ Len(waiters[l]) > 0 /\ waiters[l][1][1] = u
    BY <1>5 DEF CalmInv, OwnerHeadsQueue
  <2>2. l \in Tokens
    BY <2>1 DEF CalmInv, BasicInv, TypeOK
  <2> QED
    BY <1>5, <1>14, <2>1, <2>2
<1>16. NoLostWakeup'
  <2> SUFFICES ASSUME NEW l \in entries', NEW u, u = waiters'[l][1][1]
               PROVE  l \in granted'[u] \/ (pc'[u] \in Woken /\ want'[u] = l)
    BY DEF NoLostWakeup
  <2>1. l \in entries /\ l \in Tokens /\ u \in Threads /\ u = waiters[l][1][1]
    BY <1>5, <1>14, HeadOfEntry DEF CalmInv
  <2>2. l \in granted[u] \/ (pc[u] \in Woken /\ want[u] = l)
    BY <2>1 DEF CalmInv, NoLostWakeup
  <2>3. want[u] = l => u # t
    BY <1>7, <2>1
  <2> QED
    BY <1>5, <1>6, <2>1, <2>2, <2>3
<1>17. DestructorAlone' /\ NoAssertFails'
  <2>1. late \subseteq late' /\ (dtor = "emptied" => t \in late')
    BY DEF LockWait, LetIn
  <2>2. dtor # "destroyed"
    BY DEF Running
  <2> QED
    BY <1>5, <1>6, <2>1, <2>2 DEF CalmInv, DestructorAlone, NoAssertFails
<1> QED
  BY <1>11, <1>12, <1>13, <1>15, <1>16, <1>17 DEF CalmInv

LEMMA CalmAcquire ==
  ASSUME CalmInv, BasicInv', NEW t \in Threads, Acquire(t)
  PROVE  CalmInv'
<1> DEFINE k == want[t]
<1>1. pc[t] = "signalled" /\ k \in Tokens /\ k \in entries
  BY WantInside DEF Acquire, CalmInv
<1>2. waiters[k][1][1] = t /\ k \notin granted[t]
  BY <1>1 DEF CalmInv, WaitsWithReason
<1>3. 1 \in 1..Len(waiters[k])
  BY <1>1, HeadOfEntry DEF CalmInv
<1>4. waiters[k] # <<>> /\ waiters[k][1] = <<t, slot[t]>>
  <2>1. waiters[k][1] = <<t, slot[t]>>
    BY <1>1, <1>2, <1>3 DEF CalmInv, WaitersAccounted
  <2>2. waiters[k] # <<>>
    BY <1>1 DEF CalmInv, BasicInv, EntriesMatchQueues
  <2> QED
    BY <2>1, <2>2
<1>5. /\ granted' = [granted EXCEPT ![t] = @ \cup {k}]
      /\ pc' = [pc EXCEPT ![t] = "out"]
      /\ want' = [want EXCEPT ![t] = NoToken]
      /\ UNCHANGED <<entries, waiters, called, slot, mStop, dtor, late, assertLine>>
  BY <1>4, Zenon DEF Acquire
<1> HIDE DEF k
<1>6. \A u \in Threads : /\ pc'[u] = IF u = t THEN "out" ELSE pc[u]
                         /\ want'[u] = IF u = t THEN NoToken ELSE want[u]
                         /\ granted'[u] = IF u = t THEN granted[t] \cup {k} ELSE granted[u]
  BY <1>5 DEF CalmInv, BasicInv, TypeOK
<1>7. OneWaiterEach'
  BY <1>5 DEF CalmInv, OneWaiterEach
<1>8. WaitersAccounted'
  <2> SUFFICES ASSUME NEW l \in Tokens, NEW a \in 1..Len(waiters[l]), NEW u,
                      u = waiters[l][a][1]
               PROVE  \/ l \in granted'[u]
                      \/ want'[u] = l /\ waiters[l][a] = <<u, slot[u]>>
    BY <1>5 DEF WaitersAccounted
  <2>1. u \in Threads
    <3>1. waiters[l][a] \in Waiter
      BY ElementOfSeq DEF CalmInv, BasicInv, TypeOK
    <3> QED
      BY <3>1 DEF Waiter
  <2>2. l \in granted[u] \/ (want[u] = l /\ waiters[l][a] = <<u, slot[u]>>)
    BY DEF CalmInv, WaitersAccounted
  <2> QED
    BY <1>6, <2>1, <2>2 DEF k
<1>9. WaitsWithReason'
  <2> SUFFICES ASSUME NEW u \in Threads, pc'[u] # "out"
               PROVE  /\ want'[u] \notin granted'[u]
                      /\ pc'[u] = "signalled" => waiters[want'[u]][1][1] = u
    BY <1>5 DEF WaitsWithReason
  <2>1. u # t
    BY <1>6
  <2> QED
    BY <1>6, <2>1 DEF CalmInv, WaitsWithReason
<1>10. OwnerHeadsQueue'
  <2> SUFFICES ASSUME NEW u \in Threads, NEW l \in granted'[u]
               PROVE  /\ l \in entries /\ Len(waiters[l]) > 0
                      /\ waiters[l][1][1] = u
    BY <1>5 DEF OwnerHeadsQueue
  <2>1. CASE u = t /\ l = k
    BY <1>1, <1>2, <2>1, HeadOfEntry DEF CalmInv, k
  <2>2. CASE ~(u = t /\ l = k)
    <3>1. l \in granted[u]
      BY <1>6, <2>2
    <3> QED
      BY <3>1 DEF CalmInv, OwnerHeadsQueue
  <2> QED
    BY <2>1, <2>2
<1>11. NoLostWakeup'
  <2> SUFFICES ASSUME NEW l \in entries, NEW u, u = waiters[l][1][1]
               PROVE  l \in granted'[u] \/ (pc'[u] \in Woken /\ want'[u] = l)
    BY <1>5 DEF NoLostWakeup
  <2>1. u \in Threads
    BY HeadOfEntry DEF CalmInv
  <2>2. l \in granted[u] \/ (pc[u] \in Woken /\ want[u] = l)
    BY DEF CalmInv, NoLostWakeup
  <2> QED
    BY <1>6, <2>1, <2>2 DEF k
<1>12. DestructorAlone' /\ NoAssertFails'
  <2>1. \A u \in Threads : pc'[u] # "out" \/ granted'[u] # {} => pc[u] # "out" \/ granted[u] # {}
    BY <1>1, <1>6
  <2> QED
    BY <1>5, <2>1 DEF CalmInv, DestructorAlone, NoAssertFails
<1> QED
  BY <1>7, <1>8, <1>9, <1>10, <1>11, <1>12 DEF CalmInv

LEMMA CalmTimeout ==
  ASSUME CalmInv, BasicInv', NEW t \in Threads, Timeout(t)
  PROVE  CalmInv'
<1>1. \A u \in Threads : pc'[u] = IF u = t THEN "timedout" ELSE pc[u]
  BY DEF Timeout, CalmInv, BasicInv, TypeOK
<1>2. /\ pc[t] = "timedwait"
      /\ UNCHANGED <<entries, waiters, called, want, slot, granted, mStop, dtor, late, assertLine>>
  BY DEF Timeout
<1>3. NoLostWakeup'
  <2> SUFFICES ASSUME NEW l \in entries, NEW u, u = waiters[l][1][1]
               PROVE  l \in granted[u] \/ (pc'[u] \in Woken /\ want[u] = l)
    BY <1>2 DEF NoLostWakeup
  <2>1. u \in Threads
    BY HeadOfEntry DEF CalmInv
  <2>2. l \in granted[u] \/ (pc[u] \in Woken /\ want[u] = l)
    BY DEF CalmInv, NoLostWakeup
  <2> QED
    BY <1>1, <2>1, <2>2 DEF Woken
<1>4. WaitsWithReason'
  BY <1>1, <1>2 DEF CalmInv, WaitsWithReason
<1>5. OneWaiterEach' /\ WaitersAccounted' /\ OwnerHeadsQueue'
  BY <1>2 DEF CalmInv, OneWaiterEach, WaitersAccounted, OwnerHeadsQueue
<1>6. DestructorAlone' /\ NoAssertFails'
  BY <1>1, <1>2 DEF CalmInv, DestructorAlone, NoAssertFails
<1> QED
  BY <1>3, <1>4, <1>5, <1>6 DEF CalmInv

(* The destructor changes only mStop and its own place; a call that comes  *)
(* or is sent away changes neither.                                        *)
LEMMA CalmDestructor ==
  ASSUME Calm, CalmInv, BasicInv', NEW t,
         \/ Destructor \/ UNCHANGED vars \/ CallLock(t)
         \/ \E k \in Tokens : LockNoWait(t, k)
  PROVE  CalmInv'
<1>1. UNCHANGED <<entries, waiters, pc, want, slot, granted, late, assertLine>>
  BY DEF Destructor, BeginDestroy, TestEmpty, SpuriousEmpty, FinishDestroy, vars,
         CallLock, LockNoWait
<1>2. OneWaiterEach' /\ WaitersAccounted' /\ OwnerHeadsQueue'
  BY <1>1 DEF CalmInv, OneWaiterEach, WaitersAccounted, OwnerHeadsQueue
<1>3. WaitsWithReason' /\ NoLostWakeup' /\ NoAssertFails'
  BY <1>1 DEF CalmInv, WaitsWithReason, NoLostWakeup, NoAssertFails
<1>4. DestructorAlone'
  <2>1. \/ dtor' \in {"emptied", "destroyed"} => dtor \in {"emptied", "destroyed"}
        \/ entries = {}
    BY DEF Destructor, BeginDestroy, TestEmpty, SpuriousEmpty, FinishDestroy, vars,
           CallLock, LockNoWait, Calm
  <2>2. CASE entries = {}
    BY <1>1, <1>2, <2>2, Drained
  <2>3. CASE dtor' \in {"emptied", "destroyed"} => dtor \in {"emptied", "destroyed"}
    BY <1>1, <2>3 DEF CalmInv, DestructorAlone
  <2> QED
    BY <2>1, <2>2, <2>3
<1> QED
  BY <1>2, <1>3, <1>4 DEF CalmInv

LEMMA CalmInit == Init => CalmInv
<1> SUFFICES ASSUME Init PROVE CalmInv
  OBVIOUS
<1>1. \A k \in Tokens : waiters[k] = <<>>
  BY DEF Init
<1>2. OneWaiterEach /\ WaitersAccounted
  BY <1>1, EmptySeq DEF OneWaiterEach, WaitersAccounted
<1> QED
  BY <1>2, BasicInit
  DEF Init, CalmInv, WaitsWithReason, OwnerHeadsQueue, NoLostWakeup,
      DestructorAlone, NoAssertFails

LEMMA CalmNext == Calm /\ CalmInv /\ [Next]_vars => CalmInv'
<1> SUFFICES ASSUME Calm, CalmInv, [Next]_vars PROVE CalmInv'
  OBVIOUS
<1>0. BasicInv'
  BY BasicNext DEF CalmInv
<1>1. CASE UNCHANGED vars
  BY <1>0, <1>1, CalmDestructor
<1>2. CASE Destructor
  BY <1>0, <1>2, CalmDestructor
<1>3. ASSUME NEW t \in Threads, Call(t), Running PROVE CalmInv'
  <2>1. CASE \E k \in Tokens : LockFree(t, k)
    BY <1>0, <1>3, <2>1, CalmLockFree
  <2>2. CASE CallLock(t) \/ \E k \in Tokens : LockNoWait(t, k) \/ UnlockNotHeld(t, k)
    BY <1>0, <2>2, CalmDestructor, Zenon DEF UnlockNotHeld
  <2>3. CASE \E k \in Tokens : \E mode \in Blocked : LockWait(t, k, mode)
    BY <1>0, <1>3, <2>3, CalmLockWait
  <2>4. CASE \E k \in Tokens : Unlock(t, k)
    BY <1>0, <2>4, CalmUnlock
  <2>5. CASE Timeout(t)
    BY <1>0, <2>5, CalmTimeout
  <2>6. ~SpuriousWakeup(t)
    BY DEF SpuriousWakeup, Calm
  <2>7. CASE Acquire(t)
    BY <1>0, <2>7, CalmAcquire
  <2>8. CASE Withdraw(t)
    BY <1>0, <2>8, CalmWithdraw
  <2> QED
    BY <1>3, <2>1, <2>2, <2>3, <2>4, <2>5, <2>6, <2>7, <2>8, Zenon DEF Call, Enter
<1> QED
  BY <1>1, <1>2, <1>3, Zenon DEF Next

-----------------------------------------------------------------------------
(* For any number of threads and tokens, nested locks included: a token    *)
(* has at most one owner.                                                  *)
THEOREM MutualExclusionHolds ==
  ASSUME Calm PROVE Spec => []MutualExclusion
<1>1. CalmInv => MutualExclusion
  <2> SUFFICES ASSUME CalmInv, NEW t \in Threads, NEW u \in Threads, t # u,
                      NEW k \in granted[t] \cap granted[u]
               PROVE  FALSE
    BY DEF MutualExclusion
  <2> QED
    BY DEF CalmInv, OwnerHeadsQueue
<1>2. CalmInv /\ [Next]_vars => CalmInv'
  BY CalmNext
<1> QED
  BY <1>1, <1>2, CalmInit, PTL DEF Spec

(* An owner's unlock() finds it at the head of the queue.                  *)
THEOREM OwnerHeadsQueueHolds ==
  ASSUME Calm PROVE Spec => []OwnerHeadsQueue
<1>1. CalmInv => OwnerHeadsQueue
  BY DEF CalmInv
<1>2. CalmInv /\ [Next]_vars => CalmInv'
  BY CalmNext
<1> QED
  BY <1>1, <1>2, CalmInit, PTL DEF Spec

(* No thread sleeps at the head of the queue of a free token.              *)
THEOREM NoLostWakeupHolds ==
  ASSUME Calm PROVE Spec => []NoLostWakeup
<1>1. CalmInv => NoLostWakeup
  BY DEF CalmInv
<1>2. CalmInv /\ [Next]_vars => CalmInv'
  BY CalmNext
<1> QED
  BY <1>1, <1>2, CalmInit, PTL DEF Spec

(* No assert() of lock() or unlock() fails.                                *)
THEOREM NoAssertFailsHolds ==
  ASSUME Calm PROVE Spec => []NoAssertFails
<1>1. CalmInv => NoAssertFails
  BY DEF CalmInv
<1>2. CalmInv /\ [Next]_vars => CalmInv'
  BY CalmNext
<1> QED
  BY <1>1, <1>2, CalmInit, PTL DEF Spec

(* When the destructor stops waiting, everybody who got mMutex before has  *)
(* left, however many threads there are and whenever they called: only one *)
(* let in after that can be inside.                                        *)
THEOREM DestructorAloneHolds ==
  ASSUME Calm PROVE Spec => []DestructorAlone
<1>1. CalmInv => DestructorAlone
  BY DEF CalmInv
<1>2. CalmInv /\ [Next]_vars => CalmInv'
  BY CalmNext
<1> QED
  BY <1>1, <1>2, CalmInit, PTL DEF Spec

-----------------------------------------------------------------------------
(* TokenLock implements FifoLock: under Calm each of its steps is a step   *)
(* of FifoLock or changes nothing there.                                   *)

(* The threads of a queue behind its first o waiters.                      *)
Behind(q, o) == [i \in 1..(Len(q) - o) |-> q[i + o][1]]

(* What is behind the head of a queue, or all of it, is a sequence.        *)
LEMMA BehindProperties ==
  ASSUME NEW q \in Seq(Waiter), NEW o \in {0, 1}, Len(q) >= o
  PROVE  /\ Behind(q, o) \in Seq(Threads)
         /\ Len(Behind(q, o)) = Len(q) - o
         /\ DOMAIN Behind(q, o) = 1..(Len(q) - o)
         /\ \A i \in 1..(Len(q) - o) : Behind(q, o)[i] = q[i + o][1]
<1> DEFINE n == Len(q) - o
<1>1. Len(q) \in Nat /\ n \in Nat
  BY LenProperties
<1>2. \A i \in 1..n : i + o \in 1..Len(q)
  BY <1>1
<1>3. \A j \in 1..Len(q) : q[j][1] \in Threads
  BY ElementOfSeq DEF Waiter
<1>4. Behind(q, o) \in [1..n -> Threads]
  BY <1>2, <1>3 DEF Behind
<1>5. Behind(q, o) \in Seq(Threads)
  BY <1>1, <1>4, SeqDef
<1>6. DOMAIN Behind(q, o) = 1..n
  BY DEF Behind
<1>7. Len(Behind(q, o)) = n
  BY <1>1, <1>5, <1>6, LenProperties
<1> QED
  BY <1>5, <1>6, <1>7 DEF Behind

(* A line with the items of another and one more at its end.               *)
LEMMA Appended ==
  ASSUME NEW S, NEW old \in Seq(S), NEW new \in Seq(S), NEW t \in S,
         Len(new) = Len(old) + 1,
         \A i \in 1..Len(old) : new[i] = old[i],
         new[Len(old) + 1] = t
  PROVE  new = Append(old, t)
<1>1. Len(old) \in Nat
  BY LenProperties
<1>2. /\ Append(old, t) \in Seq(S)
      /\ Len(Append(old, t)) = Len(old) + 1
      /\ \A i \in 1..Len(old) : Append(old, t)[i] = old[i]
      /\ Append(old, t)[Len(old) + 1] = t
  BY AppendProperties
<1>3. \A i \in 1..Len(new) : new[i] = Append(old, t)[i]
  BY <1>1, <1>2
<1> QED
  BY <1>2, <1>3, SeqEqual

(* The refinement mapping of one token, before and after a step.           *)
LEMMA Mapped ==
  ASSUME NEW k \in Tokens, waiters[k] \in Seq(Waiter)
  PROVE  /\ Granted(k) => Owner[k] = waiters[k][1][1] /\ Line[k] = Behind(waiters[k], 1)
         /\ ~Granted(k) => Owner[k] = Nobody /\ Line[k] = Behind(waiters[k], 0)
<1>1. Len(waiters[k]) \in Nat
  BY LenProperties
<1>2. [i \in 1..Len(waiters[k]) |-> waiters[k][i][1]] = Behind(waiters[k], 0)
  BY <1>1 DEF Behind
<1> QED
  BY <1>2 DEF Owner, Line, Behind

LEMMA MappedNext ==
  ASSUME NEW k \in Tokens, waiters'[k] \in Seq(Waiter)
  PROVE  /\ Granted(k)' => Owner'[k] = waiters'[k][1][1] /\ Line'[k] = Behind(waiters'[k], 1)
         /\ ~Granted(k)' => Owner'[k] = Nobody /\ Line'[k] = Behind(waiters'[k], 0)
<1>1. Len(waiters'[k]) \in Nat
  BY LenProperties
<1>2. [i \in 1..Len(waiters'[k]) |-> waiters'[k][i][1]] = Behind(waiters'[k], 0)
  BY <1>1 DEF Behind
<1> QED
  BY <1>2 DEF Owner, Line, Behind

(* A token has an owner exactly when lock() has returned 0 to a thread     *)
(* that has not unlocked it.                                               *)
LEMMA GrantedIff ==
  ASSUME CalmInv, NEW k \in Tokens
  PROVE  /\ Granted(k) <=> \E u \in Threads : k \in granted[u]
         /\ \A u \in Threads : k \in granted[u] =>
              Granted(k) /\ Len(waiters[k]) > 0 /\ waiters[k][1][1] = u
<1>1. ASSUME NEW u \in Threads, k \in granted[u]
      PROVE  Granted(k) /\ Len(waiters[k]) > 0 /\ waiters[k][1][1] = u
  BY <1>1 DEF CalmInv, OwnerHeadsQueue, Granted
<1>2. ASSUME Granted(k) PROVE \E u \in Threads : k \in granted[u]
  <2>1. waiters[k] \in Seq(Waiter) /\ Len(waiters[k]) \in Nat /\ Len(waiters[k]) > 0
    BY <1>2, LenProperties DEF Granted, CalmInv, BasicInv, TypeOK
  <2>2. waiters[k][1] \in Waiter
    BY <2>1, ElementOfSeq
  <2> QED
    BY <1>2, <2>2 DEF Granted, Waiter
<1> QED
  BY <1>1, <1>2

(* A step that is about one token leaves the others as they are.           *)
LEMMA OneToken ==
  ASSUME CalmInv, CalmInv', NEW k \in Tokens,
         \A l \in Tokens : l # k => waiters'[l] = waiters[l],
         \A u \in Threads : \A l \in Tokens :
           l # k => (l \in granted'[u] <=> l \in granted[u])
  PROVE  /\ Owner' = [Owner EXCEPT ![k] = Owner'[k]]
         /\ Line' = [Line EXCEPT ![k] = Line'[k]]
<1>1. ASSUME NEW l \in Tokens, l # k
      PROVE  Owner'[l] = Owner[l] /\ Line'[l] = Line[l]
  <2>1. waiters'[l] = waiters[l]
    BY <1>1
  <2>2. Len(waiters[l]) > 0 => waiters[l][1][1] \in Threads
    <3>1. waiters[l] \in Seq(Waiter) /\ Len(waiters[l]) \in Nat
      BY LenProperties DEF CalmInv, BasicInv, TypeOK
    <3> QED
      BY <3>1, ElementOfSeq DEF Waiter
  <2>3. Granted(l)' <=> Granted(l)
    BY <1>1, <2>1, <2>2 DEF Granted
  <2>4. Owner'[l] = Owner[l]
    BY <2>1, <2>3 DEF Owner
  <2>5. Line'[l] = Line[l]
    BY <2>1, <2>3 DEF Line
  <2> QED
    BY <2>4, <2>5
<1>2. /\ Owner = [l \in Tokens |-> Owner[l]] /\ Owner' = [l \in Tokens |-> Owner'[l]]
      /\ Line = [l \in Tokens |-> Line[l]] /\ Line' = [l \in Tokens |-> Line'[l]]
  BY DEF Owner, Line
<1> QED
  BY <1>1, <1>2

(* Nothing changes for the callers.                                        *)
LEMMA Stutters ==
  ASSUME UNCHANGED <<waiters, granted>>
  PROVE  UNCHANGED <<Owner, Line>>
BY DEF Owner, Line, Granted

-----------------------------------------------------------------------------
(* One lemma per step of FifoLock.                                         *)

LEMMA TakeStep ==
  ASSUME CalmInv, CalmInv', NEW t \in Threads, NEW k \in Tokens, LockFree(t, k)
  PROVE  Fifo!Take(t, k)
<1>1. PICK s \in Slots : waiters' = [waiters EXCEPT ![k] = <<<<t, s>>>>]
  BY DEF LockFree
<1>2. waiters[k] = <<>> /\ waiters'[k] = <<<<t, s>>>>
  BY <1>1 DEF LockFree, CalmInv, BasicInv, TypeOK, EntriesMatchQueues
<1>3. waiters[k] \in Seq(Waiter) /\ waiters'[k] \in Seq(Waiter)
  BY DEF CalmInv, BasicInv, TypeOK
<1>4. ~Granted(k) /\ Granted(k)'
  BY <1>2 DEF Granted, LockFree, CalmInv, BasicInv, TypeOK
<1>5. Owner[k] = Nobody /\ Owner'[k] = t
  <2>1. Owner[k] = Nobody
    BY <1>3, <1>4, Mapped
  <2>2. Owner'[k] = waiters'[k][1][1]
    BY <1>3, <1>4, MappedNext
  <2> QED
    BY <1>2, <2>1, <2>2
<1>6. Line[k] = <<>> /\ Line'[k] = <<>>
  <2>1. Line[k] = Behind(waiters[k], 0) /\ Line'[k] = Behind(waiters'[k], 1)
    BY <1>3, <1>4, Mapped, MappedNext
  <2>2. Len(waiters[k]) = 0 /\ Len(waiters'[k]) = 1
    BY <1>2
  <2>3. Line[k] \in Seq(Threads) /\ Len(Line[k]) = 0
    BY <1>3, <2>1, <2>2, BehindProperties
  <2>4. Line'[k] \in Seq(Threads) /\ Len(Line'[k]) = 0
    <3> DEFINE p == waiters'[k]
    <3>1. p \in Seq(Waiter) /\ Len(p) >= 1 /\ Len(p) - 1 = 0
      BY <1>3, <2>2
    <3> HIDE DEF p
    <3>2. Behind(p, 1) \in Seq(Threads) /\ Len(Behind(p, 1)) = 0
      BY <3>1, BehindProperties
    <3> QED
      BY <2>1, <3>2 DEF p
  <2> QED
    BY <2>3, <2>4, EmptySeq
<1>7. /\ Owner' = [Owner EXCEPT ![k] = Owner'[k]]
      /\ Line' = [Line EXCEPT ![k] = Line'[k]]
  <2>1. \A l \in Tokens : l # k => waiters'[l] = waiters[l]
    BY <1>1 DEF CalmInv, BasicInv, TypeOK
  <2>2. \A u \in Threads : \A l \in Tokens :
          l # k => (l \in granted'[u] <=> l \in granted[u])
    BY DEF LockFree, CalmInv, BasicInv, TypeOK
  <2> QED
    BY <2>1, <2>2, OneToken
<1>8. Line' = Line
  BY <1>6, <1>7 DEF Line
<1> QED
  BY <1>5, <1>6, <1>7, <1>8 DEF Fifo!Take

LEMMA EnterStep ==
  ASSUME CalmInv, CalmInv', Calm, NEW t \in Threads, NEW k \in Tokens,
         NEW mode \in Blocked, LockWait(t, k, mode)
  PROVE  Fifo!Enter(t, k)
<1> DEFINE q == waiters[k]
           o == IF Granted(k) THEN 1 ELSE 0
           old == Behind(q, o)
           new == Behind(waiters'[k], o)
<1>1. PICK s \in Slots : waiters' = [waiters EXCEPT ![k] = Append(@, <<t, s>>)]
  BY Zenon DEF LockWait
<1>2. q \in Seq(Waiter) /\ waiters'[k] \in Seq(Waiter) /\ <<t, s>> \in Waiter
  BY DEF CalmInv, BasicInv, TypeOK, Waiter
<1>3. Len(q) \in Nat /\ Len(q) > 0 /\ q[1][1] \in Threads
  BY HeadOfEntry DEF LockWait, CalmInv
<1>4. /\ Len(waiters'[k]) = Len(q) + 1
      /\ \A i \in 1..Len(q) : waiters'[k][i] = q[i]
      /\ waiters'[k][Len(q) + 1] = <<t, s>>
  <2>1. waiters'[k] = Append(q, <<t, s>>)
    BY <1>1 DEF CalmInv, BasicInv, TypeOK
  <2> QED
    BY <1>2, <2>1, AppendProperties
<1>5. granted' = granted
  BY DEF LockWait
<1>6. (Granted(k)' <=> Granted(k)) /\ waiters'[k][1] = q[1]
  BY <1>3, <1>4, <1>5 DEF Granted
<1>7. \A i \in 1..Len(q) : q[i][1] # t
  <2>1. k \notin granted[t] /\ want[t] # k
    BY LockAssumption DEF LockWait, GetsMutex, MayAsk, Calm, CalmInv, BasicInv
  <2> QED
    BY <2>1 DEF CalmInv, WaitersAccounted
<1>8. o \in {0, 1} /\ Len(q) >= o /\ Len(waiters'[k]) >= o
  BY <1>3, <1>4
<1>9. Line[k] = old /\ Line'[k] = new /\ Owner'[k] = Owner[k]
  BY <1>2, <1>6, Mapped, MappedNext
<1>10. /\ old \in Seq(Threads) /\ Len(old) = Len(q) - o
       /\ DOMAIN old = 1..(Len(q) - o)
       /\ \A i \in 1..(Len(q) - o) : old[i] = q[i + o][1]
  BY <1>2, <1>3, <1>8, BehindProperties
<1>11. /\ new \in Seq(Threads) /\ Len(new) = Len(q) + 1 - o
       /\ \A i \in 1..(Len(q) + 1 - o) : new[i] = waiters'[k][i + o][1]
  <2> DEFINE p == waiters'[k]
  <2>1. p \in Seq(Waiter) /\ Len(p) >= o /\ Len(p) = Len(q) + 1 /\ o \in {0, 1}
    BY <1>2, <1>4, <1>8
  <2> HIDE DEF p, o
  <2>2. /\ Behind(p, o) \in Seq(Threads) /\ Len(Behind(p, o)) = Len(p) - o
        /\ \A i \in 1..(Len(p) - o) : Behind(p, o)[i] = p[i + o][1]
    BY <2>1, BehindProperties
  <2> QED
    BY <2>1, <2>2 DEF p
<1>12. Owner[k] # t /\ (Owner[k] = Nobody => Line[k] # <<>>)
  <2>1. CASE Granted(k)
    <3>1. Owner[k] = q[1][1]
      BY <1>2, <2>1, Mapped
    <3> QED
      BY <1>3, <1>7, <3>1, LockAssumption DEF Nobody
  <2>2. CASE ~Granted(k)
    <3>1. Owner[k] = Nobody
      BY <1>2, <2>2, Mapped
    <3>2. Len(Line[k]) > 0
      BY <1>3, <1>9, <1>10, <2>2
    <3> QED
      BY <3>1, <3>2, LockAssumption, EmptySeq DEF Nobody
  <2> QED
    BY <2>1, <2>2
<1> HIDE DEF o, old, new, q
<1>13. new = Append(old, t)
  <2>1. Len(new) = Len(old) + 1
    BY <1>3, <1>8, <1>10, <1>11
  <2>2. ASSUME NEW i \in 1..Len(old) PROVE new[i] = old[i]
    <3>1. i + o \in 1..Len(q) /\ i \in 1..(Len(q) + 1 - o) /\ i \in 1..(Len(q) - o)
      BY <1>3, <1>8, <1>10
    <3> QED
      BY <1>4, <1>10, <1>11, <3>1
  <2>3. new[Len(old) + 1] = t
    BY <1>3, <1>4, <1>8, <1>10, <1>11
  <2> QED
    BY <1>10, <1>11, <2>1, <2>2, <2>3, Appended
<1>14. t \notin Fifo!Members(k)
  <2>1. ASSUME NEW i \in DOMAIN old PROVE old[i] # t
    <3>1. i + o \in 1..Len(q) /\ i \in 1..(Len(q) - o)
      BY <1>3, <1>8, <1>10
    <3> QED
      BY <1>7, <1>10, <3>1
  <2> QED
    BY <1>9, <2>1 DEF Fifo!Members
<1>15. /\ Owner' = [Owner EXCEPT ![k] = Owner'[k]]
       /\ Line' = [Line EXCEPT ![k] = Line'[k]]
  <2>1. \A l \in Tokens : l # k => waiters'[l] = waiters[l]
    BY <1>1 DEF CalmInv, BasicInv, TypeOK
  <2> QED
    BY <1>5, <2>1, OneToken
<1>16. Owner' = Owner
  BY <1>9, <1>15 DEF Owner
<1>17. Line' = [Line EXCEPT ![k] = Append(@, t)]
  BY <1>9, <1>13, <1>15 DEF Line
<1> QED
  BY <1>12, <1>14, <1>16, <1>17 DEF Fifo!Enter

LEMMA GrantStep ==
  ASSUME CalmInv, CalmInv', NEW t \in Threads, NEW k \in Tokens, want[t] = k, Acquire(t)
  PROVE  Fifo!Grant(k)
<1> DEFINE q == waiters[k]
<1>1. k \in Tokens /\ k \in entries /\ k \notin granted[t]
  BY DEF Acquire, CalmInv, BasicInv, OwnWaiterQueued, WaitsWithReason
<1>2. q \in Seq(Waiter) /\ Len(q) \in Nat /\ Len(q) > 0
  BY <1>1, HeadOfEntry DEF CalmInv, BasicInv, TypeOK
<1>3. /\ q[1] = <<t, slot[t]>>
      /\ granted' = [granted EXCEPT ![t] = @ \cup {k}]
      /\ waiters' = waiters
  BY DEF Acquire, Abort, CalmInv, NoAssertFails
<1>4. Granted(k)' /\ ~Granted(k)
  <2>1. q[1][1] = t
    BY <1>3
  <2> QED
    BY <1>1, <1>2, <1>3, <2>1 DEF Granted, CalmInv, BasicInv, TypeOK
<1>5. Owner[k] = Nobody /\ Line[k] = Behind(q, 0)
  BY <1>1, <1>2, <1>4, Mapped
<1>6. Owner'[k] = t /\ Line'[k] = Behind(q, 1)
  <2>1. waiters'[k] \in Seq(Waiter)
    BY <1>2, <1>3
  <2>2. Owner'[k] = waiters'[k][1][1] /\ Line'[k] = Behind(waiters'[k], 1)
    BY <1>1, <1>4, <2>1, MappedNext
  <2> QED
    BY <1>3, <2>2
<1>7. /\ Behind(q, 0) \in Seq(Threads) /\ Len(Behind(q, 0)) = Len(q)
      /\ \A i \in 1..Len(q) : Behind(q, 0)[i] = q[i][1]
  <2>1. /\ Behind(q, 0) \in Seq(Threads) /\ Len(Behind(q, 0)) = Len(q) - 0
        /\ \A i \in 1..(Len(q) - 0) : Behind(q, 0)[i] = q[i + 0][1]
    BY <1>2, BehindProperties
  <2> QED
    BY <1>2, <2>1
<1>8. /\ Behind(q, 1) \in Seq(Threads) /\ Len(Behind(q, 1)) = Len(q) - 1
      /\ \A i \in 1..(Len(q) - 1) : Behind(q, 1)[i] = q[i + 1][1]
  BY <1>2, BehindProperties
<1>9. Line[k] # <<>> /\ Head(Line[k]) = t
  BY <1>2, <1>3, <1>5, <1>7, EmptySeq
<1>10. Line'[k] = Tail(Line[k])
  <2>1. /\ Tail(Line[k]) \in Seq(Threads) /\ Len(Tail(Line[k])) = Len(Line[k]) - 1
        /\ \A i \in 1..Len(Tail(Line[k])) : Tail(Line[k])[i] = Line[k][i + 1]
    BY <1>5, <1>7, <1>9, HeadTailProperties
  <2>2. Len(Tail(Line[k])) = Len(q) - 1
    BY <1>5, <1>7, <2>1
  <2>3. ASSUME NEW i \in 1..(Len(q) - 1) PROVE Behind(q, 1)[i] = Tail(Line[k])[i]
    <3>1. i + 1 \in 1..Len(q) /\ i \in 1..Len(Tail(Line[k]))
      BY <1>2, <2>2
    <3> QED
      BY <1>5, <1>7, <1>8, <2>1, <3>1
  <2>4. Behind(q, 1) = Tail(Line[k])
    BY <1>8, <2>1, <2>2, <2>3, SeqEqual
  <2> QED
    BY <1>6, <2>4
<1>11. /\ Owner' = [Owner EXCEPT ![k] = Owner'[k]]
       /\ Line' = [Line EXCEPT ![k] = Line'[k]]
  <2>1. \A u \in Threads : \A l \in Tokens :
          l # k => (l \in granted'[u] <=> l \in granted[u])
    BY <1>3 DEF CalmInv, BasicInv, TypeOK
  <2> QED
    BY <1>1, <1>3, <2>1, OneToken
<1>12. Owner' = [Owner EXCEPT ![k] = Head(Line[k])]
  BY <1>6, <1>9, <1>11
<1>13. Line' = [Line EXCEPT ![k] = Tail(@)]
  BY <1>1, <1>10, <1>11 DEF Line
<1> QED
  BY <1>5, <1>9, <1>12, <1>13 DEF Fifo!Grant

(* A waiter behind the owner is taken out: the line closes up.             *)
LEMMA LineCloses ==
  ASSUME NEW q \in Seq(Waiter), NEW o \in {0, 1}, NEW i \in 1..Len(q), i > o
  PROVE  /\ i - o \in DOMAIN Behind(q, o)
         /\ Behind(TakeWaiter(q, i), o) =
              [j \in 1..(Len(Behind(q, o)) - 1) |->
                 IF j < i - o THEN Behind(q, o)[j] ELSE Behind(q, o)[j + 1]]
<1> DEFINE r == TakeWaiter(q, i)
<1>1. Len(q) \in Nat /\ Len(q) >= o /\ Len(q) - 1 >= o /\ i \in Nat
  BY LenProperties
<1>2. /\ r \in Seq(Waiter) /\ Len(r) = Len(q) - 1
      /\ \A j \in 1..(Len(q) - 1) : r[j] = IF j < i THEN q[j] ELSE q[j + 1]
  BY TakeWaiterProperties
<1> HIDE DEF r
<1>3. /\ Len(Behind(q, o)) = Len(q) - o /\ DOMAIN Behind(q, o) = 1..(Len(q) - o)
      /\ \A j \in 1..(Len(q) - o) : Behind(q, o)[j] = q[j + o][1]
  BY <1>1, BehindProperties
<1>4. Behind(r, o) = [j \in 1..(Len(q) - 1 - o) |-> r[j + o][1]]
  BY <1>2 DEF Behind
<1>5. ASSUME NEW j \in 1..(Len(q) - 1 - o)
      PROVE  r[j + o][1] = IF j < i - o THEN Behind(q, o)[j] ELSE Behind(q, o)[j + 1]
  <2>1. /\ j + o \in 1..(Len(q) - 1) /\ j \in 1..(Len(q) - o) /\ j + 1 \in 1..(Len(q) - o)
        /\ j + 1 + o = j + o + 1 /\ (j + o < i <=> j < i - o)
    BY <1>1
  <2>2. r[j + o] = IF j + o < i THEN q[j + o] ELSE q[j + o + 1]
    BY <1>2, <2>1
  <2>3. Behind(q, o)[j] = q[j + o][1] /\ Behind(q, o)[j + 1] = q[j + 1 + o][1]
    BY <1>3, <2>1
  <2> QED
    BY <2>1, <2>2, <2>3
<1>6. Len(Behind(q, o)) - 1 = Len(q) - 1 - o /\ i - o \in 1..(Len(q) - o)
  BY <1>1, <1>3
<1> QED
  BY <1>3, <1>4, <1>5, <1>6 DEF r

(* The owner is taken out: what is left is the line.                       *)
LEMMA OwnerLeaves ==
  ASSUME NEW q \in Seq(Waiter), Len(q) > 0
  PROVE  Behind(TakeWaiter(q, 1), 0) = Behind(q, 1)
<1> DEFINE r == TakeWaiter(q, 1)
<1>1. Len(q) \in Nat /\ 1 \in 1..Len(q)
  BY LenProperties
<1>2. /\ Len(r) = Len(q) - 1
      /\ \A j \in 1..(Len(q) - 1) : r[j] = IF j < 1 THEN q[j] ELSE q[j + 1]
  BY <1>1, TakeWaiterProperties
<1> HIDE DEF r
<1>3. 1..(Len(r) - 0) = 1..(Len(q) - 1)
  BY <1>1, <1>2
<1>4. \A j \in 1..(Len(q) - 1) : r[j + 0] = q[j + 1]
  BY <1>1, <1>2
<1> QED
  BY <1>3, <1>4 DEF r, Behind

(* What a departure leaves of the queue of k, and elsewhere.               *)
LEMMA Departs ==
  ASSUME CalmInv, NEW k \in Tokens, NEW i \in 1..Len(waiters[k]), Remove(k, i)
  PROVE  /\ waiters[k] \in Seq(Waiter) /\ Len(waiters[k]) \in Nat /\ Len(waiters[k]) > 0
         /\ waiters'[k] = TakeWaiter(waiters[k], i)
         /\ \A l \in Tokens : l # k => waiters'[l] = waiters[l]
BY LenProperties DEF Remove, CalmInv, BasicInv, TypeOK

LEMMA ReleaseStep ==
  ASSUME CalmInv, CalmInv', NEW t \in Threads, NEW k \in Tokens, Unlock(t, k)
  PROVE  Fifo!Release(t, k)
<1> DEFINE q == waiters[k]
<1>1. /\ 1 \in 1..Len(q) /\ q[1][1] = t /\ Remove(k, 1)
      /\ pc[t] = "out"
      /\ granted' = [granted EXCEPT ![t] = @ \ {k}]
  BY DEF Unlock, FindWaiter, Abort, CalmInv, NoAssertFails
<1>2. /\ q \in Seq(Waiter) /\ Len(q) \in Nat /\ Len(q) > 0
      /\ waiters'[k] = TakeWaiter(q, 1)
      /\ \A l \in Tokens : l # k => waiters'[l] = waiters[l]
  BY <1>1, Departs
<1>3. k \in granted[t]
  <2>1. want[t] # k
    BY <1>1, LockAssumption DEF CalmInv, BasicInv
  <2> QED
    BY <1>1, <2>1 DEF CalmInv, WaitersAccounted
<1>4. Granted(k)
  BY <1>3, GrantedIff
<1>5. ~Granted(k)'
  <2>1. ASSUME NEW u \in Threads PROVE k \notin granted'[u]
    <3>1. k \in granted[u] => u = t
      BY <1>1, GrantedIff
    <3> QED
      BY <1>1, <3>1 DEF CalmInv, BasicInv, TypeOK
  <2>2. waiters'[k] \in Seq(Waiter)
    BY DEF CalmInv, BasicInv, TypeOK
  <2>3. Len(waiters'[k]) > 0 => waiters'[k][1][1] \in Threads
    <3> DEFINE p == waiters'[k]
    <3>1. p \in Seq(Waiter) /\ Len(p) \in Nat
      BY <2>2, LenProperties
    <3> HIDE DEF p
    <3>2. Len(p) > 0 => p[1][1] \in Threads
      BY <3>1, ElementOfSeq DEF Waiter
    <3> QED
      BY <3>2 DEF p
  <2> QED
    BY <2>1, <2>3 DEF Granted
<1>6. Owner[k] = t /\ Line[k] = Behind(q, 1)
  BY <1>1, <1>2, <1>4, Mapped
<1>7. Owner'[k] = Nobody /\ Line'[k] = Behind(q, 1)
  <2>1. waiters'[k] \in Seq(Waiter)
    BY DEF CalmInv, BasicInv, TypeOK
  <2>2. Owner'[k] = Nobody /\ Line'[k] = Behind(waiters'[k], 0)
    BY <1>5, <2>1, MappedNext
  <2> QED
    BY <1>2, <2>2, OwnerLeaves
<1>8. /\ Owner' = [Owner EXCEPT ![k] = Owner'[k]]
      /\ Line' = [Line EXCEPT ![k] = Line'[k]]
  <2>1. \A u \in Threads : \A l \in Tokens :
          l # k => (l \in granted'[u] <=> l \in granted[u])
    BY <1>1 DEF CalmInv, BasicInv, TypeOK
  <2> QED
    BY <1>2, <2>1, OneToken
<1>9. Line' = Line
  BY <1>6, <1>7, <1>8 DEF Line
<1> QED
  BY <1>6, <1>7, <1>8, <1>9 DEF Fifo!Release

LEMMA LeaveStep ==
  ASSUME CalmInv, CalmInv', NEW t \in Threads, NEW k \in Tokens, want[t] = k, Withdraw(t)
  PROVE  \E j \in DOMAIN Line[k] : Fifo!Leave(k, j)
<1> DEFINE q == waiters[k]
           o == IF Granted(k) THEN 1 ELSE 0
<1>1. PICK i \in 1..Len(q) : q[i][1] = t /\ Remove(k, i)
  BY DEF Withdraw, FindWaiter
<1>2. granted' = granted /\ pc[t] # "out"
  BY DEF Withdraw
<1>3. /\ q \in Seq(Waiter) /\ Len(q) \in Nat /\ Len(q) > 0
      /\ waiters'[k] = TakeWaiter(q, i)
      /\ \A l \in Tokens : l # k => waiters'[l] = waiters[l]
  BY <1>1, Departs
<1>4. k \notin granted[t]
  BY <1>2 DEF CalmInv, WaitsWithReason
<1>5. o \in {0, 1} /\ i > o
  <2>1. Granted(k) => i # 1
    BY <1>1, <1>4 DEF Granted
  <2> QED
    BY <1>3, <2>1
<1>6. waiters'[k] \in Seq(Waiter)
  BY DEF CalmInv, BasicInv, TypeOK
<1>7. i # 1 => Len(waiters'[k]) > 0 /\ waiters'[k][1] = q[1]
  <2> DEFINE r == TakeWaiter(q, i)
  <2> HIDE DEF q
  <2>1. /\ Len(r) = Len(q) - 1
        /\ \A j \in 1..(Len(q) - 1) : r[j] = IF j < i THEN q[j] ELSE q[j + 1]
    BY <1>3, TakeWaiterProperties
  <2> HIDE DEF r
  <2>2. i # 1 => 1 \in 1..(Len(q) - 1) /\ 1 < i
    BY <1>3
  <2>3. i # 1 => r[1] = q[1] /\ Len(r) > 0
    BY <1>3, <2>1, <2>2
  <2> QED
    BY <1>3, <2>3 DEF r
<1>8. Granted(k)' <=> Granted(k)
  <2>1. CASE Granted(k)
    <3>1. i # 1 /\ k \in granted[q[1][1]]
      BY <1>1, <1>4, <2>1 DEF Granted
    <3>2. Len(waiters'[k]) > 0 /\ waiters'[k][1] = q[1]
      BY <3>1, <1>7
    <3> QED
      BY <1>2, <2>1, <3>1, <3>2 DEF Granted
  <2>2. CASE ~Granted(k)
    <3>1. \A u \in Threads : k \notin granted'[u]
      BY <1>2, <2>2, GrantedIff
    <3>2. Len(waiters'[k]) > 0 => waiters'[k][1][1] \in Threads
      <4> DEFINE p == waiters'[k]
      <4>1. p \in Seq(Waiter) /\ Len(p) \in Nat
        BY <1>6, LenProperties
      <4> HIDE DEF p
      <4>2. Len(p) > 0 => p[1][1] \in Threads
        BY <4>1, ElementOfSeq DEF Waiter
      <4> QED
        BY <4>2 DEF p
    <3> QED
      BY <2>2, <3>1, <3>2 DEF Granted
  <2> QED
    BY <2>1, <2>2
<1>9. Owner'[k] = Owner[k]
  <2>1. CASE Granted(k)
    <3>1. i # 1
      BY <1>5, <2>1
    <3>2. waiters'[k][1] = q[1]
      BY <3>1, <1>7
    <3> QED
      BY <1>3, <1>6, <1>8, <2>1, <3>2, Mapped, MappedNext
  <2>2. CASE ~Granted(k)
    <3>1. Owner[k] = Nobody
      BY <1>3, <2>2, Mapped
    <3>2. Owner'[k] = Nobody
      BY <1>6, <1>8, <2>2, MappedNext
    <3> QED
      BY <3>1, <3>2
  <2> QED
    BY <2>1, <2>2
<1>10. Line[k] = Behind(q, o)
  BY <1>3, Mapped
<1>11. Line'[k] = Behind(TakeWaiter(q, i), o)
  <2>1. Line'[k] = Behind(waiters'[k], o)
    BY <1>6, <1>8, MappedNext
  <2> QED
    BY <1>3, <2>1
<1>12. /\ Owner' = [Owner EXCEPT ![k] = Owner'[k]]
       /\ Line' = [Line EXCEPT ![k] = Line'[k]]
  BY <1>2, <1>3, OneToken
<1>13. Owner' = Owner
  BY <1>9, <1>12 DEF Owner
<1> HIDE DEF o, q
<1>14. /\ i - o \in DOMAIN Line[k]
       /\ Line'[k] = [j \in 1..(Len(Line[k]) - 1) |->
                        IF j < i - o THEN Line[k][j] ELSE Line[k][j + 1]]
  BY <1>3, <1>5, <1>10, <1>11, LineCloses
<1>15. Line' = [Line EXCEPT ![k] =
                  [j \in 1..(Len(@) - 1) |-> IF j < i - o THEN @[j] ELSE @[j + 1]]]
  BY <1>12, <1>14
<1>16. Fifo!Leave(k, i - o)
  BY <1>13, <1>14, <1>15 DEF Fifo!Leave
<1> QED
  BY <1>14, <1>16

-----------------------------------------------------------------------------
(* The initial state, and every step.                                      *)

LEMMA FifoInit == Init => Fifo!Init
<1> SUFFICES ASSUME Init PROVE Fifo!Init
  OBVIOUS
<1>1. \A k \in Tokens : waiters[k] = <<>> /\ ~Granted(k)
  BY DEF Init, Granted
<1>2. ASSUME NEW k \in Tokens PROVE Owner[k] = Nobody /\ Line[k] = <<>>
  <2>1. Owner[k] = Nobody
    BY <1>1 DEF Owner
  <2>2. Line[k] = [i \in 1..Len(waiters[k]) |-> waiters[k][i][1]]
    BY <1>1 DEF Line
  <2>3. 1..Len(waiters[k]) = {}
    BY <1>1
  <2> QED
    BY <2>1, <2>2, <2>3
<1> QED
  BY <1>2 DEF Fifo!Init, Owner, Line

LEMMA FifoNext ==
  ASSUME Calm PROVE CalmInv /\ CalmInv' /\ [Next]_vars => [Fifo!Next]_(Fifo!vars)
<1> SUFFICES ASSUME CalmInv, CalmInv', [Next]_vars PROVE [Fifo!Next]_(Fifo!vars)
  OBVIOUS
<1>1. CASE UNCHANGED <<waiters, granted>>
  BY <1>1, Stutters DEF Fifo!vars
<1>2. ASSUME NEW t \in Threads, Call(t) PROVE [Fifo!Next]_(Fifo!vars)
  <2>1. ASSUME NEW k \in Tokens, LockFree(t, k) PROVE Fifo!Next
    BY <2>1, TakeStep DEF Fifo!Next
  <2>2. CallLock(t) \/ (\E k \in Tokens : LockNoWait(t, k) \/ UnlockNotHeld(t, k))
          => UNCHANGED <<waiters, granted>>
    BY DEF CallLock, LockNoWait, UnlockNotHeld, vars
  <2>3. ASSUME NEW k \in Tokens, NEW mode \in Blocked, LockWait(t, k, mode) PROVE Fifo!Next
    BY <2>3, EnterStep DEF Fifo!Next
  <2>4. ASSUME NEW k \in Tokens, Unlock(t, k) PROVE Fifo!Next
    BY <2>4, ReleaseStep DEF Fifo!Next
  <2>5. ASSUME Timeout(t) PROVE UNCHANGED <<waiters, granted>>
    BY <2>5 DEF Timeout
  <2>6. ~SpuriousWakeup(t)
    BY DEF SpuriousWakeup, Calm
  <2>7. ASSUME pc[t] # "out" PROVE want[t] \in Tokens
    BY <2>7 DEF CalmInv, BasicInv, OwnWaiterQueued, TypeOK
  <2>8. ASSUME Acquire(t) PROVE Fifo!Next
    BY <2>7, <2>8, GrantStep DEF Acquire, Fifo!Next
  <2>9. ASSUME Withdraw(t) PROVE Fifo!Next
    BY <2>7, <2>9, LeaveStep DEF Withdraw, Fifo!Next
  <2> QED
    BY <1>1, <1>2, <2>1, <2>2, <2>3, <2>4, <2>5, <2>6, <2>8, <2>9, Zenon DEF Call, Enter
<1>3. CASE Destructor
  BY <1>1, <1>3 DEF Destructor, BeginDestroy, TestEmpty, SpuriousEmpty, FinishDestroy
<1>4. CASE UNCHANGED vars
  BY <1>1, <1>4 DEF vars
<1> QED
  BY <1>2, <1>3, <1>4, Zenon DEF Next

(* The manager is a first-come first-served lock per token, for any number *)
(* of threads and tokens: one owner, handed over in the order of arrival,  *)
(* with timeouts and the destruction doing no more than removing waiters.  *)
THEOREM FifoSpecHolds ==
  ASSUME Calm PROVE Spec => FifoSpec
<1>1. CalmInv /\ [Next]_vars => CalmInv'
  BY CalmNext
<1> QED
  BY <1>1, CalmInit, FifoInit, FifoNext, PTL DEF Spec, FifoSpec, Fifo!Spec
===============================================================================

