---------------------------- MODULE ServersProofs ----------------------------
(***************************************************************************)
(* Theorems about the two servers, each for itself: about Server for any   *)
(* sets of threads and clients, and any length of the kernel's queue;      *)
(* about Prefork for any pids, procs, clients and limits, whether pids are *)
(* used again or not.                                                      *)
(***************************************************************************)
EXTENDS ServerProps, PreforkProps, SequenceTheorems, FiniteSetTheorems, TLAPS

(* mMutex is held exactly by the thread in accept(), or by the one between *)
(* its -- and its unlock.                                                  *)
MutexHeld == \A w \in Workers : mMutex = w <=> worker[w] \in {"accept", "unlock"}

(* A thread has a connection exactly while it handles one, and no two have *)
(* the same client's; that client's is open, and no other.                 *)
FdsAreOpen ==
  /\ \A w \in Workers : fd[w] = Nothing <=> worker[w] # "handle"
  /\ \A v, w \in Workers : v # w /\ fd[v] = fd[w] => fd[w] \notin Clients
  /\ \A c \in Clients : conn[c] = "open" <=> \E w \in Workers : fd[w] = c

(* A client's connection waits in the queue at most once, and only if it   *)
(* has not been accepted yet.                                              *)
QueuedOnce ==
  /\ \A k \in 1..Len(backlog) : backlog[k] \in Clients => conn[backlog[k]] = "queued"
  /\ \A k, j \in 1..Len(backlog) : k # j /\ backlog[k] = backlog[j] => backlog[k] \notin Clients

(* The object is freed only when no thread counts.                         *)
FreedAlone == main = "destroyed" => Counted = {}

ServerInv ==
  /\ TypeOK
  /\ ActiveCount
  /\ MutexHeld
  /\ FdsAreOpen
  /\ QueuedOnce
  /\ FreedAlone

-----------------------------------------------------------------------------
LEMMA CountedIsFinite == ServerAssumption => IsFiniteSet(Counted)
BY FS_Subset DEF ServerAssumption, Counted

(* The counter follows the threads: one step, one thread in or out.        *)
LEMMA CountIn ==
  ASSUME ServerAssumption, ActiveCount, NEW w \in Workers, w \notin Counted,
         Counted' = Counted \cup {w}, mActiveThreads' = mActiveThreads + 1
  PROVE  ActiveCount'
BY CountedIsFinite, FS_AddElement DEF ActiveCount

LEMMA CountOut ==
  ASSUME ServerAssumption, ActiveCount, NEW w \in Workers, w \in Counted,
         Counted' = Counted \ {w}, mActiveThreads' = mActiveThreads - 1
  PROVE  ActiveCount'
BY CountedIsFinite, FS_RemoveElement DEF ActiveCount

LEMMA CountBound ==
  ASSUME ServerAssumption, NEW S, S \subseteq Workers
  PROVE  Cardinality(S) \in 0..Cardinality(Workers)
<1>1. IsFiniteSet(Workers)
  BY DEF ServerAssumption
<1>2. Cardinality(S) \in Nat /\ Cardinality(Workers) \in Nat
  BY <1>1, FS_Subset, FS_CardinalityType
<1>3. Cardinality(S) <= Cardinality(Workers)
  BY <1>1, FS_Subset
<1> QED
  BY <1>2, <1>3, SMT

(* OneHandlerPerConnection counts what FdsAreOpen says one by one.         *)
LEMMA ServerInvImplies == ServerAssumption /\ ServerInv => OneHandlerPerConnection
<1> SUFFICES ASSUME ServerAssumption, ServerInv PROVE OneHandlerPerConnection
  OBVIOUS
<1>1. ASSUME NEW c \in Clients
      PROVE  Cardinality({w \in Workers : fd[w] = c}) = IF conn[c] = "open" THEN 1 ELSE 0
  <2>1. CASE conn[c] = "open"
    <3>1. PICK w \in Workers : fd[w] = c
      BY <2>1 DEF ServerInv, FdsAreOpen
    <3>2. {v \in Workers : fd[v] = c} = {w}
      BY <3>1 DEF ServerInv, FdsAreOpen
    <3> QED
      BY <2>1, <3>2, FS_Singleton
  <2>2. CASE conn[c] # "open"
    <3>1. {v \in Workers : fd[v] = c} = {}
      BY <2>2 DEF ServerInv, FdsAreOpen
    <3> QED
      BY <2>2, <3>1, FS_EmptySet
  <2> QED
    BY <2>1, <2>2
<1>2. main = "destroyed" => \A w \in Workers : worker[w] \notin {"accept", "handle"}
  BY DEF ServerInv, FreedAlone, Counted
<1> QED
  BY <1>1, <1>2 DEF OneHandlerPerConnection

-----------------------------------------------------------------------------
(* Steps that touch neither the threads nor the connections.               *)
LEMMA OwnerFlags ==
  ASSUME ServerAssumption, ServerInv, UNCHANGED <<workerVars, backlog, conn>>, TypeOK',
         main' = "destroyed" => mActiveThreads = 0
  PROVE  ServerInv'
<1>1. Counted' = Counted
  BY DEF workerVars, Counted
<1>2. ActiveCount' /\ MutexHeld' /\ FdsAreOpen' /\ QueuedOnce'
  BY <1>1 DEF ServerInv, workerVars, ActiveCount, MutexHeld, FdsAreOpen, QueuedOnce
<1>3. FreedAlone'
  <2>1. mActiveThreads = 0 => Counted = {}
    BY CountedIsFinite, FS_EmptySet DEF ServerInv, ActiveCount
  <2> QED
    BY <1>1, <2>1 DEF FreedAlone
<1> QED
  BY <1>2, <1>3 DEF ServerInv

(* Another connection at the end of the queue.                             *)
LEMMA QueueGrows ==
  ASSUME ServerInv, NEW x \in Clients \cup {Wake}, backlog' = Append(backlog, x),
         \A c \in Clients : c = x => conn'[c] = "queued",
         \A c \in Clients : c # x => conn'[c] = conn[c],
         x \in Clients => conn[x] # "queued"
  PROVE  QueuedOnce' /\ backlog' \in Seq(Clients \cup {Wake})
<1>1. backlog \in Seq(Clients \cup {Wake})
  BY DEF ServerInv, TypeOK
<1>2. /\ backlog' \in Seq(Clients \cup {Wake})
      /\ Len(backlog') = Len(backlog) + 1
      /\ Len(backlog) \in Nat
      /\ \A k \in 1..Len(backlog) : backlog'[k] = backlog[k]
      /\ backlog'[Len(backlog) + 1] = x
  BY <1>1, SMT
<1>3. \A k \in 1..Len(backlog') : k \in 1..Len(backlog) \/ k = Len(backlog) + 1
  BY <1>2, SMT
<1>4. \A k \in 1..Len(backlog) : backlog[k] \in Clients =>
        conn[backlog[k]] = "queued" /\ backlog[k] # x
  BY DEF ServerInv, QueuedOnce
<1>5. ASSUME NEW k \in 1..Len(backlog'), backlog'[k] \in Clients
      PROVE  conn'[backlog'[k]] = "queued"
  BY <1>2, <1>3, <1>4, <1>5
<1>6. ASSUME NEW k \in 1..Len(backlog'), NEW j \in 1..Len(backlog'),
             k # j, backlog'[k] = backlog'[j], backlog'[k] \in Clients
      PROVE  FALSE
  BY <1>2, <1>3, <1>4, <1>6 DEF ServerInv, QueuedOnce
<1> QED
  BY <1>2, <1>5, <1>6 DEF QueuedOnce

LEMMA OwnerKeeps ==
  ASSUME ServerAssumption, ServerInv, Running, Owner
  PROVE  ServerInv'
<1>1. CASE Listen
  BY <1>1, OwnerFlags DEF Listen, ServerInv, TypeOK, workerVars
<1>2. CASE ListenFails
  BY <1>2, OwnerFlags DEF ListenFails, ServerInv, TypeOK, workerVars, vars, Running
<1>3. CASE CreateThread
  <2>1. PICK w \in Workers : worker[w] = "none" /\ worker' = [worker EXCEPT ![w] = "created"]
    BY <1>3 DEF CreateThread
  <2>2. UNCHANGED <<mActiveThreads, mMutex, fd, ownerVars, backlog, conn>>
    BY <1>3 DEF CreateThread
  <2>3. worker'[w] = "created" /\ \A v \in Workers : v # w => worker'[v] = worker[v]
    BY <2>1 DEF ServerInv, TypeOK
  <2>4. TypeOK'
    BY <2>1, <2>2 DEF ServerInv, TypeOK, ownerVars
  <2>5. Counted' = Counted
    BY <2>1, <2>3 DEF Counted
  <2>6. ActiveCount' /\ QueuedOnce' /\ FreedAlone'
    BY <2>2, <2>5 DEF ServerInv, ActiveCount, QueuedOnce, FreedAlone, ownerVars
  <2>7. MutexHeld'
    BY <2>1, <2>2, <2>3 DEF ServerInv, MutexHeld
  <2>8. FdsAreOpen'
    BY <2>1, <2>2, <2>3 DEF ServerInv, FdsAreOpen
  <2> QED
    BY <2>4, <2>6, <2>7, <2>8 DEF ServerInv
<1>4. CASE Started
  BY <1>4, OwnerFlags DEF Started, ServerInv, TypeOK, workerVars
<1>5. CASE Shutdown
  BY <1>5, OwnerFlags DEF Shutdown, BeginShutdown, ServerInv, TypeOK, workerVars
<1>6. CASE TestActive
  BY <1>6, OwnerFlags DEF TestActive, Returned, ServerInv, TypeOK, workerVars
<1>7. CASE ConnectSelf
  <2>1. /\ main' = Returned /\ UNCHANGED <<workerVars, mIsShutdown, mListenFD, inDtor, conn>>
        /\ backlog' = backlog \/ backlog' = Append(backlog, Wake)
    BY <1>7 DEF ConnectSelf
  <2>2. CASE backlog' = backlog
    BY <2>1, <2>2, OwnerFlags DEF Returned, ServerInv, TypeOK, workerVars
  <2>3. CASE backlog' = Append(backlog, Wake)
    <3>1. QueuedOnce' /\ backlog' \in Seq(Clients \cup {Wake})
      BY <2>1, <2>3, QueueGrows DEF ServerAssumption
    <3>2. TypeOK'
      BY <2>1, <3>1 DEF Returned, ServerInv, TypeOK, workerVars
    <3>3. Counted' = Counted
      BY <2>1 DEF Counted, workerVars
    <3>4. ActiveCount' /\ MutexHeld' /\ FdsAreOpen' /\ FreedAlone'
      BY <2>1, <3>3 DEF ServerInv, workerVars, ActiveCount, MutexHeld, FdsAreOpen, FreedAlone, Returned
    <3> QED
      BY <3>1, <3>2, <3>4 DEF ServerInv
  <2> QED
    BY <2>1, <2>2, <2>3
<1>8. CASE Destroy
  BY <1>8, OwnerFlags DEF Destroy, ServerInv, TypeOK, workerVars
<1>9. CASE DtorLoop
  BY <1>9, OwnerFlags DEF DtorLoop, BeginShutdown, ServerInv, TypeOK, workerVars
<1>10. CASE DtorDone
  BY <1>10, OwnerFlags DEF DtorDone, ServerInv, TypeOK, workerVars
<1> QED
  BY <1>1, <1>2, <1>3, <1>4, <1>5, <1>6, <1>7, <1>8, <1>9, <1>10 DEF Owner

LEMMA ClientKeeps ==
  ASSUME ServerAssumption, ServerInv, Running, NEW c \in Clients, ClientConnect(c)
  PROVE  ServerInv'
<1>1. /\ conn[c] = "new" /\ conn' = [conn EXCEPT ![c] = "queued"]
      /\ backlog' = Append(backlog, c) /\ UNCHANGED <<workerVars, ownerVars>>
  BY DEF ClientConnect
<1>2. conn'[c] = "queued" /\ \A d \in Clients : d # c => conn'[d] = conn[d]
  BY <1>1 DEF ServerInv, TypeOK
<1>3. QueuedOnce' /\ backlog' \in Seq(Clients \cup {Wake})
  BY <1>1, <1>2, QueueGrows
<1>4. TypeOK'
  BY <1>1, <1>3 DEF ServerInv, TypeOK, workerVars, ownerVars
<1>5. Counted' = Counted
  BY <1>1 DEF Counted, workerVars
<1>6. ActiveCount' /\ MutexHeld' /\ FreedAlone'
  BY <1>1, <1>5 DEF ServerInv, workerVars, ownerVars, ActiveCount, MutexHeld, FreedAlone
<1>7. FdsAreOpen'
  BY <1>1, <1>2 DEF ServerInv, FdsAreOpen, workerVars
<1> QED
  BY <1>3, <1>4, <1>6, <1>7 DEF ServerInv

-----------------------------------------------------------------------------
(* A thread moves and nothing else does: it has no connection before or    *)
(* after, and counts after as it did before.                               *)
LEMMA ThreadMoves ==
  ASSUME ServerAssumption, ServerInv, Running, NEW w \in Workers,
         NEW to \in {"loop", "lock", "accept", "leave", "unlock", "gone"},
         worker' = [worker EXCEPT ![w] = to], worker[w] # "handle",
         UNCHANGED <<fd, ownerVars, backlog, conn>>,
         mMutex' \in Workers \cup {Nothing}, ActiveCount', MutexHeld'
  PROVE  ServerInv'
<1>1. worker'[w] = to /\ \A v \in Workers : v # w => worker'[v] = worker[v]
  BY DEF ServerInv, TypeOK
<1>2. mActiveThreads' \in 0..Cardinality(Workers)
  <2>1. Counted' \subseteq Workers
    BY DEF Counted
  <2> QED
    BY <2>1, CountBound DEF ActiveCount
<1>3. TypeOK'
  BY <1>2 DEF ServerInv, TypeOK, ownerVars
<1>4. FdsAreOpen'
  BY <1>1 DEF ServerInv, FdsAreOpen
<1>5. QueuedOnce'
  BY DEF ServerInv, QueuedOnce
<1>6. FreedAlone'
  BY DEF Running, FreedAlone, ownerVars
<1> QED
  BY <1>3, <1>4, <1>5, <1>6 DEF ServerInv

LEMMA EnterKeeps ==
  ASSUME ServerAssumption, ServerInv, Running, NEW w \in Workers, Enter(w)
  PROVE  ServerInv'
<1>1. /\ worker[w] = "created" /\ mMutex = Nothing /\ worker' = [worker EXCEPT ![w] = "loop"]
      /\ mActiveThreads' = mActiveThreads + 1 /\ UNCHANGED <<mMutex, fd, ownerVars, backlog, conn>>
  BY DEF Enter
<1>2. worker'[w] = "loop" /\ \A v \in Workers : v # w => worker'[v] = worker[v]
  BY <1>1 DEF ServerInv, TypeOK
<1>3. w \notin Counted /\ Counted' = Counted \cup {w}
  BY <1>1, <1>2 DEF Counted
<1>4. ActiveCount'
  BY <1>1, <1>3, CountIn DEF ServerInv
<1>5. MutexHeld'
  BY <1>1, <1>2 DEF ServerInv, MutexHeld
<1> QED
  BY <1>1, <1>4, <1>5, ThreadMoves DEF ServerInv, TypeOK

LEMMA LeaveKeeps ==
  ASSUME ServerAssumption, ServerInv, Running, NEW w \in Workers, Leave(w)
  PROVE  ServerInv'
<1>1. /\ worker[w] = "leave" /\ mMutex = Nothing /\ worker' = [worker EXCEPT ![w] = "unlock"]
      /\ mActiveThreads' = mActiveThreads - 1 /\ mMutex' = w
      /\ UNCHANGED <<fd, ownerVars, backlog, conn>>
  BY DEF Leave
<1>2. worker'[w] = "unlock" /\ \A v \in Workers : v # w => worker'[v] = worker[v]
  BY <1>1 DEF ServerInv, TypeOK
<1>3. w \in Counted /\ Counted' = Counted \ {w}
  BY <1>1, <1>2 DEF Counted
<1>4. ActiveCount'
  BY <1>1, <1>3, CountOut DEF ServerInv
<1>5. \A v \in Workers : v # Nothing
  BY DEF ServerAssumption
<1>6. MutexHeld'
  BY <1>1, <1>2, <1>5 DEF ServerInv, MutexHeld
<1> QED
  BY <1>1, <1>4, <1>6, ThreadMoves

(* The steps that leave the thread in the count, or out of it.             *)
LEMMA LoopKeeps ==
  ASSUME ServerAssumption, ServerInv, Running, NEW w \in Workers,
         LoopTest(w) \/ LockAccept(w) \/ AcceptFails(w) \/ Exit(w)
  PROVE  ServerInv'
<1>1. \A v \in Workers : v # Nothing
  BY DEF ServerAssumption
<1>2. /\ UNCHANGED <<mActiveThreads, fd, ownerVars, backlog, conn>>
      /\ worker[w] # "handle"
      /\ mMutex' \in Workers \cup {Nothing}
  BY DEF LoopTest, LockAccept, AcceptFails, Exit, ServerInv, TypeOK
<1>3. PICK to \in {"loop", "lock", "accept", "leave", "gone"} :
        /\ worker' = [worker EXCEPT ![w] = to]
        /\ (to = "gone" <=> worker[w] = "unlock")
        /\ worker[w] \in {"loop", "lock", "accept", "unlock"}
        /\ \/ mMutex' = mMutex /\ worker[w] \in {"loop", "lock"} /\ to # "accept"
           \/ mMutex = Nothing /\ mMutex' = w /\ to = "accept"
           \/ worker[w] \in {"accept", "unlock"} /\ mMutex' = Nothing /\ to \in {"loop", "gone"}
  BY DEF LoopTest, LockAccept, AcceptFails, Exit
<1>4. worker'[w] = to /\ \A v \in Workers : v # w => worker'[v] = worker[v]
  BY <1>3 DEF ServerInv, TypeOK
<1>5. Counted' = Counted
  BY <1>3, <1>4 DEF Counted
<1>6. ActiveCount'
  BY <1>2, <1>5 DEF ServerInv, ActiveCount
<1>7. MutexHeld'
  BY <1>1, <1>3, <1>4 DEF ServerInv, MutexHeld
<1> QED
  BY <1>2, <1>3, <1>6, <1>7, ThreadMoves

-----------------------------------------------------------------------------
(* accept() takes the oldest connection; what stays queued is queued once, *)
(* and is not the one that was taken.                                      *)
LEMMA AcceptKeeps ==
  ASSUME ServerAssumption, ServerInv, Running, NEW w \in Workers, Accept(w)
  PROVE  ServerInv'
<1> DEFINE x == Head(backlog)
<1>1. /\ worker[w] = "accept" /\ backlog # <<>> /\ fd' = [fd EXCEPT ![w] = x]
      /\ conn' = [c \in Clients |-> IF c = x THEN "open" ELSE conn[c]]
      /\ backlog' = Tail(backlog) /\ mMutex' = Nothing
      /\ worker' = [worker EXCEPT ![w] = "handle"] /\ UNCHANGED <<mActiveThreads, ownerVars>>
  BY DEF Accept
<1>2. backlog \in Seq(Clients \cup {Wake})
  BY DEF ServerInv, TypeOK
<1>3. /\ x \in Clients \cup {Wake} /\ x = backlog[1] /\ 1 \in 1..Len(backlog)
      /\ backlog' \in Seq(Clients \cup {Wake})
      /\ \A k \in 1..Len(backlog') :
           k + 1 \in 1..Len(backlog) /\ k + 1 # 1 /\ backlog'[k] = backlog[k + 1]
      /\ \A k, j \in 1..Len(backlog') : k # j => k + 1 # j + 1
  BY <1>1, <1>2, SMT
<1> HIDE DEF x
<1>4. x # Nothing /\ \A v \in Workers : v # Nothing
  BY <1>3 DEF ServerAssumption
<1>5. fd'[w] = x /\ \A v \in Workers : v # w => fd'[v] = fd[v]
  BY <1>1 DEF ServerInv, TypeOK
<1>6. worker'[w] = "handle" /\ \A v \in Workers : v # w => worker'[v] = worker[v]
  BY <1>1 DEF ServerInv, TypeOK
<1>7. \A c \in Clients : conn'[c] = IF c = x THEN "open" ELSE conn[c]
  BY <1>1
<1>8. x \in Clients => conn[x] = "queued"
  BY <1>3 DEF ServerInv, QueuedOnce
<1>9. \A v \in Workers : fd[v] \in Clients => conn[fd[v]] = "open"
  BY DEF ServerInv, FdsAreOpen
<1>10. \A v \in Workers : x \in Clients => fd[v] # x
  BY <1>8, <1>9
<1>11. Counted' = Counted
  BY <1>1, <1>6 DEF Counted
<1>12. TypeOK'
  <2>1. conn' \in [Clients -> {"new", "queued", "open", "closed"}]
    BY <1>1 DEF ServerInv, TypeOK
  <2>2. fd' \in [Workers -> Clients \cup {Wake, Nothing}]
    BY <1>1, <1>3 DEF ServerInv, TypeOK
  <2>3. worker' \in [Workers -> {"none", "created", "loop", "lock", "accept",
                                 "handle", "leave", "unlock", "gone"}]
    BY <1>1 DEF ServerInv, TypeOK
  <2> QED
    BY <1>1, <1>3, <2>1, <2>2, <2>3 DEF ServerInv, TypeOK, ownerVars
<1>13. ActiveCount'
  BY <1>1, <1>11 DEF ServerInv, ActiveCount
<1>14. MutexHeld'
  BY <1>1, <1>4, <1>6 DEF ServerInv, MutexHeld
<1>15. FdsAreOpen'
  <2>1. \A v \in Workers : fd'[v] = Nothing <=> worker'[v] # "handle"
    BY <1>4, <1>5, <1>6 DEF ServerInv, FdsAreOpen
  <2>2. \A u, v \in Workers : u # v /\ fd'[u] = fd'[v] => fd'[v] \notin Clients
    BY <1>5, <1>10 DEF ServerInv, FdsAreOpen
  <2>3. ASSUME NEW c \in Clients
        PROVE  conn'[c] = "open" <=> \E v \in Workers : fd'[v] = c
    <3>1. CASE c = x
      BY <3>1, <1>5, <1>7
    <3>2. CASE c # x
      <4>1. conn'[c] = conn[c] /\ fd'[w] # c
        BY <3>2, <1>5, <1>7
      <4>2. fd[w] # c
        BY <1>1, <1>4 DEF ServerInv, FdsAreOpen, ServerAssumption
      <4>3. \A v \in Workers : fd'[v] = c <=> fd[v] = c
        BY <4>1, <4>2, <1>5
      <4> QED
        BY <4>1, <4>3 DEF ServerInv, FdsAreOpen
    <3> QED
      BY <3>1, <3>2
  <2> QED
    BY <2>1, <2>2, <2>3 DEF FdsAreOpen
<1>16. QueuedOnce'
  <2>1. ASSUME NEW k \in 1..Len(backlog'), backlog'[k] \in Clients
        PROVE  conn'[backlog'[k]] = "queued"
    <3>1. backlog[k + 1] # x
      BY <1>3, <2>1 DEF ServerInv, QueuedOnce
    <3> QED
      BY <1>3, <1>7, <2>1, <3>1 DEF ServerInv, QueuedOnce
  <2>2. ASSUME NEW k \in 1..Len(backlog'), NEW j \in 1..Len(backlog'),
               k # j, backlog'[k] = backlog'[j], backlog'[k] \in Clients
        PROVE  FALSE
    BY <1>3, <2>2 DEF ServerInv, QueuedOnce
  <2> QED
    BY <2>1, <2>2 DEF QueuedOnce
<1>17. FreedAlone'
  BY <1>1 DEF Running, FreedAlone, ownerVars
<1> QED
  BY <1>12, <1>13, <1>14, <1>15, <1>16, <1>17 DEF ServerInv

(* The thread closes its connection: no other has it.                      *)
LEMMA HandleKeeps ==
  ASSUME ServerAssumption, ServerInv, Running, NEW w \in Workers, Handle(w)
  PROVE  ServerInv'
<1>1. /\ worker[w] = "handle" /\ fd' = [fd EXCEPT ![w] = Nothing]
      /\ conn' = [c \in Clients |-> IF c = fd[w] THEN "closed" ELSE conn[c]]
      /\ worker' = [worker EXCEPT ![w] = "loop"]
      /\ UNCHANGED <<mActiveThreads, mMutex, ownerVars, backlog>>
  BY DEF Handle
<1>2. \A c \in Clients : c # Nothing
  BY DEF ServerAssumption
<1>3. fd'[w] = Nothing /\ \A v \in Workers : v # w => fd'[v] = fd[v]
  BY <1>1 DEF ServerInv, TypeOK
<1>4. worker'[w] = "loop" /\ \A v \in Workers : v # w => worker'[v] = worker[v]
  BY <1>1 DEF ServerInv, TypeOK
<1>5. \A c \in Clients : conn'[c] = IF c = fd[w] THEN "closed" ELSE conn[c]
  BY <1>1
<1>6. fd[w] \in Clients => conn[fd[w]] = "open"
  BY DEF ServerInv, FdsAreOpen
<1>7. Counted' = Counted
  BY <1>1, <1>4 DEF Counted
<1>8. TypeOK'
  <2>1. conn' \in [Clients -> {"new", "queued", "open", "closed"}]
    BY <1>1 DEF ServerInv, TypeOK
  <2>2. fd' \in [Workers -> Clients \cup {Wake, Nothing}]
    BY <1>1 DEF ServerInv, TypeOK
  <2>3. worker' \in [Workers -> {"none", "created", "loop", "lock", "accept",
                                 "handle", "leave", "unlock", "gone"}]
    BY <1>1 DEF ServerInv, TypeOK
  <2> QED
    BY <1>1, <2>1, <2>2, <2>3 DEF ServerInv, TypeOK, ownerVars
<1>9. ActiveCount'
  BY <1>1, <1>7 DEF ServerInv, ActiveCount
<1>10. MutexHeld'
  BY <1>1, <1>4 DEF ServerInv, MutexHeld
<1>11. FdsAreOpen'
  <2>1. \A v \in Workers : fd'[v] = Nothing <=> worker'[v] # "handle"
    BY <1>3, <1>4 DEF ServerInv, FdsAreOpen
  <2>2. \A u, v \in Workers : u # v /\ fd'[u] = fd'[v] => fd'[v] \notin Clients
    BY <1>2, <1>3 DEF ServerInv, FdsAreOpen
  <2>3. ASSUME NEW c \in Clients
        PROVE  conn'[c] = "open" <=> \E v \in Workers : fd'[v] = c
    <3>1. CASE c = fd[w]
      <4>1. \A v \in Workers : fd'[v] # c
        BY <3>1, <1>2, <1>3 DEF ServerInv, FdsAreOpen
      <4> QED
        BY <3>1, <4>1, <1>5
    <3>2. CASE c # fd[w]
      <4>1. \A v \in Workers : fd'[v] = c <=> fd[v] = c
        BY <3>2, <1>2, <1>3
      <4> QED
        BY <3>2, <4>1, <1>5 DEF ServerInv, FdsAreOpen
    <3> QED
      BY <3>1, <3>2
  <2> QED
    BY <2>1, <2>2, <2>3 DEF FdsAreOpen
<1>12. QueuedOnce'
  <2>1. \A k \in 1..Len(backlog) : backlog[k] \in Clients =>
          conn[backlog[k]] = "queued" /\ backlog[k] # fd[w]
    BY <1>6 DEF ServerInv, QueuedOnce
  <2>2. \A k \in 1..Len(backlog) : backlog[k] \in Clients => conn'[backlog[k]] = "queued"
    BY <1>5, <2>1
  <2>3. backlog' = backlog
    BY <1>1
  <2> QED
    BY <2>2, <2>3 DEF ServerInv, QueuedOnce
<1>13. FreedAlone'
  BY <1>1 DEF Running, FreedAlone, ownerVars
<1> QED
  BY <1>8, <1>9, <1>10, <1>11, <1>12, <1>13 DEF ServerInv

-----------------------------------------------------------------------------
LEMMA ServerInvInit == ServerAssumption /\ Init => ServerInv
<1> SUFFICES ASSUME ServerAssumption, Init PROVE ServerInv
  OBVIOUS
<1>1. Counted = {}
  BY DEF Init, Counted
<1>2. Cardinality(Workers) \in Nat
  BY FS_CardinalityType DEF ServerAssumption
<1>3. TypeOK
  <2>1. mActiveThreads \in 0..Cardinality(Workers)
    BY <1>2, SMT DEF Init
  <2>2. backlog \in Seq(Clients \cup {Wake})
    BY DEF Init
  <2>3. worker \in [Workers -> {"none", "created", "loop", "lock", "accept",
                                "handle", "leave", "unlock", "gone"}]
    BY DEF Init
  <2>4. fd \in [Workers -> Clients \cup {Wake, Nothing}]
    BY DEF Init
  <2>5. conn \in [Clients -> {"new", "queued", "open", "closed"}]
    BY DEF Init
  <2> QED
    BY <2>1, <2>2, <2>3, <2>4, <2>5, Zenon DEF Init, TypeOK
<1>4. ActiveCount
  BY <1>1, FS_EmptySet DEF Init, ActiveCount
<1>5. MutexHeld /\ FdsAreOpen /\ FreedAlone
  BY DEF Init, ServerAssumption, MutexHeld, FdsAreOpen, FreedAlone
<1>6. QueuedOnce
  BY SMT DEF Init, QueuedOnce
<1> QED
  BY <1>3, <1>4, <1>5, <1>6 DEF ServerInv

LEMMA ServerInvNext == ServerAssumption /\ ServerInv /\ [Next]_vars => ServerInv'
<1> SUFFICES ASSUME ServerAssumption, ServerInv, [Next]_vars PROVE ServerInv'
  OBVIOUS
<1>1. CASE UNCHANGED vars
  <2>1. Counted' = Counted
    BY <1>1 DEF vars, Counted
  <2> QED
    BY <1>1, <2>1 DEF vars, ServerInv, TypeOK, ActiveCount, MutexHeld, FdsAreOpen, QueuedOnce, FreedAlone
<1>2. CASE Next
  <2>1. Running
    BY <1>2 DEF Next
  <2>2. ASSUME NEW w \in Workers, Thread(w) PROVE ServerInv'
    BY <2>1, <2>2, EnterKeeps, LeaveKeeps, LoopKeeps, AcceptKeeps, HandleKeeps DEF Thread
  <2>3. ASSUME NEW c \in Clients, ClientConnect(c) PROVE ServerInv'
    BY <2>1, <2>3, ClientKeeps
  <2>4. CASE Owner
    BY <2>1, <2>4, OwnerKeeps
  <2> QED
    BY <1>2, <2>2, <2>3, <2>4 DEF Next
<1> QED
  BY <1>1, <1>2

LEMMA ServerInvHolds == Spec => []ServerInv
<1>1. Init => ServerInv
  BY ServerAssumption, ServerInvInit
<1>2. ServerInv /\ [Next]_vars => ServerInv'
  BY ServerAssumption, ServerInvNext
<1> QED
  BY <1>1, <1>2, PTL DEF Spec

(* Every variable keeps its type: mActiveThreads never goes below zero or  *)
(* beyond mMaxThreads, and no worker does a step its thread function does  *)
(* not have.                                                               *)
THEOREM TypeCorrect == Spec => []TypeOK
<1>1. ServerInv => TypeOK
  BY DEF ServerInv
<1> QED
  BY <1>1, ServerInvHolds, PTL

(* However many threads take turns in accept(), a connection is in the     *)
(* hands of one of them while it is open and of none after, and the object *)
(* is not freed while a thread waits in accept() or handles a connection.  *)
THEOREM OneHandlerHolds == Spec => []OneHandlerPerConnection
<1>1. ServerInv => OneHandlerPerConnection
  BY ServerAssumption, ServerInvImplies
<1> QED
  BY <1>1, ServerInvHolds, PTL

(* mActiveThreads, which the owner reads without mMutex to decide whether  *)
(* a thread must be woken and whether the object may be freed, is exactly  *)
(* the number of threads between their ++ and their --.                    *)
THEOREM ActiveCountHolds == Spec => []ActiveCount
<1>1. ServerInv => ActiveCount
  BY DEF ServerInv
<1> QED
  BY <1>1, ServerInvHolds, PTL
-----------------------------------------------------------------------------
(* What shutdown() relies on when it has returned: the flag is set, and it *)
(* has made its connection if it found a thread in the count.              *)
ShutDown == Connectable /\ mIsShutdown /\ Running /\ main \notin {"test", "connect"}

(* The thread in accept() then has a connection to return with, the one    *)
(* that shutdown() made or one of those that left it no room.              *)
AcceptWoken == ShutDown => \A w \in Workers : worker[w] = "accept" => backlog # <<>>

(* The thread need not wait for another: not for mMutex, nor in accept().  *)
CanMove(w) ==
  \/ worker[w] \in {"loop", "handle", "unlock"}
  \/ worker[w] \in {"created", "lock", "leave"} /\ mMutex = Nothing
  \/ worker[w] = "accept" /\ backlog # <<>>

NobodyStuck ==
  ShutDown /\ (\E w \in Workers : worker[w] \notin {"none", "gone"}) =>
    \E w \in Workers : CanMove(w)

(* mMutex never waits for accept(): its holder is awake, or woken.         *)
LEMMA AcceptWokenImplies == ServerInv /\ AcceptWoken => NobodyStuck
<1> SUFFICES ASSUME ServerInv, AcceptWoken, ShutDown,
                    NEW w \in Workers, worker[w] \notin {"none", "gone"}
             PROVE  \E v \in Workers : CanMove(v)
  BY DEF NobodyStuck
<1>1. CASE mMutex = Nothing
  <2>1. worker[w] \in {"created", "loop", "lock", "accept", "handle", "leave", "unlock"}
    BY DEF ServerInv, TypeOK
  <2>2. CanMove(w)
    BY <1>1, <2>1 DEF AcceptWoken, CanMove
  <2> QED
    BY <2>2
<1>2. CASE mMutex \in Workers
  <2>1. worker[mMutex] \in {"accept", "unlock"}
    BY <1>2 DEF ServerInv, MutexHeld
  <2>2. CanMove(mMutex)
    BY <1>2, <2>1 DEF AcceptWoken, CanMove
  <2> QED
    BY <1>2, <2>2
<1> QED
  BY <1>1, <1>2 DEF ServerInv, TypeOK

(* The owner comes back from shutdown() only when no thread counts, or     *)
(* when its own connection is in the queue, or the queue is full.          *)
LEMMA OwnerWakes ==
  ASSUME ServerAssumption, ServerInv, AcceptWoken, Owner
  PROVE  AcceptWoken'
<1>1. CASE Listen \/ ListenFails \/ Started \/ Destroy \/ DtorDone
  BY <1>1 DEF Listen, ListenFails, Started, Destroy, DtorDone, vars, workerVars,
              AcceptWoken, ShutDown, Running
<1>2. CASE CreateThread
  BY <1>2 DEF CreateThread, ownerVars, ServerInv, TypeOK, AcceptWoken, ShutDown, Running
<1>3. CASE Shutdown \/ DtorLoop
  BY <1>3 DEF Shutdown, DtorLoop, BeginShutdown, AcceptWoken, ShutDown, Running
<1>4. CASE TestActive
  <2>1. mActiveThreads = 0 => \A w \in Workers : worker[w] # "accept"
    <3>1. mActiveThreads = 0 => Counted = {}
      BY CountedIsFinite, FS_EmptySet DEF ServerInv, ActiveCount
    <3> QED
      BY <3>1 DEF Counted
  <2>2. mActiveThreads > 0 \/ mActiveThreads = 0
    BY CountBound, SMT DEF ServerInv, TypeOK
  <2> QED
    BY <1>4, <2>1, <2>2 DEF TestActive, workerVars, AcceptWoken, ShutDown, Running
<1>5. CASE ConnectSelf
  <2>1. Connectable => backlog' # <<>>
    BY <1>5, SMT DEF ConnectSelf, ServerAssumption, ServerInv, TypeOK
  <2> QED
    BY <2>1 DEF AcceptWoken, ShutDown, Running
<1> QED
  BY <1>1, <1>2, <1>3, <1>4, <1>5 DEF Owner

(* No thread goes to accept() any more, and the one that takes the         *)
(* connection is the only one that was there.                              *)
LEMMA ThreadStaysWoken ==
  ASSUME ServerAssumption, ServerInv, AcceptWoken, NEW w \in Workers, Thread(w)
  PROVE  AcceptWoken'
<1>1. CASE Accept(w)
  <2>1. \A v \in Workers : v # w => worker[v] # "accept"
    BY <1>1 DEF Accept, ServerInv, MutexHeld
  <2>2. \A v \in Workers : worker'[v] # "accept"
    BY <1>1, <2>1 DEF Accept, ServerInv, TypeOK
  <2> QED
    BY <2>2 DEF AcceptWoken
<1>2. CASE LockAccept(w)
  BY <1>2 DEF LockAccept, ownerVars, ServerInv, TypeOK, AcceptWoken, ShutDown, Running
<1>3. CASE Enter(w) \/ LoopTest(w) \/ AcceptFails(w) \/ Handle(w) \/ Leave(w) \/ Exit(w)
  <2>1. UNCHANGED <<ownerVars, backlog>>
    BY <1>3 DEF Enter, LoopTest, AcceptFails, Handle, Leave, Exit
  <2>2. \A v \in Workers : worker'[v] = "accept" => worker[v] = "accept"
    BY <1>3 DEF Enter, LoopTest, AcceptFails, Handle, Leave, Exit, ServerInv, TypeOK
  <2> QED
    BY <2>1, <2>2 DEF ownerVars, AcceptWoken, ShutDown, Running
<1> QED
  BY <1>1, <1>2, <1>3 DEF Thread

LEMMA AcceptWokenHolds == Spec => []AcceptWoken
<1>1. Init => AcceptWoken
  BY DEF Init, AcceptWoken
<1>2. ServerInv /\ AcceptWoken /\ [Next]_vars => AcceptWoken'
  <2> SUFFICES ASSUME ServerInv, AcceptWoken, [Next]_vars PROVE AcceptWoken'
    OBVIOUS
  <2>1. CASE UNCHANGED vars
    BY <2>1 DEF vars, AcceptWoken, ShutDown, Running
  <2>2. CASE Owner
    BY <2>2, ServerAssumption, OwnerWakes
  <2>3. ASSUME NEW w \in Workers, Thread(w) PROVE AcceptWoken'
    BY <2>3, ServerAssumption, ThreadStaysWoken
  <2>4. ASSUME NEW c \in Clients, ClientConnect(c) PROVE AcceptWoken'
    <3>1. backlog' # <<>>
      BY <2>4, SMT DEF ClientConnect, ServerInv, TypeOK
    <3> QED
      BY <3>1 DEF AcceptWoken
  <2> QED
    BY <2>1, <2>2, <2>3, <2>4 DEF Next
<1> QED
  BY <1>1, <1>2, ServerInvHolds, PTL DEF Spec

(* No wakeup is lost: once shutdown() has returned, the threads it is to   *)
(* stop never all wait, whatever the order of the flag, the counter, its   *)
(* connection and the turns at mMutex.  This is why ShutdownStops holds.   *)
THEOREM NobodyStuckHolds == Spec => []NobodyStuck
<1>1. ServerInv /\ AcceptWoken => NobodyStuck
  BY AcceptWokenImplies
<1> QED
  BY <1>1, ServerInvHolds, AcceptWokenHolds, PTL

-----------------------------------------------------------------------------
(* While the master forks the first children it has one pid per turn of    *)
(* its loop, and it never has more than there are procs.                   *)
OnePidPerProc ==
  /\ master \in {"none", "starting", "forking"} => i = Len(mPidList)
  /\ Len(mPidList) <= MaxProcs

PreforkInv ==
  /\ PreforkTypeOK
  /\ OnePidPerProc
  /\ ChildIsListed

-----------------------------------------------------------------------------
LEMMA Numbers ==
  ASSUME PreforkAssumption, PreforkTypeOK
  PROVE  MaxProcs \in Nat /\ i \in Nat /\ i <= MaxProcs /\ Len(mPidList) \in Nat
<1>1. MaxProcs \in Nat /\ i \in 0..MaxProcs /\ mPidList \in Seq(Pids)
  BY DEF PreforkAssumption, PreforkTypeOK
<1> QED
  BY <1>1

LEMMA PreforkInvInit == ASSUME PreforkAssumption PROVE PreforkInit => PreforkInv
<1> SUFFICES ASSUME PreforkInit PROVE PreforkInv
  OBVIOUS
<1>1. MaxProcs \in Nat \ {0}
  BY DEF PreforkAssumption
<1>2. PreforkTypeOK
  <2>1. 0 \in 0..MaxProcs /\ 0 \in 0..(MaxProcs - 1)
    BY <1>1
  <2>2. i \in 0..MaxProcs /\ index \in [Pids -> 0..(MaxProcs - 1)] /\ served \in [Pids -> Nat]
    BY <2>1 DEF PreforkInit
  <2>3. mPidList \in Seq(Pids)
    BY DEF PreforkInit
  <2> QED
    BY <2>2, <2>3 DEF PreforkInit, PreforkTypeOK
<1>3. OnePidPerProc
  BY <1>1 DEF PreforkInit, OnePidPerProc
<1>4. ChildIsListed
  BY DEF PreforkInit, ChildIsListed, Children
<1> QED
  BY <1>2, <1>3, <1>4 DEF PreforkInv

-----------------------------------------------------------------------------
(* The functions over pids, when a process is forked and when one ends.    *)
LEMMA ForkTypes ==
  ASSUME PreforkAssumption, PreforkTypeOK, NEW p \in Pids, NEW j \in 0..(MaxProcs - 1), Fork(p, j)
  PROVE  /\ proc' \in [Pids -> {"free", "child", "foreign"}]
         /\ index' \in [Pids -> 0..(MaxProcs - 1)]
         /\ served' \in [Pids -> Nat]
         /\ Children' = Children \cup {p}
         /\ index'[p] = j
         /\ \A q \in Children : q # p /\ index'[q] = index[q]
<1>1. /\ proc \in [Pids -> {"free", "child", "foreign"}]
      /\ index \in [Pids -> 0..(MaxProcs - 1)]
      /\ served \in [Pids -> Nat]
  BY DEF PreforkTypeOK
<1>2. /\ proc' = [proc EXCEPT ![p] = "child"]
      /\ index' = [index EXCEPT ![p] = j]
      /\ served' = [served EXCEPT ![p] = 0]
      /\ proc[p] = "free"
  BY DEF Fork, Free
<1>3. proc' \in [Pids -> {"free", "child", "foreign"}]
  BY <1>1, <1>2
<1>4. index' \in [Pids -> 0..(MaxProcs - 1)]
  BY <1>1, <1>2
<1>5. served' \in [Pids -> Nat]
  BY <1>1, <1>2
<1>6. Children' = Children \cup {p}
  BY <1>1, <1>2 DEF Children
<1>7. index'[p] = j
  BY <1>1, <1>2
<1>8. \A q \in Children : q # p /\ index'[q] = index[q]
  BY <1>1, <1>2 DEF Children
<1> QED
  BY <1>3, <1>4, <1>5, <1>6, <1>7, <1>8

LEMMA GoneKeeps ==
  ASSUME PreforkAssumption, PreforkInv, NEW p \in Pids, Gone(p),
         term' \subseteq Pids \cup {Master}
  PROVE  PreforkInv'
<1>1. /\ proc \in [Pids -> {"free", "child", "foreign"}]
      /\ index \in [Pids -> 0..(MaxProcs - 1)]
      /\ served \in [Pids -> Nat]
  BY DEF PreforkInv, PreforkTypeOK
<1>2. /\ proc' = [proc EXCEPT ![p] = "free"]
      /\ index' = [index EXCEPT ![p] = 0]
      /\ served' = [served EXCEPT ![p] = 0]
      /\ UNCHANGED <<master, i, mPidList, peer>>
  BY DEF Gone
<1>3. proc' \in [Pids -> {"free", "child", "foreign"}]
  BY <1>1, <1>2
<1>4. index' \in [Pids -> 0..(MaxProcs - 1)]
  <2>1. 0 \in 0..(MaxProcs - 1)
    BY DEF PreforkAssumption
  <2> QED
    BY <1>1, <1>2, <2>1
<1>5. served' \in [Pids -> Nat]
  BY <1>1, <1>2
<1>6. PreforkTypeOK'
  BY <1>2, <1>3, <1>4, <1>5 DEF PreforkInv, PreforkTypeOK
<1>7. OnePidPerProc'
  BY <1>2 DEF PreforkInv, OnePidPerProc
<1>8. ChildIsListed'
  <2>1. \A q \in Children' : q \in Children /\ index'[q] = index[q]
    BY <1>1, <1>2 DEF Children
  <2> QED
    BY <1>2, <2>1 DEF PreforkInv, ChildIsListed
<1> QED
  BY <1>6, <1>7, <1>8 DEF PreforkInv

(* Steps of the master's loop that fork nobody.                            *)
LEMMA MasterKeeps ==
  ASSUME PreforkAssumption, PreforkInv, UNCHANGED <<mPidList, proc, index, served, term, peer>>,
         master' \in {"none", "starting", "forking", "sleeping", "checking", "gone"},
         i' \in 0..MaxProcs,
         master' \in {"none", "starting", "forking"} => i' = Len(mPidList)
  PROVE  PreforkInv'
<1>1. PreforkTypeOK'
  BY DEF PreforkInv, PreforkTypeOK
<1>2. OnePidPerProc'
  BY DEF PreforkInv, OnePidPerProc
<1>3. ChildIsListed'
  BY DEF PreforkInv, ChildIsListed, Children
<1> QED
  BY <1>1, <1>2, <1>3 DEF PreforkInv

LEMMA ForkFirstKeeps == ASSUME PreforkAssumption, PreforkInv, ForkFirst PROVE PreforkInv'
<1>1. PICK p \in Pids : Fork(p, i) /\ mPidList' = Append(mPidList, p)
  BY DEF ForkFirst
<1>2. /\ i = Len(mPidList) /\ i \in Nat /\ i < MaxProcs /\ MaxProcs \in Nat /\ i' = i + 1
      /\ mPidList \in Seq(Pids) /\ UNCHANGED <<master, term, peer>>
  BY Numbers DEF PreforkInv, PreforkTypeOK, OnePidPerProc, ForkFirst
<1>3. i \in 0..(MaxProcs - 1) /\ i' \in 0..MaxProcs
  BY <1>2
<1>4. /\ mPidList' \in Seq(Pids) /\ Len(mPidList') = i + 1
      /\ DOMAIN mPidList = 1..i /\ DOMAIN mPidList' = 1..(i + 1)
      /\ mPidList'[i + 1] = p /\ \A n \in 1..i : mPidList'[n] = mPidList[n]
  BY <1>1, <1>2
<1>5. PreforkTypeOK'
  BY <1>1, <1>2, <1>3, <1>4, ForkTypes DEF PreforkInv, PreforkTypeOK
<1>6. OnePidPerProc'
  BY <1>2, <1>4 DEF OnePidPerProc
<1>7. ChildIsListed'
  <2>1. Children' = Children \cup {p} /\ index'[p] = i
        /\ \A q \in Children : index'[q] = index[q]
    BY <1>1, <1>3, ForkTypes DEF PreforkInv
  <2>2. \A q \in Children : index[q] + 1 \in 1..i /\ mPidList[index[q] + 1] = q
    BY <1>4 DEF PreforkInv, ChildIsListed
  <2>3. \A q \in Children : index'[q] + 1 \in 1..(i + 1) /\ mPidList'[index'[q] + 1] = q
    BY <1>2, <1>4, <2>1, <2>2
  <2>4. index'[p] + 1 \in 1..(i + 1) /\ mPidList'[index'[p] + 1] = p
    BY <1>2, <1>4, <2>1
  <2> QED
    BY <1>4, <2>1, <2>3, <2>4 DEF ChildIsListed
<1> QED
  BY <1>5, <1>6, <1>7 DEF PreforkInv

(* The pid that is written over is no child's, and the child that has this *)
(* index, if there is one, is listed there.                                *)
LEMMA ReplaceKeeps == ASSUME PreforkAssumption, PreforkInv, Replace PROVE PreforkInv'
<1>1. PICK p \in Pids : Fork(p, i) /\ mPidList' = [mPidList EXCEPT ![i + 1] = p]
  BY DEF Replace
<1>2. /\ i \in Nat /\ i < Len(mPidList) /\ Len(mPidList) \in Nat /\ Len(mPidList) <= MaxProcs
      /\ MaxProcs \in Nat /\ i' = i + 1 /\ mPidList \in Seq(Pids)
      /\ master = "checking" /\ proc[mPidList[i + 1]] # "child"
      /\ UNCHANGED <<master, term, peer>>
  BY Numbers DEF PreforkInv, PreforkTypeOK, OnePidPerProc, Replace, Checking
<1>3. i \in 0..(MaxProcs - 1) /\ i' \in 0..MaxProcs /\ i + 1 \in DOMAIN mPidList
  BY <1>2
<1>4. /\ mPidList' \in Seq(Pids) /\ Len(mPidList') = Len(mPidList)
      /\ DOMAIN mPidList' = DOMAIN mPidList
      /\ mPidList'[i + 1] = p
      /\ \A n \in DOMAIN mPidList : n # i + 1 => mPidList'[n] = mPidList[n]
  BY <1>1, <1>2, <1>3
<1>5. PreforkTypeOK'
  BY <1>1, <1>2, <1>3, <1>4, ForkTypes DEF PreforkInv, PreforkTypeOK
<1>6. OnePidPerProc'
  BY <1>2, <1>4 DEF OnePidPerProc
<1>7. ChildIsListed'
  <2>1. Children' = Children \cup {p} /\ index'[p] = i
        /\ \A q \in Children : index'[q] = index[q]
    BY <1>1, <1>3, ForkTypes DEF PreforkInv
  <2>2. \A q \in Children : index[q] + 1 \in DOMAIN mPidList /\ mPidList[index[q] + 1] = q
    BY DEF PreforkInv, ChildIsListed
  <2>3. \A q \in Children : index[q] + 1 # i + 1
    BY <1>2, <2>2 DEF Children
  <2> QED
    BY <1>3, <1>4, <2>1, <2>2, <2>3 DEF ChildIsListed
<1> QED
  BY <1>5, <1>6, <1>7 DEF PreforkInv

(* Steps that change processes of other programs, children's counters,     *)
(* connections and signals only.                                           *)
LEMMA OthersKeep ==
  ASSUME PreforkInv, UNCHANGED <<master, i, mPidList, index>>, Children' = Children,
         proc' \in [Pids -> {"free", "child", "foreign"}], served' \in [Pids -> Nat],
         term' \subseteq Pids \cup {Master},
         peer' \in [Peers -> {"new", "queued", "closed"}]
  PROVE  PreforkInv'
<1>1. PreforkTypeOK'
  BY DEF PreforkInv, PreforkTypeOK
<1>2. OnePidPerProc'
  BY DEF PreforkInv, OnePidPerProc
<1>3. ChildIsListed'
  BY DEF PreforkInv, ChildIsListed
<1> QED
  BY <1>1, <1>2, <1>3 DEF PreforkInv

LEMMA SignalKeeps ==
  ASSUME PreforkInv, NEW targets, targets \subseteq Group, Terminate(targets)
  PROVE  PreforkInv'
<1>1. Group \subseteq Pids \cup {Master}
  BY DEF Group, Children
<1>2. term' \subseteq Pids \cup {Master}
  BY <1>1 DEF PreforkInv, PreforkTypeOK, Terminate
<1>3. UNCHANGED <<master, i, mPidList, index, proc, served, peer>>
  BY DEF Terminate
<1> QED
  BY <1>2, <1>3, OthersKeep DEF PreforkInv, PreforkTypeOK, Children

LEMMA ServeKeeps ==
  ASSUME PreforkInv, NEW p \in Pids, Serve(p) \/ ServeFails(p)
  PROVE  PreforkInv'
<1>1. served \in [Pids -> Nat] /\ peer \in [Peers -> {"new", "queued", "closed"}]
  BY DEF PreforkInv, PreforkTypeOK
<1>2. served' \in [Pids -> Nat]
  BY <1>1 DEF Serve, ServeFails
<1>3. peer' \in [Peers -> {"new", "queued", "closed"}]
  <2>1. CASE Serve(p)
    BY <1>1, <2>1 DEF Serve
  <2>2. CASE ServeFails(p)
    BY <1>1, <2>2 DEF ServeFails
  <2> QED
    BY <2>1, <2>2
<1>4. UNCHANGED <<master, i, mPidList, proc, index, term>>
  BY DEF Serve, ServeFails
<1> QED
  BY <1>2, <1>3, <1>4, OthersKeep DEF PreforkInv, PreforkTypeOK, Children

LEMMA ForeignKeeps == ASSUME PreforkInv, ForeignStarts \/ ForeignEnds PROVE PreforkInv'
<1>1. proc \in [Pids -> {"free", "child", "foreign"}]
  BY DEF PreforkInv, PreforkTypeOK
<1>2. PICK p \in Pids, x \in {"free", "foreign"} :
        proc[p] # "child" /\ proc' = [proc EXCEPT ![p] = x]
  BY DEF ForeignStarts, ForeignEnds, Free
<1>3. proc' \in [Pids -> {"free", "child", "foreign"}] /\ Children' = Children
  BY <1>1, <1>2 DEF Children
<1>4. UNCHANGED <<master, i, mPidList, index, served, term, peer>>
  BY DEF ForeignStarts, ForeignEnds
<1> QED
  BY <1>3, <1>4, OthersKeep DEF PreforkInv, PreforkTypeOK

LEMMA PreforkInvNext ==
  ASSUME PreforkAssumption
  PROVE  PreforkInv /\ [PreforkNext]_preforkVars => PreforkInv'
<1> SUFFICES ASSUME PreforkInv, [PreforkNext]_preforkVars PROVE PreforkInv'
  OBVIOUS
<1>n. /\ i \in 0..MaxProcs /\ MaxProcs \in Nat /\ Len(mPidList) \in Nat
      /\ Len(mPidList) <= MaxProcs
      /\ master \in {"none", "starting", "forking", "sleeping", "checking", "gone"}
      /\ master \in {"none", "starting", "forking"} => i = Len(mPidList)
      /\ term \subseteq Pids \cup {Master} /\ Group \subseteq Pids \cup {Master}
  BY Numbers DEF PreforkInv, PreforkTypeOK, OnePidPerProc, Group, Children
<1>1. CASE Run \/ MasterListens \/ MasterListenFails \/ ForkFirstFails \/ Sleep
  BY <1>n, <1>1, MasterKeeps DEF Run, MasterListens, MasterListenFails, ForkFirstFails, Sleep
<1>2. CASE BeginCheck
  BY <1>n, <1>2, MasterKeeps DEF BeginCheck
<1>3. CASE CheckAlive \/ ReplaceFails
  <2>1. i < Len(mPidList) /\ i' = i + 1 /\ master' = "checking"
    BY <1>3 DEF CheckAlive, ReplaceFails, Checking
  <2>2. i' \in 0..MaxProcs
    BY <1>n, <2>1
  <2> QED
    BY <1>3, <2>1, <2>2, MasterKeeps DEF CheckAlive, ReplaceFails
<1>4. CASE ForkFirst
  BY <1>4, ForkFirstKeeps
<1>5. CASE Replace
  BY <1>5, ReplaceKeeps
<1>6. ASSUME NEW p \in Pids, Serve(p) \/ ServeFails(p) PROVE PreforkInv'
  BY <1>6, ServeKeeps
<1>7. ASSUME NEW p \in Pids, Retire(p) \/ Crash(p) \/ TermChild(p) PROVE PreforkInv'
  <2>1. Gone(p) /\ term' \subseteq Pids \cup {Master}
    BY <1>n, <1>7 DEF Retire, Crash, TermChild
  <2> QED
    BY <2>1, GoneKeeps
<1>8. CASE TermMaster
  <2>1. term' \subseteq Pids \cup {Master} /\ master' = "gone"
        /\ UNCHANGED <<i, mPidList, proc, index, served, peer>>
    BY <1>n, <1>8 DEF TermMaster
  <2>2. PreforkTypeOK'
    BY <2>1 DEF PreforkInv, PreforkTypeOK
  <2>3. OnePidPerProc' /\ ChildIsListed'
    BY <2>1 DEF PreforkInv, OnePidPerProc, ChildIsListed, Children
  <2> QED
    BY <2>2, <2>3 DEF PreforkInv
<1>9. ASSUME NEW p \in Group, Terminate({p}) PROVE PreforkInv'
  BY <1>9, SignalKeeps
<1>10. CASE Terminate(Group)
  BY <1>10, SignalKeeps
<1>11. CASE ForeignStarts \/ ForeignEnds
  BY <1>11, ForeignKeeps
<1>12. ASSUME NEW c \in Peers, Connect(c) PROVE PreforkInv'
  <2>1. peer' \in [Peers -> {"new", "queued", "closed"}]
    BY <1>12 DEF Connect, PreforkInv, PreforkTypeOK
  <2>2. UNCHANGED <<master, i, mPidList, proc, index, served, term>>
    BY <1>12 DEF Connect
  <2> QED
    BY <1>n, <2>1, <2>2, OthersKeep DEF PreforkInv, PreforkTypeOK, Children
<1>13. CASE UNCHANGED preforkVars
  BY <1>n, <1>13, OthersKeep DEF preforkVars, PreforkInv, PreforkTypeOK, Children
<1> QED
  BY <1>1, <1>2, <1>3, <1>4, <1>5, <1>6, <1>7, <1>8, <1>9, <1>10, <1>11, <1>12, <1>13
  DEF PreforkNext, Loop

LEMMA PreforkInvHolds == PreforkSpec => []PreforkInv
<1>1. PreforkInit => PreforkInv
  BY PreforkAssumption, PreforkInvInit
<1>2. PreforkInv /\ [PreforkNext]_preforkVars => PreforkInv'
  BY PreforkAssumption, PreforkInvNext
<1> QED
  BY <1>1, <1>2, PTL DEF PreforkSpec

-----------------------------------------------------------------------------
(* With any number of procs and pids, the variables keep their types; the  *)
(* loop variable of runForever() stays within the list.                    *)
THEOREM PreforkTypeCorrect == PreforkSpec => []PreforkTypeOK
BY PreforkInvHolds, PTL DEF PreforkInv

(* Whatever dies, retires, is signalled or is given a pid again, the       *)
(* master never has two children for a proc, and lists each for its own.   *)
THEOREM ChildIsListedHolds == PreforkSpec => []ChildIsListed
BY PreforkInvHolds, PTL DEF PreforkInv

-----------------------------------------------------------------------------
(* The group is doomed once the master has SIGTERM pending, or has ended   *)
(* and every child has it pending.                                         *)
Doomed ==
  \/ Master \in term /\ master # "gone"
  \/ master = "gone" /\ Children \subseteq term

(* Only a master that listens has forked.                                  *)
ForkedByMaster == master \in {"none", "starting"} => Children = {}

LEMMA ForkedByMasterNext == ForkedByMaster /\ PreforkInv /\ [PreforkNext]_preforkVars => ForkedByMaster'
<1> SUFFICES ASSUME ForkedByMaster, PreforkInv, [PreforkNext]_preforkVars PROVE ForkedByMaster'
  OBVIOUS
<1>1. CASE Run \/ MasterListens \/ MasterListenFails \/ ForkFirstFails \/ Sleep \/ BeginCheck
             \/ CheckAlive \/ ReplaceFails
  BY <1>1 DEF Run, MasterListens, MasterListenFails, ForkFirstFails, Sleep, BeginCheck, CheckAlive,
              ReplaceFails, ForkedByMaster, Children
<1>2. CASE ForkFirst \/ Replace
  BY <1>2 DEF ForkFirst, Replace, Checking, ForkedByMaster
<1>3. ASSUME NEW p \in Pids,
             Serve(p) \/ ServeFails(p) \/ Retire(p) \/ Crash(p) \/ TermChild(p)
      PROVE  ForkedByMaster'
  <2>1. Children' \subseteq Children /\ master' = master
    BY <1>3 DEF Serve, ServeFails, Retire, Crash, TermChild, Gone, Children, PreforkInv, PreforkTypeOK
  <2> QED
    BY <2>1 DEF ForkedByMaster
<1>4. CASE TermMaster
  BY <1>4 DEF TermMaster, ForkedByMaster
<1>5. ASSUME NEW targets, Terminate(targets) PROVE ForkedByMaster'
  BY <1>5 DEF Terminate, ForkedByMaster, Children
<1>6. CASE ForeignStarts \/ ForeignEnds
  <2>1. Children' \subseteq Children /\ master' = master
    BY <1>6 DEF ForeignStarts, ForeignEnds, Children, PreforkInv, PreforkTypeOK
  <2> QED
    BY <2>1 DEF ForkedByMaster
<1>7. ASSUME NEW c \in Peers, Connect(c) PROVE ForkedByMaster'
  BY <1>7 DEF Connect, ForkedByMaster, Children
<1>8. CASE UNCHANGED preforkVars
  BY <1>8 DEF preforkVars, ForkedByMaster, Children
<1> QED
  BY <1>1, <1>2, <1>3, <1>4, <1>5, <1>6, <1>7, <1>8 DEF PreforkNext, Loop

(* What a process that handles SIGTERM does to the others.                 *)
LEMMA TermDooms ==
  ASSUME PreforkAssumption, PreforkInv, ForkedByMaster,
         TermMaster \/ \E p \in Pids : TermChild(p)
  PROVE  Doomed'
<1>1. CASE TermMaster
  <2>1. master' = "gone" /\ Children' = Children /\ term' = (term \cup Group) \ {Master}
    BY <1>1 DEF TermMaster, Children
  <2>2. Children \subseteq Group /\ Master \notin Children
    BY DEF Group, Children, PreforkAssumption
  <2> QED
    BY <2>1, <2>2 DEF Doomed
<1>2. ASSUME NEW p \in Pids, TermChild(p) PROVE Doomed'
  <2>1. /\ master' = master /\ p \in Children /\ Children' = Children \ {p}
        /\ term' = (term \cup Group) \ {p}
    BY <1>2 DEF TermChild, Gone, Children, PreforkInv, PreforkTypeOK
  <2>2. master # "none" /\ p # Master
    BY <2>1 DEF ForkedByMaster, PreforkAssumption
  <2>3. Children \subseteq Group /\ (master # "gone" => Master \in Group)
    BY <2>2 DEF Group
  <2> QED
    BY <2>1, <2>2, <2>3 DEF Doomed
<1> QED
  BY <1>1, <1>2

(* Nothing lifts it: a master with the signal pending ends by handling it, *)
(* or before it has children, and once it has ended nobody forks.          *)
LEMMA DoomedStays ==
  ASSUME PreforkAssumption, PreforkInv, ForkedByMaster, Doomed, [PreforkNext]_preforkVars
  PROVE  Doomed'
<1>1. CASE Run \/ MasterListens \/ ForkFirstFails \/ Sleep \/ BeginCheck \/ CheckAlive \/ ReplaceFails
  BY <1>1 DEF Run, MasterListens, ForkFirstFails, Sleep, BeginCheck, CheckAlive, ReplaceFails,
              Checking, Doomed
<1>2. CASE MasterListenFails
  <2>1. master' = "gone" /\ Children' = {}
    BY <1>2 DEF MasterListenFails, ForkedByMaster, Children
  <2> QED
    BY <2>1 DEF Doomed
<1>3. CASE ForkFirst \/ Replace
  BY <1>3 DEF ForkFirst, Replace, Checking, Doomed
<1>4. ASSUME NEW p \in Pids, Serve(p) \/ ServeFails(p) PROVE Doomed'
  BY <1>4 DEF Serve, ServeFails, Children, Doomed
<1>5. ASSUME NEW p \in Pids, Retire(p) \/ Crash(p) PROVE Doomed'
  <2>1. master' = master /\ Children' = Children \ {p} /\ term' = term \ {p} /\ p # Master
    BY <1>5 DEF Retire, Crash, Gone, Children, PreforkInv, PreforkTypeOK, PreforkAssumption
  <2> QED
    BY <2>1 DEF Doomed
<1>6. CASE TermMaster \/ \E p \in Pids : TermChild(p)
  BY <1>6, TermDooms
<1>7. ASSUME NEW targets, Terminate(targets) PROVE Doomed'
  BY <1>7 DEF Terminate, Children, Doomed
<1>8. CASE ForeignStarts \/ ForeignEnds
  <2>1. Children' \subseteq Children /\ master' = master /\ term' = term
    BY <1>8 DEF ForeignStarts, ForeignEnds, Children, PreforkInv, PreforkTypeOK
  <2> QED
    BY <2>1 DEF Doomed
<1>9. ASSUME NEW c \in Peers, Connect(c) PROVE Doomed'
  BY <1>9 DEF Connect, Children, Doomed
<1>10. CASE UNCHANGED preforkVars
  BY <1>10 DEF preforkVars, Children, Doomed
<1> QED
  BY <1>1, <1>2, <1>3, <1>4, <1>5, <1>6, <1>7, <1>8, <1>9, <1>10 DEF PreforkNext, Loop

(* SIGTERM reaches the whole group: from the first process that handles it *)
(* on, the master has it pending or every child has, also the children     *)
(* that were forked while it was on its way.  No step undoes this.         *)
THEOREM TermDoomsGroup ==
  PreforkSpec => [][Doomed \/ TermMaster \/ (\E p \in Pids : TermChild(p)) => Doomed']_preforkVars
<1>1. PreforkInit => ForkedByMaster
  BY DEF PreforkInit, ForkedByMaster, Children
<1>2. PreforkInv /\ ForkedByMaster /\ [PreforkNext]_preforkVars
        => [Doomed \/ TermMaster \/ (\E p \in Pids : TermChild(p)) => Doomed']_preforkVars
  BY PreforkAssumption, TermDooms, DoomedStays
<1>3. ForkedByMaster /\ PreforkInv /\ [PreforkNext]_preforkVars => ForkedByMaster'
  BY ForkedByMasterNext
<1> QED
  BY <1>1, <1>2, <1>3, PreforkInvHolds, PTL DEF PreforkSpec
=============================================================================
