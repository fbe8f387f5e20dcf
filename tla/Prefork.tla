------------------------------ MODULE Prefork ------------------------------
(***************************************************************************)
(* SP_NKPreforkManager and SP_NKPreforkServer (src/spnetkit/               *)
(* spnkprefork.cpp): a master process that forks mMaxProcs children, looks *)
(* for dead ones at every check interval and forks replacements; children  *)
(* that accept connections on the shared listening socket and exit after   *)
(* a number of them; and SIGTERM, which each process of the group passes   *)
(* on to the whole group before it exits.                                  *)
(*                                                                         *)
(* Processes are modelled by their pids, which the kernel uses again:      *)
(* SIGCHLD is ignored, so a child's pid is free as soon as it exits.       *)
(***************************************************************************)
EXTENDS Integers, Sequences, FiniteSets

CONSTANTS
  Pids,        \* pids of children and of processes of other programs
  Master,      \* the master process
  MaxProcs,    \* mMaxProcs
  MaxRequests, \* mMaxRequestsPerChild
  Peers,       \* each connects at most once
  Recycle,     \* may a freed pid be used again while the master lists it?
  Foreign      \* may processes of other programs take pids?

ASSUME PreforkAssumption ==
  /\ MaxProcs \in Nat \ {0} /\ MaxRequests \in Nat
  /\ Recycle \in BOOLEAN /\ Foreign \in BOOLEAN
  /\ Master \notin Pids

VARIABLES
  master,   \* "none", "starting", "forking", "sleeping", "checking" or "gone"
  i,        \* the loop variable of runForever()
  mPidList, \* position j + 1 is the pid of proc#j
  proc,     \* "free", "child" or "foreign"
  index,    \* the index a child was forked with
  served,   \* iterations of the accept loop of serverHandler() it has done
  term,     \* the processes with SIGTERM pending
  peer      \* what became of each client's connection

preforkVars == <<master, i, mPidList, proc, index, served, term, peer>>

PreforkInit ==
  /\ master = "none" /\ i = 0
  /\ mPidList = <<>>
  /\ proc = [p \in Pids |-> "free"]
  /\ index = [p \in Pids |-> 0]
  /\ served = [p \in Pids |-> 0]
  /\ term = {}
  /\ peer = [c \in Peers |-> "new"]

Children == {p \in Pids : proc[p] = "child"}
Listed == {mPidList[j] : j \in DOMAIN mPidList}
Free == {p \in Pids : proc[p] = "free" /\ (p \in Listed => Recycle)}

-----------------------------------------------------------------------------
(* run() forks the master, unless fork() fails: then the caller may try    *)
(* again.                                                                  *)
Run ==
  /\ master = "none" /\ master' = "starting"
  /\ UNCHANGED <<i, mPidList, proc, index, served, term, peer>>

(* runForever() of the server: with a socket to listen on it becomes the   *)
(* manager's, without one it returns.                                      *)
MasterListens ==
  /\ master = "starting" /\ master' = "forking"
  /\ UNCHANGED <<i, mPidList, proc, index, served, term, peer>>

MasterListenFails ==
  /\ master = "starting" /\ master' = "gone"
  /\ UNCHANGED <<i, mPidList, proc, index, served, term, peer>>

(* fork() of proc#j: a process with a pid that is free.  Signals pending   *)
(* for the master are not pending for the child.                           *)
Fork(p, j) ==
  /\ p \in Free
  /\ proc' = [proc EXCEPT ![p] = "child"]
  /\ index' = [index EXCEPT ![p] = j]
  /\ served' = [served EXCEPT ![p] = 0]

ForkFirst ==
  /\ master = "forking" /\ i < MaxProcs
  /\ \E p \in Pids : Fork(p, i) /\ mPidList' = Append(mPidList, p)
  /\ i' = i + 1
  /\ UNCHANGED <<master, term, peer>>

(* The master exits at once; the children it has forked stay.  A pending   *)
(* signal would be delivered before the exit().                            *)
ForkFirstFails ==
  /\ master = "forking" /\ i < MaxProcs
  /\ Master \notin term
  /\ master' = "gone"
  /\ UNCHANGED <<i, mPidList, proc, index, served, term, peer>>

Sleep ==
  /\ \/ master = "forking" /\ i = MaxProcs
     \/ master = "checking" /\ i = Len(mPidList)
  /\ master' = "sleeping"
  /\ UNCHANGED <<i, mPidList, proc, index, served, term, peer>>

BeginCheck ==
  /\ master = "sleeping"
  /\ master' = "checking" /\ i' = 0
  /\ UNCHANGED <<mPidList, proc, index, served, term, peer>>

(* kill(pid, 0) succeeds when some process has the pid.                    *)
Checking == master = "checking" /\ i < Len(mPidList)
Exists(p) == proc[p] # "free"

CheckAlive ==
  /\ Checking /\ Exists(mPidList[i + 1])
  /\ i' = i + 1
  /\ UNCHANGED <<master, mPidList, proc, index, served, term, peer>>

(* Slips the code could make, each named for its definition: a replacement *)
(* forked without a look at the pid; one that is told a wrong index.       *)
ReplaceAlways ==
  /\ Checking
  /\ \E p \in Pids : Fork(p, i) /\ mPidList' = [mPidList EXCEPT ![i + 1] = p]
  /\ i' = i + 1
  /\ UNCHANGED <<master, term, peer>>

ReplaceShifted ==
  /\ Checking /\ proc[mPidList[i + 1]] # "child"
  /\ \E p \in Pids : Fork(p, i + 1) /\ mPidList' = [mPidList EXCEPT ![i + 1] = p]
  /\ i' = i + 1
  /\ UNCHANGED <<master, term, peer>>

(* kill(pid, 0) fails for a foreign process the master may not signal.     *)
Replace ==
  /\ Checking /\ proc[mPidList[i + 1]] # "child"
  /\ \E p \in Pids : Fork(p, i) /\ mPidList' = [mPidList EXCEPT ![i + 1] = p]
  /\ i' = i + 1
  /\ UNCHANGED <<master, term, peer>>

(* The dead pid is left in the list for the next check.                    *)
ReplaceFails ==
  /\ Checking /\ proc[mPidList[i + 1]] # "child"
  /\ i' = i + 1
  /\ UNCHANGED <<master, mPidList, proc, index, served, term, peer>>

-----------------------------------------------------------------------------
(* serverHandler(): children accept different numbers of connections, so   *)
(* that they do not all exit together.                                     *)
Factor == IF MaxRequests \div 10 <= 0 THEN 1 ELSE MaxRequests \div 10
Limit(j) == MaxRequests + Factor * j

(* accept(), the handler and close(); the backlog is not kept in order.    *)
Serve(p) ==
  /\ proc[p] = "child" /\ served[p] < Limit(index[p])
  /\ \E c \in Peers :
       peer[c] = "queued" /\ peer' = [peer EXCEPT ![c] = "closed"]
  /\ served' = [served EXCEPT ![p] = @ + 1]
  /\ UNCHANGED <<master, i, mPidList, proc, index, term>>

(* An accept() that fails counts as well.                                  *)
ServeFails(p) ==
  /\ proc[p] = "child" /\ served[p] < Limit(index[p])
  /\ served' = [served EXCEPT ![p] = @ + 1]
  /\ UNCHANGED <<master, i, mPidList, proc, index, term, peer>>

(* A process that ends, and its local variables with it.                   *)
Gone(p) ==
  /\ proc' = [proc EXCEPT ![p] = "free"]
  /\ index' = [index EXCEPT ![p] = 0] /\ served' = [served EXCEPT ![p] = 0]
  /\ UNCHANGED <<master, i, mPidList, peer>>

Retire(p) ==
  /\ proc[p] = "child" /\ served[p] = Limit(index[p])
  /\ Gone(p) /\ term' = term \ {p}

(* A child may die at any time.                                            *)
Crash(p) == proc[p] = "child" /\ Gone(p) /\ term' = term \ {p}

-----------------------------------------------------------------------------
(* kill(0, SIGTERM): every process of the group gets the signal.           *)
Group == Children \cup (IF master \in {"none", "gone"} THEN {} ELSE {Master})

(* Someone sends SIGTERM to one process, or calls shutdown().              *)
Terminate(targets) ==
  /\ targets # {} /\ term' = term \cup targets
  /\ UNCHANGED <<master, i, mPidList, proc, index, served, peer>>

(* termHandler(), which children inherit: pass it on to the group, exit.   *)
TermChild(p) ==
  /\ p \in term /\ proc[p] = "child"
  /\ Gone(p) /\ term' = (term \cup Group) \ {p}

(* A master that exits without passing the signal on.                      *)
TermMasterQuiet ==
  /\ Master \in term /\ master # "gone"
  /\ master' = "gone" /\ term' = term \ {Master}
  /\ UNCHANGED <<i, mPidList, proc, index, served, peer>>

(* The same ends a master that has no handler and no children yet.         *)
TermMaster ==
  /\ Master \in term /\ master # "gone"
  /\ master' = "gone" /\ term' = (term \cup Group) \ {Master}
  /\ UNCHANGED <<i, mPidList, proc, index, served, peer>>

-----------------------------------------------------------------------------
(* External: other programs, and clients that connect.                     *)
ForeignStarts ==
  /\ Foreign
  /\ \E p \in Free : proc' = [proc EXCEPT ![p] = "foreign"]
  /\ UNCHANGED <<master, i, mPidList, index, served, term, peer>>

ForeignEnds ==
  /\ \E p \in Pids : proc[p] = "foreign" /\ proc' = [proc EXCEPT ![p] = "free"]
  /\ UNCHANGED <<master, i, mPidList, index, served, term, peer>>

(* The master and its children share the listening socket.                 *)
Listening == master \in {"forking", "sleeping", "checking"} \/ Children # {}

Connect(c) ==
  /\ Listening /\ peer[c] = "new"
  /\ peer' = [peer EXCEPT ![c] = "queued"]
  /\ UNCHANGED <<master, i, mPidList, proc, index, served, term>>

Loop == MasterListens \/ MasterListenFails \/ ForkFirst \/ ForkFirstFails \/ Sleep
          \/ BeginCheck \/ CheckAlive \/ Replace \/ ReplaceFails

PreforkNext ==
  \/ Run \/ Loop
  \/ \E p \in Pids : Serve(p) \/ ServeFails(p) \/ Retire(p) \/ Crash(p) \/ TermChild(p)
  \/ TermMaster
  \/ \E p \in Group : Terminate({p})
  \/ Terminate(Group)
  \/ ForeignStarts \/ ForeignEnds
  \/ \E c \in Peers : Connect(c)

PreforkSpec == PreforkInit /\ [][PreforkNext]_preforkVars

(* Processes run, a pending signal is delivered, and a fork() or accept()  *)
(* that is tried for ever succeeds in the end.                             *)
FairPreforkSpec ==
  /\ PreforkSpec
  /\ WF_preforkVars(Loop)
  /\ \A j \in 0..(MaxProcs - 1) : SF_preforkVars(Replace /\ i = j)
  /\ SF_preforkVars(\E p \in Pids : Serve(p))
  /\ \A p \in Pids : WF_preforkVars(Retire(p)) /\ WF_preforkVars(TermChild(p))
  /\ WF_preforkVars(TermMaster)
=============================================================================
