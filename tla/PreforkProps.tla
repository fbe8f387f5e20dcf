---------------------------- MODULE PreforkProps ----------------------------
(***************************************************************************)
(* The properties of Prefork.                                              *)
(***************************************************************************)
EXTENDS Prefork

(* Every variable ranges over what its C++ declaration can hold.           *)
PreforkTypeOK ==
  /\ master \in {"none", "starting", "forking", "sleeping", "checking", "gone"}
  /\ i \in 0..MaxProcs
  /\ mPidList \in Seq(Pids)
  /\ proc \in [Pids -> {"free", "child", "foreign"}]
  /\ index \in [Pids -> 0..(MaxProcs - 1)]
  /\ served \in [Pids -> Nat]
  /\ term \subseteq Pids \cup {Master}
  /\ peer \in [Peers -> {"new", "queued", "closed"}]

(* Every child is the one the master lists for its index, even when pids   *)
(* are used again: the master never forks a second child for a proc whose  *)
(* first one lives, so there are never more than mMaxProcs of them.        *)
ChildIsListed ==
  \A p \in Children :
    index[p] + 1 \in DOMAIN mPidList /\ mPidList[index[p] + 1] = p

-----------------------------------------------------------------------------
(* kill(pid, 0) answers for the pid in the list, whoever has it now: a     *)
(* process of another program, or another child of the same master, forked *)
(* for another proc with the freed pid (spnkprefork.cpp:92-104).  Such a   *)
(* proc is dead and the master takes it for alive.                         *)
Alive(j) ==
  /\ j \in DOMAIN mPidList
  /\ proc[mPidList[j]] = "child" /\ index[mPidList[j]] = j - 1
ByForeign(j) == j \in DOMAIN mPidList /\ proc[mPidList[j]] = "foreign"
BySibling(j) ==
  /\ j \in DOMAIN mPidList
  /\ proc[mPidList[j]] = "child" /\ index[mPidList[j]] # j - 1

(* Once run() has forked a master, every proc is forked, and one that has  *)
(* died is replaced, unless its pid is in use again when the master looks: *)
(* then it stays dead until the new holder of the pid dies too.            *)
Refilled ==
  \A j \in 1..MaxProcs :
    (master # "none" /\ ~Alive(j)) ~>
      (master = "gone" \/ Alive(j) \/ ByForeign(j) \/ BySibling(j))

(* SIGTERM ends the whole group, also a child that the master forks while  *)
(* the signal is on its way.                                               *)
TermEndsAll == Master \in term ~> (master = "gone" /\ Children = {})

(* A client that has connected is served, whatever children crash or       *)
(* retire, unless the master has gone or another program has the pid of a  *)
(* dead child.  A pid that a sibling has got delays nobody: the sibling    *)
(* accepts on the same socket.                                             *)
PeerServed ==
  \A c \in Peers : peer[c] = "queued" ~>
    (peer[c] = "closed" \/ master = "gone" \/ \E j \in 1..MaxProcs : ByForeign(j))

(* The group works while its master lives, and ends with it.               *)
GroupLivesAndEnds == Refilled /\ PeerServed /\ TermEndsAll
=============================================================================
