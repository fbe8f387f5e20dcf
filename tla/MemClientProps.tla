--------------------------- MODULE MemClientProps ---------------------------
(***************************************************************************)
(* The properties of MemClient.                                            *)
(***************************************************************************)
EXTENDS MemClient

Places == {"out", "get", "connect", "send", "line", "data", "after", "save", "delete"}

(* The variables of the calls and the connections have their types, and a  *)
(* call that is over has talked to all its endpoints.                      *)
TypeOK ==
  /\ op \in [Users -> Ops \cup {"out"}] /\ at \in [Users -> Places]
  /\ \A u \in Users :
       /\ Range(todo[u]) \subseteq EndPoints
       /\ (at[u] = "out") = (todo[u] = <<>>) /\ (at[u] = "out") = (op[u] = "out")
  /\ owes \in [Sockets -> Ops \cup {Nil}] /\ eof \in [Sockets -> BOOLEAN]
  /\ \A s \in Sockets : Range(pipe[s]) \subseteq
       {"ok", "no", "error", "END", "VALUE", "data", "eol", "STAT", "cut"}

(* A connection goes back to the pool only when its last reply has been    *)
(* read to the end: a thread that gets it later is not given the answer to *)
(* another thread's request (spnkmemcli.cpp:86, 104, 158 and so on); and a *)
(* thread that is in no call has no connection left.                       *)
GivenBack ==
  /\ \A s \in Pool!Idle : pipe[s] = <<>> /\ owes[s] = Nil
  /\ \A u \in Users : at[u] \in {"out", "get", "connect"} => held[u] = {}

(* A thread that talks to a server.                                        *)
Talking(u) == at[u] \in {"send", "line", "data", "after", "save", "delete"}

(* Whatever fails at one of the endpoints of a call, the thread talks to   *)
(* the endpoint whose turn it is, over a connection that nobody else uses  *)
(* and that is not in the pool, until it saves or deletes it; so none is   *)
(* saved or deleted twice, none that is gone lies in the pool, and none is *)
(* left over (spnkmemcli.cpp:153-161, 234-251).                            *)
OwnConnection ==
  /\ \A u \in Users : Talking(u) =>
       \E s \in live \ Pool!Idle :
         /\ held[u] = {s} /\ dest[s] = todo[u][1]
         /\ \A v \in Users \ {u} : s \notin held[v]
  /\ Pool!Idle \subseteq live
  /\ \A s \in live \ Pool!Idle : \E u \in Users : Talking(u) /\ s \in held[u]
=============================================================================
