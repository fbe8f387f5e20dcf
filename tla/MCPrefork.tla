----------------------------- MODULE MCPrefork -----------------------------
(* Prefork with two procs and a few pids.                                  *)
EXTENDS PreforkProps, TLC

PreforkSymmetry == Permutations(Pids) \cup Permutations(Peers)
=============================================================================
