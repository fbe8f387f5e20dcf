---------------------------- MODULE MCMemClient ----------------------------
(* MemClient with two threads that share the connections to two servers.   *)
EXTENDS MemClientProps, TLC

MemSymmetry ==
  Permutations(Users) \cup Permutations(Sockets) \cup Permutations(EndPoints)
=============================================================================
