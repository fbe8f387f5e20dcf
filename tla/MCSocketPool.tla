---------------------------- MODULE MCSocketPool ----------------------------
(* SocketPool with a few threads, endpoints and sockets.                   *)
EXTENDS SocketPoolProps, TLC

PoolSymmetry ==
  Permutations(Users) \cup Permutations(Sockets) \cup Permutations(EndPoints)
=============================================================================
