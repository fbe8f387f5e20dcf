------------------------------ MODULE MCServer ------------------------------
(* Server with a few threads and clients.                                  *)
EXTENDS ServerProps, TLC

ServerSymmetry == Permutations(Workers) \cup Permutations(Clients)
=============================================================================
