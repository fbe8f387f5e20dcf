----------------------------- MODULE MCTokenLock -----------------------------
(* TokenLock on small sets of threads and tokens.                          *)
EXTENDS TokenLockProps, TLC

ThreadSymmetry == Permutations(Threads)
==============================================================================
