------------------------------ MODULE MCFileLog ------------------------------
(* FileLog with two threads.                                               *)
EXTENDS FileLog, TLC
ThreadSymmetry == Permutations(Threads)
==============================================================================
