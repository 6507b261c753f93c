---------------------------- MODULE MCSharedMutex ----------------------------
(* SharedMutex on a few threads.  The threads are interchangeable. *)
EXTENDS SharedMutex, TLC

ThreadSymmetry == Permutations(Threads)
=============================================================================
