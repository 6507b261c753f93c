----------------------------- MODULE MCConnect -----------------------------
(* Connect with two threads and four descriptors: each thread can have a     *)
(* socket of the application and one of the hook, and the table can be full. *)
EXTENDS Connect, TLC

MCSymmetry == Permutations(Threads) \cup Permutations(Targets)
=============================================================================
