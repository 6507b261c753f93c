----------------------------- MODULE MCRedirect -----------------------------
(* Redirect with a pool of three addresses and four names. *)
EXTENDS Redirect, TLC

CONSTANTS t1, t2, n1, n2, n3, n4

MCThreads == {t1, t2}
MCNames == {n1, n2, n3, n4}

MCSymmetry == Permutations(MCThreads) \cup Permutations(MCNames)
=============================================================================
