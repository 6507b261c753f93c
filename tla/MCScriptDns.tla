----------------------------- MODULE MCScriptDns -----------------------------
(* ScriptDns with a host whose name is short, one whose name is long, and    *)
(* one that the hooks leave alone.                                           *)
EXTENDS ScriptDns, TLC

CONSTANTS short, long, localhost, t1, t2, a1

MCHosts == {short, long, localhost}
MCBypassed == {localhost}
MCLong == {long}
MCThreads == {t1, t2}
MCAddresses == {a1}

MCSymmetry == Permutations(MCThreads)
=============================================================================
