--------------------------- MODULE MCSkiaService ---------------------------
(* Two instances, and a name that differs from one of them in case only; for *)
(* the second configuration file also a name that the daemon refuses.        *)
EXTENDS SkiaService, FiniteSets, TLC

MCNames == {"web", "Web", "home"}
MCMoreNames == MCNames \cup {"my web"}
MCLower == [n \in Typed |-> IF n = "Web" THEN "web" ELSE n]

(* One of the two instances at most is torn or mixed, and only a request for *)
(* it is made then.                                                          *)
OneLost == Cardinality(torn \cup mixed) <= 1
LostFirst == frames # <<>> => torn \cup mixed \subseteq Handled
=============================================================================
