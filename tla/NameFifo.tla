------------------------------ MODULE NameFifo ------------------------------
(***************************************************************************)
(* What resolve_table promises: it remembers the names it gave an address  *)
(* to, each once, oldest first, and when all addresses are taken a new     *)
(* name takes the place of the oldest one.  Two threads that look up one   *)
(* new name at the same time make it void, for good.                       *)
(***************************************************************************)
EXTENDS Naturals, Sequences, SequencesExt

CONSTANTS Names,     \* the host names applications may ask for
          Capacity   \* how many can be remembered at a time

VARIABLES pool,      \* the remembered names, the oldest first
          raced      \* whether the promise is void

Init == pool = << >> /\ raced = FALSE

Remember(n) ==
    /\ ~raced /\ ~Contains(pool, n)
    /\ pool' = IF Len(pool) < Capacity THEN Append(pool, n)
                                       ELSE Append(Tail(pool), n)
    /\ UNCHANGED raced

Next == (\E n \in Names : Remember(n)) \/ raced' = TRUE

Spec == Init /\ [][Next]_<<pool, raced>>
=============================================================================
