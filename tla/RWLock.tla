------------------------------- MODULE RWLock -------------------------------
(***************************************************************************)
(* What a reader/writer lock promises to skia::query_proxy and             *)
(* resolve_table: a thread owns the lock exclusively only while nobody     *)
(* else owns it in any way.  Nothing is said of how a thread waits.        *)
(* SharedMutex.tla, the model of libc++/shared_mutex.cpp, is shown to      *)
(* implement this specification.                                           *)
(***************************************************************************)

CONSTANT Threads    \* the threads that share the lock

VARIABLES writers,  \* the threads that own the lock exclusively
          readers   \* the threads that own it in shared mode

rwVars == <<writers, readers>>

Init == writers = {} /\ readers = {}

AcquireExclusive(t) ==
    /\ writers = {} /\ readers = {}
    /\ writers' = {t}
    /\ UNCHANGED readers

ReleaseExclusive(t) ==
    /\ t \in writers
    /\ writers' = writers \ {t}
    /\ UNCHANGED readers

AcquireShared(t) ==
    /\ writers = {} /\ t \notin readers
    /\ readers' = readers \cup {t}
    /\ UNCHANGED writers

ReleaseShared(t) ==
    /\ t \in readers
    /\ readers' = readers \ {t}
    /\ UNCHANGED writers

Next == \E t \in Threads : \/ AcquireExclusive(t) \/ ReleaseExclusive(t)
                           \/ AcquireShared(t)    \/ ReleaseShared(t)

Spec == Init /\ [][Next]_rwVars
=============================================================================
