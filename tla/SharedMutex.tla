----------------------------- MODULE SharedMutex -----------------------------
(***************************************************************************)
(* __shared_mutex_base and shared_timed_mutex of libc++/shared_mutex(.cpp):*)
(* the lock that guards the proxy cache and the resolve table.             *)
(*                                                                         *)
(* Every method runs with the internal mutex __mut_ held from its first    *)
(* statement to its return, except while it waits on a gate.  So one       *)
(* action below is one stretch of code between two points at which __mut_  *)
(* is free: from the call, or from a wake-up, to the next wait or to the   *)
(* return.  The word __state_ is kept as its two fields: the top bit       *)
(* write_entered and the count n_readers, at most MaxReaders.              *)
(*                                                                         *)
(* A gate is the set of the threads asleep on that condition variable.  A  *)
(* thread that was woken leaves the set and keeps its place in pc until it *)
(* gets __mut_ again and re-evaluates its loop condition.                  *)
(***************************************************************************)
EXTENDS Naturals, FiniteSets

CONSTANTS Threads,      \* the threads that use the lock
          MaxReaders    \* __n_readers_, the largest count the field holds

ASSUME ThreadsAssumption == IsFiniteSet(Threads)
ASSUME MaxReadersAssumption == MaxReaders \in Nat \ {0}

VARIABLES write_entered,   \* __state_ & __write_entered_
          n_readers,       \* __state_ & __n_readers_
          gate1, gate2,    \* the threads asleep on __gate1_ and __gate2_
          pc,              \* where each thread is
          timed            \* whether its call has a deadline (try_..._until)

vars == <<write_entered, n_readers, gate1, gate2, pc, timed>>

Places == {"idle",          \* owns nothing, waits for nothing
           "gate1_lock",    \* in lock, first loop
           "gate2_lock",    \* in lock, second loop: its write_entered bit is set
           "locked",        \* owns the lock exclusively
           "gate1_shared",  \* in lock_shared
           "shared"}        \* owns the lock in shared mode

Init == /\ write_entered = FALSE
        /\ n_readers = 0
        /\ gate1 = {} /\ gate2 = {}
        /\ pc = [t \in Threads |-> "idle"]
        /\ timed = [t \in Threads |-> FALSE]

Go(t, place) == pc' = [pc EXCEPT ![t] = place]

(* What notify_one may leave of a set of sleepers. *)
NotifyOne(gate) == IF gate = {} THEN {gate} ELSE {gate \ {t} : t \in gate}

-----------------------------------------------------------------------------
(* Stretches of lock and lock_shared between two waits.  A definition whose *)
(* name starts with Bug is an altered copy of the one after it, used to     *)
(* show that the properties depend on what the code does there.             *)

BugEnterWrite(t) ==      \* takes the lock while readers still own it
    /\ ~write_entered
    /\ write_entered' = TRUE
    /\ Go(t, "locked")
    /\ UNCHANGED <<n_readers, gate1, gate2, timed>>

(* Past the first gate: set the bit, then own the lock or wait for readers. *)
EnterWrite(t) ==
    /\ ~write_entered
    /\ write_entered' = TRUE
    /\ \/ n_readers = 0 /\ Go(t, "locked") /\ UNCHANGED gate2
       \/ n_readers # 0 /\ Go(t, "gate2_lock") /\ gate2' = gate2 \cup {t}
    /\ gate1' = gate1 \ {t}
    /\ UNCHANGED n_readers

BugCanShare == n_readers # MaxReaders      \* readers overtake a writer

BugCanShareAlways == ~write_entered        \* the count runs into the bit

CanShare == ~write_entered /\ n_readers # MaxReaders

EnterShared(t) ==
    /\ CanShare
    /\ n_readers' = n_readers + 1
    /\ Go(t, "shared")
    /\ gate1' = gate1 \ {t}
    /\ UNCHANGED <<write_entered, gate2>>

SleepAtGate1(t, place) ==
    /\ gate1' = gate1 \cup {t}
    /\ Go(t, place)
    /\ UNCHANGED <<write_entered, n_readers, gate2>>

-----------------------------------------------------------------------------
(* Exclusive ownership. *)

(* lock, or try_lock_until when deadline is TRUE. *)
lock(t, deadline) ==
    /\ pc[t] = "idle"
    /\ timed' = [timed EXCEPT ![t] = deadline]
    /\ EnterWrite(t) \/ (write_entered /\ SleepAtGate1(t, "gate1_lock"))

(* A failed try_lock changes nothing: only the successful one is a step. *)
try_lock(t) ==
    /\ pc[t] = "idle"
    /\ ~write_entered /\ n_readers = 0
    /\ write_entered' = TRUE
    /\ Go(t, "locked")
    /\ UNCHANGED <<n_readers, gate1, gate2, timed>>

BugUnlock(t) ==          \* forgets the threads asleep at the first gate
    /\ pc[t] = "locked"
    /\ write_entered' = FALSE /\ n_readers' = 0
    /\ Go(t, "idle")
    /\ UNCHANGED <<gate1, gate2, timed>>

unlock(t) ==
    /\ pc[t] = "locked"
    /\ write_entered' = FALSE /\ n_readers' = 0
    /\ gate1' = {}
    /\ Go(t, "idle")
    /\ UNCHANGED <<gate2, timed>>

(* A writer awake at a gate gets __mut_ back and tests its loop condition. *)
ResumeLock(t) ==
    /\ \/ /\ pc[t] = "gate1_lock" /\ t \notin gate1
          /\ EnterWrite(t) \/ (write_entered /\ SleepAtGate1(t, "gate1_lock"))
       \/ /\ pc[t] = "gate2_lock" /\ t \notin gate2
          /\ \/ n_readers = 0 /\ Go(t, "locked") /\ UNCHANGED gate2
             \/ n_readers # 0 /\ gate2' = gate2 \cup {t} /\ UNCHANGED pc
          /\ UNCHANGED <<write_entered, n_readers, gate1>>
    /\ UNCHANGED timed

BugExpireLock(t) ==      \* gives up without clearing the bit it has set
    /\ timed[t]
    /\ \/ /\ pc[t] = "gate1_lock" /\ write_entered
          /\ gate1' = gate1 \ {t} /\ UNCHANGED <<write_entered, gate2>>
       \/ /\ pc[t] = "gate2_lock" /\ n_readers # 0
          /\ gate1' = {} /\ gate2' = gate2 \ {t} /\ UNCHANGED write_entered
    /\ Go(t, "idle")
    /\ UNCHANGED <<n_readers, timed>>

(* wait_until reports a timeout, whether or not a notification came too:    *)
(* the loop condition is tested first.  A writer that gives up behind the   *)
(* first gate clears its bit and wakes everybody there.                     *)
ExpireLock(t) ==
    /\ timed[t]
    /\ \/ /\ pc[t] = "gate1_lock"
          /\ \/ EnterWrite(t)
             \/ /\ write_entered
                /\ gate1' = gate1 \ {t}
                /\ Go(t, "idle")
                /\ UNCHANGED <<write_entered, n_readers, gate2>>
       \/ /\ pc[t] = "gate2_lock"
          /\ gate2' = gate2 \ {t}
          /\ \/ n_readers = 0 /\ Go(t, "locked") /\ UNCHANGED <<write_entered, gate1>>
             \/ n_readers # 0 /\ Go(t, "idle") /\ write_entered' = FALSE /\ gate1' = {}
          /\ UNCHANGED n_readers
    /\ UNCHANGED timed

-----------------------------------------------------------------------------
(* Shared ownership. *)

(* lock_shared, or try_lock_shared_until when deadline is TRUE. *)
lock_shared(t, deadline) ==
    /\ pc[t] = "idle"
    /\ timed' = [timed EXCEPT ![t] = deadline]
    /\ EnterShared(t) \/ (~CanShare /\ SleepAtGate1(t, "gate1_shared"))

try_lock_shared(t) ==
    /\ pc[t] = "idle"
    /\ EnterShared(t)
    /\ UNCHANGED timed

BugUnlockShared(t) ==    \* the last reader does not wake the waiting writer
    /\ pc[t] = "shared"
    /\ n_readers' = n_readers - 1
    /\ \/ /\ ~write_entered /\ n_readers = MaxReaders
          /\ gate1' \in NotifyOne(gate1)
       \/ /\ write_entered \/ n_readers # MaxReaders
          /\ UNCHANGED gate1
    /\ Go(t, "idle")
    /\ UNCHANGED <<write_entered, gate2, timed>>

(* The last reader lets the waiting writer go; a reader that leaves a full  *)
(* count lets one thread at the first gate try.                             *)
unlock_shared(t) ==
    /\ pc[t] = "shared"
    /\ n_readers' = n_readers - 1
    /\ \/ /\ write_entered /\ n_readers = 1
          /\ gate2' \in NotifyOne(gate2) /\ UNCHANGED gate1
       \/ /\ ~write_entered /\ n_readers = MaxReaders
          /\ gate1' \in NotifyOne(gate1) /\ UNCHANGED gate2
       \/ /\ IF write_entered THEN n_readers # 1 ELSE n_readers # MaxReaders
          /\ UNCHANGED <<gate1, gate2>>
    /\ Go(t, "idle")
    /\ UNCHANGED <<write_entered, timed>>

ResumeShared(t) ==
    /\ pc[t] = "gate1_shared" /\ t \notin gate1
    /\ EnterShared(t) \/ (~CanShare /\ SleepAtGate1(t, "gate1_shared"))
    /\ UNCHANGED timed

ExpireShared(t) ==
    /\ timed[t] /\ pc[t] = "gate1_shared"
    /\ \/ EnterShared(t)
       \/ /\ ~CanShare
          /\ gate1' = gate1 \ {t}
          /\ Go(t, "idle")
          /\ UNCHANGED <<write_entered, n_readers, gate2>>
    /\ UNCHANGED timed

(* condition_variable::wait may return without a notification. *)
SpuriousWakeup(t) ==
    /\ t \in gate1 \cup gate2
    /\ gate1' = gate1 \ {t} /\ gate2' = gate2 \ {t}
    /\ UNCHANGED <<write_entered, n_readers, pc, timed>>

-----------------------------------------------------------------------------
Step(t) == \/ \E deadline \in BOOLEAN : lock(t, deadline) \/ lock_shared(t, deadline)
           \/ try_lock(t)    \/ try_lock_shared(t)
           \/ unlock(t)      \/ unlock_shared(t)
           \/ ResumeLock(t)  \/ ResumeShared(t)
           \/ ExpireLock(t)  \/ ExpireShared(t)
           \/ SpuriousWakeup(t)

Next == \E t \in Threads : Step(t)

Spec == Init /\ [][Next]_vars

(* An awake thread gets __mut_ in the end and an owner ends its critical     *)
(* section, which in Skia is a few operations on a hash map.  Nobody has to  *)
(* call the lock, no deadline has to expire, no wake-up has to be spurious.  *)
Fairness == \A t \in Threads : /\ WF_vars(ResumeLock(t) \/ ResumeShared(t))
                               /\ WF_vars(unlock(t) \/ unlock_shared(t))

FairSpec == Spec /\ Fairness

-----------------------------------------------------------------------------
(* Properties *)

TypeOK == /\ write_entered \in BOOLEAN
          /\ n_readers \in 0..MaxReaders
          /\ gate1 \subseteq Threads /\ gate2 \subseteq Threads
          /\ pc \in [Threads -> Places]
          /\ timed \in [Threads -> BOOLEAN]

Owners == {t \in Threads : pc[t] = "locked"}
Sharers == {t \in Threads : pc[t] = "shared"}
Entered == {t \in Threads : pc[t] \in {"gate2_lock", "locked"}}

(* A thread inside make_index or storing into the proxy cache is alone: no  *)
(* second writer and no reader is inside a critical section with it.        *)
MutualExclusion ==
    \A t \in Owners : Owners = {t} /\ Sharers = {}

(* The word __state_ tells the truth: its count is the number of threads    *)
(* that own the lock in shared mode, its bit belongs to exactly one writer, *)
(* and a writer past the second gate has seen the count reach zero.         *)
StateWord == /\ n_readers = Cardinality(Sharers)
             /\ write_entered <=> Entered # {}
             /\ \A t, u \in Entered : t = u
             /\ Owners # {} => n_readers = 0

(* Nobody sleeps for something that has already happened: a sleeper at the  *)
(* first gate means that a writer has entered and will open it, or that the *)
(* count is full and a reader that leaves will wake it; a sleeper at the    *)
(* second that a reader is still inside and will wake it.  It takes at most *)
(* one thread more than there are reader slots: two readers that leave a    *)
(* full count one after the other wake only one of two sleepers.            *)
NoLostWakeup == /\ gate1 # {} => write_entered \/ n_readers = MaxReaders
                /\ gate2 # {} => n_readers # 0

(* Who sleeps where: with it the invariants above are inductive. *)
GateMembers == /\ \A t \in gate1 : pc[t] \in {"gate1_lock", "gate1_shared"}
               /\ \A t \in gate2 : pc[t] = "gate2_lock"

(* A writer that has closed the first gate gets the lock, however many      *)
(* readers keep arriving: unless its own deadline expires it owns the lock  *)
(* after finitely many steps of the others.                                 *)
WriterGetsIn ==
    \A t \in Threads :
        (pc[t] = "gate2_lock" /\ ~timed[t]) ~> pc[t] = "locked"

(* The first gate does not stay shut: every thread asleep there is woken.   *)
GateReopens == \A t \in Threads : t \in gate1 ~> t \notin gate1

(* The mutex implements a reader/writer lock. *)
RW == INSTANCE RWLock WITH writers <- Owners, readers <- Sharers
ImplementsRWLock == RW!Spec
=============================================================================
