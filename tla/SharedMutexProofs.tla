-------------------------- MODULE SharedMutexProofs --------------------------
(***************************************************************************)
(* Theorems about SharedMutex for any finite set of threads and any size   *)
(* of the reader count.                                                    *)
(***************************************************************************)
EXTENDS SharedMutex, FiniteSetTheorems, TLAPS

(* The inductive invariant.  GatesShut joins it only when there are as many *)
(* reader slots as threads, so that the count is never why a thread sleeps. *)
LockInv == TypeOK /\ StateWord /\ GateMembers

EnoughSlots == Cardinality(Threads) <= MaxReaders

GatesShut == /\ gate1 # {} => write_entered
             /\ gate2 # {} => n_readers # 0

-----------------------------------------------------------------------------
(* Sharers is finite and its size is a number. *)
LEMMA SharersFinite == IsFiniteSet(Sharers) /\ Cardinality(Sharers) \in Nat
  <1>1. Sharers \subseteq Threads  BY DEF Sharers
  <1>2. IsFiniteSet(Sharers)       BY <1>1, ThreadsAssumption, FS_Subset
  <1> QED                          BY <1>2, FS_CardinalityType

(* Nobody owns the lock in shared mode exactly when the count of the owners *)
(* is zero.                                                                 *)
LEMMA NoSharers == Cardinality(Sharers) = 0 <=> Sharers = {}
  BY SharersFinite, FS_EmptySet

(* A step that leaves every thread's share alone leaves the count right. *)
LEMMA SharersSame ==
    ASSUME TypeOK, NEW t \in Threads, NEW place \in Places,
           pc' = [pc EXCEPT ![t] = place],
           pc[t] # "shared", place # "shared"
    PROVE  Sharers' = Sharers
  BY DEF Sharers, TypeOK

(* One thread more in shared mode: the count grows by one. *)
LEMMA SharersGrow ==
    ASSUME TypeOK, NEW t \in Threads, Go(t, "shared"), pc[t] # "shared"
    PROVE  Cardinality(Sharers') = Cardinality(Sharers) + 1
  <1>1. Sharers' = Sharers \cup {t} /\ t \notin Sharers
    BY DEF Sharers, TypeOK, Go
  <1> QED  BY <1>1, SharersFinite, FS_AddElement

(* One thread less in shared mode: the count was positive and drops by one. *)
LEMMA SharersShrink ==
    ASSUME TypeOK, NEW t \in Threads, Go(t, "idle"), pc[t] = "shared"
    PROVE  Cardinality(Sharers') = Cardinality(Sharers) - 1
  <1>1. Sharers' = Sharers \ {t} /\ t \in Sharers
    BY DEF Sharers, TypeOK, Go
  <1> QED  BY <1>1, SharersFinite, FS_RemoveElement

(* A thread that is not a sharer itself and sees a full count: there are    *)
(* fewer slots than threads.                                                *)
LEMMA FullCount ==
    ASSUME StateWord, NEW t \in Threads, pc[t] # "shared", EnoughSlots
    PROVE  n_readers # MaxReaders
  <1>1. Sharers \subseteq Threads \ {t}  BY DEF Sharers
  <1>2. /\ IsFiniteSet(Threads \ {t})
        /\ Cardinality(Threads \ {t}) = Cardinality(Threads) - 1
    BY ThreadsAssumption, FS_RemoveElement
  <1>3. Cardinality(Sharers) <= Cardinality(Threads \ {t})
    BY <1>1, <1>2, FS_Subset
  <1>4. Cardinality(Threads) \in Nat
    BY ThreadsAssumption, FS_CardinalityType
  <1> QED
    BY <1>2, <1>3, <1>4, SharersFinite, MaxReadersAssumption DEF StateWord, EnoughSlots
-----------------------------------------------------------------------------
(* The pieces that several actions share preserve the invariant. *)

LEMMA EnterWriteInv ==
    ASSUME LockInv, NEW t \in Threads, EnterWrite(t),
           pc[t] \in {"idle", "gate1_lock"}, timed' \in [Threads -> BOOLEAN]
    PROVE  LockInv'
  <1>1. TypeOK'
    BY DEF LockInv, TypeOK, EnterWrite, Go, Places
  <1>2. Sharers' = Sharers
    BY SharersSame DEF LockInv, EnterWrite, Go, Places
  <1>3. Entered = {}
    BY DEF LockInv, StateWord, EnterWrite
  <1>4. Entered' = {t}
    BY <1>3 DEF LockInv, TypeOK, EnterWrite, Go, Entered
  <1>5. Owners' # {} => n_readers' = 0
    BY <1>3 DEF LockInv, TypeOK, EnterWrite, Go, Entered, Owners
  <1>6. StateWord'
    BY <1>2, <1>4, <1>5 DEF LockInv, StateWord, EnterWrite
  <1>7. GateMembers'
    BY DEF LockInv, TypeOK, GateMembers, EnterWrite, Go
  <1> QED  BY <1>1, <1>6, <1>7 DEF LockInv

LEMMA EnterSharedInv ==
    ASSUME LockInv, NEW t \in Threads, EnterShared(t),
           pc[t] \in {"idle", "gate1_shared"}, timed' \in [Threads -> BOOLEAN]
    PROVE  LockInv'
  <1>0. n_readers' \in 0..MaxReaders
    BY MaxReadersAssumption DEF LockInv, TypeOK, EnterShared, CanShare
  <1>1. TypeOK'
    BY <1>0 DEF LockInv, TypeOK, EnterShared, Go, Places
  <1>2. Cardinality(Sharers') = Cardinality(Sharers) + 1
    BY SharersGrow DEF LockInv, EnterShared
  <1>3. Entered = {} /\ Entered' = {} /\ Owners' = {}
    BY DEF LockInv, TypeOK, StateWord, EnterShared, CanShare, Go, Entered, Owners
  <1>4. StateWord'
    BY <1>2, <1>3 DEF LockInv, StateWord, EnterShared, CanShare
  <1>5. GateMembers'
    BY DEF LockInv, TypeOK, GateMembers, EnterShared, Go
  <1> QED  BY <1>1, <1>4, <1>5 DEF LockInv

LEMMA SleepInv ==
    ASSUME LockInv, NEW t \in Threads,
           NEW place \in {"gate1_lock", "gate1_shared"}, SleepAtGate1(t, place),
           pc[t] \in {"idle", place}, timed' \in [Threads -> BOOLEAN]
    PROVE  LockInv'
  <1>1. TypeOK'
    BY DEF LockInv, TypeOK, SleepAtGate1, Go, Places
  <1>2. Sharers' = Sharers
    BY SharersSame DEF LockInv, SleepAtGate1, Go, Places
  <1>3. Entered' = Entered /\ Owners' = Owners
    BY DEF LockInv, TypeOK, SleepAtGate1, Go, Entered, Owners
  <1>4. StateWord'
    BY <1>2, <1>3 DEF LockInv, StateWord, SleepAtGate1
  <1>5. GateMembers'
    BY DEF LockInv, TypeOK, GateMembers, SleepAtGate1, Go
  <1> QED  BY <1>1, <1>4, <1>5 DEF LockInv

-----------------------------------------------------------------------------
(* One lemma per action with a life of its own. *)

LEMMA unlockInv ==
    ASSUME LockInv, NEW t \in Threads, unlock(t) PROVE LockInv'
  <1>0. n_readers' \in 0..MaxReaders
    BY MaxReadersAssumption DEF unlock
  <1>1. TypeOK'
    BY <1>0 DEF LockInv, TypeOK, unlock, Go, Places
  <1>2. Sharers' = Sharers
    BY SharersSame DEF LockInv, unlock, Go, Places
  <1>3. n_readers = 0
    BY DEF LockInv, StateWord, unlock, Owners
  <1>4. Entered' = {} /\ Owners' = {}
    BY DEF LockInv, TypeOK, StateWord, unlock, Go, Entered, Owners
  <1>5. StateWord'
    BY <1>2, <1>3, <1>4 DEF LockInv, StateWord, unlock
  <1>6. GateMembers'
    BY DEF LockInv, TypeOK, GateMembers, unlock, Go
  <1> QED  BY <1>1, <1>5, <1>6 DEF LockInv

LEMMA unlockSharedInv ==
    ASSUME LockInv, NEW t \in Threads, unlock_shared(t) PROVE LockInv'
  <1>1. Cardinality(Sharers') = Cardinality(Sharers) - 1
    BY SharersShrink DEF LockInv, unlock_shared
  <1>2. Cardinality(Sharers) # 0
    BY NoSharers DEF unlock_shared, Sharers
  <1>3. n_readers' \in 0..MaxReaders
    BY <1>2, MaxReadersAssumption DEF LockInv, TypeOK, StateWord, unlock_shared
  <1>4. gate1' \subseteq gate1 /\ gate2' \subseteq gate2
    BY DEF unlock_shared, NotifyOne
  <1>5. TypeOK'
    BY <1>3, <1>4 DEF LockInv, TypeOK, unlock_shared, Go, Places
  <1>6. Entered' = Entered /\ Owners' = Owners
    BY DEF LockInv, TypeOK, unlock_shared, Go, Entered, Owners
  <1>7. Owners = {}
    BY <1>2 DEF LockInv, StateWord
  <1>8. StateWord'
    BY <1>1, <1>6, <1>7 DEF LockInv, StateWord, unlock_shared
  <1>9. GateMembers'
    BY <1>4 DEF LockInv, TypeOK, GateMembers, unlock_shared, Go
  <1> QED  BY <1>5, <1>8, <1>9 DEF LockInv

(* A writer awake at the second gate: it owns the lock, or sleeps again. *)
LEMMA SecondGateInv ==
    ASSUME LockInv, NEW t \in Threads, pc[t] = "gate2_lock",
           UNCHANGED <<write_entered, n_readers, gate1, timed>>,
           \/ n_readers = 0 /\ Go(t, "locked") /\ gate2' = gate2 \ {t}
           \/ n_readers # 0 /\ gate2' = gate2 \cup {t} /\ UNCHANGED pc
    PROVE  LockInv'
  <1>1. TypeOK'
    BY DEF LockInv, TypeOK, Go, Places
  <1>2. Sharers' = Sharers
    BY SharersSame DEF LockInv, Go, Places, Sharers
  <1>3. Entered' = Entered
    BY DEF LockInv, TypeOK, Go, Entered
  <1>4. Owners' # {} => n_readers = 0
    BY DEF LockInv, StateWord, Owners
  <1>5. StateWord'
    BY <1>2, <1>3, <1>4 DEF LockInv, StateWord
  <1>6. GateMembers'
    BY DEF LockInv, TypeOK, GateMembers, Go
  <1> QED  BY <1>1, <1>5, <1>6 DEF LockInv

(* A deadline that passes with the condition still false: at the first gate *)
(* the thread just goes away, at the second it takes its bit back.          *)
LEMMA GiveUpFirstGateInv ==
    ASSUME LockInv, NEW t \in Threads,
           pc[t] \in {"gate1_lock", "gate1_shared"},
           gate1' = gate1 \ {t}, Go(t, "idle"),
           UNCHANGED <<write_entered, n_readers, gate2, timed>>
    PROVE  LockInv'
  <1>1. TypeOK'
    BY DEF LockInv, TypeOK, Go, Places
  <1>2. Sharers' = Sharers
    BY SharersSame DEF LockInv, Go, Places
  <1>3. Entered' = Entered /\ Owners' = Owners
    BY DEF LockInv, TypeOK, Go, Entered, Owners
  <1>4. StateWord'
    BY <1>2, <1>3 DEF LockInv, StateWord
  <1>5. GateMembers'
    BY DEF LockInv, TypeOK, GateMembers, Go
  <1> QED  BY <1>1, <1>4, <1>5 DEF LockInv

LEMMA GiveUpSecondGateInv ==
    ASSUME LockInv, NEW t \in Threads, pc[t] = "gate2_lock",
           write_entered' = FALSE, gate1' = {}, gate2' = gate2 \ {t},
           Go(t, "idle"), UNCHANGED <<n_readers, timed>>
    PROVE  LockInv'
  <1>1. TypeOK'
    BY DEF LockInv, TypeOK, Go, Places
  <1>2. Sharers' = Sharers
    BY SharersSame DEF LockInv, Go, Places
  <1>3. Entered' = {} /\ Owners' = {}
    BY DEF LockInv, TypeOK, StateWord, Go, Entered, Owners
  <1>4. StateWord'
    BY <1>2, <1>3 DEF LockInv, StateWord
  <1>5. GateMembers'
    BY DEF LockInv, TypeOK, GateMembers, Go
  <1> QED  BY <1>1, <1>4, <1>5 DEF LockInv

(* try_lock succeeds only on a state word of zero. *)
LEMMA tryLockInv ==
    ASSUME LockInv, NEW t \in Threads, try_lock(t) PROVE LockInv'
  <1>1. TypeOK'
    BY DEF LockInv, TypeOK, try_lock, Go, Places
  <1>2. Sharers' = Sharers
    BY SharersSame DEF LockInv, try_lock, Go, Places
  <1>3. Entered' = {t}
    BY DEF LockInv, TypeOK, StateWord, try_lock, Go, Entered
  <1>4. StateWord'
    BY <1>2, <1>3 DEF LockInv, StateWord, try_lock
  <1>5. GateMembers'
    BY DEF LockInv, TypeOK, GateMembers, try_lock, Go
  <1> QED  BY <1>1, <1>4, <1>5 DEF LockInv

-----------------------------------------------------------------------------
(* Every step preserves the invariant. *)

LEMMA InitInv == Init => LockInv
  <1> SUFFICES ASSUME Init PROVE LockInv  OBVIOUS
  <1>0. n_readers \in 0..MaxReaders
    BY MaxReadersAssumption DEF Init
  <1>1. TypeOK
    BY <1>0 DEF Init, TypeOK, Places
  <1>2. Sharers = {} /\ Entered = {} /\ Owners = {}
    BY DEF Init, Sharers, Entered, Owners
  <1>3. StateWord
    BY <1>2, NoSharers DEF Init, StateWord
  <1> QED  BY <1>1, <1>3 DEF LockInv, Init, GateMembers

LEMMA StepInv ==
    ASSUME LockInv, NEW t \in Threads, Step(t) PROVE LockInv'
  <1> USE DEF LockInv
  <1>1. ASSUME NEW deadline \in BOOLEAN, lock(t, deadline) PROVE LockInv'
    <2>1. timed' \in [Threads -> BOOLEAN]  BY <1>1 DEF lock, TypeOK
    <2>2. CASE EnterWrite(t)  BY <1>1, <2>1, <2>2, EnterWriteInv DEF lock
    <2>3. CASE SleepAtGate1(t, "gate1_lock")
      BY <1>1, <2>1, <2>3, SleepInv DEF lock
    <2> QED  BY <1>1, <2>2, <2>3 DEF lock
  <1>2. ASSUME NEW deadline \in BOOLEAN, lock_shared(t, deadline) PROVE LockInv'
    <2>1. timed' \in [Threads -> BOOLEAN]  BY <1>2 DEF lock_shared, TypeOK
    <2>2. CASE EnterShared(t)  BY <1>2, <2>1, <2>2, EnterSharedInv DEF lock_shared
    <2>3. CASE SleepAtGate1(t, "gate1_shared")
      BY <1>2, <2>1, <2>3, SleepInv DEF lock_shared
    <2> QED  BY <1>2, <2>2, <2>3 DEF lock_shared
  <1>3. CASE try_lock(t)         BY <1>3, tryLockInv
  <1>4. CASE try_lock_shared(t)  BY <1>4, EnterSharedInv DEF try_lock_shared, TypeOK
  <1>5. CASE unlock(t)           BY <1>5, unlockInv
  <1>6. CASE unlock_shared(t)    BY <1>6, unlockSharedInv
  <1>7. CASE ResumeLock(t)
    <2>1. timed' \in [Threads -> BOOLEAN]  BY <1>7 DEF ResumeLock, TypeOK
    <2>2. CASE pc[t] = "gate1_lock" /\ EnterWrite(t)
      BY <2>1, <2>2, EnterWriteInv
    <2>3. CASE pc[t] = "gate1_lock" /\ SleepAtGate1(t, "gate1_lock")
      BY <2>1, <2>3, SleepInv
    <2>4. CASE pc[t] = "gate2_lock"
      <3>1. \/ n_readers = 0 /\ Go(t, "locked") /\ gate2' = gate2 \ {t}
            \/ n_readers # 0 /\ gate2' = gate2 \cup {t} /\ UNCHANGED pc
        BY <1>7, <2>4 DEF ResumeLock, TypeOK
      <3>2. UNCHANGED <<write_entered, n_readers, gate1, timed>>
        BY <1>7, <2>4 DEF ResumeLock
      <3> QED  BY <2>4, <3>1, <3>2, SecondGateInv
    <2> QED  BY <1>7, <2>2, <2>3, <2>4 DEF ResumeLock
  <1>8. CASE ResumeShared(t)
    <2>1. timed' \in [Threads -> BOOLEAN]  BY <1>8 DEF ResumeShared, TypeOK
    <2>2. CASE EnterShared(t)  BY <1>8, <2>1, <2>2, EnterSharedInv DEF ResumeShared
    <2>3. CASE SleepAtGate1(t, "gate1_shared")
      BY <1>8, <2>1, <2>3, SleepInv DEF ResumeShared
    <2> QED  BY <1>8, <2>2, <2>3 DEF ResumeShared
  <1>9. CASE ExpireLock(t)
    <2>1. timed' \in [Threads -> BOOLEAN]  BY <1>9 DEF ExpireLock, TypeOK
    <2>2. CASE pc[t] = "gate1_lock" /\ EnterWrite(t)
      BY <2>1, <2>2, EnterWriteInv
    <2>3. CASE pc[t] = "gate1_lock" /\ ~EnterWrite(t)
      <3>1. /\ gate1' = gate1 \ {t} /\ Go(t, "idle")
            /\ UNCHANGED <<write_entered, n_readers, gate2, timed>>
        BY <1>9, <2>3 DEF ExpireLock
      <3> QED  BY <2>3, <3>1, GiveUpFirstGateInv
    <2>4. CASE pc[t] = "gate2_lock" /\ n_readers = 0
      <3>1. /\ UNCHANGED <<write_entered, n_readers, gate1, timed>>
            /\ Go(t, "locked") /\ gate2' = gate2 \ {t}
        BY <1>9, <2>4 DEF ExpireLock
      <3> QED  BY <2>4, <3>1, SecondGateInv
    <2>5. CASE pc[t] = "gate2_lock" /\ n_readers # 0
      <3>1. /\ write_entered' = FALSE /\ gate1' = {} /\ gate2' = gate2 \ {t}
            /\ Go(t, "idle") /\ UNCHANGED <<n_readers, timed>>
        BY <1>9, <2>5 DEF ExpireLock
      <3> QED  BY <2>5, <3>1, GiveUpSecondGateInv
    <2> QED  BY <1>9, <2>2, <2>3, <2>4, <2>5 DEF ExpireLock
  <1>10. CASE ExpireShared(t)
    <2>1. timed' \in [Threads -> BOOLEAN]  BY <1>10 DEF ExpireShared, TypeOK
    <2>2. CASE EnterShared(t)  BY <1>10, <2>1, <2>2, EnterSharedInv DEF ExpireShared
    <2>3. CASE ~EnterShared(t)
      <3>1. /\ gate1' = gate1 \ {t} /\ Go(t, "idle")
            /\ UNCHANGED <<write_entered, n_readers, gate2, timed>>
        BY <1>10, <2>3 DEF ExpireShared
      <3> QED  BY <1>10, <3>1, GiveUpFirstGateInv DEF ExpireShared
    <2> QED  BY <2>2, <2>3
  <1>11. CASE SpuriousWakeup(t)
    <2>1. TypeOK' /\ GateMembers'
      BY <1>11 DEF SpuriousWakeup, TypeOK, GateMembers
    <2>2. StateWord'
      BY <1>11 DEF SpuriousWakeup, StateWord, Sharers, Entered, Owners
    <2> QED  BY <2>1, <2>2
  <1> QED
    BY <1>1, <1>2, <1>3, <1>4, <1>5, <1>6, <1>7, <1>8, <1>9, <1>10, <1>11 DEF Step

(* LockInv is an invariant of the mutex, whatever the number of threads and *)
(* of reader slots.                                                         *)
THEOREM LockInvariant == Spec => []LockInv
  <1>1. LockInv /\ [Next]_vars => LockInv'
    <2> SUFFICES ASSUME LockInv, [Next]_vars PROVE LockInv'  OBVIOUS
    <2>1. CASE Next          BY <2>1, StepInv DEF Next
    <2>2. CASE UNCHANGED vars
      BY <2>2 DEF vars, LockInv, TypeOK, StateWord, GateMembers, Sharers, Entered, Owners
    <2> QED  BY <2>1, <2>2
  <1> QED  BY <1>1, InitInv, PTL DEF Spec

(* Type correctness. *)
THEOREM TypeCorrect == Spec => []TypeOK
  <1>1. LockInv => TypeOK  BY DEF LockInv
  <1> QED  BY <1>1, LockInvariant, PTL

(* The state word counts the owners, on any number of threads. *)
THEOREM StateWordTellsTruth == Spec => []StateWord
  <1>1. LockInv => StateWord  BY DEF LockInv
  <1> QED  BY <1>1, LockInvariant, PTL

(* The count and the bit together exclude: a writer past the second gate    *)
(* is the only one whose bit is set, and has seen a count of zero.          *)
LEMMA LockInvExcludes == LockInv => MutualExclusion
  <1> SUFFICES ASSUME LockInv, NEW t \in Owners
               PROVE  Owners = {t} /\ Sharers = {}
    BY DEF MutualExclusion
  <1>1. Owners = {t}
    BY DEF LockInv, StateWord, Owners, Entered
  <1>2. Sharers = {}
    BY NoSharers DEF LockInv, StateWord
  <1> QED  BY <1>1, <1>2

(* A thread that writes the proxy cache or the resolve table is alone. *)
THEOREM MutexExcludes == Spec => []MutualExclusion
  BY LockInvariant, LockInvExcludes, PTL

-----------------------------------------------------------------------------
(* No lost wake-up, when there are as many reader slots as threads. *)

(* With a free slot for every thread, CanShare fails only because of the    *)
(* bit; so every thread that goes to sleep at the first gate has seen it.   *)
LEMMA StepWakeup ==
    ASSUME EnoughSlots, LockInv, GatesShut, NEW t \in Threads, Step(t)
    PROVE  GatesShut'
  <1> USE DEF LockInv
  <1>1. pc[t] # "shared" => n_readers # MaxReaders
    BY FullCount
  <1>2. ASSUME NEW place, SleepAtGate1(t, place), write_entered PROVE GatesShut'
    BY <1>2 DEF SleepAtGate1, GatesShut
  <1>3. ASSUME EnterShared(t) PROVE GatesShut'
    <2>1. gate1' = {}
      BY <1>3 DEF EnterShared, CanShare, GatesShut, TypeOK
    <2>2. n_readers' # 0 /\ gate2' = gate2
      BY <1>3 DEF EnterShared, TypeOK
    <2> QED  BY <2>1, <2>2 DEF GatesShut
  <1>4. ASSUME EnterWrite(t) PROVE GatesShut'
    BY <1>4 DEF EnterWrite, GatesShut
  <1>5. ASSUME NEW deadline \in BOOLEAN, lock(t, deadline) PROVE GatesShut'
    BY <1>2, <1>4, <1>5 DEF lock
  <1>6. ASSUME NEW deadline \in BOOLEAN, lock_shared(t, deadline) PROVE GatesShut'
    BY <1>1, <1>2, <1>3, <1>6 DEF lock_shared, CanShare
  <1>7. CASE try_lock(t)         BY <1>7 DEF try_lock, GatesShut
  <1>8. CASE try_lock_shared(t)  BY <1>3, <1>8 DEF try_lock_shared
  <1>9. CASE unlock(t)
    <2>1. gate2 = {}
      BY <1>9 DEF unlock, GatesShut, StateWord, Owners
    <2> QED  BY <2>1, <1>9 DEF unlock, GatesShut
  <1>10. CASE unlock_shared(t)
    <2>1. gate1' \subseteq gate1 /\ gate2' \subseteq gate2
      BY <1>10 DEF unlock_shared, NotifyOne
    <2>2. gate2 # {} => write_entered
      BY DEF GateMembers, StateWord, Entered, TypeOK
    <2>3. \A u, v \in gate2 : u = v
      BY DEF GateMembers, StateWord, Entered, TypeOK
    <2>4. n_readers' = 0 => gate2' = {}
      <3> SUFFICES ASSUME n_readers' = 0, gate2 # {} PROVE gate2' = {}
        BY <2>1
      <3>1. n_readers = 1 /\ write_entered
        BY <1>10, <2>2 DEF unlock_shared, TypeOK
      <3>2. gate2' \in NotifyOne(gate2)
        BY <1>10, <3>1 DEF unlock_shared
      <3> QED  BY <2>3, <3>2 DEF NotifyOne
    <2> QED  BY <1>10, <2>1, <2>4 DEF unlock_shared, GatesShut
  <1>11. CASE ResumeLock(t)
    BY <1>2, <1>4, <1>11 DEF ResumeLock, GatesShut
  <1>12. CASE ResumeShared(t)
    BY <1>1, <1>2, <1>3, <1>12 DEF ResumeShared, CanShare
  <1>13. CASE ExpireLock(t)
    <2>1. CASE EnterWrite(t)  BY <2>1, <1>4
    <2>2. CASE ~EnterWrite(t)
      <3>1. gate1' \subseteq gate1 /\ gate2' \subseteq gate2 /\ n_readers' = n_readers
        BY <1>13, <2>2 DEF ExpireLock
      <3>2. write_entered' = write_entered \/ gate1' = {}
        BY <1>13, <2>2 DEF ExpireLock
      <3> QED  BY <3>1, <3>2 DEF GatesShut
    <2> QED  BY <2>1, <2>2
  <1>14. CASE ExpireShared(t)
    BY <1>3, <1>14 DEF ExpireShared, GatesShut
  <1>15. CASE SpuriousWakeup(t)
    BY <1>15 DEF SpuriousWakeup, GatesShut
  <1> QED
    BY <1>5, <1>6, <1>7, <1>8, <1>9, <1>10, <1>11, <1>12, <1>13, <1>14, <1>15 DEF Step

(* Nobody sleeps for something that has already happened, as long as there  *)
(* are no more threads than reader slots (2^31 - 1 in the code).            *)
THEOREM NoWakeupIsLost ==
    ASSUME EnoughSlots PROVE Spec => []NoLostWakeup
  <1>1. Init => GatesShut  BY DEF Init, GatesShut
  <1>2. LockInv /\ GatesShut /\ [Next]_vars => GatesShut'
    <2> SUFFICES ASSUME LockInv, GatesShut, [Next]_vars PROVE GatesShut'
      OBVIOUS
    <2>1. CASE Next            BY <2>1, StepWakeup DEF Next
    <2>2. CASE UNCHANGED vars  BY <2>2 DEF vars, GatesShut
    <2> QED  BY <2>1, <2>2
  <1>3. GatesShut => NoLostWakeup  BY DEF GatesShut, NoLostWakeup
  <1> QED  BY <1>1, <1>2, <1>3, LockInvariant, PTL DEF Spec

-----------------------------------------------------------------------------
(* The mutex implements the reader/writer lock of RWLock.tla: its owners     *)
(* are that lock's writers, its sharers that lock's readers, and everything  *)
(* a thread does while it waits is a stutter there.                          *)
LEMMA StepImplements ==
    ASSUME LockInv, MutualExclusion', NEW t \in Threads, Step(t)
    PROVE  [RW!Next]_RW!rwVars
  <1> USE DEF LockInv, TypeOK
  <1>1. CASE pc' = pc
    BY <1>1 DEF Owners, Sharers, RW!rwVars
  <1>2. CASE pc' # pc
    <2>1. PICK place \in Places :
             /\ pc' = [pc EXCEPT ![t] = place]
             /\ pc[t] \in {"locked", "shared"} => place = "idle"
      BY <1>2 DEF Step, lock, lock_shared, try_lock, try_lock_shared, unlock,
         unlock_shared, ResumeLock, ResumeShared, ExpireLock, ExpireShared,
         SpuriousWakeup, EnterWrite, EnterShared, SleepAtGate1, Go, Places
    <2>2. CASE place = "locked"
      <3>1. t \in Owners' /\ Sharers' = Sharers /\ Owners = Owners' \ {t}
        BY <1>2, <2>1, <2>2 DEF Owners, Sharers
      <3>2. Owners' = {t} /\ Sharers' = {}
        BY <3>1 DEF MutualExclusion
      <3> QED  BY <3>1, <3>2 DEF RW!Next, RW!AcquireExclusive
    <2>3. CASE place = "shared"
      <3>1. Sharers' = Sharers \cup {t} /\ t \notin Sharers /\ Owners' = Owners
        BY <1>2, <2>1, <2>3 DEF Owners, Sharers
      <3>2. Owners = {}
        BY <3>1 DEF MutualExclusion
      <3> QED  BY <3>1, <3>2 DEF RW!Next, RW!AcquireShared
    <2>4. CASE pc[t] = "locked"
      <3>1. t \in Owners /\ Owners' = Owners \ {t} /\ Sharers' = Sharers
        BY <2>1, <2>4 DEF Owners, Sharers
      <3> QED  BY <3>1 DEF RW!Next, RW!ReleaseExclusive
    <2>5. CASE pc[t] = "shared"
      <3>1. t \in Sharers /\ Sharers' = Sharers \ {t} /\ Owners' = Owners
        BY <2>1, <2>5 DEF Owners, Sharers
      <3> QED  BY <3>1 DEF RW!Next, RW!ReleaseShared
    <2>6. CASE {pc[t], place} \cap {"locked", "shared"} = {}
      <3>1. Owners' = Owners /\ Sharers' = Sharers
        BY <2>1, <2>6 DEF Owners, Sharers
      <3> QED  BY <3>1 DEF RW!rwVars
    <2> QED  BY <2>1, <2>2, <2>3, <2>4, <2>5, <2>6
  <1> QED  BY <1>1, <1>2

THEOREM ImplementsReaderWriterLock == Spec => ImplementsRWLock
  <1>1. Init => RW!Init
    BY DEF Init, Owners, Sharers, RW!Init
  <1>2. LockInv /\ MutualExclusion' /\ [Next]_vars => [RW!Next]_RW!rwVars
    <2> SUFFICES ASSUME LockInv, MutualExclusion', [Next]_vars
                 PROVE  [RW!Next]_RW!rwVars
      OBVIOUS
    <2>1. CASE Next            BY <2>1, StepImplements DEF Next
    <2>2. CASE UNCHANGED vars  BY <2>2 DEF vars, Owners, Sharers, RW!rwVars
    <2> QED  BY <2>1, <2>2
  <1> QED  BY <1>1, <1>2, LockInvariant, MutexExcludes, PTL
           DEF Spec, RW!Spec, ImplementsRWLock
=============================================================================
