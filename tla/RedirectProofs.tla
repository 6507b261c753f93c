--------------------------- MODULE RedirectProofs ---------------------------
(***************************************************************************)
(* Theorems about ResolveTable and about Redirect, which is built on it,   *)
(* for any finite set of names, any threads and any pool of addresses: the *)
(* table first, then the way of a host name through the resolver hooks and *)
(* the connect hook.                                                       *)
(***************************************************************************)
EXTENDS Redirect, FiniteSetTheorems, TLAPS

(* The code's arithmetic on addresses takes every index back to itself. *)
LEMMA AddressRoundTrip ==
    ASSUME NEW i \in Indices
    PROVE  /\ addr_to_index(index_to_addr(i)) = i
           /\ addr_to_name(index_to_addr(i)) = index_table[i]
           /\ index_to_addr(i) # NoAddr
  <1>1. addr_to_index(index_to_addr(i)) = i
    BY CountAssumption DEF Indices, addr_to_index, index_to_addr
  <1> QED  BY <1>1 DEF addr_to_name, index_to_name, index_to_addr, NoAddr, addr_prefix

(* What the arithmetic on index does: it steps to the next one, or wraps. *)
LEMMA NextIndexStep ==
    ASSUME index \in Indices
    PROVE  NextIndex = (IF index + 1 = addr_count THEN 0 ELSE index + 1)
  BY CountAssumption DEF Indices, NextIndex

-----------------------------------------------------------------------------
(* What holds whatever the threads look up. *)

MissedAsked == \A t \in Threads :
                   pc[t] = "missed" \/ held[t] # NoAddr => asked[t] \in Names

TableInv == TypeOK /\ MissedAsked

(* Evict takes at most one name away and adds none. *)
LEMMA EvictRemoves ==
    ASSUME TypeOK, NEW table \in Evict
    PROVE  /\ table \in [Names -> Indices \cup {NoIndex}]
           /\ \A n \in Names : table[n] # NoIndex => table[n] = name_table[n]
  BY DEF Evict, TypeOK, Victims

LEMMA TypeStep == TableInv /\ [Next]_vars => TableInv'
  <1> SUFFICES ASSUME TableInv, [Next]_vars PROVE TableInv'  OBVIOUS
  <1> USE DEF TableInv
  <1>1. ASSUME NEW t \in Threads, name_to_index(t) PROVE TableInv'
    <2>1. PICK n \in Names :
             /\ asked' = [asked EXCEPT ![t] = n]
             /\ \/ /\ n \in Entries
                   /\ held' = [held EXCEPT ![t] = index_to_addr(name_table[n])]
                   /\ UNCHANGED <<pc, raced>>
                \/ /\ n \notin Entries
                   /\ held' = [held EXCEPT ![t] = NoAddr]
                   /\ pc' = [pc EXCEPT ![t] = "missed"]
                   /\ raced' = (raced \/ \E u \in Threads :
                                            pc[u] = "missed" /\ asked[u] = n)
             /\ UNCHANGED <<name_table, index_table, index, wrapped>>
      BY <1>1 DEF name_to_index
    <2>2. n \in Entries => name_table[n] \in Indices
      BY DEF Entries, TypeOK
    <2>3. raced' \in BOOLEAN
      BY <2>1 DEF TypeOK
    <2>4. TypeOK'  BY <2>1, <2>2, <2>3 DEF TypeOK
    <2>5. MissedAsked'  BY <2>1 DEF MissedAsked, TypeOK
    <2> QED  BY <2>4, <2>5
  <1>2. ASSUME NEW t \in Threads, make_index(t) PROVE TableInv'
    <2>1. PICK table \in Evict : name_table' = [table EXCEPT ![asked[t]] = index]
      BY <1>2 DEF make_index
    <2>2. asked[t] \in Names /\ index \in Indices
      BY <1>2 DEF make_index, MissedAsked, TypeOK
    <2>3. name_table' \in [Names -> Indices \cup {NoIndex}]
      BY <2>1, <2>2, EvictRemoves
    <2>4. index' \in Indices
      BY <1>2, <2>2, NextIndexStep, CountAssumption DEF make_index, Indices
    <2>5. TypeOK'
      BY <1>2, <2>2, <2>3, <2>4 DEF make_index, TypeOK
    <2>6. MissedAsked'  BY <1>2 DEF make_index, MissedAsked, TypeOK
    <2> QED  BY <2>5, <2>6
  <1>3. CASE UNCHANGED vars  BY <1>3 DEF vars, TypeOK, MissedAsked
  <1> QED  BY <1>1, <1>2, <1>3 DEF Next

LEMMA InitType == Init => TableInv
  <1> SUFFICES ASSUME Init PROVE TableInv  OBVIOUS
  <1>1. 0 \in Indices  BY CountAssumption DEF Indices
  <1>2. TypeOK  BY <1>1 DEF Init, TypeOK
  <1> QED  BY <1>2 DEF Init, TableInv, MissedAsked

(* Type correctness. *)
THEOREM TypeCorrect == Spec => []TypeOK
  <1>1. TableInv => TypeOK  BY DEF TableInv
  <1> QED  BY <1>1, InitType, TypeStep, PTL DEF Spec

-----------------------------------------------------------------------------
(* Until the pool has wrapped around, nothing the threads do at the same     *)
(* time can disturb an address that was given out.                           *)

FreshPool ==
    ~wrapped => \A i \in Indices : index_table[i] # NoName <=> i < index

TableAgrees == \A n \in Entries : index_table[name_table[n]] = n

FirstRound == FreshPool /\ AnswersHold /\ (~wrapped => TableAgrees)

LEMMA FirstRoundStep == TableInv /\ FirstRound /\ [Next]_vars => FirstRound'
  <1> SUFFICES ASSUME TableInv, FirstRound, [Next]_vars, ~wrapped'
               PROVE  FreshPool' /\ AnswersHold' /\ TableAgrees'
    BY DEF FirstRound, FreshPool, AnswersHold
  <1> USE DEF TableInv
  <1>1. ~wrapped
    BY DEF Next, name_to_index, make_index, vars
  <1>2. ASSUME NEW t \in Threads, name_to_index(t)
        PROVE  FreshPool' /\ AnswersHold' /\ TableAgrees'
    <2>1. FreshPool' /\ TableAgrees'
      BY <1>1, <1>2 DEF name_to_index, FirstRound, FreshPool, TableAgrees, Entries
    <2>2. ASSUME NEW u \in Threads, held'[u] # NoAddr
          PROVE  addr_to_name(held'[u]) = asked'[u]
      <3>1. CASE u # t
        BY <1>1, <1>2, <2>2, <3>1 DEF name_to_index, FirstRound, AnswersHold, TypeOK
      <3>2. CASE u = t
        <4>1. asked'[u] \in Entries /\ held'[u] = index_to_addr(name_table[asked'[u]])
          BY <1>2, <2>2, <3>2 DEF name_to_index, TypeOK
        <4>2. name_table[asked'[u]] \in Indices  BY <4>1 DEF Entries, TypeOK
        <4> QED  BY <1>1, <4>1, <4>2, AddressRoundTrip DEF FirstRound, TableAgrees
      <3> QED  BY <3>1, <3>2
    <2>3. index_table' = index_table  BY <1>2 DEF name_to_index
    <2>4. AnswersHold'
      BY <2>2, <2>3 DEF AnswersHold, addr_to_name, index_to_name
    <2> QED  BY <2>1, <2>4
  <1>3. ASSUME NEW t \in Threads, make_index(t)
        PROVE  FreshPool' /\ AnswersHold' /\ TableAgrees'
    <2>1. /\ asked[t] \in Names /\ index \in Indices
          /\ index_table' = [index_table EXCEPT ![index] = asked[t]]
      BY <1>3 DEF make_index, MissedAsked, TypeOK
    <2>2. index + 1 # addr_count /\ index' = index + 1
      BY <1>3, <2>1, NextIndexStep DEF make_index
    <2>3. FreshPool'
      BY <1>1, <2>1, <2>2, NamesAssumption DEF FirstRound, FreshPool, TypeOK, Indices
    <2>4. index_table'[index] = asked[t]
      BY <2>1 DEF TypeOK
    <2>5. ASSUME NEW i \in Indices, index_table[i] # NoName
          PROVE  index_table'[i] = index_table[i]
      BY <1>1, <2>1, <2>5 DEF FirstRound, FreshPool, TypeOK, Indices
    <2>6. TableAgrees'
      <3> SUFFICES ASSUME NEW n \in Entries'
                   PROVE  index_table'[name_table'[n]] = n
        BY DEF TableAgrees
      <3>1. PICK table \in Evict : name_table' = [table EXCEPT ![asked[t]] = index]
        BY <1>3 DEF make_index
      <3>2. CASE n = asked[t]
        BY <2>1, <2>4, <3>1, <3>2, EvictRemoves
      <3>3. CASE n # asked[t]
        <4>1. name_table'[n] = name_table[n] /\ n \in Entries
          BY <3>1, <3>3, EvictRemoves DEF Entries
        <4>2. name_table[n] \in Indices
          BY <4>1 DEF Entries, TypeOK
        <4>3. index_table[name_table[n]] = n
          BY <1>1, <4>1 DEF FirstRound, TableAgrees
        <4>4. n # NoName  BY NamesAssumption DEF Entries
        <4> QED  BY <2>5, <4>1, <4>2, <4>3, <4>4
      <3> QED  BY <3>2, <3>3
    <2>7. AnswersHold'
      <3> SUFFICES ASSUME NEW u \in Threads, held'[u] # NoAddr
                   PROVE  \E i \in Indices : /\ held'[u] = index_to_addr(i)
                                             /\ index_table'[i] = asked'[u]
        BY AddressRoundTrip DEF AnswersHold, addr_to_name, index_to_name
      <3>1. CASE u = t
        BY <1>3, <2>1, <2>4, <3>1 DEF make_index, TypeOK
      <3>2. CASE u # t
        <4>1. held'[u] = held[u] /\ asked'[u] = asked[u]
          BY <1>3, <3>2 DEF make_index, TypeOK
        <4>2. PICK i \in Indices : held[u] = index_to_addr(i)
          BY <4>1 DEF TypeOK
        <4>3. index_table[i] = asked[u]
          BY <1>1, <4>1, <4>2, AddressRoundTrip DEF FirstRound, AnswersHold
        <4>4. asked[u] # NoName
          BY <4>1, NamesAssumption DEF MissedAsked
        <4> QED  BY <2>5, <4>1, <4>2, <4>3, <4>4
      <3> QED  BY <3>1, <3>2
    <2> QED  BY <2>3, <2>6, <2>7
  <1>4. CASE UNCHANGED vars
    BY <1>1, <1>4 DEF vars, FirstRound, FreshPool, AnswersHold, TableAgrees, Entries,
       addr_to_name, index_to_name, addr_to_index, index_to_addr
  <1> QED  BY <1>2, <1>3, <1>4 DEF Next

LEMMA FirstRoundInvariant == Spec => []FirstRound
  <1>1. Init => FirstRound
    <2> SUFFICES ASSUME Init PROVE FirstRound  OBVIOUS
    <2>1. FreshPool    BY CountAssumption DEF Init, FreshPool, Indices
    <2>2. TableAgrees  BY DEF Init, TableAgrees, Entries
    <2>3. AnswersHold  BY DEF Init, AnswersHold
    <2> QED  BY <2>1, <2>2, <2>3 DEF FirstRound
  <1> QED  BY <1>1, InitType, TypeStep, FirstRoundStep, PTL DEF Spec

(* However the threads race for names, an address that was given out before *)
(* the pool wrapped around leads back to the name it was given out for.     *)
THEOREM AnswersHoldFirstRound == Spec => []AnswersHold
  <1>1. FirstRound => AnswersHold  BY DEF FirstRound
  <1> QED  BY <1>1, FirstRoundInvariant, PTL

-----------------------------------------------------------------------------
(* What holds as long as no two threads miss one name at once. *)

(* The indices in use and the remembered names correspond one to one, and a *)
(* thread on its way to make_index has a name that is still unknown.        *)
InUse(i) == wrapped \/ i < index

OneToOne ==
    /\ TableAgrees
    /\ \A i \in Indices :
          IF InUse(i) THEN index_table[i] \in Entries /\ name_table[index_table[i]] = i
                      ELSE index_table[i] = NoName

StillUnknown == \A t \in Threads :
                    pc[t] = "missed" =>
                        /\ asked[t] \notin Entries
                        /\ \A u \in Threads \ {t} :
                              pc[u] = "missed" => asked[u] # asked[t]

TableBijection == OneToOne /\ StillUnknown

(* A table whose every index is in use is full: make_index will evict. *)
LEMMA WrappedIsFull ==
    ASSUME TypeOK, OneToOne, wrapped
    PROVE  Cardinality(Entries) >= addr_count
  <1> DEFINE f == [i \in Indices |-> index_table[i]]
  <1>1. f \in Injection(Indices, Entries)
    BY DEF OneToOne, TableAgrees, InUse, Injection, IsInjective
  <1>2. IsFiniteSet(Entries)
    BY NamesAssumption, FS_Subset DEF Entries
  <1>3. Cardinality(Indices) <= Cardinality(Entries)
    BY <1>1, <1>2, FS_Injection
  <1>4. Cardinality(Indices) = addr_count
    BY CountAssumption, FS_Interval DEF Indices
  <1> QED  BY <1>3, <1>4

(* No more names than indices are remembered. *)
LEMMA OneToOneFits == TypeOK /\ OneToOne => WithinPool
  <1> SUFFICES ASSUME TypeOK, OneToOne PROVE Cardinality(Entries) <= addr_count
    BY DEF WithinPool
  <1> DEFINE f == [n \in Entries |-> name_table[n]]
  <1>1. f \in Injection(Entries, Indices)
    BY DEF OneToOne, TableAgrees, Injection, IsInjective, Entries, TypeOK
  <1>2. IsFiniteSet(Indices) /\ Cardinality(Indices) = addr_count
    BY CountAssumption, FS_Interval DEF Indices
  <1> QED  BY <1>1, <1>2, FS_Injection

(* So make_index takes the index away from the name that had it, whether    *)
(* the table is full or not.                                                *)
LEMMA EvictsOwner ==
    ASSUME TypeOK, OneToOne, NEW table \in Evict
    PROVE  table = [m \in Names |-> IF name_table[m] = index THEN NoIndex
                                                           ELSE name_table[m]]
  <1>1. index \in Indices /\ index # NoIndex
    BY DEF TypeOK, Indices, NoIndex
  <1>2. CASE wrapped
    <2>1. Cardinality(Entries) >= addr_count
      BY <1>2, WrappedIsFull
    <2>2. index_table[index] \in Victims
      BY <1>1, <1>2 DEF OneToOne, TableAgrees, InUse, Victims, Entries
    <2>3. \A v \in Victims : v = index_table[index]
      BY <1>1 DEF OneToOne, TableAgrees, Victims, Entries
    <2>4. PICK v \in Victims : table = [name_table EXCEPT ![v] = NoIndex]
      BY <2>1, <2>2 DEF Evict
    <2>5. \A m \in Names : name_table[m] = index <=> m = v
      BY <2>3, <2>4 DEF Victims
    <2> QED  BY <2>4, <2>5 DEF TypeOK
  <1>3. CASE ~wrapped
    <2>1. index_table[index] = NoName
      BY <1>1, <1>3 DEF OneToOne, TableAgrees, InUse, Indices
    <2>2. Victims = {}
      BY <1>1, <2>1, NamesAssumption DEF OneToOne, TableAgrees, Victims, Entries
    <2>3. table = name_table
      BY <2>2 DEF Evict
    <2> QED  BY <2>2, <2>3 DEF Victims, TypeOK
  <1> QED  BY <1>2, <1>3

NoRaceYet == ~raced => TableBijection

LEMMA BijectionStep == TableInv /\ NoRaceYet /\ [Next]_vars => NoRaceYet'
  <1> SUFFICES ASSUME TableInv, NoRaceYet, [Next]_vars, ~raced' PROVE TableBijection'
    BY DEF NoRaceYet
  <1> USE DEF TableInv, TableBijection
  <1>0. ~raced /\ TableBijection
    <2>1. ASSUME NEW t \in Threads, name_to_index(t) PROVE ~raced
      BY <2>1, Zenon DEF name_to_index
    <2>2. ASSUME NEW t \in Threads, make_index(t) PROVE ~raced
      BY <2>2 DEF make_index
    <2>3. CASE UNCHANGED vars  BY <2>3 DEF vars, NoRaceYet
    <2> QED  BY <2>1, <2>2, <2>3 DEF Next, NoRaceYet
  <1>1. ASSUME NEW t \in Threads, name_to_index(t) PROVE TableBijection'
    <2>1. /\ UNCHANGED <<name_table, index_table, index, wrapped>>
          /\ Entries' = Entries
      BY <1>1 DEF name_to_index, Entries
    <2>2. OneToOne'
      BY <1>0, <2>1 DEF OneToOne, TableAgrees, InUse
    <2>3. \A u \in Threads \ {t} : pc'[u] = pc[u] /\ asked'[u] = asked[u]
      BY <1>1 DEF name_to_index, TypeOK
    <2>4. ASSUME pc'[t] = "missed"
          PROVE  /\ asked'[t] \notin Entries
                 /\ \A u \in Threads : pc[u] = "missed" => asked[u] # asked'[t]
      <3>1. PICK n \in Names :
               /\ pc[t] = "idle"
               /\ asked' = [asked EXCEPT ![t] = n]
               /\ \/ UNCHANGED pc
                  \/ /\ n \notin Entries
                     /\ raced' = (raced \/ \E u \in Threads :
                                              pc[u] = "missed" /\ asked[u] = n)
        BY <1>1, Zenon DEF name_to_index
      <3>2. n \notin Entries /\ ~ \E u \in Threads : pc[u] = "missed" /\ asked[u] = n
        BY <2>4, <3>1
      <3>3. asked'[t] = n  BY <3>1 DEF TypeOK
      <3> QED  BY <3>2, <3>3
    <2>5. StillUnknown'
      BY <1>0, <2>1, <2>3, <2>4 DEF StillUnknown
    <2> QED  BY <2>2, <2>5
  <1>2. ASSUME NEW t \in Threads, make_index(t) PROVE TableBijection'
    <2>1. /\ asked[t] \in Names /\ asked[t] \notin Entries
          /\ index \in Indices /\ index # NoIndex
      BY <1>0, <1>2 DEF make_index, MissedAsked, StillUnknown, TypeOK, Indices, NoIndex
    <2>2. name_table' = [m \in Names |->
                            IF m = asked[t] THEN index
                            ELSE IF name_table[m] = index THEN NoIndex
                                                          ELSE name_table[m]]
      <3>1. PICK table \in Evict : name_table' = [table EXCEPT ![asked[t]] = index]
        BY <1>2, Zenon DEF make_index
      <3>2. table = [m \in Names |-> IF name_table[m] = index THEN NoIndex ELSE name_table[m]]
        BY <1>0, EvictsOwner
      <3> QED  BY <2>1, <3>1, <3>2
    <2>3. index_table' = [index_table EXCEPT ![index] = asked[t]]
      BY <1>2 DEF make_index
    <2>4. \A i \in Indices : InUse(i)' <=> InUse(i) \/ i = index
      <3>1. index' = (IF index + 1 = addr_count THEN 0 ELSE index + 1)
        BY <1>2, <2>1, NextIndexStep DEF make_index
      <3>2. wrapped' <=> wrapped \/ index + 1 = addr_count
        BY <1>2, Zenon DEF make_index
      <3>3. ASSUME NEW i \in Indices
            PROVE  (wrapped' \/ i < index') <=> (wrapped \/ i < index) \/ i = index
        BY <2>1, <3>1, <3>2, CountAssumption DEF Indices
      <3> QED  BY <3>3 DEF InUse
    <2>5. ASSUME NEW m \in Entries' PROVE index_table'[name_table'[m]] = m
      BY <1>0, <2>1, <2>2, <2>3 DEF OneToOne, TableAgrees, Entries, TypeOK
    <2>6. ASSUME NEW i \in Indices
          PROVE  IF InUse(i)'
                 THEN index_table'[i] \in Entries' /\ name_table'[index_table'[i]] = i
                 ELSE index_table'[i] = NoName
      <3>1. CASE i = index
        BY <2>1, <2>2, <2>3, <2>4, <3>1 DEF Entries, TypeOK
      <3>2. CASE i # index
        BY <1>0, <2>1, <2>2, <2>3, <2>4, <3>2 DEF OneToOne, TableAgrees, Entries, TypeOK
      <3> QED  BY <3>1, <3>2
    <2>7. OneToOne'
      BY <2>5, <2>6 DEF OneToOne, TableAgrees
    <2>8. StillUnknown'
      <3>1. \A u \in Threads : pc'[u] = "missed" => /\ u # t /\ pc[u] = "missed"
                                                    /\ asked[u] \in Names
        BY <1>2 DEF make_index, MissedAsked, TypeOK
      <3>2. \A u \in Threads \ {t} : pc[u] = "missed" => asked[u] # asked[t]
        BY <1>0, <1>2 DEF make_index, StillUnknown
      <3>3. asked' = asked  BY <1>2 DEF make_index
      <3> QED  BY <1>0, <2>2, <3>1, <3>2, <3>3 DEF StillUnknown, Entries
    <2> QED  BY <2>7, <2>8
  <1>3. CASE UNCHANGED vars
    BY <1>0, <1>3 DEF vars, OneToOne, TableAgrees, StillUnknown, InUse, Entries
  <1> QED  BY <1>1, <1>2, <1>3 DEF Next

LEMMA BijectionInvariant == Spec => [](TableInv /\ NoRaceYet)
  <1>1. Init => NoRaceYet
    BY DEF Init, NoRaceYet, TableBijection, OneToOne, TableAgrees, StillUnknown, InUse,
       Entries, Indices
  <1> QED  BY <1>1, InitType, TypeStep, BijectionStep, PTL DEF Spec

(* Every remembered name is found again behind its address: in the first    *)
(* round of the pool always, and later however often the pool wraps around, *)
(* unless two threads have missed one name at once.                         *)
THEOREM AlwaysLeadsBack == Spec => []LeadsBack
  <1>1. TypeOK /\ TableAgrees => LeadsBack
    BY AddressRoundTrip DEF LeadsBack, TableAgrees, Entries, TypeOK
  <1>2. TableInv /\ NoRaceYet /\ FirstRound => LeadsBack
    BY <1>1 DEF TableInv, NoRaceYet, TableBijection, OneToOne, FirstRound, LeadsBack
  <1> QED  BY <1>2, BijectionInvariant, FirstRoundInvariant, PTL

(* Without that race the table stays within its pool. *)
THEOREM AlwaysWithinPool == Spec => []WithinPool
  <1>1. TableInv /\ NoRaceYet => WithinPool
    BY OneToOneFits DEF TableInv, NoRaceYet, TableBijection, WithinPool
  <1> QED  BY <1>1, BijectionInvariant, PTL

-----------------------------------------------------------------------------
(* The table as a queue. *)

(* The k-th taken index, the oldest first, as pool reads it. *)
Slot(k) == (Oldest + k - 1) % addr_count

Queue == [k \in 1 .. Taken |-> index_table[Slot(k)]]

(* Once around the pool the remainder is a subtraction. *)
LEMMA OnceAround ==
    \A a \in Nat : a < addr_count + addr_count =>
        a % addr_count = (IF a < addr_count THEN a ELSE a - addr_count)
  BY CountAssumption

LEMMA SlotIs ==
    ASSUME TypeOK, NEW k \in 1 .. addr_count
    PROVE  /\ Slot(k) = (IF Oldest + k - 1 < addr_count
                         THEN Oldest + k - 1 ELSE Oldest + k - 1 - addr_count)
           /\ Slot(k) \in Indices
  <1>1. Oldest \in 0 .. addr_count - 1
    BY CountAssumption DEF TypeOK, Indices, Oldest
  <1>2. /\ Oldest + k - 1 \in Nat /\ Oldest + k - 1 < addr_count + addr_count
        /\ k \in Nat /\ 1 <= k /\ k <= addr_count
    BY <1>1, CountAssumption
  <1>3. Slot(k) = (IF Oldest + k - 1 < addr_count
                   THEN Oldest + k - 1 ELSE Oldest + k - 1 - addr_count)
    <2>1. PICK a \in Nat : a = Oldest + k - 1  BY <1>2
    <2>2. a % addr_count = (IF a < addr_count THEN a ELSE a - addr_count)
      BY <1>2, <2>1, OnceAround
    <2>3. Slot(k) = a % addr_count  BY <2>1, Zenon DEF Slot
    <2> QED  BY <1>1, <1>2, <2>1, <2>2, <2>3, CountAssumption
  <1> QED  BY <1>1, <1>2, <1>3, CountAssumption DEF Indices

LEMMA TakenType ==
    ASSUME TypeOK
    PROVE  /\ Taken \in 0 .. addr_count /\ 1 .. Taken \subseteq 1 .. addr_count
           /\ Taken < addr_count <=> ~wrapped
  BY CountAssumption DEF TypeOK, Indices, Taken

(* The taken indices are the ones in use. *)
LEMMA QueueHolds ==
    ASSUME TypeOK, OneToOne
    PROVE  /\ Queue \in Seq(Names \cup {NoName}) /\ Len(Queue) = Taken
           /\ \A k \in 1 .. Taken : Queue[k] \in Entries
  <1>1. Taken \in Nat  BY TakenType, CountAssumption
  <1>2. ASSUME NEW k \in 1 .. Taken
        PROVE  Slot(k) \in Indices /\ InUse(Slot(k))
    BY <1>2, TakenType, SlotIs, CountAssumption DEF InUse, Oldest, Taken, TypeOK, Indices
  <1>3. \A k \in 1 .. Taken : index_table[Slot(k)] \in Entries  BY <1>2 DEF OneToOne
  <1> QED  BY <1>1, <1>3 DEF Queue, Entries

(* make_index in the first round adds a name at the end. *)
LEMMA QueueGrows ==
    ASSUME TypeOK, TypeOK', OneToOne, NEW t \in Threads, make_index(t), ~wrapped
    PROVE  Queue' = Append(Queue, asked[t])
  <1>1. index \in Nat /\ index < addr_count /\ index + 1 <= addr_count
    BY CountAssumption DEF TypeOK, Indices
  <1>2. /\ index' = (IF index + 1 = addr_count THEN 0 ELSE index + 1)
        /\ index_table' = [index_table EXCEPT ![index] = asked[t]]
    BY NextIndexStep DEF make_index, TypeOK
  <1>3. wrapped' = (index + 1 = addr_count)
    BY Zenon DEF make_index
  <1>4. Taken = index /\ Oldest = 0  BY DEF Taken, Oldest
  <1>5. Taken' = index + 1 /\ Oldest' = 0
    BY <1>1, <1>2, <1>3 DEF Taken, Oldest
  <1>6. ASSUME NEW k \in 1 .. index + 1
        PROVE  Slot(k) = k - 1 /\ Slot(k)' = k - 1 /\ k - 1 \in Indices
    <2>1. k \in 1 .. addr_count  BY <1>1, CountAssumption
    <2>2. Slot(k) = k - 1  BY <1>4, <2>1, SlotIs, CountAssumption
    <2>3. Slot(k)' = k - 1
      BY <1>5, <2>1, <2>2, <1>4 DEF Slot
    <2> QED  BY <2>1, <2>2, <2>3, CountAssumption DEF Indices
  <1>7. ASSUME NEW k \in 1 .. index + 1
        PROVE  index_table'[Slot(k)'] = IF k = index + 1 THEN asked[t] ELSE index_table[Slot(k)]
    BY <1>1, <1>2, <1>6 DEF TypeOK
  <1>8. Queue' = [k \in 1 .. index + 1 |-> IF k = index + 1 THEN asked[t] ELSE index_table[Slot(k)]]
    BY <1>5, <1>7 DEF Queue
  <1>9. Queue = [k \in 1 .. index |-> index_table[Slot(k)]]  BY <1>4 DEF Queue
  <1> HIDE DEF Queue
  <1>10. Len(Queue) = index /\ Queue \in Seq(Names \cup {NoName})  BY <1>4, QueueHolds
  <1> QED  BY <1>1, <1>8, <1>9, <1>10

(* Later it takes the oldest name out as well. *)
LEMMA QueueTurns ==
    ASSUME TypeOK, TypeOK', OneToOne, NEW t \in Threads, make_index(t), wrapped
    PROVE  Queue' = Append(Tail(Queue), asked[t])
  <1>1. index \in Nat /\ index < addr_count /\ addr_count \in Nat /\ 1 <= addr_count
    BY CountAssumption DEF TypeOK, Indices
  <1>2. /\ index' = (IF index + 1 = addr_count THEN 0 ELSE index + 1)
        /\ index_table' = [index_table EXCEPT ![index] = asked[t]]
    BY NextIndexStep DEF make_index, TypeOK
  <1>3. wrapped'  BY Zenon DEF make_index
  <1>4. Taken = addr_count /\ Oldest = index  BY DEF Taken, Oldest
  <1>5. Taken' = addr_count /\ Oldest' = index'  BY <1>3 DEF Taken, Oldest
  <1>6. ASSUME NEW k \in 1 .. addr_count
        PROVE  /\ Slot(k)' \in Indices
               /\ Slot(k)' = IF k = addr_count THEN index ELSE Slot(k + 1)
               /\ k # addr_count => Slot(k)' # index
    <2>1. Slot(k)' = (IF Oldest' + k - 1 < addr_count
                      THEN Oldest' + k - 1 ELSE Oldest' + k - 1 - addr_count)
      <3>1. Oldest' + k - 1 \in Nat /\ Oldest' + k - 1 < addr_count + addr_count
        BY <1>1, <1>2, <1>5
      <3>2. PICK a \in Nat : a = Oldest' + k - 1  BY <3>1
      <3>3. a % addr_count = (IF a < addr_count THEN a ELSE a - addr_count)
        BY <3>1, <3>2, OnceAround
      <3>4. Slot(k)' = a % addr_count  BY <3>2, Zenon DEF Slot
      <3> QED  BY <1>1, <1>2, <1>5, <3>1, <3>2, <3>3, <3>4
    <2>2. k # addr_count => k + 1 \in 1 .. addr_count  BY <1>1
    <2>3. k # addr_count => Slot(k + 1) = (IF index + k < addr_count
                                           THEN index + k ELSE index + k - addr_count)
      BY <1>1, <1>4, <2>2, SlotIs
    <2>4. Slot(k)' = IF k = addr_count THEN index
                     ELSE IF index + k < addr_count THEN index + k ELSE index + k - addr_count
      BY <1>1, <1>2, <1>5, <2>1
    <2> QED  BY <1>1, <2>3, <2>4 DEF Indices
  <1>7. ASSUME NEW k \in 1 .. addr_count
        PROVE  index_table'[Slot(k)'] = IF k = addr_count THEN asked[t] ELSE index_table[Slot(k + 1)]
    BY <1>2, <1>6 DEF TypeOK
  <1>8. Queue' = [k \in 1 .. addr_count |->
                     IF k = addr_count THEN asked[t] ELSE index_table[Slot(k + 1)]]
    BY <1>5, <1>7 DEF Queue
  <1>9. Queue = [k \in 1 .. addr_count |-> index_table[Slot(k)]]  BY <1>4 DEF Queue
  <1> HIDE DEF Queue
  <1>10. Len(Queue) = addr_count /\ Queue \in Seq(Names \cup {NoName})  BY <1>4, QueueHolds
  <1>11. /\ Len(Tail(Queue)) = addr_count - 1
         /\ \A k \in 1 .. addr_count - 1 : Tail(Queue)[k] = index_table[Slot(k + 1)]
         /\ Tail(Queue) \in Seq(Names \cup {NoName})
    BY <1>1, <1>9, <1>10
  <1> QED  BY <1>1, <1>8, <1>11

(* The table is a first-in-first-out memory of as many names as there are   *)
(* addresses, for any number of either, until two threads miss one name at  *)
(* once: every step remembers one new name or changes nothing.              *)
THEOREM TableIsFifo == Spec => ImplementsFifo
  <1>1. Init => Fifo!Init
    BY CountAssumption DEF Init, Fifo!Init, Taken, Indices
  <1>2. TableInv /\ TypeOK' /\ NoRaceYet /\ [Next]_vars => [Fifo!Next]_<<Queue, raced>>
    <2> SUFFICES ASSUME TableInv, TypeOK', NoRaceYet, [Next]_vars
                 PROVE  [Fifo!Next]_<<Queue, raced>>
      OBVIOUS
    <2> USE DEF TableInv
    <2>1. ASSUME NEW t \in Threads, name_to_index(t) PROVE [Fifo!Next]_<<Queue, raced>>
      <3>1. Queue' = Queue
        BY <2>1 DEF name_to_index, Queue, Slot, Oldest, Taken
      <3>2. raced' = raced \/ raced' = TRUE
        BY <2>1 DEF name_to_index, TypeOK
      <3> QED  BY <3>1, <3>2 DEF Fifo!Next
    <2>2. ASSUME NEW t \in Threads, make_index(t), raced PROVE Fifo!Next
      BY <2>2 DEF make_index, Fifo!Next, TypeOK
    <2>3. ASSUME NEW t \in Threads, make_index(t), ~raced PROVE Fifo!Next
      <3>1. OneToOne /\ asked[t] \in Names /\ asked[t] \notin Entries
        BY <2>3 DEF NoRaceYet, TableBijection, StillUnknown, make_index, MissedAsked
      <3> PICK n \in Names : n = asked[t]
        BY <3>1
      <3>2. ~Fifo!Contains(Queue, n)
        BY <3>1, QueueHolds DEF Fifo!Contains
      <3>3. Len(Queue) < addr_count <=> ~wrapped
        BY <3>1, QueueHolds, TakenType
      <3>4. Queue' = IF Len(Queue) < addr_count THEN Append(Queue, n)
                                                ELSE Append(Tail(Queue), n)
        BY <2>3, <3>1, <3>3, QueueGrows, QueueTurns
      <3>5. UNCHANGED raced  BY <2>3 DEF make_index
      <3>6. Fifo!Remember(n)
        BY <2>3, <3>2, <3>4, <3>5 DEF Fifo!Remember, Queue, Slot
      <3> QED  BY <3>1, <3>6 DEF Fifo!Next
    <2>4. CASE UNCHANGED vars
      BY <2>4 DEF vars, Queue, Slot, Oldest, Taken
    <2> QED  BY <2>1, <2>2, <2>3, <2>4 DEF Next
  <1>3. TableInv => TypeOK  BY DEF TableInv
  <1> QED
    BY <1>1, <1>2, <1>3, BijectionInvariant, PTL DEF Spec, ImplementsFifo, Fifo!Spec, Queue, Slot

-----------------------------------------------------------------------------
(* connect only reads the table: Redirect is the table with more variables. *)
LEMMA RedirectUsesTable == RSpec => Spec
  <1>1. RInit => Init  BY DEF RInit
  <1>2. [RNext]_rvars => [Next]_vars
    <2> SUFFICES ASSUME [RNext]_rvars PROVE [Next]_vars  OBVIOUS
    <2>1. ASSUME NEW t \in Threads, Resolve(t) PROVE [Next]_vars
      BY <2>1 DEF Resolve, Next
    <2>2. ASSUME NEW t \in Threads, connect(t) \/ CheckName(t) \/ ReadName(t) \/ Finish(t)
          PROVE  [Next]_vars
      BY <2>2 DEF connect, CheckName, ReadName, Finish
    <2>3. CASE UNCHANGED rvars  BY <2>3 DEF rvars
    <2> QED  BY <2>1, <2>2, <2>3 DEF RNext
  <1> QED  BY <1>1, <1>2, PTL DEF RSpec, Spec

(* How many entries will be made before one overwrites index i. *)
TurnsLeft(i) == IF i >= index THEN i - index ELSE i - index + addr_count

(* make_index overwrites one index, the one whose turn has come: that index *)
(* goes to the back, with the name the thread asked for behind the address  *)
(* that the thread is given, and every other index keeps its name and comes *)
(* one turn nearer.  Nothing else touches an index.                         *)
AddressesTakeTurns ==
    \/ UNCHANGED <<index_table, index>>
    \/ \E t \in Threads : \A i \in Indices :
          \/ /\ TurnsLeft(i) = 0 /\ TurnsLeft(i)' = addr_count - 1
             /\ held'[t] = index_to_addr(i) /\ index_table'[i] = asked[t]
          \/ /\ TurnsLeft(i) > 0 /\ TurnsLeft(i)' = TurnsLeft(i) - 1
             /\ index_table'[i] = index_table[i]

(* So an address that make_index gives out keeps its name while addr_count  *)
(* - 1 further entries are made, however often the pool has wrapped around  *)
(* and whatever races there were: under the hooks, for any pool.            *)
THEOREM NewAddressesLast == RSpec => [][AddressesTakeTurns]_rvars
  <1>1. TableInv /\ [Next]_vars => AddressesTakeTurns
    <2> SUFFICES ASSUME TableInv, [Next]_vars PROVE AddressesTakeTurns
      OBVIOUS
    <2>1. ASSUME NEW t \in Threads, make_index(t) PROVE AddressesTakeTurns
      <3>1. /\ index \in Indices /\ index' = NextIndex
            /\ index_table' = [index_table EXCEPT ![index] = asked[t]]
            /\ held' = [held EXCEPT ![t] = index_to_addr(index)]
            /\ index_table \in [Indices -> Names \cup {NoName}]
            /\ DOMAIN held = Threads
        BY <2>1 DEF make_index, TableInv, TypeOK
      <3>2. index' = IF index + 1 = addr_count THEN 0 ELSE index + 1
        BY <3>1, NextIndexStep
      <3>3. ASSUME NEW i \in Indices, i = index
            PROVE  /\ TurnsLeft(i) = 0 /\ TurnsLeft(i)' = addr_count - 1
                   /\ held'[t] = index_to_addr(i) /\ index_table'[i] = asked[t]
        <4>1. TurnsLeft(i) = 0 /\ TurnsLeft(i)' = addr_count - 1
          BY <3>2, <3>3, CountAssumption DEF TurnsLeft, Indices
        <4>2. held'[t] = index_to_addr(i) /\ index_table'[i] = asked[t]
          BY <3>1, <3>3, Zenon
        <4> QED  BY <4>1, <4>2
      <3>4. ASSUME NEW i \in Indices, i # index
            PROVE  /\ TurnsLeft(i) > 0 /\ TurnsLeft(i)' = TurnsLeft(i) - 1
                   /\ index_table'[i] = index_table[i]
        <4>1. TurnsLeft(i) > 0 /\ TurnsLeft(i)' = TurnsLeft(i) - 1
          BY <3>1, <3>2, <3>4, CountAssumption DEF TurnsLeft, Indices
        <4>2. index_table'[i] = index_table[i]  BY <3>1, <3>4, Zenon
        <4> QED  BY <4>1, <4>2
      <3> QED  BY <3>3, <3>4, Zenon DEF AddressesTakeTurns
    <2>2. ASSUME NEW t \in Threads, name_to_index(t) PROVE AddressesTakeTurns
      BY <2>2 DEF name_to_index, AddressesTakeTurns
    <2>3. CASE UNCHANGED vars  BY <2>3 DEF vars, AddressesTakeTurns
    <2> QED  BY <2>1, <2>2, <2>3 DEF Next
  <1>2. UNCHANGED rvars => UNCHANGED vars  BY DEF rvars
  <1> QED
    BY <1>1, <1>2, InitType, TypeStep, RedirectUsesTable, PTL DEF Spec

(* Under the hooks, whatever they look up meanwhile, the table is what it is *)
(* on its own: addresses in use keep their names and lead back, the pool is  *)
(* not outgrown, and it is a first-in-first-out memory.                      *)
THEOREM TableSoundUnderHooks ==
    RSpec => [](AnswersHold /\ LeadsBack /\ WithinPool) /\ ImplementsFifo
  BY RedirectUsesTable, AnswersHoldFirstRound, AlwaysLeadsBack, AlwaysWithinPool, TableIsFifo, PTL

-----------------------------------------------------------------------------
(* Names last. *)

(* Every index that the table or a thread knows of has a name behind it. *)
Behind == /\ \A n \in Entries : index_table[name_table[n]] # NoName
          /\ \A t \in Threads : held[t] # NoAddr => addr_to_name(held[t]) # NoName

LEMMA BehindStep == TableInv /\ Behind /\ [Next]_vars => Behind'
  <1> SUFFICES ASSUME TableInv, Behind, [Next]_vars PROVE Behind'  OBVIOUS
  <1> USE DEF TableInv
  <1>1. ASSUME NEW t \in Threads, name_to_index(t) PROVE Behind'
    <2>1. /\ Entries' = Entries /\ name_table' = name_table
          /\ index_table' = index_table
      BY <1>1 DEF name_to_index, Entries
    <2>2. ASSUME NEW u \in Threads, held'[u] # NoAddr
          PROVE  addr_to_name(held'[u]) # NoName
      <3>1. CASE held'[u] = held[u]  BY <2>2, <3>1 DEF Behind
      <3>2. CASE held'[u] # held[u]
        <4>1. PICK n \in Entries : held'[u] = index_to_addr(name_table[n])
          BY <1>1, <2>2, <3>2 DEF name_to_index, TypeOK
        <4>2. name_table[n] \in Indices  BY DEF Entries, TypeOK
        <4> QED  BY <4>1, <4>2, AddressRoundTrip DEF Behind
      <3> QED  BY <3>1, <3>2
    <2> QED  BY <2>1, <2>2 DEF Behind, addr_to_name, index_to_name
  <1>2. ASSUME NEW t \in Threads, make_index(t) PROVE Behind'
    <2>1. /\ asked[t] \in Names /\ asked[t] # NoName /\ index \in Indices
          /\ index_table' = [index_table EXCEPT ![index] = asked[t]]
      BY <1>2, NamesAssumption DEF make_index, MissedAsked, TypeOK
    <2>2. \A i \in Indices : index_table[i] # NoName \/ i = index => index_table'[i] # NoName
      BY <2>1 DEF TypeOK
    <2>3. ASSUME NEW n \in Entries' PROVE index_table'[name_table'[n]] # NoName
      <3>1. PICK table \in Evict : name_table' = [table EXCEPT ![asked[t]] = index]
        BY <1>2 DEF make_index
      <3>2. CASE n = asked[t]
        BY <2>1, <2>2, <3>1, <3>2, EvictRemoves
      <3>3. CASE n # asked[t]
        <4>1. n \in Entries /\ name_table'[n] = name_table[n]
          BY <3>1, <3>3, EvictRemoves DEF Entries
        <4>2. name_table[n] \in Indices  BY <4>1 DEF Entries, TypeOK
        <4> QED  BY <2>2, <4>1, <4>2 DEF Behind
      <3> QED  BY <3>2, <3>3
    <2>4. ASSUME NEW u \in Threads, held'[u] # NoAddr
          PROVE  \E i \in Indices : /\ held'[u] = index_to_addr(i)
                                    /\ index_table'[i] # NoName
      <3>1. CASE u = t
        BY <1>2, <2>1, <2>2, <3>1 DEF make_index, TypeOK
      <3>2. CASE u # t
        <4>1. held'[u] = held[u]
          BY <1>2, <3>2 DEF make_index, TypeOK
        <4>2. PICK i \in Indices : held[u] = index_to_addr(i)
          BY <2>4, <4>1 DEF TypeOK
        <4>3. index_table[i] # NoName
          BY <2>4, <4>1, <4>2, AddressRoundTrip DEF Behind
        <4> QED  BY <2>2, <4>1, <4>2, <4>3
      <3> QED  BY <3>1, <3>2
    <2>5. \A u \in Threads : held'[u] # NoAddr => addr_to_name(held[u])' # NoName
      BY <2>4, AddressRoundTrip DEF addr_to_name, index_to_name
    <2> QED  BY <2>3, <2>5 DEF Behind
  <1>3. CASE UNCHANGED vars
    BY <1>3 DEF vars, Behind, Entries, addr_to_name, index_to_name
  <1> QED  BY <1>1, <1>2, <1>3 DEF Next

LEMMA TableNamesLast == Spec => [](TableInv /\ Behind)
  <1>1. Init => Behind
    BY DEF Init, Behind, Entries
  <1> QED  BY <1>1, InitType, TypeStep, BehindStep, PTL DEF Spec

-----------------------------------------------------------------------------
(* Type correctness, and what a thread in connect has in its hands. *)

InConnect == \A t \in Threads : cpc[t] # "idle" => pc[t] = "idle" /\ held[t] # NoAddr

RInv == RTypeOK /\ InConnect

LEMMA AddrToNameType ==
    ASSUME TypeOK, NEW addr PROVE addr_to_name(addr) \in Names \cup {NoName}
  BY DEF TypeOK, addr_to_name, index_to_name

LEMMA RInitInv == RInit => RInv
  BY InitType DEF RInit, RInv, RTypeOK, InConnect, TableInv

LEMMA RStepInv == RInv /\ TypeOK' /\ [RNext]_rvars => RInv'
  <1> SUFFICES ASSUME RInv, TypeOK', [RNext]_rvars PROVE RInv'  OBVIOUS
  <1> USE DEF RInv
  <1>1. ASSUME NEW t \in Threads, Resolve(t) PROVE RInv'
    <2>1. /\ cpc[t] = "idle" /\ UNCHANGED <<cpc, queried, requested>>
          /\ \A u \in Threads \ {t} : pc'[u] = pc[u] /\ held'[u] = held[u]
      BY <1>1 DEF Resolve, name_to_index, make_index, RTypeOK, TypeOK
    <2> QED  BY <2>1 DEF RTypeOK, InConnect
  <1>2. ASSUME NEW t \in Threads, connect(t) PROVE RInv'
    <2>1. held[t] # NoAddr
      BY <1>2 DEF connect, is_resolved_addr, NoAddr, addr_prefix
    <2> QED
      BY <1>2, <2>1, AddrToNameType DEF connect, At, RTypeOK, InConnect, vars
  <1>3. ASSUME NEW t \in Threads, CheckName(t) PROVE RInv'
    BY <1>3 DEF CheckName, At, RTypeOK, InConnect, vars
  <1>4. ASSUME NEW t \in Threads, ReadName(t) PROVE RInv'
    BY <1>4, AddrToNameType DEF ReadName, At, RTypeOK, InConnect, vars
  <1>5. ASSUME NEW t \in Threads, Finish(t) PROVE RInv'
    BY <1>5 DEF Finish, At, RTypeOK, InConnect, vars
  <1>6. CASE UNCHANGED rvars
    BY <1>6 DEF rvars, RTypeOK, InConnect, vars
  <1> QED  BY <1>1, <1>2, <1>3, <1>4, <1>5, <1>6 DEF RNext

LEMMA RInvariant == RSpec => []RInv
  BY RInitInv, RStepInv, RedirectUsesTable, TypeCorrect, PTL DEF RSpec

(* Type correctness of the composition. *)
THEOREM RedirectTypeCorrect == RSpec => []RTypeOK
  <1>1. RInv => RTypeOK  BY DEF RInv
  <1> QED  BY <1>1, RInvariant, PTL

(* The connect hook never finds an address of the table without its name,   *)
(* not even after the pool has wrapped around.                              *)
THEOREM NamesAlwaysLast == RSpec => []NamesLast
  <1>1. RInit => NamesLast  BY DEF RInit, NamesLast
  <1>2. RInv /\ Behind /\ NamesLast /\ [RNext]_rvars => NamesLast'
    <2> SUFFICES ASSUME RInv, Behind, NamesLast, [RNext]_rvars,
                        NEW u \in Threads, cpc'[u] = "invalid"
                 PROVE  FALSE
      BY DEF NamesLast
    <2>1. cpc[u] # "invalid"  BY DEF NamesLast
    <2>2. PICK t \in Threads : CheckName(t) /\ cpc'[t] = "invalid"
      BY <2>1 DEF RNext, rvars, Resolve, connect, CheckName, ReadName, Finish, At,
         RInv, RTypeOK
    <2>3. addr_to_name(held[t]) = NoName /\ held[t] # NoAddr
      BY <2>2 DEF CheckName, At, RInv, RTypeOK, InConnect
    <2> QED  BY <2>3 DEF Behind
  <1> QED  BY <1>1, <1>2, RInvariant, RedirectUsesTable, TableNamesLast, PTL DEF RSpec

-----------------------------------------------------------------------------
(* The right host, in the first round of the pool. *)

Honest ==
    ~wrapped => \A t \in Threads :
        /\ cpc[t] \in {"queried", "checked", "done"} => queried[t] = asked[t]
        /\ cpc[t] = "done" => requested[t] = asked[t]

LEMMA HonestStep == RInv /\ AnswersHold /\ Honest /\ [RNext]_rvars => Honest'
  <1> SUFFICES ASSUME RInv, AnswersHold, Honest, [RNext]_rvars, ~wrapped'
               PROVE  Honest'
    BY DEF Honest
  <1> USE DEF RInv
  <1>1. ~wrapped
    BY DEF RNext, Resolve, name_to_index, make_index, connect, CheckName, ReadName,
       Finish, rvars, vars
  <1>2. \A t \in Threads : cpc[t] # "idle" \/ is_resolved_addr(held[t])
                             => addr_to_name(held[t]) = asked[t]
    BY <1>1 DEF AnswersHold, InConnect, is_resolved_addr, NoAddr, addr_prefix
  <1>3. ASSUME NEW t \in Threads, Resolve(t) PROVE Honest'
    <2>1. /\ cpc[t] = "idle" /\ UNCHANGED <<cpc, queried, requested>>
          /\ \A u \in Threads \ {t} : asked'[u] = asked[u]
      BY <1>3 DEF Resolve, name_to_index, make_index, RTypeOK, TypeOK
    <2> QED  BY <1>1, <2>1 DEF Honest
  <1>4. ASSUME NEW t \in Threads, connect(t) PROVE Honest'
    BY <1>1, <1>2, <1>4 DEF connect, At, Honest, RTypeOK, vars
  <1>5. ASSUME NEW t \in Threads, CheckName(t) PROVE Honest'
    BY <1>1, <1>5 DEF CheckName, At, Honest, RTypeOK, vars
  <1>6. ASSUME NEW t \in Threads, ReadName(t) PROVE Honest'
    BY <1>1, <1>2, <1>6 DEF ReadName, At, Honest, RTypeOK, vars
  <1>7. ASSUME NEW t \in Threads, Finish(t) PROVE Honest'
    BY <1>1, <1>7 DEF Finish, At, Honest, RTypeOK, vars
  <1>8. CASE UNCHANGED rvars
    BY <1>1, <1>8 DEF rvars, Honest, vars
  <1> QED  BY <1>3, <1>4, <1>5, <1>6, <1>7, <1>8 DEF RNext

(* As long as the pool has not wrapped around, whatever the threads resolve *)
(* and connect to at the same time, the configuration is asked about the    *)
(* host that the application resolved, and the connection goes there.       *)
THEOREM RightHostFirstRound == RSpec => []RightHost
  <1>1. RInit => Honest  BY DEF RInit, Honest
  <1>2. Honest => RightHost  BY DEF Honest, RightHost
  <1> QED
    BY <1>1, <1>2, HonestStep, RInvariant, RedirectUsesTable, AnswersHoldFirstRound, PTL
       DEF RSpec
=============================================================================
