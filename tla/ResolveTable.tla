---------------------------- MODULE ResolveTable ----------------------------
(***************************************************************************)
(* resolve_table of skia.hpp and skia.cpp: the table that gives every host *)
(* name an address of its own out of 240.0.0.0/8, so that the connect hook *)
(* can find the name again behind the address.                             *)
(*                                                                         *)
(* The critical sections of the table's mutex are atomic here              *)
(* (SharedMutex.tla shows that they exclude each other).  name_to_index    *)
(* has two of them: it searches under the shared lock, gives that up, and  *)
(* takes the exclusive lock in make_index without searching again.         *)
(*                                                                         *)
(* An address is a pair: its first byte and its low bits.  The low bits    *)
(* run over 0..addr_count, and addr_count is a mask of ones in the code.   *)
(* The two hash maps are total functions with a value for "no entry".      *)
(***************************************************************************)
EXTENDS Integers, FiniteSets, Sequences

CONSTANTS Threads,     \* the application's threads that resolve names
          Names,       \* host names
          addr_count,  \* 2^24 - 1 in the code
          NoName       \* the empty string that stands for "no such address"

ASSUME NamesAssumption == IsFiniteSet(Names) /\ NoName \notin Names
ASSUME CountAssumption == addr_count \in Nat \ {0}

VARIABLES name_table,   \* the index of a name, or NoIndex
          index_table,  \* the name at an index, or NoName
          index,        \* the index that is given out next
          pc,           \* "missed": between the two critical sections
          asked,        \* the name of a thread's last lookup
          held,         \* the address it was given, or NoAddr
          wrapped,      \* whether index has been back to zero (history)
          raced         \* whether two threads missed one name at once (history)

vars == <<name_table, index_table, index, pc, asked, held, wrapped, raced>>

Indices == 0 .. addr_count - 1
NoIndex == -1
NoAddr == <<0, 0>>

addr_prefix == 240

is_resolved_addr(addr) == addr[1] = addr_prefix

index_to_addr(i) == <<addr_prefix, i + 1>>

(* addr_count & (ntohl(addr) - 1): the mask keeps the low bits. *)
addr_to_index(addr) == (addr[2] - 1) % (addr_count + 1)

(* The last index, addr_count, is never given out: 240.0.0.0 has no name. *)
index_to_name(i) == IF i \in Indices THEN index_table[i] ELSE NoName

addr_to_name(addr) == index_to_name(addr_to_index(addr))

Entries == {n \in Names : name_table[n] # NoIndex}

-----------------------------------------------------------------------------
Init == /\ name_table = [n \in Names |-> NoIndex]
        /\ index_table = [i \in Indices |-> NoName]
        /\ index = 0
        /\ pc = [t \in Threads |-> "idle"]
        /\ asked = [t \in Threads |-> NoName]
        /\ held = [t \in Threads |-> NoAddr]
        /\ wrapped = FALSE
        /\ raced = FALSE

(* name_to_addr up to the end of the search: a known name has its address,  *)
(* a new one leaves the thread without a lock, on its way to make_index.    *)
name_to_index(t) ==
    \E n \in Names :
        /\ pc[t] = "idle"
        /\ asked' = [asked EXCEPT ![t] = n]
        /\ \/ /\ n \in Entries
              /\ held' = [held EXCEPT ![t] = index_to_addr(name_table[n])]
              /\ UNCHANGED <<pc, raced>>
           \/ /\ n \notin Entries
              /\ held' = [held EXCEPT ![t] = NoAddr]
              /\ pc' = [pc EXCEPT ![t] = "missed"]
              /\ raced' = (raced \/ \E u \in Threads : pc[u] = "missed" /\ asked[u] = n)
        /\ UNCHANGED <<name_table, index_table, index, wrapped>>

Victims == {n \in Names : name_table[n] = index}

BugEvict == {name_table}                       \* the table just grows

BugEvictNext ==                                \* the victim after the right one
    LET next == {n \in Names : name_table[n] = (index + 1) % addr_count}
    IN IF Cardinality(Entries) >= addr_count /\ next # {}
       THEN {[name_table EXCEPT ![v] = NoIndex] : v \in next}
       ELSE {name_table}

BugEvictLate ==                                \* > for >=
    IF Cardinality(Entries) > addr_count /\ Victims # {}
    THEN {[name_table EXCEPT ![v] = NoIndex] : v \in Victims}
    ELSE {name_table}

(* A full table loses the first entry in hash order that has the index to   *)
(* be given out.                                                            *)
Evict == IF Cardinality(Entries) >= addr_count /\ Victims # {}
         THEN {[name_table EXCEPT ![v] = NoIndex] : v \in Victims}
         ELSE {name_table}

BugNextIndex == index                          \* the index is not advanced

NextIndex == (index + 1) % addr_count

BugMakeIndex(t) ==      \* empties the slot that is to be given out next
    /\ pc[t] = "missed"
    /\ \E table \in Evict : name_table' = [table EXCEPT ![asked[t]] = index]
    /\ index_table' = [index_table EXCEPT ![NextIndex] = NoName, ![index] = asked[t]]
    /\ index' = NextIndex
    /\ wrapped' = (wrapped \/ index + 1 = addr_count)
    /\ pc' = [pc EXCEPT ![t] = "idle"]
    /\ held' = [held EXCEPT ![t] = index_to_addr(index)]
    /\ UNCHANGED <<asked, raced>>

make_index(t) ==
    /\ pc[t] = "missed"
    /\ \E table \in Evict : name_table' = [table EXCEPT ![asked[t]] = index]
    /\ index_table' = [index_table EXCEPT ![index] = asked[t]]
    /\ index' = NextIndex
    /\ wrapped' = (wrapped \/ index + 1 = addr_count)
    /\ pc' = [pc EXCEPT ![t] = "idle"]
    /\ held' = [held EXCEPT ![t] = index_to_addr(index)]
    /\ UNCHANGED <<asked, raced>>

Next == \E t \in Threads : name_to_index(t) \/ make_index(t)

Spec == Init /\ [][Next]_vars

-----------------------------------------------------------------------------
(* Properties *)

TypeOK == /\ name_table \in [Names -> Indices \cup {NoIndex}]
          /\ index_table \in [Indices -> Names \cup {NoName}]
          /\ index \in Indices
          /\ pc \in [Threads -> {"idle", "missed"}]
          /\ asked \in [Threads -> Names \cup {NoName}]
          /\ held \in [Threads -> {index_to_addr(i) : i \in Indices} \cup {NoAddr}]
          /\ wrapped \in BOOLEAN /\ raced \in BOOLEAN

(* A remembered name has an address that leads back to that very name, so   *)
(* the connect hook will ask the proxy for the host the application meant:  *)
(* until the pool has wrapped around, whatever the threads do, and after    *)
(* that as long as no two threads were between the critical sections with   *)
(* one name, which leaves two indices for it.                               *)
LeadsBack ==
    ~raced \/ ~wrapped =>
        \A n \in Entries : addr_to_name(index_to_addr(name_table[n])) = n

(* Without that race the table never outgrows its pool of addresses. *)
WithinPool == ~raced => Cardinality(Entries) <= addr_count

(* Until the pool has wrapped around, an address in the hands of any thread *)
(* keeps its name, whatever the other threads resolve meanwhile.            *)
AnswersHold ==
    ~wrapped => \A t \in Threads :
                    held[t] # NoAddr => addr_to_name(held[t]) = asked[t]

(* The indices that are taken, the oldest first. *)
Oldest == IF wrapped THEN index ELSE 0
Taken == IF wrapped THEN addr_count ELSE index

(* The table is a first-in-first-out cache: the names behind the taken      *)
(* indices, each once, and the oldest makes room for a new one, up to the   *)
(* first time that two threads miss one name at once.                       *)
Fifo == INSTANCE NameFifo WITH
          Capacity <- addr_count,
          pool <- [k \in 1 .. Taken |-> index_table[(Oldest + k - 1) % addr_count]]
ImplementsFifo == Fifo!Spec
=============================================================================
