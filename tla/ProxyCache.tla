----------------------------- MODULE ProxyCache -----------------------------
(***************************************************************************)
(* skia::query_proxy and its cache of the configuration script's answers.  *)
(*                                                                         *)
(* A query searches the cache under the shared lock, gives the lock up,    *)
(* runs the script, and stores the answer under the exclusive lock unless  *)
(* the script said not to.  Nothing is searched again before the store, so *)
(* several threads can run the script for one key and all store.  The lock *)
(* is SharedMutex.tla; its critical sections are atomic here.              *)
(*                                                                         *)
(* A key is a host and a port, neither of them empty: the code answers     *)
(* other queries with a direct connection before it looks at the cache.    *)
(***************************************************************************)
EXTENDS Naturals, FiniteSets

CONSTANTS Threads,   \* the threads that connect
          Keys,      \* host:port, the keys of the cache
          Proxies,   \* what the script may name as the host of a proxy
          Addresses, \* those of them that inet_aton takes for an address
          Applications, \* bundle identifiers, or names of processes
          Script,    \* Script[a][d]: the results queryProxy may return to a for d
          Null,      \* the script's null, also what a script error amounts to
          Direct,    \* address zero: no proxy
          NoEntry,   \* the cache has no entry for the key
          NoKey      \* the key of a thread without a query

Results == [host : Proxies, noCache : BOOLEAN] \cup {Null}

ASSUME ScriptAssumption == Script \in [Applications -> [Keys -> SUBSET Results]]
ASSUME ProxiesAssumption == /\ Null \notin [host : Proxies, noCache : BOOLEAN]
                            /\ Direct \notin Proxies
                            /\ Addresses \subseteq Proxies
ASSUME NoEntryAssumption == NoEntry \notin Proxies \cup {Direct} /\ NoKey \notin Keys

VARIABLES application,  \* what current_application gives in this process
          proxy_cache,  \* the cached answer of a key, or NoEntry
          pc,           \* where a thread's query is
          key,          \* its key
          proxy,        \* the answer, once known
          ran           \* the keys a thread has run the script for (history)

vars == <<application, proxy_cache, pc, key, proxy, ran>>

Answers == Addresses \cup {Direct}

(* What the script may return in this process. *)
Returns(k) == Script[application][k]

Init == /\ application \in Applications
        /\ proxy_cache = [k \in Keys |-> NoEntry]
        /\ pc = [t \in Threads |-> "idle"]
        /\ key = [t \in Threads |-> NoKey]
        /\ proxy = [t \in Threads |-> Direct]
        /\ ran = [t \in Threads |-> {}]

(* What the C++ side makes of the script's result: a proxy whose host is not *)
(* an address is no proxy.                                                   *)
Answer(result) == IF result # Null /\ result.host \in Addresses
                  THEN result.host ELSE Direct

NoCache(result) == result # Null /\ result.noCache

BugFind(t) ==                    \* the port is left out of the key
    \E k, any \in Keys :
        /\ pc[t] = "idle"
        /\ key' = [key EXCEPT ![t] = k]
        /\ \/ /\ proxy_cache[any] # NoEntry
              /\ proxy' = [proxy EXCEPT ![t] = proxy_cache[any]]
              /\ pc' = [pc EXCEPT ![t] = "answered"]
           \/ /\ proxy_cache[k] = NoEntry
              /\ pc' = [pc EXCEPT ![t] = "missed"]
              /\ UNCHANGED proxy
        /\ UNCHANGED <<application, proxy_cache, ran>>

(* The search.  The lock is free again when this step is over. *)
find(t) ==
    \E k \in Keys :
        /\ pc[t] = "idle"
        /\ key' = [key EXCEPT ![t] = k]
        /\ \/ /\ proxy_cache[k] # NoEntry
              /\ proxy' = [proxy EXCEPT ![t] = proxy_cache[k]]
              /\ pc' = [pc EXCEPT ![t] = "answered"]
           \/ /\ proxy_cache[k] = NoEntry
              /\ pc' = [pc EXCEPT ![t] = "missed"]
              /\ UNCHANGED proxy
        /\ UNCHANGED <<application, proxy_cache, ran>>

BugEvaluate(t) ==                \* the mark is not looked at
    /\ pc[t] = "missed"
    /\ \E result \in Returns(key[t]) : proxy' = [proxy EXCEPT ![t] = Answer(result)]
    /\ pc' = [pc EXCEPT ![t] = "evaluated"]
    /\ ran' = [ran EXCEPT ![t] = @ \cup {key[t]}]
    /\ UNCHANGED <<application, proxy_cache, key>>

(* The script runs without the lock. *)
evaluate(t) ==
    /\ pc[t] = "missed"
    /\ \E result \in Returns(key[t]) :
          /\ proxy' = [proxy EXCEPT ![t] = Answer(result)]
          /\ pc' = [pc EXCEPT ![t] = IF NoCache(result) THEN "answered" ELSE "evaluated"]
    /\ ran' = [ran EXCEPT ![t] = @ \cup {key[t]}]
    /\ UNCHANGED <<application, proxy_cache, key>>

BugStore(t) ==                   \* direct connections are not remembered
    /\ pc[t] = "evaluated"
    /\ proxy_cache' = IF proxy[t] = Direct THEN proxy_cache
                      ELSE [proxy_cache EXCEPT ![key[t]] = proxy[t]]
    /\ pc' = [pc EXCEPT ![t] = "answered"]
    /\ UNCHANGED <<application, key, proxy, ran>>

BugStoreClears(t) ==             \* a new answer drops the other entries
    /\ pc[t] = "evaluated"
    /\ proxy_cache' = [k \in Keys |-> IF k = key[t] THEN proxy[t] ELSE NoEntry]
    /\ pc' = [pc EXCEPT ![t] = "answered"]
    /\ UNCHANGED <<application, key, proxy, ran>>

store(t) ==
    /\ pc[t] = "evaluated"
    /\ proxy_cache' = [proxy_cache EXCEPT ![key[t]] = proxy[t]]
    /\ pc' = [pc EXCEPT ![t] = "answered"]
    /\ UNCHANGED <<application, key, proxy, ran>>

(* The answer is returned, and the query's variables are gone. *)
finish(t) ==
    /\ pc[t] = "answered"
    /\ pc' = [pc EXCEPT ![t] = "idle"]
    /\ key' = [key EXCEPT ![t] = NoKey]
    /\ proxy' = [proxy EXCEPT ![t] = Direct]
    /\ UNCHANGED <<application, proxy_cache, ran>>

Next == \E t \in Threads : find(t) \/ evaluate(t) \/ store(t) \/ finish(t)

Spec == Init /\ [][Next]_vars

-----------------------------------------------------------------------------
(* Properties *)

TypeOK == /\ application \in Applications
          /\ proxy_cache \in [Keys -> Answers \cup {NoEntry}]
          /\ pc \in [Threads -> {"idle", "missed", "evaluated", "answered"}]
          /\ key \in [Threads -> Keys \cup {NoKey}]
          /\ \A t \in Threads : pc[t] # "idle" => key[t] \in Keys
          /\ proxy \in [Threads -> Answers]
          /\ ran \in [Threads -> SUBSET Keys]

(* The script answers a destination the same every time it may be cached.   *)
(* Nothing makes the user write such a script.                              *)
Steady(k) == \A one, other \in Returns(k) :
                 ~NoCache(one) /\ ~NoCache(other) => Answer(one) = Answer(other)

Cacheable(k) == \A result \in Returns(k) : ~NoCache(result)

(* The cache holds only what the script answered for that very key, and     *)
(* never an answer that it marked noCache.                                  *)
CacheSound ==
    \A k \in Keys : proxy_cache[k] # NoEntry =>
        \E result \in Returns(k) : ~NoCache(result) /\ proxy_cache[k] = Answer(result)

(* A connection is given what the script answered for its own destination,  *)
(* through the cache or not.                                                *)
AnswerSound ==
    \A t \in Threads : pc[t] = "answered" =>
        \E result \in Returns(key[t]) : proxy[t] = Answer(result)

(* No thread runs the script a second time for a destination whose answers  *)
(* may be cached: the slow path is taken at most once per thread.           *)
AsksOnce ==
    \A t \in Threads : pc[t] = "missed" /\ Cacheable(key[t]) => key[t] \notin ran[t]

(* A cached answer of a steady destination stays as it is until the         *)
(* application ends, whatever is asked and stored meanwhile, the answers    *)
(* included that the script gave for the same destination without caching.  *)
CachePersists ==
    [][\A k \in Keys : Steady(k) /\ proxy_cache[k] # NoEntry
                           => proxy_cache'[k] = proxy_cache[k]]_vars
=============================================================================
