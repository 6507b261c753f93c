-------------------------- MODULE ProxyCacheProofs --------------------------
(***************************************************************************)
(* Theorems about ProxyCache for any threads, destinations, application and *)
(* script.                                                                 *)
(***************************************************************************)
EXTENDS ProxyCache, TLAPS

(* What a thread is about to store is an answer that may be cached. *)
ToStore == \A t \in Threads : pc[t] = "evaluated" =>
    \E result \in Returns(key[t]) : ~NoCache(result) /\ proxy[t] = Answer(result)

(* A thread that has run the script for a cacheable destination has stored  *)
(* the answer or is about to.                                               *)
Remembered == \A t \in Threads : \A k \in ran[t] :
    Cacheable(k) => proxy_cache[k] # NoEntry \/ (pc[t] = "evaluated" /\ key[t] = k)

CacheInv == TypeOK /\ CacheSound /\ AnswerSound /\ AsksOnce /\ ToStore /\ Remembered

LEMMA AnswerType == \A result : Answer(result) \in Answers
  BY DEF Answer, Answers

LEMMA AnswersAreEntries == NoEntry \notin Answers
  BY NoEntryAssumption, ProxiesAssumption DEF Answers

LEMMA InitInv == Init => CacheInv
  BY DEF Init, CacheInv, TypeOK, CacheSound, AnswerSound, AsksOnce, ToStore,
     Remembered, Answers, Returns

(* A query that finds its answer got it from the cache; one that does not    *)
(* finds a key it cannot have run the script for.                            *)
LEMMA findInv == ASSUME CacheInv, NEW t \in Threads, find(t) PROVE CacheInv'
  <1> USE DEF CacheInv, Returns, Cacheable
  <1>1. PICK k \in Keys :
           /\ key' = [key EXCEPT ![t] = k]
           /\ \/ /\ proxy_cache[k] # NoEntry
                 /\ proxy' = [proxy EXCEPT ![t] = proxy_cache[k]]
                 /\ pc' = [pc EXCEPT ![t] = "answered"]
              \/ /\ proxy_cache[k] = NoEntry
                 /\ pc' = [pc EXCEPT ![t] = "missed"]
                 /\ UNCHANGED proxy
           /\ UNCHANGED <<application, proxy_cache, ran>>
    BY DEF find
  <1>2. pc[t] = "idle"     BY DEF find
  <1>3. TypeOK'            BY <1>1 DEF TypeOK
  <1>4. CacheSound'        BY <1>1 DEF CacheSound
  <1>5. AnswerSound'       BY <1>1 DEF AnswerSound, CacheSound, TypeOK
  <1>6. Remembered'        BY <1>1, <1>2 DEF Remembered, TypeOK
  <1>7. AsksOnce'          BY <1>1, <1>2 DEF AsksOnce, Remembered, TypeOK
  <1>8. ToStore'           BY <1>1 DEF ToStore, TypeOK
  <1> QED  BY <1>3, <1>4, <1>5, <1>6, <1>7, <1>8

LEMMA evaluateInv == ASSUME CacheInv, NEW t \in Threads, evaluate(t) PROVE CacheInv'
  <1> USE DEF CacheInv, Returns, Cacheable
  <1>1. PICK result \in Returns(key[t]) :
           /\ proxy' = [proxy EXCEPT ![t] = Answer(result)]
           /\ pc' = [pc EXCEPT ![t] = IF NoCache(result) THEN "answered" ELSE "evaluated"]
    BY DEF evaluate
  <1>2. /\ pc[t] = "missed" /\ ran' = [ran EXCEPT ![t] = @ \cup {key[t]}]
        /\ UNCHANGED <<application, proxy_cache, key>>
    BY DEF evaluate
  <1>3. TypeOK'            BY <1>1, <1>2, AnswerType DEF TypeOK
  <1>4. CacheSound'        BY <1>2 DEF CacheSound
  <1>5. AnswerSound'       BY <1>1, <1>2 DEF AnswerSound, TypeOK
  <1>6. Remembered'        BY <1>1, <1>2 DEF Remembered, TypeOK
  <1>7. AsksOnce'          BY <1>1, <1>2 DEF AsksOnce, TypeOK
  <1>8. ToStore'           BY <1>1, <1>2 DEF ToStore, TypeOK
  <1> QED  BY <1>3, <1>4, <1>5, <1>6, <1>7, <1>8

LEMMA storeInv == ASSUME CacheInv, NEW t \in Threads, store(t) PROVE CacheInv'
  <1> USE DEF CacheInv, Returns, Cacheable, store
  <1>1. proxy[t] # NoEntry  BY AnswersAreEntries DEF TypeOK
  <1>2. TypeOK'             BY DEF TypeOK
  <1>3. CacheSound'         BY DEF CacheSound, ToStore, TypeOK
  <1>4. AnswerSound'        BY DEF AnswerSound, ToStore, TypeOK
  <1>5. Remembered'         BY <1>1 DEF Remembered, TypeOK
  <1>6. AsksOnce'           BY DEF AsksOnce, TypeOK
  <1>7. ToStore'            BY DEF ToStore, TypeOK
  <1> QED  BY <1>2, <1>3, <1>4, <1>5, <1>6, <1>7

LEMMA finishInv == ASSUME CacheInv, NEW t \in Threads, finish(t) PROVE CacheInv'
  BY DEF finish, CacheInv, TypeOK, CacheSound, AnswerSound, AsksOnce, ToStore, Remembered,
     Returns, Cacheable, Answers

(* CacheInv is inductive. *)
LEMMA CacheInvariant == Spec => []CacheInv
  <1>1. CacheInv /\ [Next]_vars => CacheInv'
    <2> SUFFICES ASSUME CacheInv, [Next]_vars PROVE CacheInv'  OBVIOUS
    <2>1. CASE Next
      BY <2>1, findInv, evaluateInv, storeInv, finishInv DEF Next
    <2>2. CASE UNCHANGED vars
      BY <2>2 DEF vars, CacheInv, TypeOK, CacheSound, AnswerSound, AsksOnce, ToStore,
         Remembered, Returns, Cacheable
    <2> QED  BY <2>1, <2>2
  <1> QED  BY <1>1, InitInv, PTL DEF Spec

(* Every variable stays in its type, whatever the script returns. *)
THEOREM TypeCorrect == Spec => []TypeOK
  <1>1. CacheInv => TypeOK  BY DEF CacheInv
  <1> QED  BY <1>1, CacheInvariant, PTL

(* The cache only ever holds what the script answered for the key, however  *)
(* many threads ask at once.                                                *)
THEOREM CacheIsSound == Spec => []CacheSound
  <1>1. CacheInv => CacheSound  BY DEF CacheInv
  <1> QED  BY <1>1, CacheInvariant, PTL

(* So does what a connection is given. *)
THEOREM AnswersAreSound == Spec => []AnswerSound
  <1>1. CacheInv => AnswerSound  BY DEF CacheInv
  <1> QED  BY <1>1, CacheInvariant, PTL

(* A thread runs the script at most once for a destination whose answers    *)
(* may be cached.                                                           *)
THEOREM ThreadsAskOnce == Spec => []AsksOnce
  <1>1. CacheInv => AsksOnce  BY DEF CacheInv
  <1> QED  BY <1>1, CacheInvariant, PTL

(* The cache never changes its mind about a destination that the script     *)
(* answers steadily.                                                        *)
THEOREM SteadyCachePersists == Spec => CachePersists
  <1>1. CacheInv /\ [Next]_vars =>
           [\A k \in Keys : Steady(k) /\ proxy_cache[k] # NoEntry
                              => proxy_cache'[k] = proxy_cache[k]]_vars
    <2> SUFFICES ASSUME CacheInv, Next, NEW k \in Keys, Steady(k), proxy_cache[k] # NoEntry
                 PROVE  proxy_cache'[k] = proxy_cache[k]
      OBVIOUS
    <2>1. ASSUME NEW t \in Threads, store(t) PROVE proxy_cache'[k] = proxy_cache[k]
      <3>1. CASE key[t] = k
        <4>1. PICK one \in Returns(k) : ~NoCache(one) /\ proxy[t] = Answer(one)
          BY <2>1, <3>1 DEF store, CacheInv, ToStore
        <4>2. PICK other \in Returns(k) :
                 ~NoCache(other) /\ proxy_cache[k] = Answer(other)
          BY DEF CacheInv, CacheSound
        <4>3. proxy[t] = proxy_cache[k]  BY <4>1, <4>2 DEF Steady
        <4> QED  BY <2>1, <3>1, <4>3 DEF store, CacheInv, TypeOK
      <3>2. CASE key[t] # k  BY <2>1, <3>2 DEF store, CacheInv, TypeOK
      <3> QED  BY <3>1, <3>2
    <2>2. ASSUME NEW t \in Threads, find(t) \/ evaluate(t) \/ finish(t)
          PROVE  proxy_cache'[k] = proxy_cache[k]
      BY <2>2 DEF find, evaluate, finish
    <2> QED  BY <2>1, <2>2 DEF Next
  <1> QED  BY <1>1, CacheInvariant, PTL DEF Spec, CachePersists
=============================================================================
