--------------------------- MODULE NetcoreProofs ---------------------------
(***************************************************************************)
(* Theorems about Netcore: the hooks use the cache as ProxyCache has it,   *)
(* the thread-local pointer is sound however updates nest, what the        *)
(* configuration lists as direct is never put to the script, and the       *)
(* sample for a script is followed as its comments say.                    *)
(***************************************************************************)
EXTENDS SamplePolicy, ProxyCacheProofs, SequenceTheorems, WellFoundedInduction

(* Every step of the hooks is a step of the cache, or none. *)
LEMMA StepRefines == ASSUME [NNext]_nvars PROVE [Next]_vars
  <1>1. CASE NNext
    <2>1. PICK t \in Threads : \/ tcp_connection_handle_path_changed(t) \/ Applied(t)
                               \/ Returned(t) \/ connect(t) \/ Connected(t) \/ Query(t)
      BY <1>1 DEF NNext
    <2>2. CASE tcp_connection_handle_path_changed(t)
      BY <2>2 DEF tcp_connection_handle_path_changed, Next
    <2>3. CASE Applied(t)    BY <2>3 DEF Applied, Next
    <2>4. CASE Returned(t)   BY <2>4 DEF Returned
    <2>5. CASE connect(t)    BY <2>5 DEF connect, Next
    <2>6. CASE Connected(t)  BY <2>6 DEF Connected, Next
    <2>7. CASE Query(t)      BY <2>7 DEF Query, Next
    <2> QED  BY <2>1, <2>2, <2>3, <2>4, <2>5, <2>6, <2>7
  <1>2. CASE UNCHANGED nvars  BY <1>2 DEF nvars
  <1> QED  BY <1>1, <1>2

(* Path updates and connections together are just threads that query: what  *)
(* is proved of the cache holds under the hooks.                            *)
THEOREM HooksUseTheCache == NSpec => Spec
  <1>1. NInit => Init  BY DEF NInit
  <1> QED  BY <1>1, StepRefines, PTL DEF NSpec, Spec

LEMMA CacheInvariantHolds == NSpec => []CacheInv
  BY HooksUseTheCache, CacheInvariant, PTL

(* The cache is sound, answers are, no thread asks twice and the cache does *)
(* not change its mind, whichever hooks the queries come from.              *)
THEOREM CacheSoundUnderHooks == NSpec => [](CacheSound /\ AnswerSound /\ AsksOnce) /\ CachePersists
  <1>1. CacheInv => CacheSound /\ AnswerSound /\ AsksOnce  BY DEF CacheInv
  <1>2. NSpec => [](CacheSound /\ AnswerSound /\ AsksOnce)
    BY <1>1, CacheInvariantHolds, PTL
  <1> QED  BY <1>2, HooksUseTheCache, SteadyCachePersists, PTL

-----------------------------------------------------------------------------
(* A hook asks about one destination at most. *)

Single(asks) == \A k, l \in asks : k = l

LEMMA QuestionsAreSingle == \A asks \in UpdateQuestions : Single(asks) /\ asks \in SUBSET Keys
  <1> SUFFICES ASSUME NEW e \in Endpoints PROVE Single(EndpointQuestion(e))
    BY QuestionsAssumption DEF UpdateQuestions
  <1>1. \A name, port : Single(query_proxy(name, port))  BY DEF query_proxy, Single
  <1>2. Single({})  BY DEF Single
  <1> QED
    BY <1>1, <1>2 DEF EndpointQuestion, AddressQuestion, HostnameQuestion

Frames == [asks : SUBSET Keys, proxy : Answers, step : {"query", "original"}]

(* Only the innermost update can still be asking, and then about one key.   *)
Nesting(t) ==
    /\ \A i \in DOMAIN updates[t] : /\ Single(updates[t][i].asks)
                                    /\ i # Depth(t) => updates[t][i].step = "original"
    /\ Asking(t) => pc[t] # "idle" /\ key[t] \in Current(t).asks

(* A pointer is to an update of its own thread that has its proxy. *)
Pointer(t) == Points(t) => /\ proxy_key[t][1] = t /\ proxy_key[t][2] \in DOMAIN updates[t]
                           /\ updates[t][proxy_key[t][2]].step = "original"
                           /\ updates[t][proxy_key[t][2]].proxy # Direct

(* An update that is not inside another one, as it goes along. *)
Alone(t) ==
    /\ Depth(t) = 0 => ~Points(t)
    /\ ~nested[t] => Depth(t) <= 1
    /\ ~nested[t] /\ Depth(t) = 1 =>
          IF Asking(t) \/ Current(t).asks = {} THEN ~Points(t)
          ELSE /\ Current(t).proxy # Direct => Points(t)
               /\ \A k \in Current(t).asks : \E result \in Returns(k) :
                     Current(t).proxy = Answer(result)

ThreadInv(t) == Nesting(t) /\ Pointer(t) /\ Alone(t)

NInv == NTypeOK /\ \A t \in Threads : ThreadInv(t)

LEMMA NInitInv == NInit => NInv
  <1> SUFFICES ASSUME NInit PROVE NInv  OBVIOUS
  <1>1. TypeOK  BY InitInv DEF NInit, CacheInv
  <1>2. \A t \in Threads : updates[t] = << >> /\ Depth(t) = 0 /\ ~Asking(t) /\ ~Points(t)
    BY DEF NInit, Depth, Asking, Points
  <1>3. NTypeOK  BY <1>1 DEF NInit, NTypeOK
  <1> QED  BY <1>2, <1>3 DEF NInv, ThreadInv, Nesting, Pointer, Alone

(* A thread that a step leaves alone keeps its invariant. *)
LEMMA Unaffected ==
    ASSUME NEW t, ThreadInv(t), application' = application, updates'[t] = updates[t],
           proxy_key'[t] = proxy_key[t], nested'[t] = nested[t],
           Asking(t) => pc'[t] # "idle" /\ key'[t] = key[t]
    PROVE  ThreadInv(t)'
  <1>1. /\ Depth(t)' = Depth(t) /\ Current(t)' = Current(t) /\ Asking(t)' = Asking(t)
        /\ Points(t)' = Points(t)
    BY DEF Depth, Current, Asking, Points
  <1>2. \A k : Returns(k)' = Returns(k)  BY DEF Returns
  <1>3. Nesting(t)'  BY <1>1 DEF ThreadInv, Nesting
  <1>4. Pointer(t)'  BY <1>1 DEF ThreadInv, Pointer
  <1>5. Alone(t)'    BY <1>1, <1>2 DEF ThreadInv, Alone
  <1> QED  BY <1>3, <1>4, <1>5 DEF ThreadInv

(* The other threads see nothing of a step of the cache and of the hooks. *)
LEMMA OthersKeep ==
    ASSUME NInv, NEW t \in Threads,
           find(t) \/ finish(t) \/ evaluate(t) \/ store(t) \/ UNCHANGED vars,
           \A u \in Threads \ {t} : /\ updates'[u] = updates[u] /\ nested'[u] = nested[u]
                                    /\ proxy_key'[u] = proxy_key[u]
    PROVE  /\ application' = application
           /\ \A u \in Threads \ {t} : ThreadInv(u)'
  <1>1. /\ application' = application
        /\ \A u \in Threads \ {t} : pc'[u] = pc[u] /\ key'[u] = key[u]
    BY DEF NInv, NTypeOK, TypeOK, find, finish, evaluate, store, vars
  <1> SUFFICES ASSUME NEW u \in Threads \ {t} PROVE ThreadInv(u)'  BY <1>1
  <1>2. ThreadInv(u)  BY DEF NInv
  <1>3. Asking(u) => pc'[u] # "idle"  BY <1>1, <1>2 DEF ThreadInv, Nesting
  <1> QED  BY <1>1, <1>2, <1>3, Unaffected

LEMMA QueryInv == ASSUME NInv, NEW t \in Threads, Query(t), TypeOK' PROVE NInv'
  <1>1. TypeOK /\ ThreadInv(t)  BY DEF NInv, NTypeOK
  <1>2. /\ pc'[t] # "idle" /\ key'[t] = key[t]
        /\ updates' = updates /\ proxy_key' = proxy_key /\ nested' = nested
    BY <1>1 DEF Query, evaluate, store, TypeOK
  <1>3. application' = application /\ \A u \in Threads \ {t} : ThreadInv(u)'
    BY <1>2, OthersKeep DEF Query
  <1>4. ThreadInv(t)'  BY <1>1, <1>2, <1>3, Unaffected
  <1>5. NTypeOK'       BY <1>2 DEF NInv, NTypeOK
  <1> QED  BY <1>3, <1>4, <1>5 DEF NInv

LEMMA ConnectedInv == ASSUME NInv, NEW t \in Threads, Connected(t), TypeOK' PROVE NInv'
  <1>1. ThreadInv(t) /\ ~Asking(t)  BY DEF NInv, Connected
  <1>2. updates' = updates /\ proxy_key' = proxy_key /\ nested' = nested
    BY DEF Connected
  <1>3. application' = application /\ \A u \in Threads \ {t} : ThreadInv(u)'
    BY <1>2, OthersKeep DEF Connected
  <1>4. ThreadInv(t)'  BY <1>1, <1>2, <1>3, Unaffected
  <1>5. NTypeOK'       BY <1>2 DEF NInv, NTypeOK
  <1> QED  BY <1>3, <1>4, <1>5 DEF NInv

LEMMA ConnectInv == ASSUME NInv, NEW t \in Threads, connect(t), TypeOK' PROVE NInv'
  <1>1. ThreadInv(t)  BY DEF NInv
  <1>2. ~Asking(t)    BY <1>1 DEF connect, find, ThreadInv, Nesting
  <1>3. updates' = updates /\ proxy_key' = proxy_key /\ nested' = nested
    BY DEF connect
  <1>4. application' = application /\ \A u \in Threads \ {t} : ThreadInv(u)'
    BY <1>3, OthersKeep DEF connect
  <1>5. ThreadInv(t)'  BY <1>1, <1>2, <1>3, <1>4, Unaffected
  <1>6. NTypeOK'       BY <1>3 DEF NInv, NTypeOK
  <1> QED  BY <1>4, <1>5, <1>6 DEF NInv

(* A new update on a thread. *)
LEMMA UpdateInv ==
    ASSUME NInv, NEW t \in Threads, tcp_connection_handle_path_changed(t), TypeOK'
    PROVE  NInv'
  <1>1. PICK asks \in UpdateQuestions :
           /\ pc[t] = "idle" /\ Depth(t) < MaxDepth
           /\ \/ asks # {} /\ find(t) /\ key'[t] \in asks
              \/ asks = {} /\ UNCHANGED vars
           /\ updates' = [updates EXCEPT ![t] = Append(@,
                 [asks |-> asks, proxy |-> Direct,
                  step |-> IF asks = {} THEN "original" ELSE "query"])]
           /\ nested' = [nested EXCEPT ![t] = @ \/ Depth(t) > 0]
           /\ UNCHANGED proxy_key
    BY DEF tcp_connection_handle_path_changed
  <1> DEFINE new == [asks |-> asks, proxy |-> Direct,
                     step |-> IF asks = {} THEN "original" ELSE "query"]
  <1>2. TypeOK /\ NTypeOK /\ ThreadInv(t)  BY DEF NInv, NTypeOK
  <1>3. new \in Frames /\ Single(asks)
    BY QuestionsAreSingle DEF Frames, Answers
  <1>4. updates[t] \in Seq(Frames) /\ updates'[t] = Append(updates[t], new)
    BY <1>1, <1>2 DEF NTypeOK, Frames
  <1>5. /\ Depth(t) \in Nat /\ Depth(t)' = Depth(t) + 1 /\ Current(t)' = new
        /\ DOMAIN updates[t] = 1 .. Depth(t) /\ DOMAIN updates'[t] = 1 .. Depth(t) + 1
        /\ \A i \in 1 .. Depth(t) : updates'[t][i] = updates[t][i]
        /\ updates'[t][Depth(t) + 1] = new
        /\ updates'[t] \in Seq(Frames)
    BY <1>3, <1>4 DEF Depth, Current
  <1>6. ~Asking(t)  BY <1>1, <1>2 DEF ThreadInv, Nesting
  <1>7. ThreadInv(t)'
    <2>1. Asking(t)' <=> asks # {}  BY <1>5 DEF Asking
    <2>2. asks # {} => pc'[t] # "idle" /\ key'[t] \in asks
      BY <1>1, <1>2 DEF find, TypeOK
    <2>3. \A i \in DOMAIN updates[t] : updates[t][i].step = "original"
      <3> SUFFICES ASSUME NEW i \in 1 .. Depth(t) PROVE updates[t][i].step = "original"
        BY <1>5
      <3>1. updates[t][i] \in Frames  BY <1>4, <1>5
      <3>2. CASE i = Depth(t)  BY <1>6, <3>1, <3>2 DEF Asking, Current, Frames
      <3>3. CASE i # Depth(t)  BY <1>2, <1>5, <3>3 DEF ThreadInv, Nesting
      <3> QED  BY <3>2, <3>3
    <2>4. Nesting(t)'
      BY <1>2, <1>3, <1>5, <2>1, <2>2, <2>3 DEF ThreadInv, Nesting
    <2>5. Points(t)' = Points(t) /\ proxy_key'[t] = proxy_key[t]
      BY <1>1 DEF Points
    <2>6. Pointer(t)'  BY <1>2, <1>5, <2>5 DEF ThreadInv, Pointer
    <2>7. Alone(t)'
      <3>1. ~nested'[t] => ~(Depth(t) > 0)  BY <1>1, <1>2 DEF NTypeOK
      <3>2. ~nested'[t] => Depth(t) = 0 /\ ~Points(t)
        BY <1>2, <1>5, <3>1 DEF ThreadInv, Alone
      <3> QED  BY <1>5, <2>1, <2>5, <3>2 DEF Alone
    <2> QED  BY <2>4, <2>6, <2>7 DEF ThreadInv
  <1>8. \A u \in Threads \ {t} : ThreadInv(u)'
    <2>1. \A u \in Threads \ {t} : /\ updates'[u] = updates[u] /\ nested'[u] = nested[u]
                                   /\ proxy_key'[u] = proxy_key[u]
      BY <1>1, <1>2 DEF NTypeOK
    <2> QED  BY <1>1, <2>1, OthersKeep
  <1>9. NTypeOK'
    BY <1>1, <1>2, <1>5 DEF NTypeOK, Frames
  <1> QED  BY <1>7, <1>8, <1>9 DEF NInv

(* The answer goes to the innermost update, and the pointer with it. *)
LEMMA AppliedInv ==
    ASSUME NInv, AnswerSound, NEW t \in Threads, Applied(t), TypeOK'
    PROVE  NInv'
  <1> DEFINE D == Depth(t)
  <1> DEFINE new == [asks |-> updates[t][D].asks, proxy |-> proxy[t], step |-> "original"]
  <1>1. TypeOK /\ NTypeOK /\ ThreadInv(t) /\ updates[t] \in Seq(Frames)
    BY DEF NInv, NTypeOK, Frames
  <1>2. D \in Nat /\ D > 0 /\ DOMAIN updates[t] = 1 .. D /\ D \in DOMAIN updates[t]
    BY <1>1 DEF Applied, Asking, Depth
  <1>3. updates[t][D] \in Frames /\ new \in Frames
    <2>1. updates[t][D] \in Frames  BY <1>1, <1>2
    <2> QED  BY <1>1, <2>1 DEF Frames, TypeOK
  <1>4. updates'[t] = [updates[t] EXCEPT ![D] = new]
    <2>1. updates' = [updates EXCEPT ![t] = [updates[t] EXCEPT ![D] = new]]
      BY Zenon DEF Applied
    <2> QED  BY <2>1, <1>1 DEF NTypeOK
  <1>5. /\ DOMAIN updates'[t] = 1 .. D /\ updates'[t] \in Seq(Frames) /\ Depth(t)' = D
        /\ \A i \in 1 .. D : i # D => updates'[t][i] = updates[t][i]
        /\ updates'[t][D] = new
        /\ Current(t)' = new /\ ~Asking(t)'
    <2>1. updates'[t] \in Seq(Frames) /\ Len(updates'[t]) = D
      BY <1>1, <1>2, <1>3, <1>4 DEF Depth
    <2> QED  BY <1>1, <1>2, <1>3, <1>4, <2>1 DEF Depth, Current, Asking
  <1>6. proxy_key'[t] = IF proxy[t] = Direct THEN proxy_key[t] ELSE <<t, D>>
    BY <1>1 DEF Applied, NTypeOK
  <1>7. Asking(t) /\ pc[t] = "answered" /\ nested' = nested  BY DEF Applied, finish
  <1>8. Nesting(t)'
    <2>1. Single(updates[t][D].asks)  BY <1>1, <1>2 DEF ThreadInv, Nesting
    <2> QED  BY <1>1, <1>2, <1>5, <2>1 DEF ThreadInv, Nesting
  <1>9. Pointer(t)'
    <2>1. CASE proxy[t] = Direct
      <3>1. Points(t) => proxy_key[t][2] # D
        BY <1>1, <1>2, <1>7 DEF ThreadInv, Pointer, Asking, Current
      <3> QED  BY <2>1, <3>1, <1>1, <1>2, <1>5, <1>6 DEF ThreadInv, Pointer, Points
    <2>2. CASE proxy[t] # Direct  BY <2>2, <1>2, <1>5, <1>6 DEF Pointer, Points
    <2> QED  BY <2>1, <2>2
  <1>10. application' = application /\ \A u \in Threads \ {t} : ThreadInv(u)'
    <2>1. \A u \in Threads \ {t} : /\ updates'[u] = updates[u] /\ nested'[u] = nested[u]
                                   /\ proxy_key'[u] = proxy_key[u]
      BY <1>1 DEF Applied, NTypeOK
    <2> QED  BY <2>1, OthersKeep DEF Applied
  <1>11. Alone(t)'
    <2>1. \A k : Returns(k)' = Returns(k)  BY <1>10 DEF Returns
    <2>2. PICK result \in Returns(key[t]) : proxy[t] = Answer(result)
      BY <1>7 DEF AnswerSound
    <2>3. \A k \in updates[t][D].asks : k = key[t]
      BY <1>1, <1>2, <1>7 DEF ThreadInv, Nesting, Single, Current
    <2>4. ~nested[t] /\ D = 1 => ~Points(t)  BY <1>1, <1>7 DEF ThreadInv, Alone
    <2>5. proxy[t] # Direct => Points(t)'
      BY <1>6 DEF Points, NULL
    <2>6. ~nested'[t] => D <= 1  BY <1>1, <1>7 DEF ThreadInv, Alone
    <2>7. \A k \in new.asks : \E r \in Returns(k)' : new.proxy = Answer(r)
      BY <2>1, <2>2, <2>3
    <2>8. D = 1 /\ new.asks = {} => FALSE
      BY <1>1, <1>7 DEF ThreadInv, Nesting, Current
    <2> QED  BY <1>2, <1>5, <2>5, <2>6, <2>7, <2>8 DEF Alone
  <1>12. NTypeOK'
    BY <1>1, <1>2, <1>5, <1>7 DEF NTypeOK, Frames, Applied
  <1> QED  BY <1>8, <1>9, <1>10, <1>11, <1>12 DEF NInv, ThreadInv

(* The innermost update ends. *)
LEMMA ReturnedInv == ASSUME NInv, NEW t \in Threads, Returned(t) PROVE NInv'
  <1> DEFINE D == Depth(t)
  <1>1. TypeOK /\ NTypeOK /\ ThreadInv(t) /\ updates[t] \in Seq(Frames)
    BY DEF NInv, NTypeOK, Frames
  <1>2. D \in Nat /\ D > 0 /\ DOMAIN updates[t] = 1 .. D
    BY <1>1 DEF Returned, Depth
  <1>3. updates'[t] = SubSeq(updates[t], 1, D - 1)
    BY <1>1 DEF Returned, NTypeOK
  <1>4. /\ updates'[t] \in Seq(Frames) /\ Depth(t)' = D - 1 /\ DOMAIN updates'[t] = 1 .. D - 1
        /\ \A i \in 1 .. D - 1 : updates'[t][i] = updates[t][i]
    BY <1>1, <1>2, <1>3 DEF Depth
  <1>5. ~Points(t)'  BY <1>1 DEF Returned, Points, NTypeOK
  <1>6. UNCHANGED vars /\ application' = application  BY DEF Returned, vars
  <1>7. \A i \in 1 .. D - 1 : updates'[t][i].step = "original" /\ Single(updates'[t][i].asks)
    <2> SUFFICES ASSUME NEW i \in 1 .. D - 1
                 PROVE  updates[t][i].step = "original" /\ Single(updates[t][i].asks)
      BY <1>4
    <2>1. i \in 1 .. D /\ i # D  BY <1>2
    <2> QED  BY <1>1, <1>2, <2>1 DEF ThreadInv, Nesting
  <1>8. ~Asking(t)'
    <2>1. CASE D = 1  BY <1>4, <2>1 DEF Asking
    <2>2. CASE D # 1
      <3>1. D - 1 \in 1 .. D - 1 /\ Current(t)' = updates'[t][D - 1]
        BY <1>2, <1>4, <2>2 DEF Current
      <3>2. Current(t)'.step = "original"  BY <1>7, <3>1
      <3> QED  BY <3>2 DEF Asking
    <2> QED  BY <2>1, <2>2
  <1>9. Nesting(t)'  BY <1>4, <1>7, <1>8 DEF Nesting
  <1>10. Pointer(t)'  BY <1>5 DEF Pointer
  <1>11. Alone(t)'
    <2>1. ~nested'[t] => D = 1
      <3>1. ~nested'[t] => ~nested[t] \/ ~(D > 1)  BY <1>1 DEF Returned, NTypeOK
      <3>2. ~nested[t] => D <= 1  BY <1>1 DEF ThreadInv, Alone
      <3> QED  BY <1>2, <3>1, <3>2
    <2> QED  BY <1>2, <1>4, <1>5, <2>1 DEF Alone
  <1>12. \A u \in Threads \ {t} : ThreadInv(u)'
    <2>1. \A u \in Threads \ {t} : /\ updates'[u] = updates[u] /\ nested'[u] = nested[u]
                                   /\ proxy_key'[u] = proxy_key[u]
      BY <1>1 DEF Returned, NTypeOK
    <2> QED  BY <1>6, <2>1, OthersKeep
  <1>13. NTypeOK'
    <2>1. TypeOK'  BY <1>1, <1>6 DEF vars, TypeOK
    <2> QED  BY <2>1, <1>1, <1>4 DEF NTypeOK, Frames, Returned
  <1> QED  BY <1>9, <1>10, <1>11, <1>12, <1>13 DEF NInv, ThreadInv

(* NInv is inductive next to the cache's invariant. *)
LEMMA NInvariant == NSpec => [](NInv /\ CacheInv)
  <1>1. NInv /\ CacheInv /\ CacheInv' /\ [NNext]_nvars => NInv'
    <2> SUFFICES ASSUME NInv, CacheInv, CacheInv', [NNext]_nvars PROVE NInv'  OBVIOUS
    <2>1. AnswerSound /\ TypeOK'  BY DEF CacheInv
    <2>2. CASE NNext
      BY <2>1, <2>2, UpdateInv, AppliedInv, ReturnedInv, ConnectInv, ConnectedInv, QueryInv
         DEF NNext
    <2>3. CASE UNCHANGED nvars
      <3>1. \A t \in Threads : ThreadInv(t)'
        BY <2>3, Unaffected DEF nvars, vars, NInv, ThreadInv, Nesting
      <3>2. NTypeOK'  BY <2>1, <2>3 DEF nvars, NInv, NTypeOK
      <3> QED  BY <3>1, <3>2 DEF NInv
    <2> QED  BY <2>2, <2>3
  <1> QED  BY <1>1, NInitInv, CacheInvariantHolds, PTL DEF NSpec

(* Every variable of the hooks stays in its type. *)
THEOREM NetcoreTypeCorrect == NSpec => []NTypeOK
  <1>1. NInv => NTypeOK  BY DEF NInv
  <1> QED  BY <1>1, NInvariant, PTL

(* The pointer that a path update leaves to its local variable is gone when *)
(* the variable goes, on any number of threads and at any depth.            *)
THEOREM PointersNeverDangle == NSpec => []NeverDangles
  <1>1. NInv => NeverDangles
    BY DEF NInv, ThreadInv, Pointer, NeverDangles, Live, Target
  <1> QED  BY <1>1, NInvariant, PTL

(* An update that is alone on its thread gets the settings that its         *)
(* endpoint's answer calls for, whatever other threads do.                  *)
THEOREM SettingsAlwaysFit == NSpec => []SettingsFit
  <1>1. NInv => SettingsFit
    <2> SUFFICES ASSUME NInv, NEW t \in Threads, ~nested[t]
                 PROVE  LET settings == nw_path_copy_proxy_settings(t)
                        IN IF Depth(t) = 0 \/ Asking(t) \/ Current(t).asks = {}
                           THEN settings = Direct
                           ELSE /\ settings = Current(t).proxy
                                /\ \A k \in Current(t).asks : \E result \in Returns(k) :
                                      settings = Answer(result)
      BY DEF SettingsFit
    <2>1. ThreadInv(t) /\ Depth(t) \in Nat /\ DOMAIN updates[t] = 1 .. Depth(t)
      BY DEF NInv, NTypeOK, Depth
    <2>2. Depth(t) = 0 \/ Depth(t) = 1  BY <2>1 DEF ThreadInv, Alone
    <2>3. CASE Depth(t) = 0 \/ Asking(t) \/ Current(t).asks = {}
      BY <2>1, <2>2, <2>3 DEF ThreadInv, Alone, nw_path_copy_proxy_settings
    <2>4. CASE ~(Depth(t) = 0 \/ Asking(t) \/ Current(t).asks = {})
      <3>1. nw_path_copy_proxy_settings(t) = Current(t).proxy
        BY <2>1, <2>2, <2>4
           DEF ThreadInv, Alone, Pointer, nw_path_copy_proxy_settings, Live, Target, Current
      <3> QED  BY <2>1, <2>2, <2>4, <3>1 DEF ThreadInv, Alone
    <2> QED  BY <2>3, <2>4
  <1> QED  BY <1>1, NInvariant, PTL

-----------------------------------------------------------------------------
(* The masks of bypass_networks are the listed ranges. *)
LEMMA ListedAreBypassed ==
    ASSUME NEW bytes \in Bytes, NEW port, InListedRange(bytes)
    PROVE  should_bypass_address(IPv4(bytes), port)
  <1> USE DEF Bytes
  <1>1. bytes[1] \in 0 .. 255 /\ bytes[2] \in 0 .. 255 /\ bytes[3] \in 0 .. 255 /\ bytes[4] \in 0 .. 255
    OBVIOUS
  <1>2. \A b \in 0 .. 255 : And(b, 255) = b /\ And(b, 0) = 0  BY DEF And
  <1>3. \A b \in 16 .. 31 : And(b, 240) = 16  BY DEF And
  <1>4. \A net \in bypass_networks :
           Masked(bytes, net.mask) = Masked(net.addr, net.mask)
              => should_bypass_address(IPv4(bytes), port)
    BY DEF should_bypass_address, IPv4, bypass_networks, Network
  <1>5. \A addr, mask : (\A i \in 1 .. 4 : And(bytes[i], mask[i]) = And(addr[i], mask[i]))
                           => Masked(bytes, mask) = Masked(addr, mask)
    BY DEF Masked
  <1> DEFINE Fits(addr, mask) == \A i \in 1 .. 4 : And(bytes[i], mask[i]) = And(addr[i], mask[i])
  <1>6. CASE bytes[1] = 127
    <2>1. Fits(<<127, 0, 0, 0>>, <<255, 0, 0, 0>>)  BY <1>1, <1>2, <1>6
    <2> QED  BY <2>1, <1>4, <1>5 DEF bypass_networks, Network
  <1>7. CASE bytes[1] = 10
    <2>1. Fits(<<10, 0, 0, 0>>, <<255, 0, 0, 0>>)  BY <1>1, <1>2, <1>7
    <2> QED  BY <2>1, <1>4, <1>5 DEF bypass_networks, Network
  <1>8. CASE bytes[1] = 172 /\ bytes[2] \in 16 .. 31
    <2>1. Fits(<<172, 16, 0, 0>>, <<255, 240, 0, 0>>)  BY <1>1, <1>2, <1>3, <1>8
    <2> QED  BY <2>1, <1>4, <1>5 DEF bypass_networks, Network
  <1>9. CASE bytes[1] = 192 /\ bytes[2] = 168
    <2>1. Fits(<<192, 168, 0, 0>>, <<255, 255, 0, 0>>)  BY <1>1, <1>2, <1>9
    <2> QED  BY <2>1, <1>4, <1>5 DEF bypass_networks, Network
  <1> QED  BY <1>6, <1>7, <1>8, <1>9 DEF InListedRange

(* And nothing else is: the masks are the ranges that the configuration's   *)
(* comment gives, to the byte, for every address and port.                  *)
THEOREM MasksAreRanges ==
    ASSUME NEW bytes \in Bytes, NEW port
    PROVE  should_bypass_address(IPv4(bytes), port) <=> InListedRange(bytes)
  <1> USE DEF Bytes
  <1>1. bytes[1] \in 0 .. 255 /\ bytes[2] \in 0 .. 255
    OBVIOUS
  <1>2. \A b \in 0 .. 255 : And(b, 255) = b  BY DEF And
  <1>3. \A b \in 0 .. 255 : And(b, 240) = And(16, 240) => b \in 16 .. 31  BY DEF And
  <1>4. ASSUME should_bypass_address(IPv4(bytes), port) PROVE InListedRange(bytes)
    <2>1. PICK net \in bypass_networks : Masked(bytes, net.mask) = Masked(net.addr, net.mask)
      BY <1>4 DEF should_bypass_address, IPv4
    <2>2. And(bytes[1], net.mask[1]) = And(net.addr[1], net.mask[1])
          /\ And(bytes[2], net.mask[2]) = And(net.addr[2], net.mask[2])
      <3>1. Masked(bytes, net.mask)[1] = Masked(net.addr, net.mask)[1]
            /\ Masked(bytes, net.mask)[2] = Masked(net.addr, net.mask)[2]
        BY <2>1
      <3> QED  BY <3>1 DEF Masked
    <2>3. CASE net = Network(<<127, 0, 0, 0>>, <<255, 0, 0, 0>>)
      BY <1>1, <1>2, <2>2, <2>3 DEF Network, InListedRange
    <2>4. CASE net = Network(<<10, 0, 0, 0>>, <<255, 0, 0, 0>>)
      BY <1>1, <1>2, <2>2, <2>4 DEF Network, InListedRange
    <2>5. CASE net = Network(<<172, 16, 0, 0>>, <<255, 240, 0, 0>>)
      BY <1>1, <1>2, <1>3, <2>2, <2>5 DEF Network, InListedRange
    <2>6. CASE net = Network(<<192, 168, 0, 0>>, <<255, 255, 0, 0>>)
      BY <1>1, <1>2, <2>2, <2>6 DEF Network, InListedRange
    <2> QED  BY <2>1, <2>3, <2>4, <2>5, <2>6 DEF bypass_networks
  <1> QED  BY <1>4, ListedAreBypassed

(* An IPv4 address inside an IPv6 one. *)
InIPv6(bytes) == [family |-> "v6", prefix |-> "mapped", bytes |-> bytes]

(* An IPv4 address that is none of the table is treated alike however it    *)
(* comes: given to connect, given to connect inside an IPv6 one, as the     *)
(* address of a path update's endpoint, or as its text in the place of a    *)
(* name.  The script is asked about its text, unless it is listed.          *)
THEOREM HooksAgree ==
    ASSUME NEW bytes \in Bytes, NEW port, Plain(IPv4(bytes)), bytes[1] # 240,
           NoAddress \notin Bytes \cup {IPv4(bytes), InIPv6(bytes)}
    PROVE  LET text == inet_ntop[IPv4(bytes)]
               asked == IF InListedRange(bytes) THEN {} ELSE query_proxy(text, port)
           IN  /\ \A addr \in {IPv4(bytes), InIPv6(bytes)} :
                     ConnectQuestion([sock |-> "stream", addr |-> addr, port |-> port]) = asked
               /\ EndpointQuestion([type |-> "address", is_local_domain |-> FALSE,
                                    addr |-> IPv4(bytes), port |-> port]) = asked
               /\ EndpointQuestion([type |-> "hostname", is_local_domain |-> FALSE,
                                    name |-> text, port |-> port]) = asked
  <1> DEFINE a == IPv4(bytes)
             inside == InIPv6(bytes)
  <1>1. a.family = "v4" /\ a.bytes = bytes /\ inside.family = "v6"
        /\ extract_target(a) = a /\ extract_target(inside) = a
    BY DEF IPv4, InIPv6, extract_target
  <1>2. TargetName(a) = inet_ntop[a]  BY <1>1 DEF TargetName
  <1>3. inet_aton[inet_ntop[a]] = bytes /\ bytes # NoAddress  BY <1>1 DEF Plain
  <1>4. should_bypass_address(a, port) <=> InListedRange(bytes)  BY MasksAreRanges
  <1> HIDE DEF a, inside
  <1>5. ~should_bypass_sockaddr(a) /\ ~should_bypass_sockaddr(inside) /\ ~should_bypass_sock("stream")
    BY <1>1 DEF should_bypass_sockaddr, should_bypass_sock, a, inside
  <1>6. \A addr \in {a, inside} :
           ConnectQuestion([sock |-> "stream", addr |-> addr, port |-> port])
               = IF InListedRange(bytes) THEN {} ELSE query_proxy(inet_ntop[a], port)
    BY <1>1, <1>2, <1>4, <1>5 DEF ConnectQuestion
  <1>7. EndpointQuestion([type |-> "address", is_local_domain |-> FALSE,
                          addr |-> a, port |-> port])
            = IF InListedRange(bytes) THEN {} ELSE query_proxy(inet_ntop[a], port)
    BY <1>1, <1>4 DEF EndpointQuestion, AddressQuestion
  <1>8. EndpointQuestion([type |-> "hostname", is_local_domain |-> FALSE,
                          name |-> inet_ntop[a], port |-> port])
            = IF InListedRange(bytes) THEN {} ELSE query_proxy(inet_ntop[a], port)
    BY <1>3, <1>4 DEF EndpointQuestion, HostnameQuestion, a
  <1> QED  BY <1>6, <1>7, <1>8 DEF a, inside

(* Neither hook asks about a listed name. *)
LEMMA PlainIsAsked ==
    ASSUME NEW a, a = IPv4(a.bytes), Plain(a), NEW port, ~should_bypass_address(a, port)
    PROVE  ~Listed(inet_ntop[a])
  BY ListedAreBypassed DEF Plain, Listed

LEMMA UpdatesAskUnlisted == \A asks \in UpdateQuestions : \A k \in asks : ~Listed(k[1])
  <1> SUFFICES ASSUME NEW e \in Endpoints, NEW k \in EndpointQuestion(e) PROVE ~Listed(k[1])
    BY DEF UpdateQuestions
  <1>1. CASE e.type = "address"
    <2>1. /\ e.addr.family \in {"v4", "v6"} /\ ~should_bypass_address(e.addr, e.port)
          /\ k[1] = inet_ntop[e.addr]
      BY <1>1 DEF EndpointQuestion, AddressQuestion, query_proxy
    <2>2. e.addr \in Used  BY <1>1 DEF Used
    <2>3. CASE e.addr.family = "v4"
      BY <2>1, <2>2, <2>3, NamesAssumption, PlainIsAsked
    <2>4. CASE e.addr.family = "v6"  BY <2>1, <2>2, <2>4, NamesAssumption
    <2> QED  BY <2>1, <2>3, <2>4
  <1>2. CASE e.type = "hostname"
    <2>1. k[1] = e.name /\ inet_aton[e.name] \in Bytes \cup {NoAddress}
      BY <1>2, NamesAssumption DEF EndpointQuestion, HostnameQuestion, query_proxy
    <2>2. CASE inet_aton[e.name] = NoAddress
      <3>1. ~should_bypass_name(e.name)
        BY <1>2, <2>2 DEF EndpointQuestion, HostnameQuestion
      <3> QED  BY <2>1, <2>2, <3>1 DEF should_bypass_name, Listed
    <2>3. CASE inet_aton[e.name] # NoAddress
      <3>1. ~should_bypass_address(IPv4(inet_aton[e.name]), e.port)
        BY <1>2, <2>3 DEF EndpointQuestion, HostnameQuestion
      <3> QED  BY <2>1, <2>3, <3>1, ListedAreBypassed, NamesAssumption DEF Listed
    <2> QED  BY <2>2, <2>3
  <1> QED  BY <1>1, <1>2 DEF EndpointQuestion

LEMMA ConnectsAskUnlisted == \A asks \in ConnectQuestions : \A k \in asks : ~Listed(k[1])
  <1> SUFFICES ASSUME NEW c \in Calls, NEW k \in ConnectQuestion(c) PROVE ~Listed(k[1])
    BY DEF ConnectQuestions
  <1> DEFINE target == extract_target(c.addr)
  <1>1. /\ c.addr # NoAddress /\ c.addr.family \in {"v4", "v6"}
        /\ ~should_bypass_address(target, c.port) /\ k[1] = TargetName(target)
    BY DEF ConnectQuestion, should_bypass_sockaddr, query_proxy
  <1>2. c.addr \in Used  BY <1>1 DEF Used
  <1>3. CASE target.family = "v4"
    <2>1. target = IPv4(target.bytes) /\ Plain(target)
      BY <1>1, <1>2, <1>3, NamesAssumption DEF extract_target, IPv4
    <2>2. CASE target.bytes[1] = 240
      BY <1>1, <1>3, <2>1, <2>2 DEF Plain, TargetName
    <2>3. CASE target.bytes[1] # 240
      BY <1>1, <1>3, <2>1, <2>3, PlainIsAsked DEF TargetName
    <2> QED  BY <2>2, <2>3
  <1>4. CASE target.family # "v4"
    <2>1. target = c.addr /\ c.addr.family = "v6"
      BY <1>1, <1>4 DEF extract_target, IPv4
    <2> QED  BY <1>1, <1>2, <1>4, <2>1, NamesAssumption DEF TargetName
  <1> QED  BY <1>3, <1>4

(* Through whichever hook, as a name, an address or an address in another,  *)
(* a destination in the listed ranges is connected without the script: the  *)
(* masks are the ranges that the configuration's comment gives.             *)
THEOREM ListedAreDirect == NSpec => []ListedStayDirect
  <1>1. NInit => ListedStayDirect  BY DEF NInit, Init, ListedStayDirect
  <1>2. TypeOK /\ ListedStayDirect /\ [NNext]_nvars => ListedStayDirect'
    <2> SUFFICES ASSUME TypeOK, ListedStayDirect, [NNext]_nvars,
                        NEW u \in Threads, pc'[u] = "missed"
                 PROVE  ~Listed(key'[u][1])
      BY DEF ListedStayDirect
    <2>1. CASE pc[u] = "missed" /\ key'[u] = key[u]  BY <2>1 DEF ListedStayDirect
    <2>2. ASSUME NEW t \in Threads, find(t)
          PROVE  u = t \/ (pc[u] = "missed" /\ key'[u] = key[u])
      BY <2>2 DEF find, TypeOK
    <2>3. ASSUME NEW t \in Threads, evaluate(t) \/ store(t) \/ finish(t)
          PROVE  pc[u] = "missed" /\ key'[u] = key[u]
      BY <2>3 DEF evaluate, store, finish, TypeOK
    <2>4. CASE NNext
      <3>1. PICK t \in Threads : \/ tcp_connection_handle_path_changed(t) \/ Applied(t)
                                 \/ Returned(t) \/ connect(t) \/ Connected(t) \/ Query(t)
        BY <2>4 DEF NNext
      <3>2. CASE tcp_connection_handle_path_changed(t)
        <4>1. PICK asks \in UpdateQuestions :
                 (find(t) /\ key'[t] \in asks) \/ UNCHANGED vars
          BY <3>2 DEF tcp_connection_handle_path_changed
        <4>2. CASE find(t) /\ key'[t] \in asks
          BY <4>1, <4>2, <2>1, <2>2, UpdatesAskUnlisted
        <4>3. CASE UNCHANGED vars  BY <4>3, <2>1 DEF vars
        <4> QED  BY <4>1, <4>2, <4>3
      <3>3. CASE connect(t)
        <4>1. find(t) /\ {key'[t]} \in ConnectQuestions  BY <3>3 DEF connect
        <4> QED  BY <4>1, <2>1, <2>2, ConnectsAskUnlisted
      <3>4. CASE Applied(t)    BY <3>4, <2>1, <2>3 DEF Applied
      <3>5. CASE Returned(t)   BY <3>5, <2>1 DEF Returned, vars
      <3>6. CASE Connected(t)  BY <3>6, <2>1, <2>3 DEF Connected
      <3>7. CASE Query(t)      BY <3>7, <2>1, <2>3 DEF Query
      <3> QED  BY <3>1, <3>2, <3>3, <3>4, <3>5, <3>6, <3>7
    <2>5. CASE UNCHANGED nvars  BY <2>5, <2>1 DEF nvars, vars
    <2> QED  BY <2>4, <2>5
  <1>3. CacheInv => TypeOK  BY DEF CacheInv
  <1> QED  BY <1>1, <1>2, <1>3, CacheInvariantHolds, PTL DEF NSpec

-----------------------------------------------------------------------------
(* The comparisons of the sample. *)

(* What IsSuffix, which compares prefixes of reversed sequences, says of the *)
(* sequences themselves.                                                     *)
LEMMA SuffixElements ==
    ASSUME NEW S, NEW s \in Seq(S), NEW t \in Seq(S)
    PROVE  IsSuffix(s, t) <=> /\ Len(s) <= Len(t)
                              /\ \A i \in 1 .. Len(s) : s[i] = t[Len(t) - Len(s) + i]
  <1> DEFINE rs == Reverse(s)  rt == Reverse(t)
  <1>1. /\ rs \in Seq(S) /\ Len(rs) = Len(s) /\ Len(s) \in Nat
        /\ rt \in Seq(S) /\ Len(rt) = Len(t) /\ Len(t) \in Nat
        /\ \A i \in 1 .. Len(s) : rs[i] = s[Len(s) - i + 1]
        /\ \A i \in 1 .. Len(t) : rt[i] = t[Len(t) - i + 1]
    BY DEF Reverse
  <1> HIDE DEF rs, rt
  <1>2. IsSuffix(s, t) <=> Len(s) <= Len(t) /\ SubSeq(rs, 1, Len(s)) = SubSeq(rt, 1, Len(s))
    BY <1>1 DEF IsSuffix, IsPrefix, rs, rt
  <1>3. ASSUME Len(s) <= Len(t)
        PROVE  SubSeq(rs, 1, Len(s)) = SubSeq(rt, 1, Len(s))
                 <=> \A i \in 1 .. Len(s) : rs[i] = rt[i]
    <2>1. /\ SubSeq(rs, 1, Len(s)) = [i \in 1 .. Len(s) |-> rs[i]]
          /\ SubSeq(rt, 1, Len(s)) = [i \in 1 .. Len(s) |-> rt[i]]
      BY <1>1, <1>3
    <2> QED  BY <2>1
  <1>4. ASSUME Len(s) <= Len(t)
        PROVE  (\A i \in 1 .. Len(s) : rs[i] = rt[i])
                 <=> \A i \in 1 .. Len(s) : s[i] = t[Len(t) - Len(s) + i]
    <2>1. ASSUME \A i \in 1 .. Len(s) : rs[i] = rt[i], NEW i \in 1 .. Len(s)
          PROVE  s[i] = t[Len(t) - Len(s) + i]
      <3>1. PICK j \in 1 .. Len(s) : j = Len(s) - i + 1  BY <1>1
      <3>2. Len(s) - j + 1 = i /\ Len(t) - j + 1 = Len(t) - Len(s) + i  BY <1>1, <3>1
      <3>3. j \in 1 .. Len(t)  BY <1>1, <1>4
      <3> QED  BY <1>1, <2>1, <3>2, <3>3
    <2>2. ASSUME \A i \in 1 .. Len(s) : s[i] = t[Len(t) - Len(s) + i], NEW j \in 1 .. Len(s)
          PROVE  rs[j] = rt[j]
      <3>1. PICK i \in 1 .. Len(s) : i = Len(s) - j + 1  BY <1>1
      <3>2. Len(t) - j + 1 = Len(t) - Len(s) + i  BY <1>1, <3>1
      <3>3. j \in 1 .. Len(t)  BY <1>1, <1>4
      <3> QED  BY <1>1, <2>2, <3>1, <3>2, <3>3
    <2> QED  BY <2>1, <2>2
  <1> QED  BY <1>2, <1>3, <1>4

LEMMA OneElement == ASSUME NEW S, NEW e \in S PROVE <<e>> \in Seq(S)  OBVIOUS

LEMMA DotType == <<".">> \in Seq(Pieces)
  BY DomainsAssumption, OneElement

(* A name under a domain ends like the domain. *)
LEMMA UnderIsSuffix ==
    ASSUME NEW host \in Seq(Pieces), NEW domain \in Seq(Pieces), Under(host, domain)
    PROVE  IsSuffix(domain, host)
  <1>1. CASE host = domain
    BY <1>1, SuffixElements
  <1>2. CASE IsSuffix(<<".">> \o domain, host)
    <2>1. PICK s \in Seq(Pieces) : s = <<".">> \o domain  BY ConcatProperties, DotType
    <2>2. /\ Len(s) = Len(domain) + 1 /\ Len(domain) \in Nat /\ Len(host) \in Nat
          /\ \A i \in 1 .. Len(domain) : s[i + 1] = domain[i]
      BY <2>1
    <2>3. Len(s) <= Len(host) /\ \A i \in 1 .. Len(s) : s[i] = host[Len(host) - Len(s) + i]
      BY <1>2, <2>1, SuffixElements
    <2>4. ASSUME NEW i \in 1 .. Len(domain) PROVE domain[i] = host[Len(host) - Len(domain) + i]
      <3>1. PICK j \in 1 .. Len(s) : j = i + 1  BY <2>2
      <3>2. Len(host) - Len(s) + j = Len(host) - Len(domain) + i  BY <2>2, <3>1
      <3> QED  BY <2>2, <2>3, <3>1, <3>2
    <2>5. Len(domain) <= Len(host)  BY <2>2, <2>3
    <2> QED  BY <2>4, <2>5, SuffixElements
  <1> QED  BY <1>1, <1>2 DEF Under

(* It is the domain, or the domain is what follows one of its dots. *)
LEMMA UnderByDots ==
    ASSUME NEW host \in Seq(Pieces), NEW domain \in Seq(Pieces)
    PROVE  Under(host, domain) <=>
               \/ host = domain
               \/ \E j \in 1 .. Len(host) :
                     host[j] = "." /\ SubSeq(host, j + 1, Len(host)) = domain
  <1>1. PICK s \in Seq(Pieces) : s = <<".">> \o domain  BY ConcatProperties, DotType
  <1>2. /\ Len(s) = Len(domain) + 1 /\ Len(domain) \in Nat /\ Len(host) \in Nat
        /\ s[1] = "." /\ \A i \in 1 .. Len(domain) : s[i + 1] = domain[i]
    BY <1>1
  <1>3. IsSuffix(s, host) <=>
            Len(s) <= Len(host) /\ \A i \in 1 .. Len(s) : s[i] = host[Len(host) - Len(s) + i]
    BY SuffixElements
  <1>4. ASSUME IsSuffix(s, host)
        PROVE  \E j \in 1 .. Len(host) : host[j] = "." /\ SubSeq(host, j + 1, Len(host)) = domain
    <2>1. PICK j \in 1 .. Len(host) : j = Len(host) - Len(domain)  BY <1>2, <1>3, <1>4
    <2>2. host[j] = "."
      <3>1. 1 \in 1 .. Len(s) /\ Len(host) - Len(s) + 1 = j  BY <1>2, <2>1
      <3> QED  BY <1>2, <1>3, <1>4, <3>1
    <2>3. ASSUME NEW i \in 1 .. Len(domain) PROVE host[j + i] = domain[i]
      <3>1. PICK k \in 1 .. Len(s) : k = i + 1  BY <1>2
      <3>2. Len(host) - Len(s) + k = j + i  BY <1>2, <2>1, <3>1
      <3> QED  BY <1>2, <1>3, <1>4, <3>1, <3>2
    <2>4. SubSeq(host, j + 1, Len(host)) = [i \in 1 .. Len(domain) |-> host[j + i]]
      BY <1>2, <2>1
    <2>5. SubSeq(host, j + 1, Len(host)) = domain
      BY <2>3, <2>4
    <2> QED  BY <2>2, <2>5
  <1>5. ASSUME NEW j \in 1 .. Len(host), host[j] = ".", SubSeq(host, j + 1, Len(host)) = domain
        PROVE  IsSuffix(s, host)
    <2>1. SubSeq(host, j + 1, Len(host)) = [i \in 1 .. Len(host) - j |-> host[j + i]]
      BY <1>2
    <2>2. Len(domain) = Len(host) - j  BY <1>2, <1>5, <2>1
    <2>3. \A i \in 1 .. Len(domain) : domain[i] = host[j + i]  BY <1>5, <2>1, <2>2
    <2>4. ASSUME NEW k \in 1 .. Len(s) PROVE s[k] = host[Len(host) - Len(s) + k]
      <3>1. CASE k = 1
        <4>1. Len(host) - Len(s) + k = j  BY <1>2, <2>2, <3>1
        <4> QED  BY <1>2, <1>5, <3>1, <4>1
      <3>2. CASE k # 1
        <4>1. PICK i \in 1 .. Len(domain) : k = i + 1
          <5>1. k - 1 \in 1 .. Len(domain) /\ k = (k - 1) + 1  BY <1>2, <3>2
          <5> QED  BY <5>1
        <4>2. Len(host) - Len(s) + k = j + i  BY <1>2, <2>2, <4>1
        <4> QED  BY <1>2, <2>3, <4>1, <4>2
      <3> QED  BY <3>1, <3>2
    <2>5. Len(s) <= Len(host)  BY <1>2, <2>2
    <2> QED  BY <1>3, <2>4, <2>5
  <1> QED  BY <1>1, <1>4, <1>5 DEF Under

(* Every non-empty set of numbers has a least one. *)
LEMMA LeastNumber ==
    ASSUME NEW S \in SUBSET Nat, S # {}
    PROVE  Min(S) \in S /\ \A n \in S : Min(S) <= n
  <1> DEFINE below == {ss \in Nat \X Nat : ss[1] < ss[2]}
  <1>1. IsWellFoundedOn(below, Nat)  BY NatLessThanWellFounded, Zenon DEF OpToRel
  <1> HIDE DEF below
  <1>2. PICK m \in S : \A n \in S : ~(<<n, m>> \in below)  BY <1>1, WFMin
  <1>3. ASSUME NEW n \in S PROVE m <= n
    <2>1. n \in Nat /\ m \in Nat /\ <<n, m>> \notin below  BY <1>2
    <2>2. ~(n < m)  BY <2>1 DEF below
    <2> QED  BY <2>1, <2>2
  <1> QED  BY <1>3 DEF Min

-----------------------------------------------------------------------------
(* The loop over the parents of a name. *)

search_round(host, f, dot) ==
    /\ dotsAfter(host, dot) # {}
    /\ LET next == Min(dotsAfter(host, dot))
       IN rest(host, next) \in blockedKeys \/ f[next]

LoopOf(host) == CHOOSE f : f = [dot \in DOMAIN host |-> search_round(host, f, dot)]

LEMMA InBlockedDomainLoop ==
    ASSUME NEW host
    PROVE  InBlockedDomain(host) <=> host \in blockedKeys \/ LoopOf(host)[1]
  BY Zenon DEF InBlockedDomain, LoopOf, search_round

LEMMA FirstDot ==
    ASSUME NEW host \in Seq(Pieces), NEW i \in Nat, dotsAfter(host, i) # {}
    PROVE  LET m == Min(dotsAfter(host, i))
           IN  /\ m \in dotsAfter(host, i) /\ m \in DOMAIN host /\ m \in Nat /\ i < m
               /\ dotsAfter(host, i) = {m} \cup dotsAfter(host, m)
  <1> DEFINE m == Min(dotsAfter(host, i))
  <1>1. m \in dotsAfter(host, i) /\ \A n \in dotsAfter(host, i) : m <= n
    <2>1. dotsAfter(host, i) \in SUBSET Nat  BY DEF dotsAfter
    <2> QED  BY <2>1, LeastNumber
  <1> HIDE DEF m
  <1>2. m \in Nat /\ i < m /\ m <= Len(host) /\ host[m] = "."  BY <1>1 DEF dotsAfter
  <1>3. dotsAfter(host, i) = {m} \cup dotsAfter(host, m)
    <2>1. ASSUME NEW n \in dotsAfter(host, i) PROVE n = m \/ n \in dotsAfter(host, m)
      BY <1>1, <1>2, <2>1 DEF dotsAfter
    <2>2. ASSUME NEW n \in dotsAfter(host, m) PROVE n \in dotsAfter(host, i)
      BY <1>2, <2>2 DEF dotsAfter
    <2> QED  BY <1>1, <2>1, <2>2
  <1> QED  BY <1>1, <1>2, <1>3 DEF m

(* The loop ends: there is a function with every round in it, found from    *)
(* the end of the name.                                                     *)
LEMMA SearchExists ==
    ASSUME NEW host \in Seq(Pieces)
    PROVE  \E f : f = [dot \in DOMAIN host |-> search_round(host, f, dot)]
  <1> DEFINE Fits(f, n) == \A dot \in DOMAIN host : dot + n > Len(host) => f[dot] = search_round(host, f, dot)
             Reached == {n \in Nat : \E f \in [DOMAIN host -> BOOLEAN] : Fits(f, n)}
             Missed == Nat \ Reached
  <1>1. DOMAIN host = 1 .. Len(host) /\ Len(host) \in Nat  OBVIOUS
  <1>2. 0 \in Reached
    <2>1. Fits([dot \in DOMAIN host |-> FALSE], 0)  BY <1>1
    <2> QED  BY <2>1
  <1>3. ASSUME NEW n \in Reached PROVE n + 1 \in Reached
    <2>1. PICK f \in [DOMAIN host -> BOOLEAN] : Fits(f, n)  OBVIOUS
    <2> DEFINE d == Len(host) - n
               g == [f EXCEPT ![d] = search_round(host, f, d)]
    <2>2. g \in [DOMAIN host -> BOOLEAN]
      <3>1. d \in DOMAIN host => search_round(host, f, d) \in BOOLEAN
        BY Zenon DEF search_round
      <3> QED  BY <3>1
    <2>3. ASSUME NEW dot \in DOMAIN host, dot + (n + 1) > Len(host)
          PROVE  g[dot] = search_round(host, g, dot)
      <3>1. dot \in Nat /\ d \in Int /\ n \in Nat /\ dot >= d  BY <1>1, <2>3
      <3>2. ASSUME dotsAfter(host, dot) # {}
            PROVE  f[Min(dotsAfter(host, dot))] = g[Min(dotsAfter(host, dot))]
        BY <3>1, <3>2, FirstDot
      <3>3. search_round(host, g, dot) = search_round(host, f, dot)
        <4>1. CASE dotsAfter(host, dot) = {}  BY <4>1, Zenon DEF search_round
        <4>2. CASE dotsAfter(host, dot) # {}  BY <4>2, <3>2, Zenon DEF search_round
        <4> QED  BY <4>1, <4>2
      <3>4. CASE dot = d  BY <3>3, <3>4
      <3>5. CASE dot # d
        <4>0. dot > d  BY <3>1, <3>5
        <4>1. dot + n > Len(host)
          <5> DEFINE l == Len(host)
          <5>1. l \in Nat /\ n \in Nat /\ dot \in Nat /\ dot > l - n  BY <1>1, <3>1, <4>0
          <5> HIDE DEF l
          <5>2. dot + n > l  BY <5>1
          <5> QED  BY <5>2 DEF l
        <4>2. f[dot] = search_round(host, f, dot)  BY <2>1, <4>1
        <4>3. g[dot] = f[dot]  BY <3>5
        <4> QED  BY <3>3, <4>2, <4>3
      <3> QED  BY <3>4, <3>5
    <2> HIDE DEF g
    <2>4. Fits(g, n + 1)  BY <2>3
    <2> QED  BY <2>2, <2>4
  <1> HIDE DEF Reached
  <1>4. Missed = {}
    <2> SUFFICES ASSUME Missed # {} PROVE FALSE  OBVIOUS
    <2>1. Min(Missed) \in Missed /\ \A n \in Missed : Min(Missed) <= n  BY LeastNumber
    <2>2. PICK m \in Missed : \A n \in Missed : m <= n  BY <2>1
    <2>3. m # 0 /\ m \in Nat  BY <1>2, <2>2
    <2>4. m - 1 \in Nat /\ m - 1 \notin Missed  BY <2>2, <2>3
    <2>5. (m - 1) + 1 \in Reached  BY <1>3, <2>4
    <2> QED  BY <2>3, <2>5
  <1>5. Len(host) \in Reached  BY <1>1, <1>4
  <1>6. PICK f \in [DOMAIN host -> BOOLEAN] : Fits(f, Len(host))  BY <1>5 DEF Reached
  <1>7. \A dot \in DOMAIN host : f[dot] = search_round(host, f, dot)  BY <1>1, <1>6
  <1>8. f = [dot \in DOMAIN host |-> search_round(host, f, dot)]  BY <1>7
  <1> QED  BY <1>8

(* What the loop finds, for every name: the rest after one of its dots is   *)
(* listed.  A dot that it is wrong about would have a later one behind it   *)
(* that it is wrong about too.                                              *)
LEMMA LoopFinds ==
    ASSUME NEW host \in Seq(Pieces), NEW dot \in DOMAIN host
    PROVE  LoopOf(host)[dot] <=> \E j \in dotsAfter(host, dot) : rest(host, j) \in blockedKeys
  <1> DEFINE Finds(d) == \E j \in dotsAfter(host, d) : rest(host, j) \in blockedKeys
             f == LoopOf(host)
             Wrong == {n \in Nat : \E d \in DOMAIN host : d + n = Len(host) /\ (f[d] # Finds(d))}
  <1>1. DOMAIN host = 1 .. Len(host) /\ Len(host) \in Nat  OBVIOUS
  <1>2. f = [d \in DOMAIN host |-> search_round(host, f, d)]
    BY SearchExists, Zenon DEF LoopOf
  <1> HIDE DEF f
  <1>3. ASSUME NEW d \in DOMAIN host PROVE f[d] = search_round(host, f, d)
    BY <1>2
  <1>4. ASSUME Wrong # {} PROVE FALSE
    <2>1. PICK n \in Wrong : \A m \in Wrong : n <= m
      <3>1. Wrong \in SUBSET Nat  OBVIOUS
      <3> HIDE DEF Wrong
      <3> QED  BY <1>4, <3>1, LeastNumber
    <2>2. PICK d \in DOMAIN host : d + n = Len(host) /\ (f[d] # Finds(d))  BY <2>1
    <2>3. CASE dotsAfter(host, d) = {}
      <3>1. f[d] = FALSE  BY <1>3, <2>3, Zenon DEF search_round
      <3>2. Finds(d) = FALSE  BY <2>3
      <3> QED  BY <2>2, <3>1, <3>2
    <2>4. CASE dotsAfter(host, d) # {}
      <3> DEFINE x == Min(dotsAfter(host, d))
      <3>1. /\ x \in DOMAIN host /\ x \in Nat /\ d < x
            /\ dotsAfter(host, d) = {x} \cup dotsAfter(host, x)
        BY <1>1, <2>4, FirstDot
      <3>2. f[d] = (rest(host, x) \in blockedKeys \/ f[x])
        BY <1>3, <2>4, Zenon DEF search_round
      <3> HIDE DEF x
      <3>3. f[x] = Finds(x)
        <4>1. PICK m \in Nat : x + m = Len(host) /\ m < n
          <5>1. Len(host) - x \in Nat  BY <1>1, <3>1
          <5> QED  BY <1>1, <2>1, <2>2, <3>1, <5>1
        <4>2. m \notin Wrong
          <5>1. n \in Nat  OBVIOUS
          <5> HIDE DEF Wrong
          <5> QED  BY <2>1, <4>1, <5>1
        <4> QED  BY <3>1, <4>1, <4>2
      <3>4. Finds(d) = (rest(host, x) \in blockedKeys \/ Finds(x))
        BY <3>1
      <3> QED  BY <2>2, <3>2, <3>3, <3>4
    <2> QED  BY <2>3, <2>4
  <1>5. f[dot] = Finds(dot)
    <2>1. Len(host) - dot \in Nat /\ dot + (Len(host) - dot) = Len(host)  BY <1>1
    <2>2. Len(host) - dot \notin Wrong  BY <1>4
    <2> QED  BY <2>1, <2>2
  <1> QED  BY <1>5 DEF f

(* The loop compares the name and its ends, label by label, with the keys   *)
(* of the object, inherited ones among them.                                *)
LEMMA BlockedIsUnder ==
    ASSUME NEW host \in HostNames
    PROVE  InBlockedDomain(host) <=> \E domain \in blockedKeys : Under(host, domain)
  <1>1. host \in Seq(Pieces) /\ host # << >> /\ host[1] # "."  BY DEF HostNames
  <1>2. 1 \in DOMAIN host /\ Len(host) \in Nat /\ DOMAIN host = 1 .. Len(host)  BY <1>1
  <1>3. dotsAfter(host, 1) = {j \in 1 .. Len(host) : host[j] = "."}
    BY <1>1, <1>2 DEF dotsAfter
  <1>4. InBlockedDomain(host) <=>
            \/ host \in blockedKeys
            \/ \E j \in dotsAfter(host, 1) : rest(host, j) \in blockedKeys
    BY <1>1, <1>2, InBlockedDomainLoop, LoopFinds
  <1>5. ASSUME NEW domain \in blockedKeys
        PROVE  Under(host, domain) <=>
                   host = domain \/ \E j \in dotsAfter(host, 1) : rest(host, j) = domain
    <2>1. domain \in Seq(Pieces)  BY DomainsAssumption DEF blockedKeys
    <2> QED  BY <1>1, <1>3, <2>1, UnderByDots DEF rest
  <1> QED  BY <1>4, <1>5

-----------------------------------------------------------------------------
(* One run of the sample. *)

LEMMA LowerIsName == ASSUME NEW name \in Seq(Pieces) PROVE lower(name) \in Seq(Pieces)
  <1>1. \A i \in DOMAIN name : lower(name)[i] \in Pieces  BY DomainsAssumption DEF lower
  <1>2. lower(name) \in [1 .. Len(name) -> Pieces] /\ Len(name) \in Nat
    BY <1>1 DEF lower
  <1> HIDE DEF lower
  <1> QED  BY <1>2

LEMMA LowerLength == ASSUME NEW name \in Seq(Pieces) PROVE Len(lower(name)) = Len(name)
  BY DEF lower

LEMMA LowerPiece ==
    ASSUME NEW name \in Seq(Pieces), NEW i \in 1 .. Len(name)
    PROVE  lower(name)[i] = IF name[i] \in DOMAIN toLowerCase
                            THEN toLowerCase[name[i]] ELSE name[i]
  BY DEF lower

(* Asked once for each network, dnsResolve finds one address for all of     *)
(* them when it always finds one.                                           *)
LEMMA LookupsInside ==
    ASSUME NEW outcomes, outcomes # {}, NEW answers \in Lookups(outcomes),
           \A address \in outcomes : address # Unresolved /\ Internal(address)
    PROVE  \E i \in DOMAIN internalNetworks :
              answers[i] # Unresolved /\ isHostInNetwork(answers[i], internalNetworks[i])
  <1>1. /\ answers \in [DOMAIN internalNetworks -> outcomes]
        /\ \A i, j \in DOMAIN answers :
               i < j /\ answers[i] # Unresolved => answers[j] = answers[i]
    BY DEF Lookups
  <1>2. DOMAIN internalNetworks = 1 .. Len(internalNetworks) /\ Len(internalNetworks) \in Nat
    BY NetworksAssumption
  <1>3. 1 \in DOMAIN internalNetworks
    BY <1>2 DEF Internal
  <1>4. Internal(answers[1]) /\ answers[1] # Unresolved  BY <1>1, <1>3
  <1>5. PICK i \in DOMAIN internalNetworks : isHostInNetwork(answers[1], internalNetworks[i])
    BY <1>4 DEF Internal
  <1>6. answers[i] = answers[1]
    BY <1>1, <1>2, <1>3, <1>4
  <1> QED  BY <1>4, <1>5, <1>6

(* A host outside gets past the three tests that come first. *)
LEMMA OutsideIsAsked ==
    ASSUME NEW host \in HostNames, NEW outcomes, NEW answers \in Lookups(outcomes),
           Outside(host, outcomes)
    PROVE  /\ ~isPlainHostName(host)
           /\ \A i \in DOMAIN internalNetworks :
                 answers[i] = Unresolved \/ ~isHostInNetwork(answers[i], internalNetworks[i])
           /\ \A domain \in internalDomains : ~isHostNameInDomain(host, domain)
  <1>1. host \in Seq(Pieces)  BY DEF HostNames
  <1>2. ~isPlainHostName(host)
    BY <1>1 DEF Outside, isPlainHostName, Contains, Range
  <1>3. \A domain \in internalDomains : ~isHostNameInDomain(host, domain)
    BY DEF Outside, isHostNameInDomain
  <1>4. ASSUME NEW i \in DOMAIN internalNetworks
        PROVE  answers[i] = Unresolved \/ ~isHostInNetwork(answers[i], internalNetworks[i])
    <2>1. answers[i] \in outcomes  BY DEF Lookups
    <2> QED  BY <2>1 DEF Outside, Internal
  <1> QED  BY <1>2, <1>3, <1>4

(* What is under a domain as it is spelled is under it in lower case too. *)
LEMMA UnderInAnyCase ==
    ASSUME NEW host \in Seq(Pieces), NEW domain \in Seq(Pieces), Under(host, domain)
    PROVE  Under(lower(host), lower(domain))
  <1>1. CASE host = domain  BY <1>1, Zenon DEF Under
  <1>2. ASSUME NEW j \in 1 .. Len(host),
               host[j] = "." /\ SubSeq(host, j + 1, Len(host)) = domain
        PROVE  Under(lower(host), lower(domain))
    <2>1. /\ lower(host) \in Seq(Pieces) /\ lower(domain) \in Seq(Pieces)
          /\ Len(lower(host)) = Len(host) /\ Len(lower(domain)) = Len(domain)
      BY LowerIsName, LowerLength
    <2>2. /\ Len(host) \in Nat /\ j \in Nat /\ j <= Len(host)
          /\ Len(domain) = Len(host) - j
          /\ \A i \in 1 .. Len(domain) : domain[i] = host[j + i]
      BY <1>2
    <2> HIDE DEF lower
    <2> PICK name \in Seq(Pieces) : name = lower(host)  BY <2>1
    <2>3. name \in Seq(Pieces) /\ Len(name) = Len(host)  BY <2>1
    <2> DEFINE end == SubSeq(name, j + 1, Len(name))
    <2>4. /\ end \in Seq(Pieces) /\ Len(end) = Len(domain)
          /\ \A i \in 1 .. Len(domain) : end[i] = name[j + i]
      BY <2>2, <2>3
    <2> HIDE DEF end
    <2>5. ASSUME NEW i \in 1 .. Len(domain) PROVE end[i] = lower(domain)[i]
      <3>1. j + i \in 1 .. Len(host)  BY <2>2
      <3>2. host[j + i] = domain[i]  BY <2>2
      <3>3. lower(host)[j + i] = lower(domain)[i]
        BY <3>1, <3>2, LowerPiece
      <3> QED  BY <2>4, <3>3
    <2>6. end = lower(domain)
      BY <2>1, <2>4, <2>5, SeqEqual
    <2>7. lower(host)[j] = "."
      BY <1>2, LowerPiece, DomainsAssumption
    <2> QED  BY <2>1, <2>3, <2>6, <2>7, UnderByDots DEF end
  <1> QED  BY <1>1, <1>2, UnderByDots

(* What the sample does for the other applications outside, exactly: a      *)
(* proxy for the names that are, or are below, a key of blockedDomains, one *)
(* of its own or one that every object inherits, spelled as it is there.    *)
THEOREM SampleBlocksByKey ==
    ASSUME NEW app, app \notin blockedApps \cup {ingress}, NEW host \in HostNames,
           NEW outcomes, NEW answers \in Lookups(outcomes), Outside(host, outcomes),
           NEW result \in queryProxy(app, host, answers)
    PROVE  result # NoResult <=> \E k \in blockedDomains \cup inherited : Under(host, k)
  <1>1. result # NoResult <=> InBlockedDomain(host)
    BY OutsideIsAsked, AppsAssumption DEF queryProxy
  <1> QED  BY <1>1, BlockedIsUnder DEF blockedKeys

(* The sample does what its comments say: whatever the application, the     *)
(* name and the addresses that a resolver may find for it, queryProxy       *)
(* returns nothing for a host inside, the proxy of an application that has  *)
(* one outside, and else a proxy for the blocked domains and what is below  *)
(* them, spelled as in the list, and nothing for a host that is below none  *)
(* of them in any spelling and below no inherited key.                      *)
THEOREM SampleDoesAsMeant ==
    ASSUME NEW app, NEW host \in HostNames, NEW outcomes, outcomes # {},
           NEW answers \in Lookups(outcomes), NEW result \in queryProxy(app, host, answers)
    PROVE  Meant(app, host, outcomes, result)
  <1> DEFINE InNetwork == \E i \in DOMAIN internalNetworks :
                 answers[i] # Unresolved /\ isHostInNetwork(answers[i], internalNetworks[i])
             InDomain == \E domain \in internalDomains : isHostNameInDomain(host, domain)
             Skipped == isPlainHostName(host) \/ InNetwork \/ InDomain
  <1>1. host \in Seq(Pieces)  BY DEF HostNames
  <1>2. isPlainHostName(host) <=> "." \notin Range(host)
    BY <1>1 DEF isPlainHostName, Contains, Range
  <1>3. /\ Skipped => result = NoResult
        /\ ~Skipped => IF app \in blockedApps THEN result = proxies[1]
                       ELSE IF app = ingress  THEN result = proxies[2]
                       ELSE IF InBlockedDomain(host) THEN result \in {proxies[1], proxies[2]}
                       ELSE result = NoResult
    BY DEF queryProxy
  <1>4. ASSUME Inside(host, outcomes) PROVE Skipped
    <2>1. CASE "." \notin Range(host)  BY <1>2, <2>1
    <2>2. CASE \E domain \in internalDomains : Under(lower(host), lower(domain))
      <3>1. PICK domain \in internalDomains : Under(lower(host), lower(domain))  BY <2>2
      <3>2. lower(host) \in Seq(Pieces) /\ lower(domain) \in Seq(Pieces)
        BY <1>1, DomainsAssumption, LowerIsName
      <3>3. isHostNameInDomain(host, domain)
        BY <3>1, <3>2, UnderIsSuffix DEF isHostNameInDomain
      <3> QED  BY <3>3
    <2>3. CASE \A address \in outcomes : address # Unresolved /\ Internal(address)
      BY <2>3, LookupsInside
    <2> QED  BY <1>4, <2>1, <2>2, <2>3 DEF Inside
  <1>5. ASSUME Outside(host, outcomes) PROVE ~Skipped
    BY <1>5, OutsideIsAsked
  <1> HIDE DEF Skipped
  <1>6. ASSUME Outside(host, outcomes)
        PROVE  CASE app \in blockedApps -> result = proxies[1]
                 [] app = ingress       -> result = proxies[2]
                 [] OTHER               -> /\ Blocked(host) => result # NoResult
                                           /\ NotBlocked(host) => result = NoResult
    <2>1. CASE app \in blockedApps
      BY <1>3, <1>5, <1>6, <2>1, AppsAssumption
    <2>2. CASE app = ingress
      BY <1>3, <1>5, <1>6, <2>2, AppsAssumption
    <2>3. CASE app \notin blockedApps /\ app # ingress
      <3>1. result # NoResult <=> \E k \in blockedDomains \cup inherited : Under(host, k)
        BY <1>6, <2>3, SampleBlocksByKey
      <3>2. Blocked(host) => result # NoResult
        BY <3>1 DEF Blocked
      <3>3. ASSUME NotBlocked(host), NEW k \in blockedDomains \cup inherited
            PROVE  ~Under(host, k)
        <4>1. CASE k \in inherited  BY <3>3, <4>1 DEF NotBlocked
        <4>2. CASE k \in blockedDomains
          <5>1. k \in Seq(Pieces)  BY DomainsAssumption
          <5>2. ~Under(lower(host), lower(k))
            BY <3>3, <4>2, Zenon DEF NotBlocked
          <5> QED  BY <1>1, <5>1, <5>2, UnderInAnyCase, Zenon
        <4> QED  BY <4>1, <4>2
      <3> QED  BY <2>3, <3>1, <3>2, <3>3
    <2> QED  BY <2>1, <2>2, <2>3
  <1> QED  BY <1>3, <1>4, <1>6 DEF Meant

(* With the sample for a script, every connection is made as the sample's   *)
(* comments say, through whichever hook, from the cache or not.             *)
THEOREM PolicyAlwaysHolds == NSpec => []PolicyHolds
  <1>1. ASSUME TypeOK, AnswerSound PROVE PolicyHolds
    <2> SUFFICES ASSUME NEW t \in Threads, pc[t] = "answered", key[t] \notin Elsewhere
                 PROVE  \E result \in {NoResult, proxies[1], proxies[2]} :
                            /\ proxy[t] = Answer(result)
                            /\ Meant(application, Spelling[key[t][1]],
                                     Resolution[key[t][1]], result)
      BY DEF PolicyHolds
    <2> DEFINE host == Spelling[key[t][1]]  outcomes == Resolution[key[t][1]]
    <2>1. key[t] \in Keys \ Elsewhere /\ application \in Applications
      BY <1>1 DEF TypeOK
    <2>2. host \in HostNames /\ outcomes # {}
          /\ Script[application][key[t]] = SampleAnswers(application, key[t])
      BY <2>1, SampleAssumption
    <2>3. PICK result \in SampleAnswers(application, key[t]) : proxy[t] = Answer(result)
      BY <1>1, <2>2 DEF AnswerSound, Returns
    <2>4. PICK answers \in Lookups(outcomes) : result \in queryProxy(application, host, answers)
      BY <2>3 DEF SampleAnswers
    <2> HIDE DEF host, outcomes
    <2>5. Meant(application, host, outcomes, result)
      BY <2>2, <2>4, SampleDoesAsMeant
    <2>6. result \in {NoResult, proxies[1], proxies[2]}
      BY <2>4 DEF queryProxy
    <2> QED  BY <2>3, <2>5, <2>6 DEF host, outcomes
  <1>2. CacheInv => TypeOK /\ AnswerSound  BY DEF CacheInv
  <1> QED  BY <1>1, <1>2, CacheInvariantHolds, PTL
=============================================================================
