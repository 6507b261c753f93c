-------------------------- MODULE ScriptDnsProofs --------------------------
(***************************************************************************)
(* Theorems about the resolver hooks and the script's DNS cache, for any   *)
(* threads, hosts, requests and addresses.                                 *)
(***************************************************************************)
EXTENDS ScriptDns, TLAPS

-----------------------------------------------------------------------------
(* Types *)

LEMMA TypeInit == SInit => STypeOK
  BY DEF SInit, Init, STypeOK, ResolverTypeOK, NoCall, Empty, Places

(* A call of the resolver's hooks, whoever makes it. *)
HookStep(t) == \/ CopyArgument(t) \/ SearchTable(t) \/ FillHostent(t)
               \/ Info(t) \/ async_start(t) \/ GiveUp(t) \/ Dispatch(t)
               \/ Started(t) \/ Release(t)

hooks == <<pc, call, got, static, async>>

(* The script's steps leave the hooks alone but for the return of a native  *)
(* function, which ends a call like any other end.                          *)
LEMMA OnlyHooks ==
  ASSUME [SNext]_svars
  PROVE  \/ \E t \in Threads : HookStep(t)
         \/ \E c \in Requests : Callback(c)
         \/ UNCHANGED hooks
  <1>1. ASSUME NEW t \in Threads, Begin(t) \/ dnsResolve(t) \/ End(t) PROVE UNCHANGED hooks
    BY <1>1 DEF Begin, dnsResolve, End, vars, hooks, static, async
  <1>2. ASSUME NEW t \in Threads, Native(t) \/ Application(t) \/ Start(t) \/ NativeReturns(t)
        PROVE  HookStep(t)
    BY <1>2 DEF Native, Application, Start, NativeReturns, HookStep
  <1>3. ASSUME NEW c \in Requests, MakeCallback(c) PROVE Callback(c)
    BY <1>3 DEF MakeCallback
  <1>4. CASE UNCHANGED svars  BY <1>4 DEF svars, vars, hooks, static, async
  <1> QED  BY <1>1, <1>2, <1>3, <1>4 DEF SNext

HooksTypeOK == /\ pc \in [Threads -> Places]
               /\ call \in [Threads -> [hook : OldHooks \cup InfoHooks \cup {"none"},
                                        host : Hosts \cup {Nothing},
                                        context : Requests \cup {Nothing}]]
               /\ got \in [Threads -> Hosts \cup Answers \cup {Nothing}]
               /\ buffer \in [OldHooks -> [Fields -> Hosts \cup {Nothing}]]
               /\ undisturbed \in [Threads -> BOOLEAN]
               /\ status \in [Requests -> {"new", "system", "starting", "refused", "started"}]
               /\ memory \in [Requests -> {"none", "hook", "queue", "application", "freed"}]
               /\ queue \subseteq Requests /\ calledback \subseteq Requests
               /\ ports \subseteq Requests

(* Where a thread is says what its call is about. *)
CallFits ==
    \A t \in Threads :
        /\ pc[t] \in {"given", "found", "hostent"} =>
              call[t].hook \in OldHooks /\ call[t].host \in Hosts
        /\ pc[t] \in {"starting", "dispatched"} =>
              call[t].context \in Requests /\ call[t].host \in Hosts \ Bypassed
        /\ pc[t] \notin {"found", "hostent", "answered"} => got[t] = Nothing
        /\ pc[t] = "found" => got[t] \in Hosts \cup {Nothing}

LEMMA HooksInit == SInit => HooksTypeOK /\ CallFits
  BY DEF SInit, Init, HooksTypeOK, CallFits, NoCall, Places

(* Writing one field of one buffer. *)
LEMMA BufferWrite ==
  ASSUME NEW b, b \in [OldHooks -> [Fields -> Hosts \cup {Nothing}]],
         NEW hook \in OldHooks, NEW f \in Fields, NEW x \in Hosts \cup {Nothing}
  PROVE  /\ [b EXCEPT ![hook][f] = x] \in [OldHooks -> [Fields -> Hosts \cup {Nothing}]]
         /\ \A k \in OldHooks, g \in Fields :
               [b EXCEPT ![hook][f] = x][k][g] = IF k = hook /\ g = f THEN x ELSE b[k][g]
  <1> DEFINE row == [b[hook] EXCEPT ![f] = x]
  <1>1. row \in [Fields -> Hosts \cup {Nothing}]  OBVIOUS
  <1>2. [b EXCEPT ![hook][f] = x] = [b EXCEPT ![hook] = row]  OBVIOUS
  <1>3. \A g \in Fields : row[g] = IF g = f THEN x ELSE b[hook][g]  OBVIOUS
  <1> HIDE DEF row
  <1>4. [b EXCEPT ![hook] = row] \in [OldHooks -> [Fields -> Hosts \cup {Nothing}]]
    BY <1>1
  <1>5. \A k \in OldHooks : [b EXCEPT ![hook] = row][k] = IF k = hook THEN row ELSE b[k]
    OBVIOUS
  <1> QED  BY <1>2, <1>3, <1>4, <1>5

LEMMA FieldsOf == \A hook \in OldHooks : /\ BufferOf(hook) \in OldHooks
                                       /\ Given(hook) \in Fields
                                       /\ Found(hook) \in Fields
                                       /\ Given(hook) # Found(hook)
                                       /\ Fields = {Given(hook), Found(hook)}
  BY DEF OldHooks, BufferOf, Given, Found, Fields

LEMMA HooksStep ==
  ASSUME HooksTypeOK, CallFits, [SNext]_svars
  PROVE  HooksTypeOK' /\ CallFits'
  <1> USE DEF HooksTypeOK, CallFits, Places, To, Call, Answer, static, async, OldHooks,
              InfoHooks, Fields, BufferOf, Given, Found, Answers
  <1>1. ASSUME NEW t \in Threads, CopyArgument(t) PROVE HooksTypeOK' /\ CallFits'
    <2>1. PICK hook \in OldHooks, host \in Hosts \ Bypassed : CopyArgument(t)!(hook, host)
      BY <1>1 DEF CopyArgument
    <2>2. buffer' \in [OldHooks -> [Fields -> Hosts \cup {Nothing}]]
      <3> HIDE DEF OldHooks, Fields, BufferOf, Given
      <3> QED  BY <2>1, BufferWrite, FieldsOf
    <2>3. call' \in [Threads -> [hook : OldHooks \cup InfoHooks \cup {"none"},
                                host : Hosts \cup {Nothing},
                                context : Requests \cup {Nothing}]]
      BY <2>1
    <2>4. undisturbed' \in [Threads -> BOOLEAN]
      BY <2>1
    <2>5. CallFits'  BY <2>1
    <2> QED  BY <2>1, <2>2, <2>3, <2>4, <2>5
  <1>2. ASSUME NEW t \in Threads, SearchTable(t) PROVE HooksTypeOK' /\ CallFits'
    BY <1>2 DEF SearchTable
  <1>3. ASSUME NEW t \in Threads, FillHostent(t) PROVE HooksTypeOK' /\ CallFits'
    <2>1. buffer' \in [OldHooks -> [Fields -> Hosts \cup {Nothing}]]
      <3>1. got[t] \in Hosts \cup {Nothing}  BY <1>3 DEF FillHostent
      <3>2. call[t].hook \in OldHooks  BY <1>3 DEF FillHostent
      <3> HIDE DEF OldHooks, Fields, BufferOf, Found
      <3> QED  BY <1>3, <3>1, <3>2, BufferWrite, FieldsOf DEF FillHostent
    <2>2. undisturbed' \in [Threads -> BOOLEAN]
      BY <1>3 DEF FillHostent
    <2>3. pc' \in [Threads -> Places] /\ UNCHANGED <<call, got, async>>
      BY <1>3 DEF FillHostent
    <2>4. CallFits'  BY <1>3 DEF FillHostent
    <2> HIDE DEF Places
    <2> QED  BY <2>1, <2>2, <2>3, <2>4
  <1>4. ASSUME NEW t \in Threads, Info(t) PROVE HooksTypeOK' /\ CallFits'
    <2>1. PICK hook \in InfoHooks, host \in Hosts : Info(t)!(hook, host)
      BY <1>4 DEF Info
    <2>2. call' \in [Threads -> [hook : OldHooks \cup InfoHooks \cup {"none"},
                                host : Hosts \cup {Nothing},
                                context : Requests \cup {Nothing}]]
      BY <2>1
    <2> PICK what \in Answers : got' = [got EXCEPT ![t] = what]
      BY <2>1
    <2>3. pc' \in [Threads -> Places] /\ got' \in [Threads -> Hosts \cup Answers \cup {Nothing}]
      BY <2>1
    <2>4. /\ pc'[t] = "answered"
          /\ \A u \in Threads \ {t} : pc'[u] = pc[u] /\ got'[u] = got[u] /\ call'[u] = call[u]
      BY <2>1
    <2>5. CallFits'  BY <2>4
    <2>6. UNCHANGED <<static, async>>  BY <2>1
    <2> QED  BY <2>2, <2>3, <2>5, <2>6
  <1>5. ASSUME NEW t \in Threads, async_start(t) PROVE HooksTypeOK' /\ CallFits'
    <2>1. PICK hook \in InfoHooks, host \in Hosts, c \in Requests :
              async_start(t)!(hook, host, c)
      BY <1>5 DEF async_start
    <2>2. /\ call' \in [Threads -> [hook : OldHooks \cup InfoHooks \cup {"none"},
                                   host : Hosts \cup {Nothing},
                                   context : Requests \cup {Nothing}]]
          /\ call'[t].host = host /\ call'[t].context = c
          /\ \A u \in Threads \ {t} : call'[u] = call[u]
      BY <2>1
    <2>3. pc' \in [Threads -> Places] /\ got' \in [Threads -> Hosts \cup Answers \cup {Nothing}]
      BY <2>1
    <2>4. /\ status' \in [Requests -> {"new", "system", "starting", "refused", "started"}]
          /\ memory' \in [Requests -> {"none", "hook", "queue", "application", "freed"}]
          /\ ports' \subseteq Requests
          /\ UNCHANGED <<static, queue, calledback>>
      <3>1. \E s \in {"system", "starting", "refused"} :
                 status' = [status EXCEPT ![c] = s]
        BY <2>1
      <3>2. memory' = memory \/ \E m \in {"hook"} : memory' = [memory EXCEPT ![c] = m]
        BY <2>1
      <3>3. ports' = ports \/ ports' = ports \cup {c}
        BY <2>1
      <3>4. UNCHANGED <<static, queue, calledback>>
        BY <2>1
      <3> QED  BY <3>1, <3>2, <3>3, <3>4
    <2>5. /\ pc'[t] \in {"starting", "answered"}
          /\ pc'[t] = "starting" => host \notin Bypassed /\ got'[t] = Nothing
          /\ \A u \in Threads \ {t} : pc'[u] = pc[u] /\ got'[u] = got[u]
      BY <2>1 DEF test
    <2>6. CallFits'
      BY <2>2, <2>5
    <2> QED  BY <2>2, <2>3, <2>4, <2>6
  <1>6. ASSUME NEW t \in Threads, GiveUp(t) \/ Dispatch(t) \/ Started(t)
        PROVE  HooksTypeOK' /\ CallFits'
    <2>1. /\ UNCHANGED <<call, static, ports>>
          /\ \A u \in Threads \ {t} : pc'[u] = pc[u] /\ got'[u] = got[u]
          /\ pc' \in [Threads -> Places] /\ got' \in [Threads -> Hosts \cup Answers \cup {Nothing}]
          /\ pc'[t] = "answered" \/ (pc'[t] = "dispatched" /\ pc[t] = "starting" /\ got'[t] = got[t])
      <3>1. CASE GiveUp(t)    BY <3>1 DEF GiveUp
      <3>2. CASE Dispatch(t)  BY <3>2 DEF Dispatch
      <3>3. CASE Started(t)   BY <3>3 DEF Started
      <3> QED  BY <1>6, <3>1, <3>2, <3>3
    <2>2. call[t].context \in Requests
      BY <1>6 DEF GiveUp, Dispatch, Started
    <2>3. /\ status' \in [Requests -> {"new", "system", "starting", "refused", "started"}]
          /\ memory' \in [Requests -> {"none", "hook", "queue", "application", "freed"}]
          /\ queue' \subseteq Requests /\ calledback' \subseteq Requests
      BY <1>6, <2>2 DEF GiveUp, Dispatch, Started
    <2>4. CallFits'  BY <2>1
    <2> QED  BY <2>1, <2>3, <2>4
  <1>7. ASSUME NEW t \in Threads, Release(t) PROVE HooksTypeOK' /\ CallFits'
    BY <1>7 DEF Release, NoCall
  <1>8. ASSUME NEW c \in Requests, Callback(c) PROVE HooksTypeOK' /\ CallFits'
    BY <1>8 DEF Callback
  <1>9. CASE UNCHANGED hooks  BY <1>9 DEF hooks
  <1> HIDE DEF HooksTypeOK, CallFits
  <1> QED  BY <1>1, <1>2, <1>3, <1>4, <1>5, <1>6, <1>7, <1>8, <1>9, OnlyHooks DEF HookStep

-----------------------------------------------------------------------------
(* The static buffers *)

(* What a call has put into its buffer so far is there, and its own. *)
BufferFits ==
    \A t \in Threads : undisturbed[t] =>
        /\ pc[t] \in {"given", "found", "hostent"} =>
              buffer[BufferOf(call[t].hook)][Given(call[t].hook)] = call[t].host
        /\ pc[t] = "found" => got[t] = call[t].host
        /\ pc[t] = "hostent" =>
              buffer[BufferOf(call[t].hook)][Found(call[t].hook)] = call[t].host

LEMMA BufferStep ==
  ASSUME HooksTypeOK, CallFits, BufferFits, [SNext]_svars
  PROVE  BufferFits'
  <1> USE DEF HooksTypeOK
  <1>1. ASSUME NEW t \in Threads, CopyArgument(t) PROVE BufferFits'
    <2>1. PICK hook \in OldHooks, host \in Hosts \ Bypassed : CopyArgument(t)!(hook, host)
      BY <1>1 DEF CopyArgument
    <2>2. \A k \in OldHooks, g \in Fields :
             buffer'[k][g] = IF k = BufferOf(hook) /\ g = Given(hook) THEN host ELSE buffer[k][g]
      BY <2>1, BufferWrite, FieldsOf
    <2>3. call'[t].hook = hook /\ call'[t].host = host /\ pc'[t] = "given"
      BY <2>1 DEF To, Call
    <2>4. ASSUME NEW u \in Threads \ {t}
          PROVE  /\ call'[u] = call[u] /\ pc'[u] = pc[u] /\ got'[u] = got[u]
                 /\ undisturbed'[u] => undisturbed[u] /\ ~Using(u, hook)
      BY <2>1 DEF To, Call
    <2>5. ASSUME NEW u \in Threads \ {t}, undisturbed'[u],
                 pc[u] \in {"given", "found", "hostent"}
          PROVE  /\ call[u].hook # hook /\ call[u].hook \in OldHooks
                 /\ \A g \in Fields : buffer'[BufferOf(call[u].hook)][g]
                                    = buffer[BufferOf(call[u].hook)][g]
      <3>1. call[u].hook # hook
        BY <2>4, <2>5 DEF Using, Writing
      <3>2. call[u].hook \in OldHooks
        BY <2>5 DEF CallFits
      <3> QED  BY <2>2, <3>1, <3>2 DEF BufferOf
    <2> QED  BY <2>2, <2>3, <2>4, <2>5, FieldsOf DEF BufferFits
  <1>2. ASSUME NEW t \in Threads, SearchTable(t) PROVE BufferFits'
    BY <1>2 DEF SearchTable, BufferFits, To, static, async
  <1>3. ASSUME NEW t \in Threads, FillHostent(t) PROVE BufferFits'
    <2>1. call[t].hook \in OldHooks  BY <1>3 DEF FillHostent, CallFits
    <2>2. \A k \in OldHooks, g \in Fields :
             buffer'[k][g] = IF k = BufferOf(call[t].hook) /\ g = Found(call[t].hook)
                             THEN got[t] ELSE buffer[k][g]
      <3>1. got[t] \in Hosts \cup {Nothing}  BY <1>3 DEF FillHostent, CallFits
      <3> QED  BY <1>3, <2>1, <3>1, BufferWrite, FieldsOf DEF FillHostent
    <2>3. /\ call' = call /\ pc'[t] = "hostent" /\ pc[t] = "found"
          /\ undisturbed'[t] = undisturbed[t]
      BY <1>3 DEF FillHostent, To
    <2>4. ASSUME NEW u \in Threads \ {t}
          PROVE  /\ pc'[u] = pc[u] /\ got'[u] = got[u]
                 /\ undisturbed'[u] => undisturbed[u] /\ ~Using(u, call[t].hook)
      BY <1>3 DEF FillHostent, To
    <2>5. ASSUME NEW u \in Threads \ {t}, undisturbed'[u],
                 pc[u] \in {"given", "found", "hostent"}
          PROVE  /\ call[u].hook \in OldHooks
                 /\ \A g \in Fields : buffer'[BufferOf(call[u].hook)][g]
                                    = buffer[BufferOf(call[u].hook)][g]
      <3>1. call[u].hook # call[t].hook
        BY <2>4, <2>5 DEF Using, Writing
      <3>2. call[u].hook \in OldHooks
        BY <2>5 DEF CallFits
      <3> QED  BY <2>1, <2>2, <3>1, <3>2 DEF BufferOf
    <2> QED  BY <2>1, <2>2, <2>3, <2>4, <2>5, FieldsOf DEF BufferFits
  <1>4. ASSUME NEW t \in Threads,
               \/ Info(t) \/ async_start(t) \/ GiveUp(t) \/ Dispatch(t)
               \/ Started(t) \/ Release(t)
        PROVE  BufferFits'
    <2>1. /\ pc'[t] \notin {"given", "found", "hostent"} /\ buffer' = buffer
          /\ \A u \in Threads \ {t} : /\ pc'[u] = pc[u] /\ call'[u] = call[u]
                                      /\ got'[u] = got[u] /\ undisturbed'[u] = undisturbed[u]
      BY <1>4 DEF Info, async_start, GiveUp, Dispatch, Started, Release, To, Call, Answer,
                  static, async
    <2> QED  BY <2>1 DEF BufferFits
  <1>5. ASSUME NEW c \in Requests, Callback(c) PROVE BufferFits'
    BY <1>5 DEF Callback, BufferFits, static
  <1>6. CASE UNCHANGED hooks  BY <1>6 DEF hooks, BufferFits, static
  <1> QED  BY <1>1, <1>2, <1>3, <1>4, <1>5, <1>6, OnlyHooks DEF HookStep

-----------------------------------------------------------------------------
(* The asynchronous calls *)

(* A request that is on its way belongs to one call, and everything that is *)
(* known about it goes together.                                            *)
RequestFits ==
    /\ \A c \in Requests :
          /\ status[c] = "new" => memory[c] = "none"
          /\ c \in queue <=> memory[c] = "queue"
          /\ c \in calledback <=> memory[c] = "application"
          /\ status[c] = "refused" => memory[c] \in {"none", "freed"}
          /\ status[c] = "system" => memory[c] = "none"
          /\ status[c] = "started" => memory[c] \in {"queue", "application"}
    /\ \A t \in Threads :
          /\ pc[t] = "starting" => /\ memory[call[t].context] = "hook"
                                   /\ status[call[t].context] = "starting"
          /\ pc[t] = "dispatched" => /\ memory[call[t].context] \in {"queue", "application"}
                                     /\ status[call[t].context] = "starting"

OneCaller ==
    \A t, u \in Threads :
        /\ pc[t] \in {"starting", "dispatched"} /\ pc[u] \in {"starting", "dispatched"}
        /\ call[t].context = call[u].context
        => t = u

LEMMA RequestStep ==
  ASSUME HooksTypeOK, CallFits, RequestFits, OneCaller, [SNext]_svars
  PROVE  RequestFits' /\ OneCaller'
  <1> USE DEF HooksTypeOK
  <1>1. ASSUME NEW t \in Threads,
               \/ CopyArgument(t) \/ SearchTable(t) \/ FillHostent(t) \/ Info(t) \/ Release(t)
        PROVE  RequestFits' /\ OneCaller'
    <2>1. /\ UNCHANGED async /\ pc'[t] \notin {"starting", "dispatched"}
          /\ \A u \in Threads \ {t} : pc'[u] = pc[u] /\ call'[u] = call[u]
      <3> USE DEF To, Call, Answer
      <3>1. CASE CopyArgument(t)  BY <3>1 DEF CopyArgument
      <3>2. CASE SearchTable(t)   BY <3>2 DEF SearchTable
      <3>3. CASE FillHostent(t)   BY <3>3 DEF FillHostent
      <3>4. CASE Info(t)          BY <3>4 DEF Info
      <3>5. CASE Release(t)       BY <3>5 DEF Release
      <3> QED  BY <1>1, <3>1, <3>2, <3>3, <3>4, <3>5
    <2>2. RequestFits'  BY <2>1 DEF RequestFits, async
    <2>3. OneCaller'    BY <2>1 DEF OneCaller
    <2> QED  BY <2>2, <2>3
  <1>2. ASSUME NEW t \in Threads, async_start(t) PROVE RequestFits' /\ OneCaller'
    <2>1. PICK hook \in InfoHooks, host \in Hosts, c \in Requests :
              async_start(t)!(hook, host, c)
      BY <1>2 DEF async_start
    <2>2. /\ status[c] = "new" /\ UNCHANGED <<queue, calledback>>
          /\ call'[t].context = c /\ pc'[t] \in {"answered", "starting"}
          /\ \A u \in Threads \ {t} : pc'[u] = pc[u] /\ call'[u] = call[u]
          /\ \A k \in Requests \ {c} : status'[k] = status[k] /\ memory'[k] = memory[k]
          /\ \/ status'[c] = "system" /\ memory'[c] = memory[c] /\ pc'[t] = "answered"
             \/ status'[c] = "refused" /\ memory'[c] = memory[c] /\ pc'[t] = "answered"
             \/ status'[c] = "starting" /\ memory'[c] = "hook" /\ pc'[t] = "starting"
      BY <2>1 DEF To, Call, Answer
    <2>3. \A u \in Threads : pc[u] \in {"starting", "dispatched"} =>
              call[u].context \in Requests \ {c}
      BY <2>2 DEF RequestFits, CallFits
    <2>4. RequestFits'  BY <2>2, <2>3 DEF RequestFits
    <2>5. OneCaller'  BY <2>2, <2>3 DEF OneCaller
    <2> QED  BY <2>4, <2>5
  <1>3. ASSUME NEW t \in Threads, GiveUp(t) \/ Dispatch(t) \/ Started(t)
        PROVE  RequestFits' /\ OneCaller'
    <2> DEFINE c == call[t].context
    <2>1. /\ c \in Requests /\ pc[t] \in {"starting", "dispatched"}
          /\ \A u \in Threads \ {t} : pc[u] \in {"starting", "dispatched"} =>
                call[u].context \in Requests \ {c}
      BY <1>3 DEF GiveUp, Dispatch, Started, CallFits, OneCaller
    <2>2. /\ UNCHANGED <<call, calledback>>
          /\ \A u \in Threads \ {t} : pc'[u] = pc[u]
          /\ \A k \in Requests \ {c} : /\ status'[k] = status[k] /\ memory'[k] = memory[k]
                                       /\ k \in queue' <=> k \in queue
      BY <1>3, <2>1 DEF GiveUp, Dispatch, Started, To, Answer
    <2>3. \/ /\ pc[t] = "starting" /\ pc'[t] = "answered" /\ queue' = queue
             /\ status'[c] = "refused" /\ memory'[c] = "freed"
          \/ /\ pc[t] = "starting" /\ pc'[t] = "dispatched" /\ queue' = queue \cup {c}
             /\ status'[c] = status[c] /\ memory'[c] = "queue"
          \/ /\ pc[t] = "dispatched" /\ pc'[t] = "answered" /\ queue' = queue
             /\ status'[c] = "started" /\ memory'[c] = memory[c]
      BY <1>3, <2>1 DEF GiveUp, Dispatch, Started, To, Answer
    <2> HIDE DEF c
    <2>4. /\ pc[t] = "starting" => memory[c] = "hook" /\ status[c] = "starting"
          /\ pc[t] = "dispatched" => /\ memory[c] \in {"queue", "application"}
                                     /\ status[c] = "starting"
      BY <2>1 DEF RequestFits, c
    <2>5. RequestFits'
      <3>1. ASSUME NEW k \in Requests
            PROVE  /\ status'[k] = "new" => memory'[k] = "none"
                   /\ k \in queue' <=> memory'[k] = "queue"
                   /\ k \in calledback' <=> memory'[k] = "application"
                   /\ status'[k] = "refused" => memory'[k] \in {"none", "freed"}
                   /\ status'[k] = "system" => memory'[k] = "none"
                   /\ status'[k] = "started" => memory'[k] \in {"queue", "application"}
        <4>1. CASE k = c  BY <2>1, <2>2, <2>3, <2>4, <4>1 DEF RequestFits
        <4>2. CASE k # c  BY <2>2, <4>2 DEF RequestFits
        <4> QED  BY <4>1, <4>2
      <3>2. ASSUME NEW u \in Threads
            PROVE  /\ pc'[u] = "starting" => /\ memory'[call'[u].context] = "hook"
                                             /\ status'[call'[u].context] = "starting"
                   /\ pc'[u] = "dispatched" =>
                         /\ memory'[call'[u].context] \in {"queue", "application"}
                         /\ status'[call'[u].context] = "starting"
        <4>1. CASE u = t  BY <2>2, <2>3, <2>4, <4>1 DEF c
        <4>2. CASE u # t  BY <2>1, <2>2, <4>2 DEF RequestFits
        <4> QED  BY <4>1, <4>2
      <3> QED  BY <3>1, <3>2 DEF RequestFits
    <2>6. OneCaller'  BY <2>1, <2>2 DEF OneCaller, c
    <2> QED  BY <2>5, <2>6
  <1>4. ASSUME NEW c \in Requests, Callback(c) PROVE RequestFits' /\ OneCaller'
    <2>1. /\ UNCHANGED <<pc, call, status>> /\ memory[c] = "queue"
          /\ queue' = queue \ {c} /\ calledback' = calledback \cup {c}
          /\ memory' = [memory EXCEPT ![c] = "application"]
      BY <1>4 DEF Callback, RequestFits
    <2>2. RequestFits'  BY <2>1 DEF RequestFits, CallFits
    <2>3. OneCaller'  BY <2>1 DEF OneCaller
    <2> QED  BY <2>2, <2>3
  <1>5. CASE UNCHANGED hooks  BY <1>5 DEF hooks, async, RequestFits, OneCaller
  <1> QED  BY <1>1, <1>2, <1>3, <1>4, <1>5, OnlyHooks DEF HookStep

-----------------------------------------------------------------------------
(* The script *)

(* The flag of a thread tells whether it is in a native function, and only  *)
(* the newer calls are made there.                                          *)
ScriptFits ==
    /\ should_resolve \in [Threads -> BOOLEAN]
    /\ script \in [Threads -> {"out", "in", "native"}]
    /\ asked \in [Threads -> Hosts \cup {Nothing}]
    /\ \A t \in Threads :
          /\ should_resolve[t] <=> script[t] = "native"
          /\ script[t] = "in" => pc[t] = "idle"
          /\ script[t] = "native" => pc[t] \in {"idle", "answered"} /\ asked[t] \in Hosts
          /\ pc[t] \in {"answered", "starting", "dispatched"} =>
                (got[t] = "system" <=> call[t].host \in Bypassed \/ script[t] = "native")

(* The cache and what the queries have found hold real addresses.           *)
CacheFits ==
    /\ dnsCache \in [Hosts -> Addresses \cup {NoEntry}]
    /\ own \in [Threads -> [Hosts -> Addresses \cup {NoEntry}]]
    /\ alone \in [Threads -> BOOLEAN]
    /\ \A t \in Threads : script[t] = "out" => own[t] = Empty
    /\ CacheIsOwn

LEMMA ScriptInit == SInit => ScriptFits /\ CacheFits
  BY DEF SInit, Init, ScriptFits, CacheFits, CacheIsOwn, Empty

(* A resolver's call without the flag, and with it. *)
LEMMA CallAnswered ==
  ASSUME HooksTypeOK, CallFits, NEW t \in Threads, Info(t) \/ async_start(t)
  PROVE  /\ should_resolve' = should_resolve
         /\ \A u \in Threads \ {t} : pc'[u] = pc[u] /\ call'[u] = call[u] /\ got'[u] = got[u]
         /\ pc[t] = "idle"
         /\ pc'[t] \in {"answered", "starting"}
         /\ pc'[t] = "starting" => got'[t] = Nothing
         /\ should_resolve[t] => pc'[t] = "answered"
         /\ got'[t] = "system" <=> call'[t].host \in Bypassed \/ should_resolve[t]
  <1> USE DEF HooksTypeOK
  <1>1. CASE Info(t)
    <2>1. PICK hook \in InfoHooks, host \in Hosts : Info(t)!(hook, host)
      BY <1>1 DEF Info
    <2> QED  BY <2>1 DEF Call, Answer, To, test, get_should_resolve
  <1>2. CASE async_start(t)
    <2>1. PICK hook \in InfoHooks, host \in Hosts, c \in Requests :
              async_start(t)!(hook, host, c)
      BY <1>2 DEF async_start
    <2>2. got[t] = Nothing /\ Nothing # "system"
      BY <2>1, NothingAssumption DEF CallFits, Answers
    <2> QED  BY <2>1, <2>2 DEF Call, Answer, To, test, get_should_resolve
  <1> QED  BY <1>1, <1>2

LEMMA ScriptStep ==
  ASSUME HooksTypeOK, CallFits, ScriptFits, [SNext]_svars
  PROVE  ScriptFits'
  <1> USE DEF HooksTypeOK
  <1>1. ASSUME NEW t \in Threads, Begin(t) PROVE ScriptFits'
    BY <1>1 DEF Begin, Enter, vars, ScriptFits
  <1>2. ASSUME NEW t \in Threads, dnsResolve(t) PROVE ScriptFits'
    BY <1>2 DEF dnsResolve, Enter, set_should_resolve, ScriptFits
  <1>3. ASSUME NEW t \in Threads, Native(t) PROVE ScriptFits'
    <2>1. /\ script[t] = "native" /\ UNCHANGED <<script, asked>>
          /\ Info(t) \/ async_start(t)
      BY <1>3 DEF Native
    <2>2. should_resolve[t]  BY <2>1 DEF ScriptFits
    <2> QED  BY <2>1, <2>2, CallAnswered DEF ScriptFits
  <1>4. ASSUME NEW t \in Threads, NativeReturns(t) PROVE ScriptFits'
    <2>1. /\ should_resolve' = [should_resolve EXCEPT ![t] = FALSE]
          /\ script' = [script EXCEPT ![t] = "in"]
          /\ asked' = [asked EXCEPT ![t] = Nothing]
          /\ pc' = [pc EXCEPT ![t] = "idle"]
          /\ \A u \in Threads \ {t} : call'[u] = call[u] /\ got'[u] = got[u]
      BY <1>4 DEF NativeReturns, Release, Enter, set_should_resolve, To
    <2> QED  BY <2>1 DEF ScriptFits
  <1>5. ASSUME NEW t \in Threads, End(t) PROVE ScriptFits'
    BY <1>5 DEF End, Enter, vars, ScriptFits
  <1>6. ASSUME NEW t \in Threads, Application(t), Info(t) \/ async_start(t) PROVE ScriptFits'
    <2>1. script[t] = "out" /\ UNCHANGED <<script, asked>>
      BY <1>6 DEF Application
    <2>2. ~should_resolve[t]  BY <2>1 DEF ScriptFits
    <2> QED  BY <1>6, <2>1, <2>2, CallAnswered DEF ScriptFits
  <1>7. ASSUME NEW t \in Threads, Application(t), ~(Info(t) \/ async_start(t)) PROVE ScriptFits'
    <2>1. /\ script[t] = "out" /\ UNCHANGED <<script, asked, should_resolve>>
          /\ pc'[t] \in {"given", "found", "hostent", "idle"}
          /\ \A u \in Threads \ {t} : pc'[u] = pc[u] /\ call'[u] = call[u] /\ got'[u] = got[u]
      BY <1>7 DEF Application, CopyArgument, SearchTable, FillHostent, Release, To, Call
    <2> QED  BY <2>1 DEF ScriptFits
  <1>8. ASSUME NEW t \in Threads, Start(t) PROVE ScriptFits'
    <2>1. /\ pc[t] \in {"starting", "dispatched"} /\ UNCHANGED <<script, asked, should_resolve, call>>
          /\ pc'[t] \in {"answered", "dispatched"}
          /\ got'[t] \in {"error", "table"} \/ got'[t] = got[t]
          /\ \A u \in Threads \ {t} : pc'[u] = pc[u] /\ got'[u] = got[u]
      BY <1>8 DEF Start, GiveUp, Dispatch, Started, To, Answer
    <2>2. script[t] = "out"  BY <2>1 DEF ScriptFits
    <2>3. call[t].host \notin Bypassed  BY <2>1 DEF CallFits
    <2>4. got[t] # "system"  BY <2>1, <2>2, <2>3 DEF ScriptFits
    <2> QED  BY <2>1, <2>2, <2>3, <2>4 DEF ScriptFits
  <1>9. ASSUME NEW c \in Requests, MakeCallback(c) PROVE ScriptFits'
    BY <1>9 DEF MakeCallback, Callback, ScriptFits
  <1>10. CASE UNCHANGED svars  BY <1>10 DEF svars, vars, ScriptFits
  <1> QED  BY <1>1, <1>2, <1>3, <1>4, <1>5, <1>6, <1>7, <1>8, <1>9, <1>10 DEF SNext

LEMMA CacheStep ==
  ASSUME HooksTypeOK, ScriptFits, CacheFits, [SNext]_svars
  PROVE  CacheFits'
  <1>1. ASSUME NEW t \in Threads, Begin(t) PROVE CacheFits'
    BY <1>1 DEF Begin, Enter, Disturb, ScriptFits, CacheFits, CacheIsOwn, Empty
  <1>2. ASSUME NEW t \in Threads, dnsResolve(t) PROVE CacheFits'
    BY <1>2 DEF dnsResolve, Enter, cache, ScriptFits, CacheFits, CacheIsOwn
  <1>3. ASSUME NEW t \in Threads, NativeReturns(t) PROVE CacheFits'
    <2>1. /\ script[t] = "native" /\ pc[t] = "answered"
          /\ script' = [script EXCEPT ![t] = "in"]
      BY <1>3 DEF NativeReturns, Enter
    <2>2. got[t] = "system" /\ asked[t] \in Hosts
      BY <2>1 DEF ScriptFits
    <2>3. PICK address \in Addresses \cup {Unusable} : Keep(t, address)
      BY <1>3, <2>2 DEF NativeReturns, Outcomes
    <2>4. CASE UNCHANGED cache
      BY <2>1, <2>4 DEF cache, ScriptFits, CacheFits, CacheIsOwn
    <2>5. CASE ~UNCHANGED cache
      <3>1. address \in Addresses
        BY <2>3, <2>5, NoEntryAssumption DEF Keep
      <3>2. /\ dnsCache' = [dnsCache EXCEPT ![asked[t]] = address]
            /\ own' = [own EXCEPT ![t] = [own[t] EXCEPT ![asked[t]] = address]]
            /\ alone' = Disturb(t)
        BY <2>3, <2>5 DEF Keep
      <3>3. /\ \A u \in Threads \ {t} : own'[u] = own[u] /\ script'[u] = script[u]
            /\ own'[t] = [own[t] EXCEPT ![asked[t]] = address]
            /\ own' \in [Threads -> [Hosts -> Addresses \cup {NoEntry}]]
            /\ dnsCache' \in [Hosts -> Addresses \cup {NoEntry}]
        BY <2>1, <2>2, <3>1, <3>2 DEF CacheFits, ScriptFits
      <3>4. \A u \in Threads : alone'[u] <=> alone[u] /\ (u = t \/ script[u] = "out")
        BY <3>2 DEF Disturb, CacheFits
      <3>5. ASSUME NEW u \in Threads, script'[u] # "out", alone'[u] PROVE dnsCache' = own'[u]
        <4>1. u = t /\ alone[t]  BY <3>3, <3>4, <3>5
        <4>2. dnsCache = own[t]  BY <2>1, <4>1 DEF CacheFits, CacheIsOwn
        <4> QED  BY <3>2, <3>3, <4>1, <4>2
      <3> QED  BY <2>1, <3>2, <3>3, <3>5 DEF CacheFits, CacheIsOwn, Disturb, ScriptFits
    <2> QED  BY <2>4, <2>5
  <1>4. ASSUME NEW t \in Threads, End(t) PROVE CacheFits'
    <2>1. /\ script' = [script EXCEPT ![t] = "out"]
          /\ own' = [own EXCEPT ![t] = Empty]
          /\ dnsCache' \in {dnsCache, Empty}
      BY <1>4 DEF End, Enter
    <2>2. /\ alone' \in [Threads -> BOOLEAN]
          /\ \A u \in Threads \ {t} : alone'[u] =>
                alone[u] /\ (dnsCache' = dnsCache \/ script[u] = "out")
      BY <1>4 DEF End, Disturb, CacheFits
    <2>3. ASSUME NEW u \in Threads, script'[u] # "out", alone'[u] PROVE dnsCache' = own'[u]
      BY <2>1, <2>2, <2>3 DEF CacheFits, CacheIsOwn, ScriptFits
    <2>4. Empty \in [Hosts -> Addresses \cup {NoEntry}]  BY DEF Empty
    <2>5. /\ dnsCache' \in [Hosts -> Addresses \cup {NoEntry}]
          /\ own' \in [Threads -> [Hosts -> Addresses \cup {NoEntry}]]
      BY <2>1, <2>4 DEF CacheFits
    <2>6. \A u \in Threads : script'[u] = "out" => own'[u] = Empty'
      <3>1. Empty' = Empty  BY DEF Empty
      <3> QED  BY <2>1, <3>1 DEF CacheFits, ScriptFits
    <2> QED  BY <2>2, <2>3, <2>5, <2>6 DEF CacheFits, CacheIsOwn
  <1>5. ASSUME NEW t \in Threads, Native(t) \/ Application(t) \/ Start(t) PROVE CacheFits'
    BY <1>5 DEF Native, Application, Start, cache, CacheFits, CacheIsOwn
  <1>6. ASSUME NEW c \in Requests, MakeCallback(c) PROVE CacheFits'
    BY <1>6 DEF MakeCallback, cache, CacheFits, CacheIsOwn
  <1>7. CASE UNCHANGED svars  BY <1>7 DEF svars, cache, CacheFits, CacheIsOwn
  <1> QED  BY <1>1, <1>2, <1>3, <1>4, <1>5, <1>6, <1>7 DEF SNext

-----------------------------------------------------------------------------
(* Theorems *)

Inv == /\ HooksTypeOK /\ CallFits /\ BufferFits
       /\ RequestFits /\ OneCaller
       /\ ScriptFits /\ CacheFits

THEOREM Invariance == SSpec => []Inv
  <1>1. SInit => Inv
    <2>1. SInit => BufferFits /\ RequestFits /\ OneCaller
      BY DEF SInit, Init, BufferFits, RequestFits, OneCaller
    <2> QED  BY <2>1, HooksInit, ScriptInit DEF Inv
  <1>2. Inv /\ [SNext]_svars => Inv'
    BY HooksStep, BufferStep, RequestStep, ScriptStep, CacheStep DEF Inv
  <1> QED  BY <1>1, <1>2, PTL DEF SSpec

(* The resolver hooks and the script's cache stay within their types. *)
THEOREM TypeCorrect == SSpec => []STypeOK
  <1>1. Inv => STypeOK
    BY DEF Inv, HooksTypeOK, ScriptFits, CacheFits, STypeOK, ResolverTypeOK, IPv4
  <1> QED  BY <1>1, Invariance, PTL

(* gethostbyname and gethostbyaddr give their caller his own answer, for as *)
(* long as no other thread writes an answer of the same function.           *)
THEOREM HostentIsKept == SSpec => []HostentKept
  <1>1. Inv => HostentKept
    <2> SUFFICES ASSUME Inv, NEW t \in Threads, pc[t] = "hostent", undisturbed[t],
                        NEW f \in Fields
                 PROVE  buffer[BufferOf(call[t].hook)][f] = call[t].host
      BY DEF HostentKept
    <2>1. call[t].hook \in OldHooks  BY DEF Inv, CallFits
    <2> QED  BY <2>1, FieldsOf DEF Inv, BufferFits
  <1> QED  BY <1>1, Invariance, PTL

(* An asynchronous call is called back if and only if it returned zero, and *)
(* its memory is neither lost nor freed under the callback.                 *)
THEOREM CallbacksFit == SSpec => []CallbackFits
  <1>1. Inv => CallbackFits
    BY DEF Inv, HooksTypeOK, RequestFits, CallbackFits
  <1> QED  BY <1>1, Invariance, PTL

(* The script is answered by the system and the application by the table.   *)
THEOREM AnswersAreRight == SSpec => []RightAnswer
  <1>1. Inv => RightAnswer
    BY DEF Inv, ScriptFits, RightAnswer
  <1> QED  BY <1>1, Invariance, PTL

(* No address of the table enters the script's cache. *)
THEOREM CacheIsReal == SSpec => []CacheReal
  <1>1. Inv => CacheReal
    BY DEF Inv, CacheFits, CacheReal
  <1> QED  BY <1>1, Invariance, PTL

(* A query that is left alone sees in the cache what it found itself.       *)
THEOREM CacheIsItsOwn == SSpec => []CacheIsOwn
  <1>1. Inv => CacheIsOwn
    BY DEF Inv, CacheFits
  <1> QED  BY <1>1, Invariance, PTL
=============================================================================
