------------------------------ MODULE ScriptDns ------------------------------
(***************************************************************************)
(* The DNS cache of proxy.js over the resolver hooks (Resolver.tla): the   *)
(* script that chooses a proxy resolves names, on the thread that asked,   *)
(* and must be given real addresses while the rest of the application is   *)
(* given addresses of the table.                                           *)
(*                                                                         *)
(* One script context serves all threads.  The engine lets one thread run  *)
(* script at a time, but gives its lock up around native functions, so     *)
(* another query may begin or end while one is resolving.                  *)
(***************************************************************************)
EXTENDS Resolver

CONSTANTS Addresses,   \* real IPv4 addresses
          TableAddr,   \* any address of the table
          Unusable,    \* a resolver's answer without an IPv4 address
          NoEntry      \* the host is not in the cache

IPv4 == Addresses \cup {TableAddr}

ASSUME AddressesAssumption == TableAddr \notin Addresses
ASSUME NoEntryAssumption == NoEntry \notin IPv4 /\ Unusable \notin IPv4 \cup {NoEntry}

VARIABLES dnsCache,  \* __skia_dnsCache
          script,    \* "out", "in" the script, or in a "native" function of it
          asked,     \* the host a native function is asked for
          alone,     \* no other query has changed the cache (history)
          own        \* the addresses that the query has found (history)

cache == <<dnsCache, alone, own>>
svars == <<vars, script, asked, cache>>

Empty == [h \in Hosts |-> NoEntry]

SInit == /\ Init
         /\ dnsCache = Empty
         /\ script = [t \in Threads |-> "out"]
         /\ asked = [t \in Threads |-> Nothing]
         /\ alone = [t \in Threads |-> TRUE]
         /\ own = [t \in Threads |-> Empty]

EngineFree == \A t \in Threads : script[t] # "in"

Enter(t, place) == script' = [script EXCEPT ![t] = place]

(* t changes the cache under the queries that are in progress. *)
Disturb(t) == [u \in Threads |-> alone[u] /\ (u = t \/ script[u] = "out")]

-----------------------------------------------------------------------------
BugBegin(t) ==                       \* the cache is only cleared at the end
    /\ script[t] = "out" /\ pc[t] = "idle" /\ EngineFree
    /\ Enter(t, "in")
    /\ UNCHANGED <<vars, asked, cache>>

(* __skia_queryProxy is called for a connection that is not in proxy_cache. *)
Begin(t) ==
    /\ script[t] = "out" /\ pc[t] = "idle" /\ EngineFree
    /\ Enter(t, "in")
    /\ dnsCache' = Empty
    /\ alone' = [Disturb(t) EXCEPT ![t] = TRUE]
    /\ UNCHANGED <<vars, asked, own>>

(* dnsResolve for a host that is not in the cache, up to the hook of the    *)
(* native function.  A host that is changes nothing.                        *)
dnsResolve(t) ==
    \E h \in Hosts :
        /\ script[t] = "in" /\ dnsCache[h] = NoEntry
        /\ Enter(t, "native")
        /\ asked' = [asked EXCEPT ![t] = h]
        /\ set_should_resolve(t, TRUE)
        /\ UNCHANGED <<pc, call, got, static, async, cache>>

(* What a resolver call comes to, for the script that asks for addresses. *)
Outcomes(t) == CASE got[t] = "system" -> Addresses \cup {Unusable}
                 [] got[t] = "table"  -> {TableAddr}
                 [] OTHER             -> {Unusable}

(* The first IPv4 address is remembered. *)
Keep(t, address) ==
    \/ /\ address \in IPv4
       /\ dnsCache' = [dnsCache EXCEPT ![asked[t]] = address]
       /\ own' = [own EXCEPT ![t][asked[t]] = address]
       /\ alone' = Disturb(t)
    \/ address \notin IPv4 /\ UNCHANGED cache

(* The native function returns, and the thread waits for the engine. *)
NativeReturns(t) ==
    /\ script[t] = "native" /\ pc[t] = "answered" /\ EngineFree
    /\ Release(t)
    /\ set_should_resolve(t, FALSE)
    /\ Enter(t, "in")
    /\ \E address \in Outcomes(t) : Keep(t, address)
    /\ asked' = [asked EXCEPT ![t] = Nothing]

(* The query is over.  When queryProxy has thrown, the last statement of    *)
(* __skia_queryProxy is not reached and the cache is left as it is.         *)
End(t) ==
    /\ script[t] = "in"
    /\ Enter(t, "out")
    /\ \/ dnsCache' = Empty /\ alone' = [Disturb(t) EXCEPT ![t] = TRUE]
       \/ UNCHANGED dnsCache /\ alone' = [alone EXCEPT ![t] = TRUE]
    /\ own' = [own EXCEPT ![t] = Empty]
    /\ UNCHANGED <<vars, asked>>

(* What the native function does on its way: one of the resolver's newer    *)
(* calls, which the hooks see on this very thread.                          *)
Native(t) ==
    /\ script[t] = "native"
    /\ \/ Info(t) /\ call'[t].hook = "getaddrinfo" /\ call'[t].host = asked[t]
       \/ async_start(t) /\ call'[t].hook = "getaddrinfo" /\ call'[t].host = asked[t]
    /\ UNCHANGED <<script, asked, cache>>

(* The application's own calls. *)
Application(t) ==
    /\ script[t] = "out"
    /\ \/ CopyArgument(t) \/ SearchTable(t) \/ FillHostent(t)
       \/ Info(t) \/ async_start(t)
       \/ Release(t) /\ UNCHANGED should_resolve
    /\ UNCHANGED <<script, asked, cache>>

(* An asynchronous call, on its way to an answer. *)
Start(t) == /\ GiveUp(t) \/ Dispatch(t) \/ Started(t)
            /\ UNCHANGED <<script, asked, cache>>

MakeCallback(c) == Callback(c) /\ UNCHANGED <<script, asked, cache>>

SNext == \/ \E t \in Threads : \/ Begin(t) \/ dnsResolve(t) \/ Native(t)
                               \/ NativeReturns(t) \/ End(t)
                               \/ Application(t) \/ Start(t)
         \/ \E c \in Requests : MakeCallback(c)

SSpec == SInit /\ [][SNext]_svars

-----------------------------------------------------------------------------
(* Properties *)

STypeOK == /\ ResolverTypeOK
           /\ dnsCache \in [Hosts -> IPv4 \cup {NoEntry}]
           /\ script \in [Threads -> {"out", "in", "native"}]
           /\ asked \in [Threads -> Hosts \cup {Nothing}]
           /\ alone \in [Threads -> BOOLEAN]
           /\ own \in [Threads -> [Hosts -> IPv4 \cup {NoEntry}]]

(* Whoever resolves a name is given what he should: the script the system's *)
(* answer, the application never, unless the host is bypassed.  Threads     *)
(* that run the script and threads that do not resolve at the same time.    *)
RightAnswer ==
    \A t \in Threads : pc[t] \in {"answered", "starting", "dispatched"} =>
        (got[t] = "system" <=> call[t].host \in Bypassed \/ script[t] = "native")

(* No address of the table gets into the script's cache, from where it      *)
(* would decide about proxies, also for queries of other threads.           *)
CacheReal == \A h \in Hosts : dnsCache[h] \in Addresses \cup {NoEntry}

(* A query that no other one interferes with sees in the cache what it has  *)
(* found itself and nothing else: nothing is left of earlier queries, also  *)
(* of those that ended with an exception, and a host keeps its address.     *)
CacheIsOwn ==
    \A t \in Threads : script[t] # "out" /\ alone[t] => dnsCache = own[t]
=============================================================================
