------------------------------ MODULE Netcore ------------------------------
(***************************************************************************)
(* The netcore hooks over query_proxy (ProxyCache.tla): the system updates *)
(* the path of one of its connections on some thread, the hook asks for    *)
(* the proxy of the connection's endpoint, leaves a pointer to it in a     *)
(* thread-local variable while the original function runs, and the hook of *)
(* nw_path_copy_proxy_settings finds it there.  The connect hook asks the  *)
(* same cache, on the same threads.                                        *)
(*                                                                         *)
(* The pointer is to a local variable of the hook, which goes when the     *)
(* hook returns.  What the original function does is not Skia's: it may    *)
(* copy the settings at any time, connect, or update another path.         *)
(***************************************************************************)
EXTENDS ProxyCache, Bypass

CONSTANTS Endpoints,  \* the endpoints of the system's connections
          Calls,      \* what the application and the system pass to connect
          MaxDepth    \* how deep path updates nest

(* What the hooks come to ask about, nobody being asked included. *)
UpdateQuestions == {EndpointQuestion(e) : e \in Endpoints}
ConnectQuestions == {ConnectQuestion(c) : c \in Calls}

ASSUME QuestionsAssumption == UpdateQuestions \cup ConnectQuestions \subseteq SUBSET Keys
ASSUME DepthAssumption == MaxDepth \in Nat

Bytes == [1 .. 4 -> 0 .. 255]
Used == {e.addr : e \in {e \in Endpoints : e.type = "address"}}
        \cup ({c.addr : c \in Calls} \ {NoAddress})

(* inet_ntop and inet_aton are inverse, and the table's addresses stand for *)
(* names that the resolver hooks did not bypass.                            *)
Plain(a) == /\ a.bytes \in Bytes /\ inet_aton[inet_ntop[a]] = a.bytes
            /\ inet_ntop[a] \notin {localhost, own_name}
            /\ a.bytes[1] = 240 => ~Listed(addr_to_name[a])

ASSUME NamesAssumption ==
    /\ NoAddress \notin Bytes
    /\ inet_aton[localhost] = NoAddress /\ inet_aton[own_name] = NoAddress
    /\ \A a \in Used : /\ a.family = "v4" => a = IPv4(a.bytes) /\ Plain(a)
                       /\ a.family = "v6" => ~Listed(inet_ntop[a])
                       /\ extract_target(a) # a => Plain(extract_target(a))
    /\ \A e \in Endpoints : e.type = "hostname" => inet_aton[e.name] \in Bytes \cup {NoAddress}

VARIABLES updates,    \* the path updates in progress on a thread, outermost first
          proxy_key,  \* the thread's pointer: a thread and one of its updates, or NULL
          nested      \* whether they have been inside one another (history)

nvars == <<vars, updates, proxy_key, nested>>

NULL == << >>

NInit == /\ Init
         /\ updates = [t \in Threads |-> << >>]
         /\ proxy_key = [t \in Threads |-> NULL]
         /\ nested = [t \in Threads |-> FALSE]

Depth(t) == Len(updates[t])
Current(t) == updates[t][Depth(t)]
Asking(t) == Depth(t) > 0 /\ Current(t).step = "query"

-----------------------------------------------------------------------------
(* tcp_connection_handle_path_changed, up to the search in the cache, or to *)
(* the original function if nobody is to be asked.                          *)
tcp_connection_handle_path_changed(t) ==
    \E asks \in UpdateQuestions :
        /\ pc[t] = "idle" /\ Depth(t) < MaxDepth
        /\ \/ /\ asks # {}
              /\ find(t) /\ key'[t] \in asks
           \/ asks = {} /\ UNCHANGED vars
        /\ updates' = [updates EXCEPT ![t] = Append(@,
              [asks |-> asks, proxy |-> Direct,
               step |-> IF asks = {} THEN "original" ELSE "query"])]
        /\ nested' = [nested EXCEPT ![t] = @ \/ Depth(t) > 0]
        /\ UNCHANGED proxy_key

BugApplied(t) ==                 \* one pointer for all threads
    /\ Asking(t) /\ finish(t)
    /\ updates' = [updates EXCEPT ![t][Depth(t)] =
                      [asks |-> @.asks, proxy |-> proxy[t], step |-> "original"]]
    /\ proxy_key' = IF proxy[t] = Direct THEN proxy_key
                    ELSE [u \in Threads |-> <<t, Depth(t)>>]
    /\ UNCHANGED nested

(* The answer: the pointer is only set when there is a proxy. *)
Applied(t) ==
    /\ Asking(t) /\ finish(t)
    /\ updates' = [updates EXCEPT ![t][Depth(t)] =
                      [asks |-> @.asks, proxy |-> proxy[t], step |-> "original"]]
    /\ proxy_key' = IF proxy[t] = Direct THEN proxy_key
                    ELSE [proxy_key EXCEPT ![t] = <<t, Depth(t)>>]
    /\ UNCHANGED nested

BugReturned(t) ==                \* the pointer is left set
    /\ Depth(t) > 0 /\ ~Asking(t) /\ pc[t] = "idle"
    /\ updates' = [updates EXCEPT ![t] = SubSeq(@, 1, Depth(t) - 1)]
    /\ nested' = [nested EXCEPT ![t] = @ /\ Depth(t) > 1]
    /\ UNCHANGED <<vars, proxy_key>>

(* The original function is over: the pointer is cleared, not restored. *)
Returned(t) ==
    /\ Depth(t) > 0 /\ ~Asking(t) /\ pc[t] = "idle"
    /\ updates' = [updates EXCEPT ![t] = SubSeq(@, 1, Depth(t) - 1)]
    /\ proxy_key' = [proxy_key EXCEPT ![t] = NULL]
    /\ nested' = [nested EXCEPT ![t] = @ /\ Depth(t) > 1]
    /\ UNCHANGED vars

(* connect, of the application or of the original function. *)
connect(t) ==
    /\ find(t) /\ {key'[t]} \in ConnectQuestions
    /\ UNCHANGED <<updates, proxy_key, nested>>

Connected(t) == ~Asking(t) /\ finish(t) /\ UNCHANGED <<updates, proxy_key, nested>>

(* The script runs, and the answer is stored, for either. *)
Query(t) == (evaluate(t) \/ store(t)) /\ UNCHANGED <<updates, proxy_key, nested>>

NNext == \E t \in Threads : \/ tcp_connection_handle_path_changed(t) \/ Applied(t)
                            \/ Returned(t) \/ connect(t) \/ Connected(t) \/ Query(t)

NSpec == NInit /\ [][NNext]_nvars

-----------------------------------------------------------------------------
(* Properties *)

NTypeOK == /\ TypeOK
           /\ updates \in [Threads -> Seq([asks : SUBSET Keys, proxy : Answers,
                                           step : {"query", "original"}])]
           /\ proxy_key \in [Threads -> {NULL} \cup (Threads \X Nat)]
           /\ nested \in [Threads -> BOOLEAN]

Points(t) == proxy_key[t] # NULL
Live(t) == proxy_key[t][2] \in DOMAIN updates[proxy_key[t][1]]
Target(t) == updates[proxy_key[t][1]][proxy_key[t][2]].proxy

(* The proxy in the settings that the original function would copy now, or  *)
(* Direct for the settings of the system.                                   *)
nw_path_copy_proxy_settings(t) == IF Points(t) /\ Live(t) THEN Target(t) ELSE Direct

(* The thread-local pointer never outlives the variable it points to, which *)
(* is one of the thread's own and holds a proxy, however path updates nest. *)
NeverDangles ==
    \A t \in Threads : Points(t) => proxy_key[t][1] = t /\ Live(t) /\ Target(t) # Direct

(* Unless updates nest, the settings name a proxy only during an update, to *)
(* the very thread that makes it, and it is what the script answered for    *)
(* that update's endpoint; and an answer that names a proxy gets there.     *)
SettingsFit ==
    \A t \in Threads : ~nested[t] =>
        LET settings == nw_path_copy_proxy_settings(t)
        IN IF Depth(t) = 0 \/ Asking(t) \/ Current(t).asks = {}
           THEN settings = Direct
           ELSE /\ settings = Current(t).proxy
                /\ \A k \in Current(t).asks : \E result \in Returns(k) : settings = Answer(result)

(* Whichever hook a destination comes through, and as a name, an address or *)
(* an address inside another one, the script is never run for one that the  *)
(* configuration's comment lists as always direct, nor for this device.     *)
ListedStayDirect == \A t \in Threads : pc[t] = "missed" => ~Listed(key[t][1])

(* The same, for the listed addresses inside IPv6 ones as well: the comment *)
(* promises that they are always connected directly, and the connect hook   *)
(* sees to it.                                                              *)
AlwaysDirect ==
    /\ ListedStayDirect
    /\ \A t \in Threads, a \in DOMAIN inet_ntop :
          pc[t] = "missed" /\ a.family = "v6" /\ a.prefix = "mapped" /\ InListedRange(a.bytes)
              => key[t][1] # inet_ntop[a]
=============================================================================
