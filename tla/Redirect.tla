------------------------------ MODULE Redirect ------------------------------
(***************************************************************************)
(* The way of a host name through Skia: the resolver hooks trade it for an *)
(* address (ResolveTable.tla), the application hands that address to       *)
(* connect, and the connect hook trades it back, more than once: for the   *)
(* question to the configuration script, for a check, and for the request  *)
(* to the proxy or the resolver.  Between these the table may change.      *)
(***************************************************************************)
EXTENDS ResolveTable

VARIABLES cpc,        \* where a thread is in the connect hook
          queried,    \* the host the configuration was asked about
          requested   \* the host the connection goes to

rvars == <<vars, cpc, queried, requested>>

RInit == /\ Init
         /\ cpc = [t \in Threads |-> "idle"]
         /\ queried = [t \in Threads |-> NoName]
         /\ requested = [t \in Threads |-> NoName]

At(t, place, next) == cpc[t] = place /\ cpc' = [cpc EXCEPT ![t] = next]

(* A thread resolves names while it is not in connect. *)
Resolve(t) ==
    /\ cpc[t] = "idle"
    /\ name_to_index(t) \/ make_index(t)
    /\ UNCHANGED <<cpc, queried, requested>>

(* connect, with an address that the thread was given, up to the name that  *)
(* query_proxy puts to the cache and to the script.                         *)
connect(t) ==
    /\ pc[t] = "idle" /\ is_resolved_addr(held[t])
    /\ At(t, "idle", "queried")
    /\ queried' = [queried EXCEPT ![t] = addr_to_name(held[t])]
    /\ requested' = [requested EXCEPT ![t] = NoName]
    /\ UNCHANGED vars

(* make_proxied looks whether the address has a name at all.  Without a     *)
(* name query_proxy does not ask the script, and there is no proxy.         *)
CheckName(t) ==
    /\ queried[t] # NoName
    /\ At(t, "queried", IF addr_to_name(held[t]) = NoName THEN "invalid" ELSE "checked")
    /\ UNCHANGED <<vars, queried, requested>>

(* The name in the request to the proxy, or the name that make_direct       *)
(* resolves, is read from the table once more.                              *)
ReadName(t) ==
    /\ At(t, "checked", "done") \/ At(t, "queried", "done")
    /\ requested' = [requested EXCEPT ![t] = addr_to_name(held[t])]
    /\ UNCHANGED <<vars, queried>>

Finish(t) ==
    /\ cpc[t] \in {"done", "invalid"}
    /\ cpc' = [cpc EXCEPT ![t] = "idle"]
    /\ UNCHANGED <<vars, queried, requested>>

RNext == \E t \in Threads : \/ Resolve(t) \/ connect(t) \/ CheckName(t)
                            \/ ReadName(t) \/ Finish(t)

RSpec == RInit /\ [][RNext]_rvars

-----------------------------------------------------------------------------
(* Properties *)

RTypeOK == /\ TypeOK
           /\ cpc \in [Threads -> {"idle", "queried", "checked", "invalid", "done"}]
           /\ queried \in [Threads -> Names \cup {NoName}]
           /\ requested \in [Threads -> Names \cup {NoName}]

(* Until the pool of addresses has wrapped around, the configuration is     *)
(* asked about the host the application resolved, and the connection goes   *)
(* to that host.                                                            *)
RightHost ==
    ~wrapped => \A t \in Threads : cpc[t] = "done" =>
                    queried[t] = asked[t] /\ requested[t] = asked[t]

(* An address that a name was given for never loses its name again, so the  *)
(* connect hook does not meet an "invalid resolved address" of IPv4.        *)
NamesLast == \A t \in Threads : cpc[t] # "invalid"
=============================================================================
