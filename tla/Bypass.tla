------------------------------- MODULE Bypass -------------------------------
(***************************************************************************)
(* Which destinations Skia leaves alone, and what it asks about the others: *)
(* the should_bypass functions and extract_target of skia.cpp, and the two  *)
(* ways to query_proxy, the connect hook (posix.cpp) and the path updates   *)
(* of the system's own connections (netcore.cpp).                          *)
(*                                                                         *)
(* An IPv4 address is its four bytes; an IPv6 address is a prefix of twelve *)
(* bytes, of which only "mapped" (::ffff:0:0/96) matters, and four bytes.   *)
(* A question is the key of proxy_cache, a host and a port, and a set of at *)
(* most one: the empty set is a connection that nobody is asked about.      *)
(***************************************************************************)
EXTENDS Naturals, Sequences

CONSTANTS localhost,     \* the name "localhost"
          own_name,      \* what gethostname answers
          inet_ntop,     \* the text of an address
          inet_aton,     \* the four bytes that a name stands for, or NoAddress
          addr_to_name,  \* the resolve table: the name behind an address
          NoName,        \* the empty string
          NoAddress      \* neither an address nor a pointer to one

IPv4(bytes) == [family |-> "v4", bytes |-> bytes]

(* b & m for a mask of ones on the left: the bits under the zeros go. *)
And(b, m) == b - (b % (256 - m))

Masked(bytes, mask) == [i \in 1 .. 4 |-> And(bytes[i], mask[i])]

Network(addr, mask) == [addr |-> addr, mask |-> mask, port |-> 0]

bypass_networks == { Network(<<127, 0, 0, 0>>,   <<255, 0, 0, 0>>),
                     Network(<<10, 0, 0, 0>>,    <<255, 0, 0, 0>>),
                     Network(<<172, 16, 0, 0>>,  <<255, 240, 0, 0>>),
                     Network(<<192, 168, 0, 0>>, <<255, 255, 0, 0>>) }

(* An IPv6 address is never bypassed; port zero of a network is any port. *)
should_bypass_address(addr, port) ==
    /\ addr.family = "v4"
    /\ \E net \in bypass_networks : /\ Masked(addr.bytes, net.mask) = Masked(net.addr, net.mask)
                                    /\ net.port \in {0, port}

should_bypass_sock(sock) == sock # "stream"

should_bypass_sockaddr(addr) == addr = NoAddress \/ addr.family \notin {"v4", "v6"}

(* The comparison of names is one of strings: it minds the case. *)
should_bypass_name(name) == name \in {NoName, localhost, own_name} \/ inet_aton[name] # NoAddress

(* The IPv4 address inside a mapped one is the destination. *)
extract_target(addr) ==
    IF addr.family = "v6" /\ addr.prefix = "mapped" THEN IPv4(addr.bytes) ELSE addr

query_proxy(name, port) == IF name = NoName \/ port = 0 THEN {} ELSE {<<name, port>>}

(* query_proxy for an address: one of the table stands for its name. *)
TargetName(addr) == IF addr.family = "v4" /\ addr.bytes[1] = 240
                    THEN addr_to_name[addr] ELSE inet_ntop[addr]

-----------------------------------------------------------------------------
(* The connect hook: call is a socket's type, an address and a port. *)
ConnectQuestion(call) ==
    IF should_bypass_sock(call.sock) \/ should_bypass_sockaddr(call.addr) THEN {}
    ELSE LET target == extract_target(call.addr)
         IN IF should_bypass_address(target, call.port) THEN {}
            ELSE query_proxy(TargetName(target), call.port)

(* A path update: proxy_for_endpoint up to query_proxy.  The address is     *)
(* taken as it is: neither out of a mapped one nor back to a name.          *)
AddressQuestion(endpoint) ==
    IF \/ endpoint.addr.family \notin {"v4", "v6"}
       \/ should_bypass_address(endpoint.addr, endpoint.port) THEN {}
    ELSE query_proxy(inet_ntop[endpoint.addr], endpoint.port)

BugHostnameQuestion(endpoint) ==            \* a literal is taken for a name
    IF endpoint.name \in {NoName, localhost, own_name} THEN {}
    ELSE query_proxy(endpoint.name, endpoint.port)

HostnameQuestion(endpoint) ==
    LET bytes == inet_aton[endpoint.name]
    IN IF IF bytes # NoAddress THEN should_bypass_address(IPv4(bytes), endpoint.port)
                               ELSE should_bypass_name(endpoint.name)
       THEN {} ELSE query_proxy(endpoint.name, endpoint.port)

EndpointQuestion(endpoint) ==
    CASE endpoint.type = "address" /\ ~endpoint.is_local_domain  -> AddressQuestion(endpoint)
      [] endpoint.type = "hostname" /\ ~endpoint.is_local_domain -> HostnameQuestion(endpoint)
      [] OTHER -> {}

-----------------------------------------------------------------------------
(* What the configuration's comment promises, in ranges of addresses. *)

InListedRange(bytes) ==
    \/ bytes[1] \in {10, 127}
    \/ bytes[1] = 172 /\ bytes[2] \in 16 .. 31
    \/ bytes[1] = 192 /\ bytes[2] = 168

(* A name that the script need not be asked about. *)
Listed(name) == \/ name \in {localhost, own_name}
                \/ inet_aton[name] # NoAddress /\ InListedRange(inet_aton[name])
=============================================================================
