------------------------------ MODULE MCSocks5 ------------------------------
(* Socks5 with proxies that grant with each type of address, refuse at each *)
(* point, or stop in the middle; and names up to and beyond 255 bytes.      *)
EXTENDS Socks5, TLC

MCTargets == {[kind |-> "ipv4", length |-> 0], [kind |-> "ipv6", length |-> 0]}
             \cup {[kind |-> "name", length |-> n] : n \in {1, 254, 255, 256}}

Zeros(n) == [i \in 1 .. n |-> 0]

(* Two bytes of what the destination says come behind the handshake. *)
Grant(type, address) == <<5, 0, 5, 0, 0, type>> \o address \o <<31, 144>> \o <<5, 9>>

MCStreams ==
    {Grant(1, Zeros(4)), Grant(4, Zeros(16)), Grant(3, <<0>>), Grant(3, <<3, 7, 7, 7>>),
     Grant(2, <<1>>),                               \* no such type of address
     <<>>, <<4, 0>>, <<5, 255>>, <<5>>,             \* not granted at once
     <<5, 0, 5>>, <<5, 0, 4, 0, 0, 1>>, <<5, 0, 5, 5, 0, 1>> \o Zeros(6),
     SubSeq(Grant(1, Zeros(4)), 1, 9)}              \* stops in the middle
=============================================================================
