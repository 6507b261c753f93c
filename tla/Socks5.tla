------------------------------- MODULE Socks5 -------------------------------
(***************************************************************************)
(* What make_proxied of posix.cpp says to a proxy and makes of its answer: *)
(* timed_connect, then the SOCKS 5 negotiation and request over a stream   *)
(* that arrives in pieces, as try_select, send_bytes and recv_bytes see it.*)
(*                                                                         *)
(* The proxy is the environment.  What it sends over the connection is the *)
(* sequence of bytes stream, the first bytes of the tunnel included; it    *)
(* may send any of them at any time, and may close at any time.  Of what   *)
(* the hook sends only the amount and the framing bytes matter.            *)
(***************************************************************************)
EXTENDS Naturals, Sequences

CONSTANTS Targets,   \* where to: records of a kind and the length of its name
          Streams    \* what the proxy may send

Kinds == {"ipv4", "name", "ipv6"}

ASSUME TargetsAssumption == Targets \subseteq [kind : Kinds, length : Nat]
ASSUME StreamsAssumption == Streams \subseteq Seq(0 .. 255)

VARIABLES target,   \* the destination of this connection
          stream,   \* what the proxy sends
          arrived,  \* how much of it has arrived
          read,     \* how much of it recv has returned
          closed,   \* whether the proxy has closed the connection
          pc,       \* where make_proxied is
          want,     \* bytes that recv_bytes still waits for
          buffer,   \* the bytes of the current recv_bytes
          sent,     \* bytes sent after the negotiation
          length,   \* the byte sent as the length of the name
          trouble   \* whether a system call failed or timed out (history)

vars == <<target, stream, arrived, read, closed, pc, want, buffer, sent, length, trouble>>

Receiving == {"method", "reply", "name_length", "bound_address"}

Init == /\ target \in Targets
        /\ stream \in Streams
        /\ arrived = 0 /\ read = 0 /\ closed = FALSE
        /\ pc = "connect"
        /\ want = 0 /\ buffer = << >> /\ sent = 0 /\ length = 0
        /\ trouble = FALSE

-----------------------------------------------------------------------------
(* The proxy. *)

Arrive == /\ arrived < Len(stream) /\ ~closed
          /\ arrived' = arrived + 1
          /\ UNCHANGED <<target, stream, read, closed, pc, want, buffer, sent, length, trouble>>

Close == /\ ~closed
         /\ closed' = TRUE
         /\ UNCHANGED <<target, stream, arrived, read, pc, want, buffer, sent, length, trouble>>

-----------------------------------------------------------------------------
(* make_proxied. *)

proxy == <<target, stream, arrived, closed>>

(* recv_bytes is called for n bytes. *)
Receive(n, place) == want' = n /\ buffer' = << >> /\ pc' = place

(* An exception leaves make_proxied with the socket closed. *)
Throw == /\ pc' = "failed"
         /\ UNCHANGED <<read, want, buffer, sent, length, trouble>>
         /\ UNCHANGED proxy

(* connect must say EINPROGRESS: a connection that is there at once counts   *)
(* as a failure too.  Then three bytes offer one method, no authentication.  *)
Negotiate ==
    /\ pc = "connect"
    /\ Receive(2, "method")
    /\ UNCHANGED <<read, sent, length, trouble>>
    /\ UNCHANGED proxy

BugSystemCallFails ==       \* an end of the stream is taken for more to come
    /\ pc = "connect"
    /\ pc' = "failed"
    /\ trouble' = TRUE
    /\ UNCHANGED <<read, want, buffer, sent, length>>
    /\ UNCHANGED proxy

(* A system call fails, the proxy has closed, or ten seconds pass with      *)
(* nothing to read.                                                         *)
SystemCallFails ==
    /\ pc \in {"connect"} \cup Receiving
    /\ pc' = "failed"
    /\ trouble' = TRUE
    /\ UNCHANGED <<read, want, buffer, sent, length>>
    /\ UNCHANGED proxy

(* recv returns what there is, and not more than is wanted. *)
Recv == /\ pc \in Receiving
        /\ \E n \in 1 .. want :
              /\ read + n <= arrived
              /\ read' = read + n
              /\ want' = want - n
              /\ buffer' = buffer \o SubSeq(stream, read + 1, read + n)
        /\ UNCHANGED <<pc, sent, length, trouble>>
        /\ UNCHANGED proxy

Received(place) == pc = place /\ want = 0

BugAddressBytes ==          \* the name is sent whole, its length cut
    CASE target.kind = "ipv4" -> 4
      [] target.kind = "ipv6" -> 16
      [] target.kind = "name" -> 1 + target.length

(* The length of a name is cut to what fits its byte, and so is the name. *)
NameLength == IF target.length < 255 THEN target.length ELSE 255

AddressBytes == CASE target.kind = "ipv4" -> 4
                  [] target.kind = "ipv6" -> 16
                  [] target.kind = "name" -> 1 + NameLength

(* The answer to the negotiation, then the request: four bytes, the address *)
(* and two bytes of port.                                                   *)
Request ==
    /\ Received("method")
    /\ buffer = <<5, 0>>
    /\ sent' = 4 + AddressBytes + 2
    /\ length' = IF target.kind = "name" THEN NameLength ELSE length
    /\ Receive(4, "reply")
    /\ UNCHANGED <<read, trouble>>
    /\ UNCHANGED proxy

Granted == buffer[1] = 5 /\ buffer[2] = 0

BugRemaining(type) == IF type = 1 THEN 4 ELSE 16     \* forgets the port

(* The bound address that follows, with its port: its value is of no use. *)
Remaining(type) == (IF type = 1 THEN 4 ELSE 16) + 2

Reply ==
    /\ Received("reply")
    /\ Granted
    /\ \/ buffer[4] \in {1, 4} /\ Receive(Remaining(buffer[4]), "bound_address")
       \/ buffer[4] = 3 /\ Receive(1, "name_length")
    /\ UNCHANGED <<read, sent, length, trouble>>
    /\ UNCHANGED proxy

ReplyName ==
    /\ Received("name_length")
    /\ Receive(buffer[1] + 2, "bound_address")
    /\ UNCHANGED <<read, sent, length, trouble>>
    /\ UNCHANGED proxy

BugRefuse ==                \* a proxy that names itself is turned away
    /\ \/ Received("method") /\ buffer # <<5, 0>>
       \/ Received("reply") /\ (~Granted \/ buffer[4] \notin {1, 4})
    /\ Throw

(* Another version or method, a code that is not success, an address type   *)
(* that is not known.                                                       *)
Refuse ==
    /\ \/ Received("method") /\ buffer # <<5, 0>>
       \/ Received("reply") /\ (~Granted \/ buffer[4] \notin {1, 3, 4})
    /\ Throw

Done ==
    /\ Received("bound_address")
    /\ pc' = "ok"
    /\ UNCHANGED <<read, want, buffer, sent, length, trouble>>
    /\ UNCHANGED proxy

MakeProxied == \/ Negotiate \/ SystemCallFails \/ Recv
               \/ Request \/ Reply \/ ReplyName \/ Refuse \/ Done

Next == MakeProxied \/ Arrive \/ Close

Spec == Init /\ [][Next]_vars

(* Each wait ends with bytes, an end of the stream or the timeout. *)
FairSpec == Spec /\ WF_vars(MakeProxied)

-----------------------------------------------------------------------------
(* Properties *)

TypeOK == /\ target \in Targets /\ stream \in Streams
          /\ arrived \in 0 .. Len(stream) /\ read \in 0 .. arrived
          /\ closed \in BOOLEAN /\ trouble \in BOOLEAN
          /\ pc \in {"connect", "ok", "failed"} \cup Receiving
          /\ want \in 0 .. 257 /\ buffer \in Seq(0 .. 255)
          /\ sent \in Nat /\ length \in 0 .. 255

(* How long a proxy's side of the handshake is by RFC 1928: two bytes, then *)
(* a header of four, an address as long as its type says, and a port.       *)
HandshakeLength ==
    2 + 4 + (CASE stream[6] = 1 -> 4
               [] stream[6] = 4 -> 16
               [] stream[6] = 3 -> 1 + stream[7]) + 2

Grants == /\ Len(stream) >= 6
          /\ SubSeq(stream, 1, 4) = <<5, 0, 5, 0>>
          /\ stream[6] \in {1, 3, 4}

(* When the hook hands the connection over, it has read the handshake to    *)
(* its last byte and not one byte of what the destination says, however the *)
(* stream was cut into pieces.                                              *)
TunnelIntact == pc = "ok" => Grants /\ read = HandshakeLength

(* The connection is given up only for a reason: a system call failed, or   *)
(* the proxy did not grant the request in a form the hook knows.            *)
RefusedForReason == pc = "failed" => trouble \/ ~Grants

(* The proxy can tell where the request ends: by the time an answer is      *)
(* awaited, as many bytes were sent as the type of the address and the      *)
(* length byte announce.                                                    *)
RequestFraming ==
    pc \in {"reply", "name_length", "bound_address", "ok"} =>
        sent = CASE target.kind = "ipv4" -> 4 + 4 + 2
                 [] target.kind = "ipv6" -> 4 + 16 + 2
                 [] target.kind = "name" -> 4 + 1 + length + 2

(* make_proxied ends, whatever the proxy sends or fails to send. *)
Ends == <>(pc \in {"ok", "failed"})
=============================================================================
