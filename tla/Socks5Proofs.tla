---------------------------- MODULE Socks5Proofs ----------------------------
(***************************************************************************)
(* Theorems about Socks5 for any destination and any stream of bytes that  *)
(* a proxy may send, arriving in any pieces.                               *)
(***************************************************************************)
EXTENDS Socks5, SequenceTheorems, TLAPS

(* The field that is being received begins behind what was read before it. *)
Start == read - Len(buffer)
FieldLength == Len(buffer) + want

(* The buffer holds the bytes of the stream from Start on. *)
BufferFits == /\ Len(buffer) <= read
              /\ \A i \in 1 .. Len(buffer) : buffer[i] = stream[Start + i]

MethodRead == stream[1] = 5 /\ stream[2] = 0
HeaderRead == MethodRead /\ stream[3] = 5 /\ stream[4] = 0

(* The last field: an address and its port. *)
AtAddress ==
    /\ HeaderRead
    /\ \/ stream[6] \in {1, 4} /\ Start = 6 /\ FieldLength = Remaining(stream[6])
       \/ stream[6] = 3 /\ Start = 7 /\ FieldLength = stream[7] + 2

(* Where in the handshake each state is. *)
Position ==
    /\ pc = "connect" => read = 0
    /\ pc = "method" => Start = 0 /\ FieldLength = 2
    /\ pc = "reply" => MethodRead /\ Start = 2 /\ FieldLength = 4
    /\ pc = "name_length" =>
          HeaderRead /\ stream[6] = 3 /\ Start = 6 /\ FieldLength = 1
    /\ pc = "bound_address" => AtAddress
    /\ pc = "ok" => AtAddress /\ want = 0

SocksInv == TypeOK /\ BufferFits /\ Position /\ RefusedForReason /\ RequestFraming

LEMMA StreamBytes ==
    ASSUME TypeOK
    PROVE  /\ stream \in Seq(0 .. 255) /\ Len(stream) \in Nat /\ Len(buffer) \in Nat
           /\ read \in Nat /\ arrived \in Nat /\ want \in Nat
           /\ read <= arrived /\ arrived <= Len(stream)
           /\ \A i \in 1 .. Len(stream) : stream[i] \in 0 .. 255
  <1>1. stream \in Seq(0 .. 255) /\ buffer \in Seq(0 .. 255)
    BY StreamsAssumption DEF TypeOK
  <1>2. Len(stream) \in Nat /\ Len(buffer) \in Nat  BY <1>1, LenProperties
  <1>3. \A i \in 1 .. Len(stream) : stream[i] \in 0 .. 255  BY <1>1, ElementOfSeq
  <1> QED  BY <1>1, <1>2, <1>3 DEF TypeOK

(* The first four bytes of a stream. *)
LEMMA HeadBytes ==
    ASSUME NEW s, \A i \in 1 .. 4 : s[i] \in 0 .. 255
    PROVE  /\ SubSeq(s, 1, 4) \in Seq(0 .. 255) /\ Len(SubSeq(s, 1, 4)) = 4
           /\ \A i \in 1 .. 4 : SubSeq(s, 1, 4)[i] = s[i]
  <1> DEFINE m == 1
             n == 4
             Bytes == 0 .. 255
  <1>1. m \in Int /\ n \in Int /\ \A i \in m .. n : s[i] \in Bytes  OBVIOUS
  <1>2. m <= n /\ n - m + 1 = 4 /\ \A i \in 1 .. 4 : m + i - 1 = i  OBVIOUS
  <1> HIDE DEF m, n, Bytes
  <1>3. /\ SubSeq(s, m, n) \in Seq(Bytes)
        /\ Len(SubSeq(s, m, n)) = IF m <= n THEN n - m + 1 ELSE 0
        /\ \A i \in 1 .. n - m + 1 : SubSeq(s, m, n)[i] = s[m + i - 1]
    BY <1>1, SubSeqProperties
  <1>4. /\ SubSeq(s, m, n) \in Seq(Bytes) /\ Len(SubSeq(s, m, n)) = 4
        /\ \A i \in 1 .. 4 : SubSeq(s, m, n)[i] = s[i]
    <2>1. SubSeq(s, m, n) \in Seq(Bytes) /\ Len(SubSeq(s, m, n)) = 4
      BY <1>2, <1>3
    <2>2. \A i \in 1 .. 4 : SubSeq(s, m, n)[i] = s[m + i - 1]
      BY <1>2, <1>3
    <2> QED  BY <1>2, <2>1, <2>2
  <1> QED  BY <1>4, Zenon DEF m, n, Bytes

(* Grants, byte by byte. *)
LEMMA GrantsBytes ==
    ASSUME TypeOK
    PROVE  Grants <=> Len(stream) >= 6 /\ HeaderRead /\ stream[6] \in {1, 3, 4}
  <1>1. CASE Len(stream) >= 6
    <2> DEFINE head == SubSeq(stream, 1, 4)
               granted == <<5, 0, 5, 0>>
    <2>1. \A i \in 1 .. 4 : stream[i] \in 0 .. 255
      <3>1. Len(stream) \in Nat /\ \A i \in 1 .. Len(stream) : stream[i] \in 0 .. 255
        BY StreamBytes
      <3>2. 1 .. 4 \subseteq 1 .. Len(stream)  BY <1>1, <3>1
      <3> QED  BY <3>1, <3>2, Zenon
    <2>2. /\ head \in Seq(0 .. 255) /\ Len(head) = 4
          /\ \A i \in 1 .. 4 : head[i] = stream[i]
      BY <2>1, HeadBytes
    <2>3. /\ granted \in Seq(0 .. 255) /\ Len(granted) = 4
          /\ granted[1] = 5 /\ granted[2] = 0 /\ granted[3] = 5 /\ granted[4] = 0
      OBVIOUS
    <2> HIDE DEF head, granted
    <2>4. head = granted <=> \A i \in 1 .. 4 : head[i] = granted[i]
      BY <2>2, <2>3, SeqEqual
    <2>5. head = granted <=>
             head[1] = 5 /\ head[2] = 0 /\ head[3] = 5 /\ head[4] = 0
      <3>1. \A i \in 1 .. 4 : i = 1 \/ i = 2 \/ i = 3 \/ i = 4  OBVIOUS
      <3> QED  BY <2>3, <2>4, <3>1
    <2> QED  BY <1>1, <2>2, <2>5 DEF Grants, HeaderRead, MethodRead, head, granted
  <1>2. CASE ~(Len(stream) >= 6)  BY <1>2 DEF Grants
  <1> QED  BY <1>1, <1>2

(* What the answer to the negotiation is compared with. *)
LEMMA MethodBytes ==
    ASSUME TypeOK, Len(buffer) = 2
    PROVE  buffer = <<5, 0>> <=> buffer[1] = 5 /\ buffer[2] = 0
  BY DEF TypeOK

LEMMA InitInv == Init => SocksInv
  <1> SUFFICES ASSUME Init PROVE SocksInv  OBVIOUS
  <1>1. stream \in Seq(0 .. 255)  BY StreamsAssumption DEF Init
  <1>2. buffer \in Seq(0 .. 255) /\ Len(buffer) = 0
    BY EmptySeq DEF Init
  <1>3. Len(stream) \in Nat  BY <1>1, LenProperties
  <1>4. TypeOK
    <2>1. /\ arrived \in 0 .. Len(stream) /\ read \in 0 .. arrived
          /\ want \in 0 .. 257 /\ sent \in Nat /\ length \in 0 .. 255
      BY <1>3 DEF Init
    <2> QED  BY <1>2, <2>1, Zenon DEF Init, TypeOK
  <1>5. BufferFits  BY <1>2 DEF Init, BufferFits
  <1>6. pc = "connect" /\ read = 0  BY DEF Init
  <1> QED
    BY <1>4, <1>5, <1>6 DEF SocksInv, Position, RefusedForReason, RequestFraming

(* The steps that receive or send nothing for the handshake's position. *)
LEMMA EnvironmentStep ==
    ASSUME SocksInv, Arrive \/ Close \/ UNCHANGED vars PROVE SocksInv'
  <1> USE DEF SocksInv
  <1>1. UNCHANGED <<target, stream, read, pc, want, buffer, sent, length, trouble>>
    BY DEF Arrive, Close, vars
  <1>2. TypeOK'
    <2>1. arrived' \in 0 .. Len(stream) /\ read \in 0 .. arrived'
      BY StreamBytes DEF Arrive, Close, vars
    <2>2. closed' \in BOOLEAN
      BY Zenon DEF Arrive, Close, vars, TypeOK
    <2> QED  BY <1>1, <2>1, <2>2, Zenon DEF TypeOK
  <1> QED
    BY <1>1, <1>2 DEF BufferFits, Start, FieldLength, Position, AtAddress, HeaderRead,
       MethodRead, Remaining, RefusedForReason, Grants, RequestFraming

(* A field is received piece by piece: its place and length stay. *)
LEMMA RecvStep == ASSUME SocksInv, Recv PROVE SocksInv'
  <1> USE DEF SocksInv
  <1>1. PICK n \in 1 .. want :
           /\ read + n <= arrived
           /\ read' = read + n
           /\ want' = want - n
           /\ buffer' = buffer \o SubSeq(stream, read + 1, read + n)
    BY DEF Recv
  <1> DEFINE piece == SubSeq(stream, read + 1, read + n)
  <1>2. /\ read \in Nat /\ n \in Nat /\ n >= 1 /\ want \in Nat /\ want' \in 0 .. 257
        /\ Len(buffer) \in Nat /\ buffer \in Seq(0 .. 255)
        /\ \A i \in read + 1 .. read + n : stream[i] \in 0 .. 255
    <2>1. want \in 0 .. 257 /\ buffer \in Seq(0 .. 255)  BY DEF TypeOK
    <2> QED  BY <1>1, <2>1, StreamBytes
  <1>3. /\ piece \in Seq(0 .. 255) /\ Len(piece) = n
        /\ \A i \in 1 .. n : piece[i] = stream[read + i]
    <2> DEFINE lo == read + 1
               hi == read + n
    <2>1. /\ lo \in Int /\ hi \in Int /\ lo <= hi /\ hi - lo + 1 = n
          /\ \A i \in 1 .. n : lo + i - 1 = read + i
          /\ \A i \in lo .. hi : stream[i] \in 0 .. 255
      BY <1>2
    <2>2. piece = SubSeq(stream, lo, hi)  OBVIOUS
    <2> HIDE DEF piece, lo, hi
    <2>3. /\ piece \in Seq(0 .. 255) /\ Len(piece) = hi - lo + 1
          /\ \A i \in 1 .. hi - lo + 1 : piece[i] = stream[lo + i - 1]
      BY <2>1, <2>2, SubSeqProperties
    <2> QED  BY <2>1, <2>3
  <1> HIDE DEF piece
  <1>4. buffer' = buffer \o piece  BY <1>1 DEF piece
  <1>5. /\ buffer' \in Seq(0 .. 255) /\ Len(buffer') = Len(buffer) + n
        /\ \A i \in 1 .. Len(buffer) + n :
              buffer'[i] = IF i <= Len(buffer) THEN buffer[i] ELSE piece[i - Len(buffer)]
    <2>1. buffer \in Seq(0 .. 255) /\ piece \in Seq(0 .. 255)  BY <1>2, <1>3
    <2>2. /\ buffer \o piece \in Seq(0 .. 255)
          /\ Len(buffer \o piece) = Len(buffer) + Len(piece)
          /\ \A i \in 1 .. Len(buffer) + Len(piece) :
                (buffer \o piece)[i] = IF i <= Len(buffer) THEN buffer[i]
                                                         ELSE piece[i - Len(buffer)]
      BY <2>1, ConcatProperties, Zenon
    <2> DEFINE joined == buffer \o piece
    <2>3. buffer' = joined /\ Len(piece) = n  BY <1>3, <1>4
    <2>4. /\ joined \in Seq(0 .. 255) /\ Len(joined) = Len(buffer) + Len(piece)
          /\ \A i \in 1 .. Len(buffer) + Len(piece) :
                joined[i] = IF i <= Len(buffer) THEN buffer[i] ELSE piece[i - Len(buffer)]
      BY <2>2, Zenon
    <2> HIDE DEF joined, piece
    <2> QED  BY <2>3, <2>4
  <1>6. /\ UNCHANGED <<target, stream, arrived, closed, pc, sent, length, trouble>>
        /\ pc \in Receiving
    BY DEF Recv, proxy
  <1>7. TypeOK'
    BY <1>1, <1>2, <1>5, <1>6, StreamBytes DEF TypeOK
  <1>8. Start' = Start /\ FieldLength' = FieldLength
    BY <1>1, <1>2, <1>5 DEF Start, FieldLength
  <1>9. BufferFits'
    <2>1. Len(buffer') <= read'  BY <1>1, <1>2, <1>5 DEF BufferFits
    <2>2. ASSUME NEW i \in 1 .. Len(buffer') PROVE buffer'[i] = stream[Start + i]
      <3>1. CASE i <= Len(buffer)  BY <1>2, <1>5, <2>2, <3>1 DEF BufferFits
      <3>2. CASE ~(i <= Len(buffer))
        <4>1. i - Len(buffer) \in 1 .. n  BY <1>2, <1>5, <2>2, <3>2
        <4>2. read + (i - Len(buffer)) = Start + i  BY <1>2, <2>2 DEF Start
        <4> QED  BY <1>2, <1>3, <1>5, <2>2, <3>2, <4>1, <4>2
      <3> QED  BY <3>1, <3>2
    <2> QED  BY <1>6, <1>8, <2>1, <2>2 DEF BufferFits
  <1>10. pc # "connect" /\ pc # "ok" /\ pc # "failed"  BY <1>6 DEF Receiving
  <1> QED
    BY <1>6, <1>7, <1>8, <1>9, <1>10 DEF Position, AtAddress, HeaderRead, MethodRead,
       Remaining, RefusedForReason, RequestFraming

(* A new field begins where the last one ended. *)
LEMMA ReceiveFits ==
    ASSUME TypeOK, NEW n \in 0 .. 257, NEW place \in Receiving, Receive(n, place),
           UNCHANGED <<target, stream, arrived, closed, read, trouble>>,
           sent' \in Nat, length' \in 0 .. 255
    PROVE  TypeOK' /\ BufferFits' /\ Start' = read /\ FieldLength' = n
  <1>1. buffer' \in Seq(0 .. 255) /\ Len(buffer') = 0
    BY EmptySeq DEF Receive
  <1> QED
    BY <1>1, StreamBytes DEF Receive, TypeOK, BufferFits, Start, FieldLength

(* A field that is complete. *)
LEMMA ReceivedField ==
    ASSUME SocksInv, NEW place \in Receiving, Received(place)
    PROVE  /\ Len(buffer) = FieldLength /\ read = Start + FieldLength
           /\ read <= Len(stream)
           /\ \A i \in 1 .. FieldLength : /\ buffer[i] = stream[Start + i]
                                          /\ buffer[i] \in 0 .. 255
  <1> USE DEF SocksInv
  <1>1. buffer \in Seq(0 .. 255)  BY DEF TypeOK
  <1> QED
    <2>1. want = 0 /\ FieldLength = Len(buffer) /\ Len(buffer) \in Nat
      BY StreamBytes DEF Received, FieldLength
    <2>2. read = Start + Len(buffer) /\ read <= Len(stream)
      BY <2>1, StreamBytes DEF Start
    <2>3. \A i \in 1 .. Len(buffer) : /\ buffer[i] = stream[Start + i]
                                      /\ buffer[i] \in 0 .. 255
      BY <1>1, ElementOfSeq DEF BufferFits
    <2> QED  BY <2>1, <2>2, <2>3

LEMMA NegotiateStep == ASSUME SocksInv, Negotiate PROVE SocksInv'
  <1> USE DEF SocksInv
  <1>1. /\ pc = "connect" /\ pc' = "method" /\ Receive(2, "method")
        /\ UNCHANGED <<target, stream, arrived, closed, read, sent, length, trouble>>
    BY DEF Negotiate, proxy, Receive
  <1>2. /\ sent' \in Nat /\ length' \in 0 .. 255 /\ "method" \in Receiving
        /\ 2 \in 0 .. 257
    BY <1>1 DEF TypeOK, Receiving
  <1>3. TypeOK' /\ BufferFits' /\ Start' = read /\ FieldLength' = 2
    BY <1>1, <1>2, ReceiveFits
  <1> QED
    BY <1>1, <1>3 DEF Position, RefusedForReason, RequestFraming

LEMMA NameLengthFits ==
    ASSUME TypeOK
    PROVE  /\ AddressBytes \in Nat
           /\ target.kind = "name" => NameLength \in 0 .. 255
  <1>1. target \in [kind : Kinds, length : Nat]  BY TargetsAssumption DEF TypeOK
  <1>2. target.length \in Nat /\ target.kind \in Kinds  BY <1>1
  <1> QED  BY <1>2 DEF AddressBytes, NameLength, Kinds

LEMMA RequestStep == ASSUME SocksInv, Request PROVE SocksInv'
  <1> USE DEF SocksInv
  <1>1. /\ pc' = "reply" /\ Receive(4, "reply") /\ Received("method") /\ pc = "method"
        /\ UNCHANGED <<target, stream, arrived, closed, read, trouble>>
        /\ sent' = 4 + AddressBytes + 2
        /\ length' = IF target.kind = "name" THEN NameLength ELSE length
    BY DEF Request, Receive, proxy, Received
  <1>2. /\ sent' \in Nat /\ length' \in 0 .. 255 /\ 4 \in 0 .. 257
        /\ "reply" \in Receiving /\ "method" \in Receiving
    BY <1>1, NameLengthFits DEF TypeOK, Receiving
  <1>3. TypeOK' /\ BufferFits' /\ Start' = read /\ FieldLength' = 4
    BY <1>1, <1>2, ReceiveFits
  <1>4. Start = 0 /\ FieldLength = 2  BY <1>1 DEF Position
  <1>5. /\ Len(buffer) = 2 /\ read = 2
        /\ buffer[1] = stream[1] /\ buffer[2] = stream[2]
    BY <1>1, <1>2, <1>4, ReceivedField
  <1>6. MethodRead'
    BY <1>1, <1>5, MethodBytes DEF Request, MethodRead
  <1>7. RequestFraming'
    <2>1. target \in [kind : Kinds, length : Nat]  BY TargetsAssumption DEF TypeOK
    <2>2. target.kind \in Kinds  BY <2>1
    <2>3. target.kind = "name" => NameLength \in 0 .. 255  BY NameLengthFits
    <2>4. CASE target.kind = "ipv4"  BY <1>1, <2>4 DEF RequestFraming, AddressBytes
    <2>5. CASE target.kind = "ipv6"  BY <1>1, <2>5 DEF RequestFraming, AddressBytes
    <2>6. CASE target.kind = "name"
      BY <1>1, <2>3, <2>6 DEF RequestFraming, AddressBytes
    <2> QED  BY <2>2, <2>4, <2>5, <2>6 DEF Kinds
  <1> QED
    BY <1>1, <1>3, <1>5, <1>6, <1>7 DEF Position, RefusedForReason

(* The header of the reply, once it has been received. *)
LEMMA ReplyHeader ==
    ASSUME SocksInv, Received("reply")
    PROVE  /\ pc = "reply" /\ read = 6 /\ Len(stream) >= 6 /\ MethodRead
           /\ \A i \in 1 .. 4 : buffer[i] = stream[2 + i] /\ buffer[i] \in 0 .. 255
           /\ Granted <=> stream[3] = 5 /\ stream[4] = 0
  <1>1. pc = "reply" /\ "reply" \in Receiving  BY DEF Received, Receiving
  <1>2. MethodRead /\ Start = 2 /\ FieldLength = 4  BY <1>1 DEF SocksInv, Position
  <1>3. /\ read = 6 /\ read <= Len(stream)
        /\ \A i \in 1 .. 4 : buffer[i] = stream[2 + i] /\ buffer[i] \in 0 .. 255
    BY <1>1, <1>2, ReceivedField
  <1>4. buffer[1] = stream[3] /\ buffer[2] = stream[4]  BY <1>3
  <1> QED  BY <1>1, <1>2, <1>3, <1>4, StreamBytes DEF Granted, SocksInv

LEMMA ReplyStep == ASSUME SocksInv, Reply PROVE SocksInv'
  <1> USE DEF SocksInv
  <1>1. /\ Received("reply") /\ Granted
        /\ UNCHANGED <<target, stream, arrived, closed, read, sent, length, trouble>>
    BY DEF Reply, proxy
  <1>2. /\ sent' \in Nat /\ length' \in 0 .. 255
        /\ "bound_address" \in Receiving /\ "name_length" \in Receiving
    BY <1>1 DEF TypeOK, Receiving
  <1>3. /\ pc = "reply" /\ read = 6 /\ HeaderRead /\ buffer[4] = stream[6]
    BY <1>1, ReplyHeader DEF HeaderRead
  <1>4. CASE buffer[4] \in {1, 4} /\ Receive(Remaining(buffer[4]), "bound_address")
    <2>1. Remaining(buffer[4]) \in 0 .. 257  BY <1>4 DEF Remaining
    <2>2. /\ TypeOK' /\ BufferFits' /\ Start' = 6 /\ FieldLength' = Remaining(stream[6])
          /\ pc' = "bound_address"
      BY <1>1, <1>2, <1>3, <1>4, <2>1, ReceiveFits DEF Receive
    <2> QED
      BY <1>1, <1>3, <1>4, <2>2 DEF Position, AtAddress, HeaderRead, MethodRead,
         Remaining, RefusedForReason, RequestFraming
  <1>5. CASE buffer[4] = 3 /\ Receive(1, "name_length")
    <2>1. /\ TypeOK' /\ BufferFits' /\ Start' = 6 /\ FieldLength' = 1
          /\ pc' = "name_length"
      BY <1>1, <1>2, <1>3, <1>5, ReceiveFits, 1 \in 0 .. 257 DEF Receive
    <2> QED
      BY <1>1, <1>3, <1>5, <2>1 DEF Position, HeaderRead, MethodRead,
         RefusedForReason, RequestFraming
  <1> QED  BY <1>4, <1>5 DEF Reply

LEMMA ReplyNameStep == ASSUME SocksInv, ReplyName PROVE SocksInv'
  <1> USE DEF SocksInv
  <1>1. /\ Received("name_length") /\ pc = "name_length"
        /\ Receive(buffer[1] + 2, "bound_address") /\ pc' = "bound_address"
        /\ UNCHANGED <<target, stream, arrived, closed, read, sent, length, trouble>>
    BY DEF ReplyName, proxy, Received, Receive
  <1>2. /\ sent' \in Nat /\ length' \in 0 .. 255
        /\ "bound_address" \in Receiving /\ "name_length" \in Receiving
    BY <1>1 DEF TypeOK, Receiving
  <1>3. HeaderRead /\ stream[6] = 3 /\ Start = 6 /\ FieldLength = 1
    BY <1>1 DEF Position
  <1>4. read = 7 /\ buffer[1] = stream[7] /\ buffer[1] + 2 \in 0 .. 257
    <2>1. /\ read = 7 /\ \A i \in 1 .. 1 : /\ buffer[i] = stream[6 + i]
                                          /\ buffer[i] \in 0 .. 255
      BY <1>1, <1>2, <1>3, ReceivedField
    <2> QED  BY <2>1
  <1>5. TypeOK' /\ BufferFits' /\ Start' = 7 /\ FieldLength' = stream[7] + 2
    BY <1>1, <1>2, <1>4, ReceiveFits
  <1> QED
    BY <1>1, <1>3, <1>5 DEF Position, AtAddress, HeaderRead, MethodRead, Remaining,
       RefusedForReason, RequestFraming

(* Every refusal comes from a byte that Grants would have otherwise. *)
LEMMA RefuseStep == ASSUME SocksInv, Refuse PROVE SocksInv'
  <1> USE DEF SocksInv
  <1>1. /\ pc' = "failed"
        /\ UNCHANGED <<target, stream, arrived, closed, read, want, buffer, sent, length,
                       trouble>>
    BY DEF Refuse, Throw, proxy
  <1>2. ~Grants
    <2>1. CASE Received("method") /\ buffer # <<5, 0>>
      <3>1. pc = "method" /\ "method" \in Receiving  BY <2>1 DEF Received, Receiving
      <3>2. Start = 0 /\ FieldLength = 2  BY <3>1 DEF Position
      <3>3. Len(buffer) = 2 /\ buffer[1] = stream[1] /\ buffer[2] = stream[2]
        BY <2>1, <3>1, <3>2, ReceivedField
      <3> QED  BY <2>1, <3>3, MethodBytes, GrantsBytes DEF HeaderRead, MethodRead
    <2>2. CASE Received("reply") /\ (~Granted \/ buffer[4] \notin {1, 3, 4})
      <3>1. buffer[4] = stream[6]  BY <2>2, ReplyHeader
      <3> QED  BY <2>2, <3>1, ReplyHeader, GrantsBytes DEF HeaderRead
    <2> QED  BY <2>1, <2>2 DEF Refuse
  <1> QED
    BY <1>1, <1>2 DEF TypeOK, BufferFits, Start, Position, RefusedForReason, Grants,
       RequestFraming

LEMMA DoneStep == ASSUME SocksInv, Done PROVE SocksInv'
  <1> USE DEF SocksInv
  <1>1. /\ pc' = "ok" /\ pc = "bound_address" /\ want = 0
        /\ UNCHANGED <<target, stream, arrived, closed, read, want, buffer, sent, length,
                       trouble>>
    BY DEF Done, Received, proxy
  <1> QED
    BY <1>1 DEF TypeOK, BufferFits, Start, FieldLength, Position, AtAddress, HeaderRead,
       MethodRead, Remaining, RefusedForReason, RequestFraming

LEMMA FailsStep == ASSUME SocksInv, SystemCallFails PROVE SocksInv'
  <1> USE DEF SocksInv
  <1>1. /\ pc' = "failed" /\ trouble' = TRUE
        /\ UNCHANGED <<target, stream, arrived, closed, read, want, buffer, sent, length>>
    BY DEF SystemCallFails, proxy
  <1> QED
    BY <1>1 DEF TypeOK, BufferFits, Start, Position, RefusedForReason, RequestFraming

LEMMA SocksInvariant == Spec => []SocksInv
  <1>1. SocksInv /\ [Next]_vars => SocksInv'
    <2> SUFFICES ASSUME SocksInv, [Next]_vars PROVE SocksInv'  OBVIOUS
    <2>1. CASE MakeProxied
      BY <2>1, NegotiateStep, FailsStep, RecvStep, RequestStep, ReplyStep, ReplyNameStep,
         RefuseStep, DoneStep DEF MakeProxied
    <2> QED  BY <2>1, EnvironmentStep DEF Next
  <1> QED  BY <1>1, InitInv, PTL DEF Spec

(* Type correctness. *)
THEOREM TypeCorrect == Spec => []TypeOK
  <1>1. SocksInv => TypeOK  BY DEF SocksInv
  <1> QED  BY <1>1, SocksInvariant, PTL

(* The tunnel begins right behind the handshake, whatever the proxy sends    *)
(* and however it arrives.                                                   *)
THEOREM TunnelIsIntact == Spec => []TunnelIntact
  <1>1. SocksInv => TunnelIntact
    <2> SUFFICES ASSUME SocksInv, pc = "ok" PROVE Grants /\ read = HandshakeLength
      BY DEF TunnelIntact
    <2> USE DEF SocksInv
    <2>1. AtAddress /\ want = 0  BY DEF Position
    <2>2. read = Start + FieldLength
      BY <2>1, StreamBytes DEF Start, FieldLength
    <2>3. Len(stream) >= 6 /\ Len(stream) \in Nat
      BY <2>1, <2>2, StreamBytes DEF AtAddress, FieldLength
    <2>4. Grants  BY <2>1, <2>3, GrantsBytes DEF AtAddress
    <2>5. CASE stream[6] = 1
      BY <2>1, <2>2, <2>4, <2>5 DEF AtAddress, HandshakeLength, Remaining
    <2>6. CASE stream[6] = 4
      BY <2>1, <2>2, <2>4, <2>6 DEF AtAddress, HandshakeLength, Remaining
    <2>7. CASE stream[6] = 3
      <3>1. Start = 7 /\ FieldLength = stream[7] + 2  BY <2>1, <2>7 DEF AtAddress
      <3>2. read = 7 + (stream[7] + 2)  BY <2>2, <3>1
      <3>3. FieldLength = Len(buffer)  BY <2>1, StreamBytes DEF FieldLength
      <3>4. 7 <= Len(stream)
        BY <2>3, <3>1, <3>3, StreamBytes DEF Start
      <3>5. stream[7] \in 0 .. 255  BY <2>3, <3>4, StreamBytes
      <3> QED  BY <2>4, <2>7, <3>2, <3>5 DEF HandshakeLength
    <2> QED  BY <2>1, <2>4, <2>5, <2>6, <2>7 DEF AtAddress
  <1> QED  BY <1>1, SocksInvariant, PTL

(* A connection is given up for a reason. *)
THEOREM RefusalsHaveReasons == Spec => []RefusedForReason
  <1>1. SocksInv => RefusedForReason  BY DEF SocksInv
  <1> QED  BY <1>1, SocksInvariant, PTL

(* The request is as long as it says, for names of every length. *)
THEOREM RequestsAreFramed == Spec => []RequestFraming
  <1>1. SocksInv => RequestFraming  BY DEF SocksInv
  <1> QED  BY <1>1, SocksInvariant, PTL

-----------------------------------------------------------------------------
(* The steps that make_proxied can still take: one for each byte that it     *)
(* waits for, and one to go on when they are there.  The longest bound       *)
(* address is a name of 255 bytes with its port.                             *)
StepsLeft == CASE pc = "connect" -> 269
               [] pc = "method" -> want + 266
               [] pc = "reply" -> want + 261
               [] pc = "name_length" -> want + 259
               [] pc = "bound_address" -> want + 1
               [] pc \in {"ok", "failed"} -> 0

(* Each step of make_proxied is one less, and the proxy adds none. *)
HandshakeShortens ==
    [][/\ MakeProxied => StepsLeft' < StepsLeft
       /\ StepsLeft' <= StepsLeft]_vars

(* A field is no longer than what its place in the handshake allows. *)
LEMMA FieldBounds ==
    ASSUME SocksInv
    PROVE  /\ want \in 0 .. 257
           /\ pc = "method" => want <= 2
           /\ pc = "reply" => want <= 4
           /\ pc = "name_length" => want <= 1
  <1>1. want \in 0 .. 257 /\ Len(buffer) \in Nat
    BY StreamBytes DEF SocksInv, TypeOK
  <1> QED  BY <1>1 DEF SocksInv, Position, FieldLength

LEMMA StepsLeftType == ASSUME SocksInv PROVE StepsLeft \in 0 .. 269
  <1>1. pc \in {"connect", "ok", "failed"} \cup Receiving  BY DEF SocksInv, TypeOK
  <1> QED  BY <1>1, FieldBounds DEF StepsLeft, Receiving

LEMMA MakeProxiedShortens ==
    ASSUME SocksInv, SocksInv', MakeProxied PROVE StepsLeft' < StepsLeft
  <1>1. want \in 0 .. 257 /\ want' \in 0 .. 257  BY DEF SocksInv, TypeOK
  <1> USE DEF StepsLeft, Receive, Received, Receiving
  <1>2. CASE Negotiate  BY <1>1, <1>2 DEF Negotiate
  <1>3. CASE SystemCallFails  BY <1>1, <1>3 DEF SystemCallFails
  <1>4. CASE Recv
    <2>1. want' < want  BY <1>1, <1>4 DEF Recv
    <2>2. pc' = pc /\ pc \in Receiving  BY <1>4 DEF Recv
    <2>3. ASSUME NEW more \in Nat, NEW rest \in Nat, rest < more
          PROVE  /\ pc = "method" => rest + 266 < more + 266
                 /\ pc = "reply" => rest + 261 < more + 261
                 /\ pc = "name_length" => rest + 259 < more + 259
                 /\ pc = "bound_address" => rest + 1 < more + 1
      BY <2>3
    <2>4. want \in Nat /\ want' \in Nat  BY <1>1
    <2> QED  BY <2>1, <2>2, <2>3, <2>4
  <1>5. CASE Request  BY <1>1, <1>5 DEF Request
  <1>6. CASE Reply
    <2>1. /\ pc = "reply" /\ want = 0
          /\ \/ pc' = "bound_address" /\ want' \in 0 .. 257
             \/ pc' = "name_length" /\ want' = 1
      BY <1>1, <1>6 DEF Reply
    <2> QED  BY <2>1
  <1>7. CASE ReplyName
    <2>1. pc = "name_length" /\ want = 0 /\ pc' = "bound_address"
      BY <1>7 DEF ReplyName
    <2> QED  BY <1>1, <2>1
  <1>8. CASE Refuse  BY <1>1, <1>8 DEF Refuse, Throw
  <1>9. CASE Done  BY <1>1, <1>9 DEF Done
  <1> QED
    BY <1>2, <1>3, <1>4, <1>5, <1>6, <1>7, <1>8, <1>9 DEF MakeProxied

(* make_proxied is through after 269 steps at most, whatever the proxy sends *)
(* and in whatever pieces: it never goes round for more.                     *)
THEOREM HandshakeIsBounded == Spec => HandshakeShortens /\ [](StepsLeft \in 0 .. 269)
  <1>1. SocksInv => StepsLeft \in 0 .. 269  BY StepsLeftType
  <1>2. ASSUME SocksInv, SocksInv', [Next]_vars,
               StepsLeft \in 0 .. 269, (StepsLeft \in 0 .. 269)'
        PROVE  [/\ MakeProxied => StepsLeft' < StepsLeft
                /\ StepsLeft' <= StepsLeft]_vars
    <2>1. CASE MakeProxied  BY <1>2, <2>1, MakeProxiedShortens
    <2>2. CASE Arrive \/ Close
      <3>1. StepsLeft' = StepsLeft  BY <2>2 DEF Arrive, Close, StepsLeft
      <3> QED  BY <1>2, <3>1, MakeProxiedShortens
    <2> QED  BY <1>2, <2>1, <2>2 DEF Next
  <1> QED  BY <1>1, <1>2, SocksInvariant, PTL DEF Spec, HandshakeShortens
=============================================================================
