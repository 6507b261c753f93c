----------------------------- MODULE MCNetcore -----------------------------
(* Netcore with the sample configuration as its script, and with results of  *)
(* the kinds that the sample does not return for two more destinations.      *)
EXTENDS SamplePolicy, TLC

CONSTANTS t1, t2

MCThreads == {t1, t2}
MCSymmetry == Permutations(MCThreads)

(* TLC evaluates a definition without parameters once, but one that the    *)
(* configuration gives to a constant at every use; hence the second names.  *)
(* The function on the right of @@ makes it tabulate the one on the left.   *)
Tabulated(f) == f @@ << >>

(* Names and addresses, just inside and just outside of each range. *)
Named == {"printer", "device", "localhost", "mail.google.com", "www.ZJU.edu.cn",
          "intra.net", "a.b.c", "t.co", "notgoogle.com", "google.com.cn", "a.b.t.co",
          "WWW.Google.com", "x.constructor"}

Dotted == "127.0.0.1"          :> <<127, 0, 0, 1>>
          @@ "10.0.0.0"        :> <<10, 0, 0, 0>>
          @@ "10.255.255.255"  :> <<10, 255, 255, 255>>
          @@ "11.0.0.0"        :> <<11, 0, 0, 0>>
          @@ "172.15.255.255"  :> <<172, 15, 255, 255>>
          @@ "172.16.0.0"      :> <<172, 16, 0, 0>>
          @@ "172.31.255.255"  :> <<172, 31, 255, 255>>
          @@ "172.32.0.0"      :> <<172, 32, 0, 0>>
          @@ "192.168.255.255" :> <<192, 168, 255, 255>>
          @@ "192.169.0.0"     :> <<192, 169, 0, 0>>
          @@ "222.205.0.1"     :> <<222, 205, 0, 1>>
          @@ "240.0.0.7"       :> <<240, 0, 0, 7>>

Mapped(bytes) == [family |-> "v6", prefix |-> "mapped", bytes |-> bytes]
v6 == [family |-> "v6", prefix |-> "other", bytes |-> <<0, 0, 0, 9>>]

Inner(n) == "::ffff:" \o n

Texts == Tabulated([a \in {IPv4(Dotted[n]) : n \in DOMAIN Dotted} |->
                       CHOOSE n \in DOMAIN Dotted : IPv4(Dotted[n]) = a])
         @@ Tabulated([a \in {Mapped(Dotted[n]) : n \in DOMAIN Dotted} |->
                       Inner(CHOOSE n \in DOMAIN Dotted : Mapped(Dotted[n]) = a)])
         @@ v6 :> "2001:db8::9"

Unnumbered == Named \cup {Inner(n) : n \in DOMAIN Dotted} \cup {"2001:db8::9"}
AllNames == DOMAIN Dotted \cup Unnumbered

Literals == Dotted @@ Tabulated([n \in Unnumbered |-> NoAddress])

MCText == Texts
MCLiteral == Literals
MCTable == IPv4(<<240, 0, 0, 7>>) :> "mail.google.com"

Address(a, port) == [type |-> "address", is_local_domain |-> FALSE, addr |-> a, port |-> port]
Host(n, local) == [type |-> "hostname", is_local_domain |-> local, name |-> n, port |-> 80]

(* What only an update can be about, and what only connect is given. *)
MCEndpoints == {Address(IPv4(Dotted[n]), 80) : n \in DOMAIN Dotted}
               \cup {Address(v6, 80), Address(v6, 0)}
               \cup {Host(n, FALSE) : n \in Named \cup DOMAIN Dotted}
               \cup {Host("printer", TRUE), [type |-> "bonjour", is_local_domain |-> FALSE]}

Call(a, port) == [sock |-> "stream", addr |-> a, port |-> port]
MCCalls == {Call(a, 80) : a \in DOMAIN Texts} \cup {Call(v6, 443), Call(NoAddress, 80)}
           \cup {[sock |-> "datagram", addr |-> v6, port |-> 80]}

MappedEndpoints == {Address(Mapped(<<10, 0, 0, 0>>), 80)}

Asked == UNION ({EndpointQuestion(e) : e \in MCEndpoints \cup MappedEndpoints}
                \cup {ConnectQuestion(c) : c \in MCCalls})
MCKeys == Asked

-----------------------------------------------------------------------------
(* The sample. *)

Use(p, no) == [host |-> p, noCache |-> no]
MCProxies == {"127.0.0.1:2000", "127.0.0.1:2001", "hostname"}
MCUsable == MCProxies \ {"hostname"}
Sample == <<Use("127.0.0.1:2000", FALSE), Use("127.0.0.1:2001", FALSE)>>

(* The pieces of the names that are put to the script. *)
Spelt == "printer" :> <<"printer">>
         @@ "mail.google.com" :> <<"mail", ".", "google", ".", "com">>
         @@ "www.ZJU.edu.cn" :> <<"www", ".", "ZJU", ".", "edu", ".", "cn">>
         @@ "intra.net" :> <<"intra", ".", "net">>
         @@ "a.b.c" :> <<"a", ".", "b", ".", "c">>
         @@ "t.co" :> <<"t", ".", "co">>
         @@ "notgoogle.com" :> <<"not", "google", ".", "com">>
         @@ "google.com.cn" :> <<"google", ".", "com", ".", "cn">>
         @@ "a.b.t.co" :> <<"a", ".", "b", ".", "t", ".", "co">>
         @@ "WWW.Google.com" :> <<"WWW", ".", "Google", ".", "com">>
         @@ "x.constructor" :> <<"x", ".", "constructor">>
         @@ "2001:db8::9" :> <<"2001:db8::9">>

SpeltOut(n) == IF n \in DOMAIN Spelt THEN Spelt[n]
               ELSE <<"some", ".", "address", ".", "or", ".", "other">>

Lower == "ZJU" :> "zju" @@ "WWW" :> "www" @@ "Google" :> "google" @@ "toString" :> "tostring"

SampleNetworks == <<[addr |-> <<222, 205, 0, 0>>, mask |-> <<255, 255, 0, 0>>],
                    [addr |-> <<210, 32, 0, 0>>, mask |-> <<255, 255, 0, 0>>]>>
SampleInternal == {<<"zju", ".", "edu", ".", "cn">>, <<"cc98", ".", "org">>}
SampleBlocked == {<<"google", ".", "com">>, <<"t", ".", "co">>}
SampleInherited == {<<"constructor">>, <<"toString">>}

(* A literal is its own address, and a lookup may fail. *)
Outcomes(n) == IF n \in DOMAIN Dotted THEN {Dotted[n]}
               ELSE CASE n = "intra.net" -> {<<210, 32, 0, 5>>}
                      [] n = "a.b.c"     -> {<<222, 205, 0, 1>>, Unresolved}
                      [] OTHER           -> {<<8, 8, 8, 8>>, Unresolved}

(* A destination that is now and then answered with another proxy, not to   *)
(* be cached, and one whose proxy is not an address.                        *)
Special == <<"printer", 80>> :> {Use("127.0.0.1:2000", FALSE), Use("127.0.0.1:2001", TRUE)}
           @@ <<"11.0.0.0", 80>> :> {Null, Use("hostname", FALSE)}

Spelled == Tabulated([n \in AllNames |-> SpeltOut(n)])
Found == Tabulated([n \in AllNames |-> Outcomes(n)])
MCSpelling == Spelled
MCResolution == Found
MCElsewhere == DOMAIN Special

AllPieces == UNION {Range(name) : name \in Range(Spelled) \cup SampleInternal
                                   \cup SampleBlocked \cup SampleInherited}
               \cup Range(Lower)
MCPieces == AllPieces

AnswersTo(a, k) == IF k \in DOMAIN Special THEN Special[k] ELSE SampleAnswers(a, k)

Sampled == Tabulated([a \in Applications |-> Tabulated([k \in Asked |-> AnswersTo(a, k)])])
MCScript == Sampled

(* One destination is asked about, or one next to "printer".  What is in    *)
(* the cache was run.                                                       *)
TwoKeys == Cardinality(UNION {ran[t] \cup {key[t]} : t \in Threads}
                           \ {NoKey, <<"printer", 80>>}) <= 1

(* Two path updates at a time, on one thread or on two. *)
TwoUpdates == Depth(t1) + Depth(t2) <= 2
=============================================================================
