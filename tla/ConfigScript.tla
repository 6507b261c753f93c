---------------------------- MODULE ConfigScript ----------------------------
(***************************************************************************)
(* The sample configuration, res/config.js, over the functions of          *)
(* res/proxy.js that compare names and addresses.                          *)
(*                                                                         *)
(* A name or the text of an address is a sequence of pieces; a dot is a    *)
(* piece of its own, and a label is one or more: <<"not", "cc98">> ends    *)
(* like <<"cc98">>.  An address is its four bytes.                         *)
(***************************************************************************)
EXTENDS Naturals, Sequences, FiniteSetsExt, SequencesExt

CONSTANTS Pieces,           \* of names
          toLowerCase,      \* a piece in lower case, of those that are not
          proxies,          \* the two proxies of the sample
          internalNetworks, \* sequence of [addr, mask]
          internalDomains,
          blockedApps,
          ingress,          \* the application with the proxy of its own
          blockedDomains,   \* the keys that the sample gives its object
          inherited,        \* those of Object.prototype: "constructor", "toString"
          NoResult,         \* null
          Unresolved        \* what dnsResolve returns when it finds no address

ASSUME NetworksAssumption ==
    internalNetworks \in Seq([addr : [1 .. 4 -> 0 .. 255], mask : [1 .. 4 -> {0, 255}]])

ASSUME DomainsAssumption ==
    /\ "." \in Pieces
    /\ internalDomains \cup blockedDomains \cup inherited \subseteq Seq(Pieces)
    /\ toLowerCase \in [DOMAIN toLowerCase -> Pieces]
    /\ "." \notin DOMAIN toLowerCase

ASSUME AppsAssumption == ingress \notin blockedApps /\ NoResult \notin {proxies[1], proxies[2]}

(* A name is not empty and does not begin with a dot. *)
HostNames == {host \in Seq(Pieces) \ {<< >>} : host[1] # "."}

lower(name) == [i \in DOMAIN name |-> IF name[i] \in DOMAIN toLowerCase
                                      THEN toLowerCase[name[i]] ELSE name[i]]

isPlainHostName(name) == ~Contains(name, ".")

(* The end of the name is compared, whether or not a label begins there. *)
isHostNameInDomain(name, domain) == IsSuffix(lower(domain), lower(name))

(* The bytes of the masks in use are 0 or 255. *)
isHostInNetwork(address, network) ==
    \A i \in 1 .. 4 : network.mask[i] = 0 \/ address[i] = network.addr[i]

(* What dnsResolve may answer for the host, asked once for each network: an *)
(* address is kept for the rest of the query, a failure is not.             *)
Lookups(outcomes) ==
    {answers \in [DOMAIN internalNetworks -> outcomes] :
        \A i, j \in DOMAIN answers :
            i < j /\ answers[i] # Unresolved => answers[j] = answers[i]}

(* The names for which blockedDomains[name] is true: an object literal also  *)
(* has what it inherits, and proxy.js alone asks hasOwnProperty.            *)
blockedKeys == blockedDomains \cup inherited

BugInBlockedDomain(host) ==                     \* the parent is not looked at
    LET dots == {i \in DOMAIN host : host[i] = "."}
    IN \/ host \in blockedKeys
       \/ dots # {} /\ SubSeq(host, Min(dots) + 1, Len(host)) \in blockedKeys

dotsAfter(host, i) == {j \in i + 1 .. Len(host) : host[j] = "."}
rest(host, dot) == SubSeq(host, dot + 1, Len(host))

(* The loop over the rests of the name after each of its dots; the search   *)
(* for the first one starts behind the first character.                     *)
InBlockedDomain(host) ==
    LET search[dot \in DOMAIN host] ==
            /\ dotsAfter(host, dot) # {}
            /\ LET next == Min(dotsAfter(host, dot))
               IN rest(host, next) \in blockedKeys \/ search[next]
    IN host \in blockedKeys \/ search[1]

(* What queryProxy may return, when dnsResolve answers as in answers. *)
queryProxy(app, host, answers) ==
    IF \/ isPlainHostName(host)
       \/ \E i \in DOMAIN internalNetworks :
             answers[i] # Unresolved /\ isHostInNetwork(answers[i], internalNetworks[i])
       \/ \E domain \in internalDomains : isHostNameInDomain(host, domain)
    THEN {NoResult}
    ELSE IF app \in blockedApps      THEN {proxies[1]}
    ELSE IF app = ingress            THEN {proxies[2]}
    ELSE IF InBlockedDomain(host)    THEN {proxies[1], proxies[2]}
    ELSE {NoResult}

-----------------------------------------------------------------------------
(* What the sample is meant to do, by its comments. *)

(* The domain itself and what is below it, label by label. *)
Under(host, domain) == host = domain \/ IsSuffix(<<".">> \o domain, host)

(* A host that is inside, whatever a resolver answers, and one that is not. *)
Internal(address) == \E i \in DOMAIN internalNetworks :
                         isHostInNetwork(address, internalNetworks[i])

Inside(host, outcomes) ==
    \/ "." \notin Range(host)
    \/ \E domain \in internalDomains : Under(lower(host), lower(domain))
    \/ \A address \in outcomes : address # Unresolved /\ Internal(address)

Outside(host, outcomes) ==
    /\ "." \in Range(host)
    /\ \A domain \in internalDomains : ~IsSuffix(lower(domain), lower(host))
    /\ \A address \in outcomes : address = Unresolved \/ ~Internal(address)

(* A host that is blocked, spelled as in the list, and one that is not,     *)
(* however it is spelled.  InBlockedDomain minds the case, and it takes the *)
(* inherited keys for domains: hosts below them are neither.                *)
Blocked(host) == \E domain \in blockedDomains : Under(host, domain)

NotBlocked(host) ==
    /\ \A domain \in blockedDomains : ~Under(lower(host), lower(domain))
    /\ \A k \in inherited : ~Under(host, k)

(* Hosts inside stay direct.  Outside, the applications that need it always *)
(* go through their proxy, and others to the blocked domains only.          *)
Meant(app, host, outcomes, result) ==
    /\ Inside(host, outcomes) => result = NoResult
    /\ Outside(host, outcomes) =>
          CASE app \in blockedApps -> result = proxies[1]
            [] app = ingress       -> result = proxies[2]
            [] OTHER               -> /\ Blocked(host) => result # NoResult
                                      /\ NotBlocked(host) => result = NoResult
=============================================================================
