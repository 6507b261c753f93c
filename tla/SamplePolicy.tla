---------------------------- MODULE SamplePolicy ----------------------------
(***************************************************************************)
(* The hooks with the sample configuration for a script: what ConfigScript *)
(* says of one run of queryProxy, through cache and hooks to the proxy     *)
(* that a connection is made with.                                         *)
(***************************************************************************)
EXTENDS Netcore, ConfigScript

CONSTANTS Spelling,    \* the pieces of a name that is put to the script
          Resolution,  \* the addresses that dnsResolve may find for it
          Elsewhere    \* the keys that another script answers

SampleAnswers(a, k) ==
    UNION {queryProxy(a, Spelling[k[1]], answers) : answers \in Lookups(Resolution[k[1]])}

ASSUME SampleAssumption ==
    /\ NoResult = Null
    /\ \A k \in Keys \ Elsewhere :
          /\ Spelling[k[1]] \in HostNames /\ Resolution[k[1]] # {}
          /\ \A a \in Applications : Script[a][k] = SampleAnswers(a, k)

(* Every connection, through whichever hook, is made as the sample's        *)
(* comments say: directly inside, through the proxies where they are meant. *)
(* Of names that the code and the comments read differently (see Outside    *)
(* and NotBlocked) it says nothing.                                         *)
PolicyHolds ==
    \A t \in Threads : pc[t] = "answered" /\ key[t] \notin Elsewhere =>
        \E result \in {NoResult, proxies[1], proxies[2]} :
            /\ proxy[t] = Answer(result)
            /\ Meant(application, Spelling[key[t][1]], Resolution[key[t][1]], result)
=============================================================================
