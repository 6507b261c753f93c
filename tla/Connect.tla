------------------------------ MODULE Connect ------------------------------
(***************************************************************************)
(* The connect hook of posix.cpp with make_direct and make_proxied, seen   *)
(* from the process's table of file descriptors: which descriptors a call  *)
(* opens, closes and replaces, and what the application finds in the one   *)
(* it called connect on.                                                   *)
(*                                                                         *)
(* The table is shared by all threads of the application and every system  *)
(* call is a step of its own.  What comes over a connection is left to     *)
(* Socks5.tla: here an attempt (timed_connect, and for a proxy the whole   *)
(* handshake) works or fails.                                              *)
(***************************************************************************)
EXTENDS Naturals, FiniteSets

CONSTANTS Threads,   \* the application's threads
          Fds,       \* the descriptors the process may have
          Targets,   \* the addresses applications connect to
          Unnamed,   \* those of them that make_proxied takes for an address of
                     \* the resolve table that has no name: the IPv6 addresses
                     \* whose first byte is 240
          MaxAddrs,  \* the most addresses getaddrinfo returns for a name (bound)
          AppAborts, \* whether the application closes sockets under a connect
          NoPeer,    \* a socket that is not connected
          Closed,    \* a descriptor that is not open
          NoFd       \* -1, what socket returns when it fails

ASSUME FdsAssumption == Fds \subseteq Nat /\ IsFiniteSet(Fds)
ASSUME TargetsAssumption == NoPeer \notin Targets /\ Unnamed \subseteq Targets
ASSUME MaxAddrsAssumption == MaxAddrs \in Nat
ASSUME AbortsAssumption == AppAborts \in BOOLEAN

Sockets == [peer : Targets \cup {NoPeer}, nonblock : BOOLEAN]

ASSUME ClosedAssumption == Closed \notin Sockets
ASSUME NoFdAssumption == NoFd \notin Fds

VARIABLES fd,        \* the descriptor table
          app,       \* the descriptors the application has opened and not closed
          pc,        \* where a thread is in connect, "app" outside
          sock,      \* the descriptor it called connect on
          target,    \* the address it called connect with
          new_sock,  \* the hook's own socket
          left,      \* make_direct: addresses not tried yet
          nonblock,  \* the flag read from sock before it is replaced
          ret,       \* the outcome of the call
          before     \* what sock was when connect was called (history)

vars == <<fd, app, pc, sock, target, new_sock, left, nonblock, ret, before>>

Places == {"app", "query", "direct", "proxied", "attempt_direct", "attempt_proxied",
           "made", "dup2", "close", "flags", "returned"}

(* The descriptors that connect was called on and has not returned from. *)
Busy == {sock[t] : t \in {u \in Threads : pc[u] # "app"}}

Free == {f \in Fds : fd[f] = Closed}

(* POSIX gives out the lowest free descriptor. *)
Lowest == CHOOSE f \in Free : \A g \in Free : f <= g

NewSocket == [peer |-> NoPeer, nonblock |-> FALSE]

Init == /\ fd = [f \in Fds |-> Closed]
        /\ app = {}
        /\ pc = [t \in Threads |-> "app"]
        /\ sock = [t \in Threads |-> NoFd]
        /\ target = [t \in Threads |-> NoPeer]
        /\ new_sock = [t \in Threads |-> NoFd]
        /\ left = [t \in Threads |-> 0]
        /\ nonblock = [t \in Threads |-> FALSE]
        /\ ret = [t \in Threads |-> "none"]
        /\ before = [t \in Threads |-> Closed]

Go(t, place) == pc' = [pc EXCEPT ![t] = place]

-----------------------------------------------------------------------------
(* The application, outside the hook. *)

AppSocket ==
    /\ Free # {}
    /\ \E flag \in BOOLEAN :
          fd' = [fd EXCEPT ![Lowest] = [NewSocket EXCEPT !.nonblock = flag]]
    /\ app' = app \cup {Lowest}
    /\ UNCHANGED <<pc, sock, target, new_sock, left, nonblock, ret, before>>

AppClose(f) ==
    /\ f \in app
    /\ f \notin Busy \/ AppAborts
    /\ fd' = [fd EXCEPT ![f] = Closed]
    /\ app' = app \ {f}
    /\ UNCHANGED <<pc, sock, target, new_sock, left, nonblock, ret, before>>

(* The application looks at the outcome of its call, whose variables are    *)
(* gone.                                                                    *)
AppTakes(t) ==
    /\ pc[t] = "returned"
    /\ Go(t, "app")
    /\ sock' = [sock EXCEPT ![t] = NoFd]
    /\ target' = [target EXCEPT ![t] = NoPeer]
    /\ new_sock' = [new_sock EXCEPT ![t] = NoFd]
    /\ left' = [left EXCEPT ![t] = 0]
    /\ nonblock' = [nonblock EXCEPT ![t] = FALSE]
    /\ ret' = [ret EXCEPT ![t] = "none"]
    /\ before' = [before EXCEPT ![t] = Closed]
    /\ UNCHANGED <<fd, app>>

-----------------------------------------------------------------------------
(* The hook. *)

(* The call, up to the query.  A socket may be connected more than once. *)
connect(t) ==
    \E f \in app \ Busy, d \in Targets :
        /\ pc[t] = "app"
        /\ sock' = [sock EXCEPT ![t] = f]
        /\ target' = [target EXCEPT ![t] = d]
        /\ before' = [before EXCEPT ![t] = fd[f]]
        /\ Go(t, "query")
        /\ UNCHANGED <<fd, app, new_sock, left, nonblock, ret>>

(* An address that is not to be redirected goes to the original connect, on *)
(* the application's own socket.                                            *)
original(t) ==
    /\ pc[t] = "query"
    /\ \/ /\ fd[sock[t]] # Closed /\ fd[sock[t]].peer = NoPeer
          /\ fd' = [fd EXCEPT ![sock[t]].peer = target[t]]
       \/ UNCHANGED fd
    /\ ret' = [ret EXCEPT ![t] = "original"]
    /\ Go(t, "returned")
    /\ UNCHANGED <<app, sock, target, new_sock, left, nonblock, before>>

(* query_proxy decides.  make_direct then resolves the name again. *)
query_proxy(t) ==
    /\ pc[t] = "query"
    /\ \/ Go(t, "proxied") /\ UNCHANGED left
       \/ Go(t, "direct") /\ \E n \in 0 .. MaxAddrs : left' = [left EXCEPT ![t] = n]
    /\ UNCHANGED <<fd, app, sock, target, new_sock, nonblock, ret, before>>

(* The variable new_sock of the caller has no value until socket returns. *)
socket(t, place) ==
    \/ /\ Free # {}
       /\ fd' = [fd EXCEPT ![Lowest] = NewSocket]
       /\ new_sock' = [new_sock EXCEPT ![t] = Lowest]
       /\ Go(t, place)
       /\ UNCHANGED ret
    \/ /\ Free = {}
       /\ new_sock' = [new_sock EXCEPT ![t] = NoFd]
       /\ UNCHANGED fd

(* errno is ETIMEDOUT whatever went wrong. *)
Fail(t) == ret' = [ret EXCEPT ![t] = "timedout"] /\ Go(t, "returned")

(* make_proxied up to the connection to the proxy.  An unnamed address      *)
(* fails before there is a socket, and the handler of that failure closes   *)
(* whatever number is in the variable.                                      *)
make_proxied(t) ==
    /\ pc[t] = "proxied"
    /\ \/ /\ target[t] \notin Unnamed
          /\ socket(t, "attempt_proxied")
          /\ Free = {} => Fail(t)
       \/ /\ target[t] \in Unnamed
          /\ \E garbage \in Fds \cup {NoFd} :
                fd' = [f \in Fds |-> IF f = garbage THEN Closed ELSE fd[f]]
          /\ Fail(t)
          /\ UNCHANGED new_sock
    /\ UNCHANGED <<app, sock, target, left, nonblock, before>>

BugMakeDirect(t) ==          \* closes once more when no address is left
    /\ pc[t] = "direct"
    /\ \/ /\ left[t] = 0
          /\ fd' = [f \in Fds |-> IF f = new_sock[t] THEN Closed ELSE fd[f]]
          /\ Fail(t)
          /\ UNCHANGED <<new_sock, left>>
       \/ /\ left[t] > 0
          /\ left' = [left EXCEPT ![t] = @ - 1]
          /\ socket(t, "attempt_direct")
          /\ Free = {} => UNCHANGED <<pc, ret>>
    /\ UNCHANGED <<app, sock, target, nonblock, before>>

BugMakeDirectSame(t) ==      \* does not move on to the next address
    /\ pc[t] = "direct"
    /\ \/ left[t] = 0 /\ Fail(t) /\ UNCHANGED <<fd, new_sock>>
       \/ /\ left[t] > 0
          /\ socket(t, "attempt_direct")
          /\ Free = {} => UNCHANGED <<pc, ret>>
    /\ UNCHANGED <<app, sock, target, left, nonblock, before>>

(* make_direct: one turn of the loop over the addresses, up to the          *)
(* connection.  Without a socket the turn is over.                          *)
make_direct(t) ==
    /\ pc[t] = "direct"
    /\ \/ /\ left[t] = 0
          /\ Fail(t)
          /\ UNCHANGED <<fd, new_sock, left>>
       \/ /\ left[t] > 0
          /\ left' = [left EXCEPT ![t] = @ - 1]
          /\ socket(t, "attempt_direct")
          /\ Free = {} => UNCHANGED <<pc, ret>>
    /\ UNCHANGED <<app, sock, target, nonblock, before>>

Attempting == {"attempt_direct", "attempt_proxied"}

Works(t) ==
    /\ pc[t] \in Attempting
    /\ fd[new_sock[t]] # Closed /\ fd[new_sock[t]].peer = NoPeer
    /\ fd' = [fd EXCEPT ![new_sock[t]].peer = target[t]]
    /\ Go(t, "made")
    /\ UNCHANGED <<app, sock, target, new_sock, left, nonblock, ret, before>>

BugFails(t) ==               \* the next address is tried without closing
    /\ pc[t] \in Attempting
    /\ \/ pc[t] = "attempt_direct" /\ Go(t, "direct") /\ UNCHANGED ret
       \/ pc[t] = "attempt_proxied" /\ Fail(t)
    /\ UNCHANGED <<fd, app, sock, target, new_sock, left, nonblock, before>>

(* The connection or the handshake fails: the handler closes the socket.    *)
(* make_direct goes on to the next address.                                 *)
Fails(t) ==
    /\ pc[t] \in Attempting
    /\ fd' = [fd EXCEPT ![new_sock[t]] = Closed]
    /\ \/ pc[t] = "attempt_direct" /\ Go(t, "direct") /\ UNCHANGED ret
       \/ pc[t] = "attempt_proxied" /\ Fail(t)
    /\ UNCHANGED <<app, sock, target, new_sock, left, nonblock, before>>

BugReadFlags(t) ==           \* reads the flags of the new socket
    /\ pc[t] = "made"
    /\ nonblock' = [nonblock EXCEPT ![t] = fd[new_sock[t]].nonblock]
    /\ Go(t, "dup2")
    /\ UNCHANGED <<fd, app, sock, target, new_sock, left, ret, before>>

(* fcntl gives -1 for a closed descriptor, whose O_NONBLOCK bit is set. *)
ReadFlags(t) ==
    /\ pc[t] = "made"
    /\ nonblock' = [nonblock EXCEPT ![t] =
                       fd[sock[t]] = Closed \/ fd[sock[t]].nonblock]
    /\ Go(t, "dup2")
    /\ UNCHANGED <<fd, app, sock, target, new_sock, left, ret, before>>

(* dup2 of a closed descriptor fails, and nothing looks at its result. *)
Dup2(t) ==
    /\ pc[t] = "dup2"
    /\ fd' = [fd EXCEPT ![sock[t]] = IF fd[new_sock[t]] = Closed THEN @
                                     ELSE fd[new_sock[t]]]
    /\ Go(t, "close")
    /\ UNCHANGED <<app, sock, target, new_sock, left, nonblock, ret, before>>

CloseNew(t) ==
    /\ pc[t] = "close"
    /\ fd' = [fd EXCEPT ![new_sock[t]] = Closed]
    /\ Go(t, "flags")
    /\ UNCHANGED <<app, sock, target, new_sock, left, nonblock, ret, before>>

(* A socket that was not to block is made so again, and the application is  *)
(* told to wait for a connection that is there already.                     *)
Return(t) ==
    /\ pc[t] = "flags"
    /\ \/ /\ nonblock[t]
          /\ fd' = [fd EXCEPT ![sock[t]] = IF @ = Closed THEN @
                                           ELSE [@ EXCEPT !.nonblock = TRUE]]
          /\ ret' = [ret EXCEPT ![t] = "inprogress"]
       \/ /\ ~nonblock[t]
          /\ ret' = [ret EXCEPT ![t] = "ok"]
          /\ UNCHANGED fd
    /\ Go(t, "returned")
    /\ UNCHANGED <<app, sock, target, new_sock, left, nonblock, before>>

Hook(t) == \/ original(t) \/ query_proxy(t) \/ make_proxied(t) \/ make_direct(t)
           \/ Works(t) \/ Fails(t)
           \/ ReadFlags(t) \/ Dup2(t) \/ CloseNew(t) \/ Return(t)

Next == \/ AppSocket \/ \E f \in Fds : AppClose(f)
        \/ \E t \in Threads : connect(t) \/ Hook(t) \/ AppTakes(t)

Spec == Init /\ [][Next]_vars

(* Every system call of the hook returns: the waits are select calls with a *)
(* timeout of ten seconds, as long as signals do not interrupt them for     *)
(* ever, and the name resolver gives up in the end.                         *)
FairSpec == Spec /\ \A t \in Threads : WF_vars(Hook(t))

-----------------------------------------------------------------------------
(* Properties *)

TypeOK == /\ fd \in [Fds -> Sockets \cup {Closed}]
          /\ app \subseteq Fds
          /\ pc \in [Threads -> Places]
          /\ sock \in [Threads -> Fds \cup {NoFd}]
          /\ target \in [Threads -> Targets \cup {NoPeer}]
          /\ new_sock \in [Threads -> Fds \cup {NoFd}]
          /\ left \in [Threads -> 0 .. MaxAddrs]
          /\ nonblock \in [Threads -> BOOLEAN]
          /\ ret \in [Threads -> {"none", "original", "ok", "inprogress", "timedout"}]
          /\ before \in [Threads -> Sockets \cup {Closed}]

(* The threads whose hook has a socket of its own open. *)
Holding == {t \in Threads : pc[t] \in Attempting \cup {"made", "dup2", "close"}}

(* Every open descriptor is the application's or that of exactly one hook   *)
(* in progress: whatever fails, no call leaves a socket behind, and no call *)
(* works on a socket that belongs to somebody else.                         *)
NoStrays ==
    /\ {f \in Fds : fd[f] # Closed} = app \cup {new_sock[t] : t \in Holding}
    /\ \A t \in Holding : /\ new_sock[t] \notin app
                         /\ \A u \in Holding : new_sock[u] = new_sock[t] => u = t

(* What the application finds when connect returns.  After a success its    *)
(* descriptor is connected to the address it named and blocks or not as     *)
(* before, and EINPROGRESS is the answer exactly when it does not block;    *)
(* after a failure it is as it was.                                         *)
CallOutcome ==
    \A t \in Threads : pc[t] = "returned" =>
        /\ ret[t] \in {"ok", "inprogress"} =>
              /\ fd[sock[t]] = [before[t] EXCEPT !.peer = target[t]]
              /\ ret[t] = "inprogress" <=> before[t].nonblock
        /\ ret[t] = "timedout" => fd[sock[t]] = before[t]

(* A descriptor that the application is not connecting stays as it is,      *)
(* whatever the hook does meanwhile for other threads.                      *)
OthersUntouched ==
    [][\A f \in (app \cap app') \ Busy : fd'[f] = fd[f]]_vars

(* connect does not hang. *)
CallsReturn == \A t \in Threads : pc[t] = "query" ~> pc[t] = "returned"
=============================================================================
