---------------------------- MODULE ConnectProofs ----------------------------
(***************************************************************************)
(* Theorems about Connect for any threads, descriptor table, targets and   *)
(* number of addresses.  Type correctness and the bound on a call's steps  *)
(* hold always; that calls keep apart, where every target has a name or    *)
(* needs none (the run connect_unnamed shows why); the others where also   *)
(* the application closes no descriptor under a connect.                   *)
(***************************************************************************)
EXTENDS Connect, WellFoundedInduction, TLAPS

(* POSIX's lowest free descriptor exists as long as one is free. *)
LEMMA LowestIsFree == Free # {} => Lowest \in Free
  <1> SUFFICES ASSUME Free # {} PROVE Lowest \in Free  OBVIOUS
  <1> DEFINE below == {ss \in Nat \X Nat : ss[1] < ss[2]}
  <1>1. Free \subseteq Nat  BY FdsAssumption DEF Free
  <1>2. IsWellFoundedOn(below, Nat)  BY NatLessThanWellFounded, Zenon DEF OpToRel
  <1> HIDE DEF below
  <1>3. PICK f \in Free : \A g \in Free : ~(<<g, f>> \in below)
    BY <1>1, <1>2, WFMin
  <1>4. ASSUME NEW g \in Free PROVE f <= g
    <2>1. f \in Nat /\ g \in Nat /\ <<g, f>> \notin below  BY <1>1, <1>3
    <2>2. ~(g < f)  BY <2>1 DEF below
    <2> QED  BY <2>1, <2>2
  <1> QED  BY <1>4 DEF Lowest

-----------------------------------------------------------------------------
(* Type correctness. *)

InCall == \A t \in Threads :
    /\ pc[t] # "app" => sock[t] \in Fds /\ target[t] \in Targets
    /\ t \in Holding => new_sock[t] \in Fds

TypeInv == TypeOK /\ InCall

LEMMA NewSocketType == NewSocket \in Sockets  BY DEF NewSocket, Sockets

LEMMA ClosedIsNoSocket == \A s \in Sockets : s # Closed  BY ClosedAssumption

LEMMA TypeStep == TypeInv /\ [Next]_vars => TypeInv'
  <1> SUFFICES ASSUME TypeInv, [Next]_vars PROVE TypeInv'  OBVIOUS
  <1> USE DEF TypeInv, Go, Fail, Attempting, Holding
  <1>1. CASE AppSocket
    <2>1. Lowest \in Fds  BY <1>1, LowestIsFree DEF AppSocket, Free
    <2>2. PICK flag \in BOOLEAN :
             fd' = [fd EXCEPT ![Lowest] = [NewSocket EXCEPT !.nonblock = flag]]
      BY <1>1 DEF AppSocket
    <2>3. [NewSocket EXCEPT !.nonblock = flag] \in Sockets
      BY NewSocketType DEF Sockets
    <2> QED  BY <1>1, <2>1, <2>2, <2>3 DEF AppSocket, TypeOK, InCall
  <1>2. ASSUME NEW f \in Fds, AppClose(f) PROVE TypeInv'
    BY <1>2 DEF AppClose, TypeOK, InCall
  <1>3. ASSUME NEW t \in Threads, AppTakes(t) PROVE TypeInv'
    BY <1>3, MaxAddrsAssumption DEF AppTakes, TypeOK, InCall, Places
  <1>4. ASSUME NEW t \in Threads, connect(t) PROVE TypeInv'
    <2>1. PICK f \in app \ Busy, d \in Targets :
             /\ sock' = [sock EXCEPT ![t] = f]
             /\ target' = [target EXCEPT ![t] = d]
             /\ before' = [before EXCEPT ![t] = fd[f]]
      BY <1>4 DEF connect
    <2>2. f \in Fds  BY DEF TypeOK
    <2> QED  BY <1>4, <2>1, <2>2 DEF connect, TypeOK, InCall, Places
  <1>5. ASSUME NEW t \in Threads, Hook(t) PROVE TypeInv'
    <2>1. CASE original(t)
      <3>1. fd' \in [Fds -> Sockets \cup {Closed}]
        <4>1. sock[t] \in Fds /\ target[t] \in Targets  BY <2>1 DEF original, InCall
        <4>2. CASE UNCHANGED fd  BY <4>2 DEF TypeOK
        <4>3. CASE ~UNCHANGED fd
          <5>1. /\ fd' = [fd EXCEPT ![sock[t]].peer = target[t]]
                /\ fd[sock[t]] \in Sockets
            BY <2>1, <4>1, <4>3 DEF original, TypeOK
          <5>2. [fd[sock[t]] EXCEPT !.peer = target[t]] \in Sockets
            BY <4>1, <5>1 DEF Sockets
          <5> QED  BY <4>1, <5>1, <5>2 DEF TypeOK
        <4> QED  BY <4>2, <4>3
      <3> QED  BY <2>1, <3>1 DEF original, TypeOK, InCall, Places
    <2>2. CASE query_proxy(t)
      BY <2>2 DEF query_proxy, TypeOK, InCall, Places
    <2>3. ASSUME NEW place \in {"attempt_direct", "attempt_proxied"}, socket(t, place)
          PROVE  /\ fd' \in [Fds -> Sockets \cup {Closed}]
                 /\ new_sock' \in [Threads -> Fds \cup {NoFd}]
                 /\ Free # {} => new_sock'[t] \in Fds
      BY <2>3, LowestIsFree, NewSocketType DEF socket, TypeOK, Free
    <2>4. CASE make_proxied(t)
      <3>1. CASE target[t] \in Unnamed
        BY <2>4, <3>1 DEF make_proxied, TypeOK, InCall, Places
      <3>2. CASE target[t] \notin Unnamed
        BY <2>3, <2>4, <3>2 DEF make_proxied, TypeOK, InCall, Places, socket
      <3> QED  BY <3>1, <3>2
    <2>5. CASE make_direct(t)
      <3>1. CASE left[t] = 0
        BY <2>5, <3>1 DEF make_direct, TypeOK, InCall, Places
      <3>2. CASE left[t] # 0
        <4>1. left' \in [Threads -> 0 .. MaxAddrs]
          BY <2>5, <3>2, MaxAddrsAssumption DEF make_direct, TypeOK
        <4> QED  BY <2>3, <2>5, <3>2, <4>1 DEF make_direct, TypeOK, InCall, Places, socket
      <3> QED  BY <3>1, <3>2
    <2>6. CASE Works(t)
      <3>1. fd' \in [Fds -> Sockets \cup {Closed}]
        BY <2>6 DEF Works, TypeOK, InCall, Sockets
      <3> QED  BY <2>6, <3>1 DEF Works, TypeOK, InCall, Places
    <2>7. CASE Fails(t)
      BY <2>7 DEF Fails, TypeOK, InCall, Places
    <2>8. CASE ReadFlags(t)
      <3>1. nonblock' \in [Threads -> BOOLEAN]
        BY <2>8 DEF ReadFlags, TypeOK, InCall, Sockets
      <3> QED  BY <2>8, <3>1 DEF ReadFlags, TypeOK, InCall, Places
    <2>9. CASE Dup2(t)
      BY <2>9 DEF Dup2, TypeOK, InCall, Places
    <2>10. CASE CloseNew(t)
      BY <2>10 DEF CloseNew, TypeOK, InCall, Places
    <2>11. CASE Return(t)
      <3>1. sock[t] \in Fds  BY <2>11 DEF Return, InCall
      <3>2. CASE nonblock[t]
        <4> DEFINE restored == IF fd[sock[t]] = Closed THEN Closed
                               ELSE [fd[sock[t]] EXCEPT !.nonblock = TRUE]
        <4>1. fd' = [fd EXCEPT ![sock[t]] = restored]
          BY <2>11, <3>2 DEF Return
        <4>2. restored \in Sockets \cup {Closed}
          <5>1. CASE fd[sock[t]] = Closed  BY <5>1
          <5>2. CASE fd[sock[t]] \in Sockets
            <6>1. [fd[sock[t]] EXCEPT !.nonblock = TRUE] \in Sockets
              BY <5>2 DEF Sockets
            <6> QED  BY <5>2, <6>1, ClosedIsNoSocket
          <5> QED  BY <3>1, <5>1, <5>2 DEF TypeOK
        <4> HIDE DEF restored
        <4>3. fd' \in [Fds -> Sockets \cup {Closed}]
          BY <3>1, <4>1, <4>2 DEF TypeOK
        <4> QED  BY <2>11, <3>2, <4>3 DEF Return, TypeOK, InCall, Places
      <3>3. CASE ~nonblock[t]
        BY <2>11, <3>3 DEF Return, TypeOK, InCall, Places
      <3> QED  BY <3>2, <3>3
    <2> QED
      BY <1>5, <2>1, <2>2, <2>4, <2>5, <2>6, <2>7, <2>8, <2>9, <2>10, <2>11 DEF Hook
  <1>6. CASE UNCHANGED vars  BY <1>6 DEF vars, TypeOK, InCall
  <1> QED  BY <1>1, <1>2, <1>3, <1>4, <1>5, <1>6 DEF Next

(* Type correctness, whatever is closed under whom. *)
THEOREM TypeCorrect == Spec => []TypeOK
  <1>1. Init => TypeInv
    BY MaxAddrsAssumption DEF Init, TypeInv, TypeOK, InCall, Holding, Attempting, Places
  <1>2. TypeInv => TypeOK  BY DEF TypeInv
  <1> QED  BY <1>1, <1>2, TypeStep, PTL DEF Spec

-----------------------------------------------------------------------------
(* What holds when every target has a name and nobody closes a socket that  *)
(* is being connected.                                                      *)

(* A call works on a descriptor of the application, and no other call does. *)
OwnSock == \A t \in Threads : pc[t] # "app" =>
    /\ sock[t] \in app /\ before[t] \in Sockets
    /\ \A u \in Threads : pc[u] # "app" /\ sock[u] = sock[t] => u = t

Connected(t) == [peer |-> target[t], nonblock |-> FALSE]

Outcome(t) ==
    /\ ret[t] \in {"ok", "inprogress"} =>
          /\ fd[sock[t]] = [before[t] EXCEPT !.peer = target[t]]
          /\ ret[t] = "inprogress" <=> before[t].nonblock
    /\ ret[t] = "timedout" => fd[sock[t]] = before[t]

(* What a call in progress has made of the two descriptors so far. *)
Progress(t) ==
    /\ pc[t] \in {"query", "direct", "proxied", "attempt_direct", "attempt_proxied",
                  "made", "dup2"} => fd[sock[t]] = before[t]
    /\ pc[t] \in Attempting => fd[new_sock[t]] = NewSocket
    /\ pc[t] \in {"made", "dup2"} => fd[new_sock[t]] = Connected(t)
    /\ pc[t] \in {"dup2", "close", "flags"} => nonblock[t] = before[t].nonblock
    /\ pc[t] \in {"close", "flags"} => fd[sock[t]] = Connected(t)
    /\ pc[t] = "returned" => Outcome(t)

ConnectInv == TypeInv /\ NoStrays /\ OwnSock /\ \A t \in Threads : Progress(t)

(* What a step of t's call leaves alone. *)
Frame(t) ==
    /\ \A f \in Fds : fd'[f] = fd[f] \/ f \in Free \/ f = sock[t]
                      \/ (t \in Holding /\ f = new_sock[t])
    /\ \A u \in Threads \ {t} :
          /\ pc'[u] = pc[u] /\ target'[u] = target[u] /\ new_sock'[u] = new_sock[u]
          /\ nonblock'[u] = nonblock[u] /\ ret'[u] = ret[u]
    /\ UNCHANGED <<app, sock, before>>

LEMMA HookFrame ==
    ASSUME TypeInv, Unnamed = {}, NEW t \in Threads, Hook(t)
    PROVE  Frame(t) /\ pc[t] # "app" /\ pc'[t] # "app"
  <1> USE DEF TypeInv, TypeOK, Frame, Go, Fail, Attempting, Holding
  <1>1. CASE original(t)     BY <1>1 DEF original
  <1>2. CASE query_proxy(t)  BY <1>2 DEF query_proxy
  <1>3. CASE make_proxied(t) BY <1>3, LowestIsFree DEF make_proxied, socket
  <1>4. CASE make_direct(t)  BY <1>4, LowestIsFree DEF make_direct, socket
  <1>5. CASE Works(t)        BY <1>5 DEF Works
  <1>6. CASE Fails(t)        BY <1>6 DEF Fails
  <1>7. CASE ReadFlags(t)    BY <1>7 DEF ReadFlags
  <1>8. CASE Dup2(t)         BY <1>8 DEF Dup2
  <1>9. CASE CloseNew(t)     BY <1>9 DEF CloseNew
  <1>10. CASE Return(t)      BY <1>10 DEF Return
  <1> QED
    BY <1>1, <1>2, <1>3, <1>4, <1>5, <1>6, <1>7, <1>8, <1>9, <1>10 DEF Hook

(* So it disturbs no other call. *)
LEMMA OthersProgress ==
    ASSUME ConnectInv, NEW t \in Threads, Frame(t), pc[t] # "app",
           NEW u \in Threads, u # t
    PROVE  Progress(u)'
  <1> USE DEF ConnectInv
  <1>1. /\ pc'[u] = pc[u] /\ target'[u] = target[u] /\ new_sock'[u] = new_sock[u]
        /\ nonblock'[u] = nonblock[u] /\ ret'[u] = ret[u]
        /\ sock' = sock /\ before' = before
    BY DEF Frame
  <1>2. pc[u] # "app" => fd'[sock[u]] = fd[sock[u]]
    <2> SUFFICES ASSUME pc[u] # "app" PROVE fd'[sock[u]] = fd[sock[u]]  OBVIOUS
    <2>1. sock[u] \in app /\ sock[t] # sock[u]  BY DEF OwnSock
    <2>2. sock[u] \in Fds /\ sock[u] \notin Free  BY <2>1 DEF NoStrays, Free, TypeInv, TypeOK
    <2>3. t \in Holding => new_sock[t] # sock[u]  BY <2>1 DEF NoStrays
    <2> QED  BY <2>1, <2>2, <2>3 DEF Frame
  <1>3. u \in Holding => fd'[new_sock[u]] = fd[new_sock[u]]
    <2> SUFFICES ASSUME u \in Holding PROVE fd'[new_sock[u]] = fd[new_sock[u]]  OBVIOUS
    <2>1. new_sock[u] \in Fds /\ new_sock[u] \notin Free
      BY DEF NoStrays, Free, TypeInv, InCall
    <2>2. new_sock[u] # sock[t]  BY DEF NoStrays, OwnSock
    <2>3. t \in Holding => new_sock[t] # new_sock[u]  BY DEF NoStrays
    <2> QED  BY <2>1, <2>2, <2>3 DEF Frame
  <1>4. Progress(u)  OBVIOUS
  <1> QED
    BY <1>1, <1>2, <1>3, <1>4 DEF Progress, Outcome, Connected, Holding, Attempting

LEMMA OwnSockStep ==
    ASSUME ConnectInv, ~AppAborts, Unnamed = {}, [Next]_vars
    PROVE  OwnSock'
  <1> USE DEF ConnectInv
  <1>1. CASE AppSocket  BY <1>1 DEF AppSocket, OwnSock
  <1>2. ASSUME NEW f \in Fds, AppClose(f) PROVE OwnSock'
    BY <1>2 DEF AppClose, OwnSock, Busy
  <1>3. ASSUME NEW t \in Threads, AppTakes(t) PROVE OwnSock'
    BY <1>3 DEF AppTakes, OwnSock, Go, TypeInv, TypeOK
  <1>4. ASSUME NEW t \in Threads, connect(t) PROVE OwnSock'
    <2>1. PICK f \in app \ Busy : /\ sock' = [sock EXCEPT ![t] = f]
                                  /\ before' = [before EXCEPT ![t] = fd[f]]
      BY <1>4 DEF connect
    <2>2. fd[f] \in Sockets  BY DEF NoStrays, TypeInv, TypeOK
    <2> QED  BY <1>4, <2>1, <2>2 DEF connect, OwnSock, Go, TypeInv, TypeOK, Busy
  <1>5. ASSUME NEW t \in Threads, Hook(t) PROVE OwnSock'
    <2>1. Frame(t) /\ pc[t] # "app"  BY <1>5, HookFrame
    <2> QED  BY <2>1 DEF Frame, OwnSock
  <1>6. CASE UNCHANGED vars  BY <1>6 DEF vars, OwnSock
  <1> QED  BY <1>1, <1>2, <1>3, <1>4, <1>5, <1>6 DEF Next

-----------------------------------------------------------------------------
(* The descriptors that are open stay accounted for. *)

(* A step that opens and closes nothing. *)
LEMMA StraysKept ==
    ASSUME NoStrays, app' = app, Holding' = Holding,
           \A f \in Fds : fd'[f] = Closed <=> fd[f] = Closed,
           \A t \in Holding : new_sock'[t] = new_sock[t]
    PROVE  NoStrays'
  BY DEF NoStrays

(* A step that opens a socket for the hook. *)
LEMMA StraysOpened ==
    ASSUME ConnectInv, NEW t \in Threads, NEW place \in Attempting,
           pc[t] \in {"direct", "proxied"}, Free # {}, Go(t, place),
           fd' = [fd EXCEPT ![Lowest] = NewSocket],
           new_sock' = [new_sock EXCEPT ![t] = Lowest], app' = app
    PROVE  NoStrays'
  <1> USE DEF ConnectInv, TypeInv
  <1>1. /\ Lowest \in Fds /\ fd[Lowest] = Closed /\ Lowest \notin app
        /\ \A u \in Holding : new_sock[u] # Lowest
    BY LowestIsFree DEF Free, NoStrays
  <1>2. Holding' = Holding \cup {t} /\ t \notin Holding
    BY DEF Go, Holding, Attempting, TypeOK
  <1>3. {f \in Fds : fd'[f] # Closed} = {f \in Fds : fd[f] # Closed} \cup {Lowest}
    BY <1>1, NewSocketType, ClosedIsNoSocket DEF TypeOK
  <1>4. \A u \in Holding' : new_sock'[u] = IF u = t THEN Lowest ELSE new_sock[u]
    BY <1>2 DEF Holding, TypeOK
  <1>5. {new_sock'[u] : u \in Holding'} = {new_sock[u] : u \in Holding} \cup {Lowest}
    BY <1>2, <1>4
  <1> QED  BY <1>1, <1>2, <1>3, <1>4, <1>5 DEF NoStrays

(* A step that closes the hook's socket. *)
LEMMA StraysClosed ==
    ASSUME ConnectInv, NEW t \in Holding, Holding' = Holding \ {t},
           fd' = [fd EXCEPT ![new_sock[t]] = Closed],
           new_sock' = new_sock, app' = app
    PROVE  NoStrays'
  <1> USE DEF ConnectInv, TypeInv
  <1>1. new_sock[t] \in Fds /\ new_sock[t] \notin app  BY DEF NoStrays, InCall, Holding
  <1>2. {f \in Fds : fd'[f] # Closed} = {f \in Fds : fd[f] # Closed} \ {new_sock[t]}
    BY <1>1 DEF TypeOK
  <1>3. {new_sock[u] : u \in Holding'} = {new_sock[u] : u \in Holding} \ {new_sock[t]}
    BY DEF NoStrays
  <1> QED  BY <1>1, <1>2, <1>3 DEF NoStrays

LEMMA NoStraysStep ==
    ASSUME ConnectInv, ~AppAborts, Unnamed = {}, [Next]_vars
    PROVE  NoStrays'
  <1> USE DEF ConnectInv, TypeInv
  <1>1. CASE AppSocket
    <2>1. /\ Lowest \in Fds /\ fd[Lowest] = Closed /\ Lowest \notin app
          /\ \A u \in Holding : new_sock[u] # Lowest
      BY <1>1, LowestIsFree DEF AppSocket, Free, NoStrays
    <2>2. PICK flag \in BOOLEAN :
             fd' = [fd EXCEPT ![Lowest] = [NewSocket EXCEPT !.nonblock = flag]]
      BY <1>1 DEF AppSocket
    <2>3. [NewSocket EXCEPT !.nonblock = flag] \in Sockets
      BY NewSocketType DEF Sockets
    <2>4. {f \in Fds : fd'[f] # Closed} = {f \in Fds : fd[f] # Closed} \cup {Lowest}
      BY <2>1, <2>2, <2>3, ClosedIsNoSocket DEF TypeOK
    <2>5. Holding' = Holding /\ new_sock' = new_sock /\ app' = app \cup {Lowest}
      BY <1>1 DEF AppSocket, Holding
    <2> QED  BY <2>1, <2>4, <2>5 DEF NoStrays
  <1>2. ASSUME NEW f \in Fds, AppClose(f) PROVE NoStrays'
    <2>1. {g \in Fds : fd'[g] # Closed} = {g \in Fds : fd[g] # Closed} \ {f}
      BY <1>2 DEF AppClose, TypeOK
    <2>2. /\ f \in app /\ Holding' = Holding /\ new_sock' = new_sock
          /\ app' = app \ {f}
      BY <1>2 DEF AppClose, Holding
    <2> QED  BY <2>1, <2>2 DEF NoStrays
  <1>3. ASSUME NEW t \in Threads, AppTakes(t) \/ connect(t) PROVE NoStrays'
    <2>1. Holding' = Holding /\ t \notin Holding /\ app' = app /\ fd' = fd
      BY <1>3 DEF AppTakes, connect, Go, Holding, Attempting, TypeOK
    <2>2. \A u \in Holding : new_sock'[u] = new_sock[u]
      BY <1>3, <2>1 DEF AppTakes, connect, Holding, TypeOK
    <2> QED  BY <2>1, <2>2, StraysKept
  <1>4. ASSUME NEW t \in Threads, Hook(t) PROVE NoStrays'
    <2> USE DEF Go, Fail, Attempting
    <2>1. CASE original(t)
      <3>1. Holding' = Holding  BY <2>1 DEF original, Holding, TypeOK
      <3>2. \A f \in Fds : fd'[f] = Closed <=> fd[f] = Closed
        <4>1. CASE fd' = fd  BY <4>1
        <4>2. CASE fd' # fd
          <5>1. /\ fd[sock[t]] \in Sockets /\ target[t] \in Targets
                /\ fd' = [fd EXCEPT ![sock[t]].peer = target[t]]
            BY <2>1, <4>2 DEF original, TypeOK, InCall
          <5>2. [fd[sock[t]] EXCEPT !.peer = target[t]] \in Sockets
            BY <5>1 DEF Sockets
          <5> QED  BY <5>1, <5>2, ClosedIsNoSocket DEF TypeOK
        <4> QED  BY <4>1, <4>2
      <3> QED  BY <2>1, <3>1, <3>2, StraysKept DEF original
    <2>2. CASE query_proxy(t)
      <3>1. Holding' = Holding  BY <2>2 DEF query_proxy, Holding, TypeOK
      <3> QED  BY <2>2, <3>1, StraysKept DEF query_proxy
    <2>3. CASE make_proxied(t)
      <3>1. CASE Free # {}
        BY <2>3, <3>1, StraysOpened DEF make_proxied, socket
      <3>2. CASE Free = {}
        <4>1. Holding' = Holding /\ t \notin Holding
          BY <2>3, <3>2 DEF make_proxied, socket, Holding, TypeOK
        <4>2. \A u \in Holding : new_sock'[u] = new_sock[u]
          BY <2>3, <3>2, <4>1 DEF make_proxied, socket, Holding, TypeOK
        <4> QED  BY <2>3, <3>2, <4>1, <4>2, StraysKept DEF make_proxied, socket
      <3> QED  BY <3>1, <3>2
    <2>4. CASE make_direct(t)
      <3>1. CASE left[t] > 0 /\ Free # {}
        BY <2>4, <3>1, StraysOpened DEF make_direct, socket
      <3>2. CASE ~(left[t] > 0 /\ Free # {})
        <4>1. Holding' = Holding /\ t \notin Holding
          BY <2>4, <3>2 DEF make_direct, socket, Holding, TypeOK
        <4>2. \A u \in Holding : new_sock'[u] = new_sock[u]
          BY <2>4, <3>2, <4>1 DEF make_direct, socket, Holding, TypeOK
        <4> QED  BY <2>4, <3>2, <4>1, <4>2, StraysKept DEF make_direct, socket
      <3> QED  BY <3>1, <3>2
    <2>5. CASE Works(t)
      <3>1. Holding' = Holding  BY <2>5 DEF Works, Holding, TypeOK
      <3>2. /\ new_sock[t] \in Fds /\ target[t] \in Targets
            /\ fd[new_sock[t]] \in Sockets
        BY <2>5 DEF Works, Holding, TypeOK, InCall
      <3>3. [fd[new_sock[t]] EXCEPT !.peer = target[t]] \in Sockets
        BY <3>2 DEF Sockets
      <3>4. \A f \in Fds : fd'[f] = Closed <=> fd[f] = Closed
        BY <2>5, <3>2, <3>3, ClosedIsNoSocket DEF Works, TypeOK
      <3> QED  BY <2>5, <3>1, <3>4, StraysKept DEF Works
    <2>6. CASE Fails(t)
      <3>1. t \in Holding /\ Holding' = Holding \ {t}
        BY <2>6 DEF Fails, Holding, TypeOK
      <3> QED  BY <2>6, <3>1, StraysClosed DEF Fails
    <2>7. CASE ReadFlags(t)
      <3>1. Holding' = Holding  BY <2>7 DEF ReadFlags, Holding, TypeOK
      <3> QED  BY <2>7, <3>1, StraysKept DEF ReadFlags
    <2>8. CASE Dup2(t)
      <3>1. Holding' = Holding /\ t \in Holding  BY <2>8 DEF Dup2, Holding, TypeOK
      <3>2. fd[new_sock[t]] # Closed /\ fd[sock[t]] # Closed
        BY <2>8, <3>1 DEF Dup2, NoStrays, OwnSock
      <3> QED  BY <2>8, <3>1, <3>2, StraysKept DEF Dup2, TypeOK
    <2>9. CASE CloseNew(t)
      <3>1. t \in Holding /\ Holding' = Holding \ {t}
        BY <2>9 DEF CloseNew, Holding, TypeOK
      <3> QED  BY <2>9, <3>1, StraysClosed DEF CloseNew
    <2>10. CASE Return(t)
      <3>1. Holding' = Holding  BY <2>10 DEF Return, Holding, TypeOK
      <3>2. fd[sock[t]] \in Sockets /\ sock[t] \in Fds
        BY <2>10 DEF Return, NoStrays, OwnSock, TypeOK
      <3>3. [fd[sock[t]] EXCEPT !.nonblock = TRUE] \in Sockets
        BY <3>2 DEF Sockets
      <3>4. \A f \in Fds : fd'[f] = Closed <=> fd[f] = Closed
        BY <2>10, <3>2, <3>3, ClosedIsNoSocket DEF Return, TypeOK
      <3> QED  BY <2>10, <3>1, <3>4, StraysKept DEF Return
    <2> QED
      BY <1>4, <2>1, <2>2, <2>3, <2>4, <2>5, <2>6, <2>7, <2>8, <2>9, <2>10 DEF Hook
  <1>5. CASE UNCHANGED vars  BY <1>5 DEF vars, NoStrays, Holding
  <1> QED  BY <1>1, <1>2, <1>3, <1>4, <1>5 DEF Next

-----------------------------------------------------------------------------
(* A call gets on with its own two descriptors. *)

LEMMA PeerIsSet ==
    ASSUME NEW s \in Sockets, NEW d
    PROVE  [s EXCEPT !.peer = d] = [peer |-> d, nonblock |-> s.nonblock]
  BY DEF Sockets

LEMMA OwnProgress ==
    ASSUME ConnectInv, Unnamed = {}, NEW t \in Threads, Hook(t)
    PROVE  Progress(t)'
  <1> USE DEF ConnectInv, TypeInv, Go, Fail
  <1>1. /\ sock[t] \in Fds /\ target[t] \in Targets /\ before[t] \in Sockets
        /\ fd[sock[t]] \in Sockets /\ sock[t] \in app
    <2>1. pc[t] # "app"  BY HookFrame
    <2> QED  BY <2>1 DEF OwnSock, NoStrays, TypeOK, InCall
  <1>2. sock' = sock /\ before' = before /\ pc \in [Threads -> Places]
    BY HookFrame DEF Frame, TypeOK
  <1>3. ASSUME t \in Holding
        PROVE  /\ new_sock[t] \in Fds /\ new_sock[t] # sock[t]
               /\ fd[new_sock[t]] \in Sockets
    BY <1>1, <1>3 DEF NoStrays, TypeOK, InCall
  <1>4. Progress(t)  OBVIOUS
  <1>5. CASE original(t)
    <2>1. pc'[t] = "returned" /\ ret'[t] = "original"
      BY <1>5 DEF original, TypeOK
    <2> QED  BY <2>1 DEF Progress, Outcome, Attempting
  <1>6. CASE query_proxy(t)
    <2>1. pc'[t] \in {"direct", "proxied"}  BY <1>6 DEF query_proxy, TypeOK
    <2> QED  BY <1>2, <1>4, <1>6, <2>1 DEF query_proxy, Progress, Attempting
  <1>7. ASSUME NEW place \in Attempting, socket(t, place), Free # {},
               pc[t] \in {"direct", "proxied"}
        PROVE  Progress(t)'
    <2>1. Lowest \in Fds /\ Lowest # sock[t]
      BY <1>1, <1>7, LowestIsFree, ClosedIsNoSocket DEF Free
    <2>2. /\ fd'[sock[t]] = fd[sock[t]] /\ new_sock'[t] = Lowest
          /\ fd'[Lowest] = NewSocket /\ pc'[t] = place
      BY <1>1, <1>7, <2>1 DEF socket, TypeOK
    <2> QED  BY <1>2, <1>4, <1>7, <2>2 DEF Progress, Attempting
  <1>8. ASSUME fd'[sock[t]] = fd[sock[t]], pc[t] \in Attempting \cup {"direct", "proxied"},
               \/ pc'[t] = "returned" /\ ret'[t] = "timedout"
               \/ pc'[t] = "direct"
        PROVE  Progress(t)'
    BY <1>2, <1>4, <1>8 DEF Progress, Outcome, Attempting
  <1>9. CASE make_proxied(t)
    <2>1. CASE Free # {}
      BY <1>7, <1>9, <2>1 DEF make_proxied, socket, Attempting
    <2>2. CASE Free = {}
      BY <1>8, <1>9, <2>2 DEF make_proxied, socket, TypeOK
    <2> QED  BY <2>1, <2>2
  <1>10. CASE make_direct(t)
    <2>1. CASE left[t] > 0 /\ Free # {}
      BY <1>7, <1>10, <2>1 DEF make_direct, socket, Attempting
    <2>2. CASE ~(left[t] > 0 /\ Free # {})
      BY <1>8, <1>10, <2>2 DEF make_direct, socket, TypeOK
    <2> QED  BY <2>1, <2>2
  <1>11. CASE Works(t)
    <2>1. t \in Holding /\ pc'[t] = "made"  BY <1>11 DEF Works, Holding, TypeOK
    <2>2. fd'[sock[t]] = fd[sock[t]]  BY <1>3, <1>11, <2>1 DEF Works, TypeOK
    <2>3. fd'[new_sock[t]] = [fd[new_sock[t]] EXCEPT !.peer = target[t]]
      BY <1>3, <1>11, <2>1 DEF Works, TypeOK
    <2>4. fd[new_sock[t]] = NewSocket  BY <1>4, <1>11 DEF Works, Progress
    <2>5. fd'[new_sock[t]] = Connected(t)
      <3>1. [NewSocket EXCEPT !.peer = target[t]] = Connected(t)
        BY NewSocketType, PeerIsSet DEF NewSocket, Connected
      <3> QED  BY <2>3, <2>4, <3>1, Zenon
    <2>6. new_sock' = new_sock /\ target' = target  BY <1>11 DEF Works
    <2>7. Connected(t)' = Connected(t)  BY <2>6 DEF Connected
    <2> QED
      BY <1>2, <1>4, <1>11, <2>1, <2>2, <2>5, <2>6, <2>7 DEF Works, Progress, Attempting
  <1>12. CASE Fails(t)
    <2>1. t \in Holding  BY <1>12 DEF Fails, Holding
    <2>2. fd'[sock[t]] = fd[sock[t]]  BY <1>1, <1>3, <1>12, <2>1 DEF Fails, TypeOK
    <2> QED  BY <1>8, <1>12, <2>2 DEF Fails, Attempting, TypeOK
  <1>13. CASE ReadFlags(t)
    <2>1. pc'[t] = "dup2" /\ nonblock'[t] = fd[sock[t]].nonblock
      BY <1>1, <1>13, ClosedIsNoSocket DEF ReadFlags, TypeOK, Sockets
    <2>2. UNCHANGED <<fd, target, new_sock>> /\ pc[t] = "made"  BY <1>13 DEF ReadFlags
    <2>3. fd[sock[t]] = before[t] /\ fd[new_sock[t]] = Connected(t)
      BY <1>4, <2>2 DEF Progress
    <2> QED  BY <1>2, <2>1, <2>2, <2>3 DEF Progress, Attempting, Connected
  <1>14. CASE Dup2(t)
    <2>1. pc'[t] = "close" /\ t \in Holding  BY <1>14 DEF Dup2, Holding, TypeOK
    <2>2. fd'[sock[t]] = Connected(t)
      BY <1>1, <1>3, <1>4, <1>14, <2>1, ClosedIsNoSocket DEF Dup2, Progress, TypeOK
    <2>3. UNCHANGED <<target, nonblock>> /\ nonblock[t] = before[t].nonblock
      BY <1>4, <1>14 DEF Dup2, Progress
    <2> QED  BY <1>2, <2>1, <2>2, <2>3 DEF Progress, Attempting, Connected
  <1>15. CASE CloseNew(t)
    <2>1. pc'[t] = "flags" /\ t \in Holding  BY <1>15 DEF CloseNew, Holding, TypeOK
    <2>2. fd'[sock[t]] = Connected(t)
      BY <1>1, <1>3, <1>4, <1>15, <2>1 DEF CloseNew, Progress, TypeOK
    <2>3. UNCHANGED <<target, nonblock>> /\ nonblock[t] = before[t].nonblock
      BY <1>4, <1>15 DEF CloseNew, Progress
    <2> QED  BY <1>2, <2>1, <2>2, <2>3 DEF Progress, Attempting, Connected
  <1>16. CASE Return(t)
    <2>1. /\ fd[sock[t]] = Connected(t) /\ nonblock[t] = before[t].nonblock
          /\ pc'[t] = "returned" /\ target' = target
      BY <1>4, <1>16 DEF Return, Progress, TypeOK
    <2>2. CASE nonblock[t]
      <3>1. /\ fd'[sock[t]] = [fd[sock[t]] EXCEPT !.nonblock = TRUE]
            /\ ret'[t] = "inprogress"
        BY <1>1, <1>16, <2>2, ClosedIsNoSocket DEF Return, TypeOK, Sockets
      <3>2. [fd[sock[t]] EXCEPT !.nonblock = TRUE] = [before[t] EXCEPT !.peer = target[t]]
        <4>1. fd[sock[t]].peer = target[t]  BY <2>1 DEF Connected
        <4>2. before[t].nonblock = TRUE
          BY <1>1, <2>1, <2>2 DEF TypeOK, Sockets
        <4> QED  BY <1>1, <4>1, <4>2 DEF Sockets
      <3> QED  BY <1>2, <2>1, <2>2, <3>1, <3>2 DEF Progress, Outcome, Attempting
    <2>3. CASE ~nonblock[t]
      <3>1. fd' = fd /\ ret'[t] = "ok"
        BY <1>16, <2>3 DEF Return, TypeOK
      <3>2. Connected(t) = [before[t] EXCEPT !.peer = target[t]]
        <4>1. before[t].nonblock = FALSE
          BY <1>1, <2>1, <2>3 DEF TypeOK, Sockets
        <4> QED  BY <1>1, <4>1, PeerIsSet, Zenon DEF Connected
      <3> QED  BY <1>2, <2>1, <2>3, <3>1, <3>2 DEF Progress, Outcome, Attempting
    <2> QED  BY <2>2, <2>3
  <1> QED
    BY <1>5, <1>6, <1>9, <1>10, <1>11, <1>12, <1>13, <1>14, <1>15, <1>16 DEF Hook

LEMMA ProgressStep ==
    ASSUME ConnectInv, ~AppAborts, Unnamed = {}, [Next]_vars, NEW u \in Threads
    PROVE  Progress(u)'
  <1> USE DEF ConnectInv, TypeInv
  <1>1. CASE AppSocket
    <2>1. Lowest \in Free  BY <1>1, LowestIsFree DEF AppSocket
    <2>2. pc[u] # "app" => fd'[sock[u]] = fd[sock[u]]
      BY <1>1, <2>1 DEF AppSocket, OwnSock, NoStrays, Free, TypeOK
    <2>3. u \in Holding => fd'[new_sock[u]] = fd[new_sock[u]]
      BY <1>1, <2>1 DEF AppSocket, NoStrays, Free, TypeOK, InCall
    <2>4. UNCHANGED <<pc, sock, target, new_sock, nonblock, ret, before>>
      BY <1>1 DEF AppSocket
    <2> QED  BY <2>2, <2>3, <2>4 DEF Progress, Outcome, Connected, Holding, Attempting
  <1>2. ASSUME NEW f \in Fds, AppClose(f) PROVE Progress(u)'
    <2>1. pc[u] # "app" => fd'[sock[u]] = fd[sock[u]]
      BY <1>2 DEF AppClose, Busy, TypeOK, InCall
    <2>2. u \in Holding => fd'[new_sock[u]] = fd[new_sock[u]]
      BY <1>2 DEF AppClose, NoStrays, TypeOK, InCall
    <2>3. UNCHANGED <<pc, sock, target, new_sock, nonblock, ret, before>>
      BY <1>2 DEF AppClose
    <2> QED  BY <2>1, <2>2, <2>3 DEF Progress, Outcome, Connected, Holding, Attempting
  <1>3. ASSUME NEW t \in Threads, AppTakes(t) PROVE Progress(u)'
    <2>1. CASE u = t
      BY <1>3, <2>1 DEF AppTakes, Go, TypeOK, Progress, Attempting
    <2>2. CASE u # t
      BY <1>3, <2>2 DEF AppTakes, Go, TypeOK, Progress, Outcome, Connected
    <2> QED  BY <2>1, <2>2
  <1>4. ASSUME NEW t \in Threads, connect(t) PROVE Progress(u)'
    <2>1. CASE u = t
      BY <1>4, <2>1 DEF connect, Go, TypeOK, Progress, Attempting
    <2>2. CASE u # t
      BY <1>4, <2>2 DEF connect, Go, TypeOK, Progress, Outcome, Connected
    <2> QED  BY <2>1, <2>2
  <1>5. ASSUME NEW t \in Threads, Hook(t) PROVE Progress(u)'
    BY <1>5, HookFrame, OthersProgress, OwnProgress
  <1>6. CASE UNCHANGED vars
    BY <1>6 DEF vars, Progress, Outcome, Connected
  <1> QED  BY <1>1, <1>2, <1>3, <1>4, <1>5, <1>6 DEF Next

LEMMA ConnectInvariant ==
    ASSUME ~AppAborts, Unnamed = {} PROVE Spec => []ConnectInv
  <1>1. Init => ConnectInv
    <2> SUFFICES ASSUME Init PROVE ConnectInv  OBVIOUS
    <2>1. TypeInv
      BY MaxAddrsAssumption
      DEF Init, TypeInv, TypeOK, InCall, Holding, Attempting, Places
    <2>2. Holding = {} /\ app = {} /\ \A f \in Fds : fd[f] = Closed
      BY DEF Init, Holding, Attempting
    <2>3. NoStrays  BY <2>2 DEF NoStrays
    <2>4. OwnSock /\ \A t \in Threads : Progress(t)
      BY DEF Init, OwnSock, Progress, Attempting
    <2> QED  BY <2>1, <2>3, <2>4 DEF ConnectInv
  <1>2. ConnectInv /\ [Next]_vars => ConnectInv'
    BY TypeStep, OwnSockStep, NoStraysStep, ProgressStep DEF ConnectInv
  <1> QED  BY <1>1, <1>2, PTL DEF Spec

(* Whatever fails in whatever order, no call leaves a socket behind or works *)
(* on one that is not its own.                                               *)
THEOREM NothingStrays ==
    ASSUME ~AppAborts, Unnamed = {} PROVE Spec => []NoStrays
  <1>1. ConnectInv => NoStrays  BY DEF ConnectInv
  <1> QED  BY <1>1, ConnectInvariant, PTL

(* What the application finds in its descriptor fits the outcome that it is  *)
(* told.                                                                     *)
THEOREM CallsAreTrue ==
    ASSUME ~AppAborts, Unnamed = {} PROVE Spec => []CallOutcome
  <1>1. ConnectInv => CallOutcome
    BY DEF ConnectInv, Progress, Outcome, CallOutcome
  <1> QED  BY <1>1, ConnectInvariant, PTL

-----------------------------------------------------------------------------
(* A call is a bounded number of steps. *)

(* How many steps of a call are left at most: for each address a socket and *)
(* an attempt, then those that hand the connection over.                    *)
StepsLeft(t) ==
    CASE pc[t] = "query"           -> 2 * MaxAddrs + 7
      [] pc[t] = "proxied"         -> 6
      [] pc[t] = "attempt_proxied" -> 5
      [] pc[t] = "direct"          -> 2 * left[t] + 5
      [] pc[t] = "attempt_direct"  -> 2 * left[t] + 6
      [] pc[t] = "made"            -> 4
      [] pc[t] = "dup2"            -> 3
      [] pc[t] = "close"           -> 2
      [] pc[t] = "flags"           -> 1
      [] OTHER                     -> 0

(* connect gets nearer to its end with every step that it takes, and        *)
(* nothing that other threads do takes it further from it.                  *)
CallsShorten ==
    [][\A t \in Threads : /\ Hook(t) => StepsLeft(t)' < StepsLeft(t)
                          /\ pc[t] # "app" => StepsLeft(t)' <= StepsLeft(t)]_vars

LEMMA StepsLeftType ==
    ASSUME TypeOK, NEW t \in Threads PROVE StepsLeft(t) \in 0 .. 2 * MaxAddrs + 7
  BY MaxAddrsAssumption DEF TypeOK, StepsLeft

LEMMA HookShortens ==
    ASSUME TypeOK, NEW t \in Threads, Hook(t)
    PROVE  /\ StepsLeft(t)' < StepsLeft(t)
           /\ \A u \in Threads \ {t} : StepsLeft(u)' = StepsLeft(u)
  <1> USE DEF TypeOK, Go, Fail, StepsLeft
  <1>0. MaxAddrs \in Nat  BY MaxAddrsAssumption
  <1>1. CASE original(t)     BY <1>0, <1>1 DEF original
  <1>2. CASE query_proxy(t)
    <2>1. CASE pc' = [pc EXCEPT ![t] = "proxied"] /\ left' = left
      BY <1>0, <1>2, <2>1 DEF query_proxy
    <2>2. ASSUME NEW n \in 0 .. MaxAddrs, pc' = [pc EXCEPT ![t] = "direct"],
                 left' = [left EXCEPT ![t] = n]
          PROVE  /\ StepsLeft(t)' < StepsLeft(t)
                 /\ \A u \in Threads \ {t} : StepsLeft(u)' = StepsLeft(u)
      BY <1>0, <1>2, <2>2 DEF query_proxy
    <2> QED  BY <1>2, <2>1, <2>2 DEF query_proxy
  <1>3. CASE make_proxied(t) BY <1>0, <1>3 DEF make_proxied, socket
  <1>4. CASE make_direct(t)
    <2>1. CASE left[t] = 0  BY <1>0, <1>4, <2>1 DEF make_direct
    <2>2. CASE left[t] # 0
      <3>1. /\ pc[t] = "direct" /\ left' = [left EXCEPT ![t] = left[t] - 1]
            /\ \/ pc' = [pc EXCEPT ![t] = "attempt_direct"]
               \/ pc' = pc
        BY <1>4, <2>2 DEF make_direct, socket
      <3> QED  BY <1>0, <2>2, <3>1
    <2> QED  BY <2>1, <2>2
  <1>5. CASE Works(t)        BY <1>0, <1>5 DEF Works, Attempting
  <1>6. CASE Fails(t)        BY <1>0, <1>6 DEF Fails, Attempting
  <1>7. CASE ReadFlags(t)    BY <1>7 DEF ReadFlags
  <1>8. CASE Dup2(t)         BY <1>8 DEF Dup2
  <1>9. CASE CloseNew(t)     BY <1>9 DEF CloseNew
  <1>10. CASE Return(t)      BY <1>10 DEF Return
  <1> QED
    BY <1>1, <1>2, <1>3, <1>4, <1>5, <1>6, <1>7, <1>8, <1>9, <1>10 DEF Hook

(* So it is 2 * MaxAddrs + 7 steps at most, whatever fails and whatever    *)
(* the application closes meanwhile.                                        *)
THEOREM CallsAreBounded ==
    Spec => CallsShorten /\ [](\A t \in Threads : StepsLeft(t) \in 0 .. 2 * MaxAddrs + 7)
  <1>1. TypeOK => \A t \in Threads : StepsLeft(t) \in 0 .. 2 * MaxAddrs + 7
    BY StepsLeftType
  <1>2. ASSUME TypeOK, TypeOK', [Next]_vars
        PROVE  [\A t \in Threads : /\ Hook(t) => StepsLeft(t)' < StepsLeft(t)
                                   /\ pc[t] # "app" => StepsLeft(t)' <= StepsLeft(t)]_vars
    <2> SUFFICES ASSUME Next, NEW t \in Threads
                 PROVE  /\ Hook(t) => StepsLeft(t)' < StepsLeft(t)
                        /\ pc[t] # "app" => StepsLeft(t)' <= StepsLeft(t)
      BY <1>2
    <2>1. StepsLeft(t) \in Nat  BY <1>2, StepsLeftType, MaxAddrsAssumption
    <2>2. StepsLeft(t)' \in Nat
      <3>1. MaxAddrs \in Nat /\ left'[t] \in Nat  BY <1>2, MaxAddrsAssumption DEF TypeOK
      <3> QED  BY <3>1 DEF StepsLeft
    <2>3. ASSUME NEW u \in Threads, Hook(u) PROVE StepsLeft(t)' <= StepsLeft(t)
      <3>1. CASE u = t  BY <1>2, <2>1, <2>2, <2>3, <3>1, HookShortens
      <3>2. CASE u # t  BY <1>2, <2>1, <2>2, <2>3, <3>2, HookShortens
      <3> QED  BY <3>1, <3>2
    <2>4. CASE AppSocket \/ \E f \in Fds : AppClose(f)
      <3>1. pc' = pc /\ left' = left  BY <2>4 DEF AppSocket, AppClose
      <3>2. StepsLeft(t)' = StepsLeft(t)  BY <3>1 DEF StepsLeft
      <3> QED  BY <1>2, <2>1, <3>2, HookShortens
    <2>5. ASSUME NEW u \in Threads, connect(u) \/ AppTakes(u), pc[t] # "app"
          PROVE  StepsLeft(t)' <= StepsLeft(t)
      <3>1. CASE u = t
        BY <1>2, <2>5, <3>1 DEF connect, AppTakes, Go, StepsLeft, TypeOK
      <3>2. CASE u # t
        <4>1. pc'[t] = pc[t] /\ left'[t] = left[t]
          BY <1>2, <2>5, <3>2 DEF connect, AppTakes, Go, TypeOK
        <4> QED  BY <2>1, <4>1 DEF StepsLeft
      <3> QED  BY <3>1, <3>2
    <2>6. Hook(t) => StepsLeft(t)' < StepsLeft(t)  BY <1>2, HookShortens
    <2> QED  BY <2>3, <2>4, <2>5, <2>6 DEF Next
  <1> QED  BY <1>1, <1>2, TypeCorrect, PTL DEF Spec, CallsShorten

-----------------------------------------------------------------------------
(* Calls keep apart, whatever the application closes under them. *)

Apart ==
    /\ \A f \in app : fd[f] # Closed
    /\ \A t \in Holding :
          /\ fd[new_sock[t]] # Closed /\ new_sock[t] \notin app
          /\ \A u \in Holding : new_sock[u] = new_sock[t] => u = t

ApartInv == TypeInv /\ Apart

(* A step that keeps open what the application and the other calls have.    *)
LEMMA ApartKept ==
    ASSUME ApartInv, app' = app, Holding' \subseteq Holding,
           \A f \in app : fd'[f] # Closed,
           \A t \in Holding' : new_sock'[t] = new_sock[t] /\ fd'[new_sock[t]] # Closed
    PROVE  Apart'
  BY DEF ApartInv, Apart

LEMMA ApartStep ==
    ASSUME ApartInv, Unnamed = {}, [Next]_vars
    PROVE  Apart'
  <1> USE DEF ApartInv, TypeInv
  <1>1. CASE AppSocket
    <2>1. Lowest \in Fds /\ fd[Lowest] = Closed  BY <1>1, LowestIsFree DEF AppSocket, Free
    <2>2. PICK flag \in BOOLEAN :
             fd' = [fd EXCEPT ![Lowest] = [NewSocket EXCEPT !.nonblock = flag]]
      BY <1>1 DEF AppSocket
    <2>3. [NewSocket EXCEPT !.nonblock = flag] \in Sockets
      BY NewSocketType DEF Sockets
    <2>4. \A f \in Fds : fd'[f] # Closed <=> f = Lowest \/ fd[f] # Closed
      BY <2>1, <2>2, <2>3, ClosedIsNoSocket DEF TypeOK
    <2>5. Holding' = Holding /\ new_sock' = new_sock /\ app' = app \cup {Lowest}
      BY <1>1 DEF AppSocket, Holding
    <2>6. app \subseteq Fds /\ \A u \in Holding : new_sock[u] \in Fds
      BY DEF TypeOK, InCall, Holding
    <2> QED  BY <2>1, <2>4, <2>5, <2>6 DEF Apart
  <1>2. ASSUME NEW f \in Fds, AppClose(f) PROVE Apart'
    <2>1. /\ f \in app /\ Holding' = Holding /\ new_sock' = new_sock
          /\ app' = app \ {f} /\ fd' = [fd EXCEPT ![f] = Closed]
      BY <1>2 DEF AppClose, Holding
    <2> QED  BY <2>1 DEF Apart, TypeOK, InCall
  <1>3. ASSUME NEW t \in Threads, AppTakes(t) \/ connect(t) PROVE Apart'
    <2>1. Holding' = Holding /\ t \notin Holding /\ app' = app /\ fd' = fd
      BY <1>3 DEF AppTakes, connect, Go, Holding, Attempting, TypeOK
    <2>2. \A u \in Holding : new_sock'[u] = new_sock[u]
      BY <1>3, <2>1 DEF AppTakes, connect, Holding, TypeOK
    <2> QED  BY <2>1, <2>2, ApartKept DEF Apart
  <1>4. ASSUME NEW t \in Threads, Hook(t) PROVE Apart'
    <2>1. Frame(t) /\ pc[t] # "app"  BY <1>4, HookFrame
    <2>2. CASE make_proxied(t) \/ make_direct(t)
      <3>1. t \notin Holding  BY <2>2 DEF make_proxied, make_direct, Holding, Attempting
      <3>2. CASE Free # {} /\ new_sock'[t] = Lowest /\ fd' = [fd EXCEPT ![Lowest] = NewSocket]
        <4>1. Lowest \in Fds /\ fd[Lowest] = Closed  BY <3>2, LowestIsFree DEF Free
        <4>2. \A f \in Fds : fd'[f] # Closed <=> f = Lowest \/ fd[f] # Closed
          BY <3>2, <4>1, NewSocketType, ClosedIsNoSocket DEF TypeOK
        <4>3. Holding' \subseteq Holding \cup {t} /\ app' = app
              /\ \A u \in Holding : u # t /\ new_sock'[u] = new_sock[u]
          BY <2>1, <3>1 DEF Frame, Holding
        <4> QED  BY <3>2, <4>1, <4>2, <4>3 DEF Apart, TypeOK, InCall
      <3>3. CASE fd' = fd /\ Holding' = Holding
        <4>1. \A u \in Holding : new_sock'[u] = new_sock[u]  BY <2>1, <3>1 DEF Frame, Holding
        <4> QED  BY <2>1, <3>3, <4>1, ApartKept DEF Frame, Apart
      <3> QED
        BY <2>2, <3>1, <3>2, <3>3
           DEF make_proxied, make_direct, socket, Go, Fail, Holding, Attempting, TypeOK
    <2>3. CASE Fails(t) \/ CloseNew(t)
      <3>1. t \in Holding /\ Holding' = Holding \ {t}
        BY <2>3 DEF Fails, CloseNew, Go, Fail, Holding, Attempting, TypeOK
      <3>2. fd' = [fd EXCEPT ![new_sock[t]] = Closed] /\ new_sock' = new_sock /\ app' = app
        BY <2>3 DEF Fails, CloseNew
      <3>3. \A f \in app : fd'[f] = fd[f]
        BY <3>1, <3>2 DEF Apart, TypeOK
      <3>4. \A u \in Holding' : fd'[new_sock[u]] = fd[new_sock[u]]
        BY <3>1, <3>2 DEF Apart, TypeOK, InCall
      <3> QED  BY <3>1, <3>2, <3>3, <3>4, ApartKept DEF Apart
    <2>4. CASE original(t) \/ query_proxy(t) \/ Works(t) \/ ReadFlags(t) \/ Dup2(t) \/ Return(t)
      <3>1. Holding' = Holding /\ new_sock' = new_sock /\ app' = app
        BY <2>4 DEF original, query_proxy, Works, ReadFlags, Dup2, Return, Go, Holding, Attempting,
                    TypeOK
      <3>2. \A f \in Fds : fd[f] # Closed => fd'[f] # Closed
        <4>1. CASE query_proxy(t) \/ ReadFlags(t)  BY <4>1 DEF query_proxy, ReadFlags
        <4>2. ASSUME NEW f \in Fds, fd[f] \in Sockets, NEW d \in Targets,
                     fd' = [fd EXCEPT ![f].peer = d]
              PROVE  \A g \in Fds : fd[g] # Closed => fd'[g] # Closed
          <5>1. [fd[f] EXCEPT !.peer = d] \in Sockets  BY <4>2 DEF Sockets
          <5> QED  BY <4>2, <5>1, ClosedIsNoSocket DEF TypeOK
        <4>3. CASE original(t)
          <5>1. sock[t] \in Fds /\ target[t] \in Targets  BY <2>1 DEF InCall
          <5> QED  BY <4>2, <4>3, <5>1 DEF original, TypeOK
        <4>4. CASE Works(t)
          <5>1. new_sock[t] \in Fds /\ target[t] \in Targets
            BY <2>1, <4>4 DEF Works, Holding, InCall
          <5> QED  BY <4>2, <4>4, <5>1 DEF Works, TypeOK
        <4>5. CASE Dup2(t)  BY <4>5 DEF Dup2, TypeOK
        <4>6. CASE Return(t)
          <5>1. sock[t] \in Fds  BY <2>1 DEF InCall
          <5>2. CASE nonblock[t] /\ fd[sock[t]] \in Sockets
            <6>1. [fd[sock[t]] EXCEPT !.nonblock = TRUE] \in Sockets  BY <5>2 DEF Sockets
            <6>2. fd' = [fd EXCEPT ![sock[t]] = [fd[sock[t]] EXCEPT !.nonblock = TRUE]]
              BY <4>6, <5>2, ClosedIsNoSocket DEF Return
            <6> QED  BY <5>1, <6>1, <6>2, ClosedIsNoSocket DEF TypeOK
          <5>3. CASE ~nonblock[t] \/ fd[sock[t]] = Closed
            BY <4>6, <5>1, <5>3 DEF Return, TypeOK
          <5> QED  BY <5>1, <5>2, <5>3 DEF TypeOK
        <4> QED  BY <2>4, <4>1, <4>3, <4>4, <4>5, <4>6
      <3>3. app \subseteq Fds /\ \A u \in Holding : new_sock[u] \in Fds
        BY DEF TypeOK, InCall, Holding
      <3> QED  BY <3>1, <3>2, <3>3, ApartKept DEF Apart
    <2> QED  BY <1>4, <2>2, <2>3, <2>4 DEF Hook
  <1>5. CASE UNCHANGED vars  BY <1>5 DEF vars, Apart, Holding
  <1> QED  BY <1>1, <1>2, <1>3, <1>4, <1>5 DEF Next

LEMMA ApartInvariant == ASSUME Unnamed = {} PROVE Spec => []ApartInv
  <1>1. Init => ApartInv
    BY MaxAddrsAssumption
    DEF Init, ApartInv, Apart, TypeInv, TypeOK, InCall, Holding, Attempting, Places
  <1>2. ApartInv /\ [Next]_vars => ApartInv'
    BY TypeStep, ApartStep DEF ApartInv
  <1> QED  BY <1>1, <1>2, PTL DEF Spec

(* No call works on a socket of another call, or of the application but the *)
(* one it is given, even while the application closes sockets that are      *)
(* being connected and their numbers are given out again.                   *)
THEOREM CallsKeepApart == ASSUME Unnamed = {} PROVE Spec => []Apart
  <1>1. ApartInv => Apart  BY DEF ApartInv
  <1> QED  BY <1>1, ApartInvariant, PTL

(* A descriptor of the application that is not being connected is left      *)
(* alone, whatever the application does with the others.                    *)
THEOREM OthersAreUntouched == ASSUME Unnamed = {} PROVE Spec => OthersUntouched
  <1>1. ApartInv /\ [Next]_vars =>
           [\A f \in (app \cap app') \ Busy : fd'[f] = fd[f]]_vars
    <2> SUFFICES ASSUME ApartInv, Next, NEW f \in (app \cap app') \ Busy
                 PROVE  fd'[f] = fd[f]
      OBVIOUS
    <2> USE DEF ApartInv, TypeInv
    <2>1. f \in Fds /\ f \notin Free  BY DEF Apart, Free, TypeOK
    <2>2. CASE AppSocket
      BY <2>1, <2>2, LowestIsFree DEF AppSocket, TypeOK
    <2>3. ASSUME NEW g \in Fds, AppClose(g) PROVE fd'[f] = fd[f]
      BY <2>1, <2>3 DEF AppClose, TypeOK
    <2>4. ASSUME NEW t \in Threads, connect(t) \/ AppTakes(t) PROVE fd'[f] = fd[f]
      BY <2>4 DEF connect, AppTakes
    <2>5. ASSUME NEW t \in Threads, Hook(t) PROVE fd'[f] = fd[f]
      <3>1. Frame(t) /\ pc[t] # "app"  BY <2>5, HookFrame
      <3>2. f # sock[t]  BY <3>1 DEF Busy
      <3>3. t \in Holding => f # new_sock[t]  BY DEF Apart
      <3> QED  BY <2>1, <3>1, <3>2, <3>3 DEF Frame
    <2> QED  BY <2>2, <2>3, <2>4, <2>5 DEF Next
  <1> QED  BY <1>1, ApartInvariant, PTL DEF Spec, OthersUntouched
=============================================================================
