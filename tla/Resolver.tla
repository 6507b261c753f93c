------------------------------ MODULE Resolver ------------------------------
(***************************************************************************)
(* The resolver hooks of posix.cpp: gethostbyname and gethostbyaddr with   *)
(* their static buffers, getaddrinfo and getnameinfo, the asynchronous     *)
(* forms of these two, and the thread-local flag that lets the script's    *)
(* own resolution through to the system.                                   *)
(*                                                                         *)
(* The resolve table is ResolveTable.tla; here every host has one address  *)
(* of the table.  A call is about a host: getaddrinfo asks with its name,  *)
(* getnameinfo and gethostbyaddr with its address of the table.  Calls     *)
(* with other arguments (numeric, local or system addresses) go to the     *)
(* system; the hosts in Bypassed stand for them.                           *)
(***************************************************************************)
EXTENDS Integers, FiniteSets

CONSTANTS Threads,
          Hosts,
          Bypassed,   \* hosts that the hooks leave to the system
          Long,       \* hosts whose names overflow a buffer of sizeof(char *)
          Requests,   \* contexts of asynchronous calls, each used once (a bound)
          Nothing     \* no host, no request

ASSUME HostsAssumption == Bypassed \subseteq Hosts /\ Long \subseteq Hosts
(* What a call comes to: the system was asked, the table, or it failed. *)
Answers == {"system", "table", "error"}

ASSUME NothingAssumption == Nothing \notin Hosts \cup Requests \cup Answers

VARIABLES should_resolve,  \* what resolve_key holds for a thread
          pc,              \* where a thread is in its call
          call,            \* the call: [hook, host, context]
          got,             \* what the call has come to
          buffer,          \* the static buffers of the two old hooks
          undisturbed,     \* nobody wrote the buffers of its call (history)
          status,          \* what an asynchronous call was answered
          memory,          \* who owns the result allocated for it
          queue,           \* callbacks handed to the global dispatch queue
          calledback,      \* callbacks made
          ports            \* receive rights made by a hook and not destroyed

async == <<status, memory, queue, calledback, ports>>
static == <<buffer, undisturbed>>
vars == <<should_resolve, pc, call, got, static, async>>

OldHooks == {"gethostbyname", "gethostbyaddr"}
InfoHooks == {"getaddrinfo", "getnameinfo"}

Fields == {"name", "addr"}

(* The field of the static buffer that is copied from the argument, and the *)
(* one that is looked up in the table.                                      *)
Given(hook) == IF hook = "gethostbyname" THEN "name" ELSE "addr"
Found(hook) == IF hook = "gethostbyname" THEN "addr" ELSE "name"

NoCall == [hook |-> "none", host |-> Nothing, context |-> Nothing]

Init == /\ should_resolve = [t \in Threads |-> FALSE]
        /\ pc = [t \in Threads |-> "idle"]
        /\ call = [t \in Threads |-> NoCall]
        /\ got = [t \in Threads |-> Nothing]
        /\ buffer = [h \in OldHooks |-> [f \in Fields |-> Nothing]]
        /\ undisturbed = [t \in Threads |-> TRUE]
        /\ status = [c \in Requests |-> "new"]
        /\ memory = [c \in Requests |-> "none"]
        /\ queue = {}
        /\ calledback = {}
        /\ ports = {}

To(t, place) == pc' = [pc EXCEPT ![t] = place]

Call(t, hook, host, context) ==
    call' = [call EXCEPT ![t] = [hook |-> hook, host |-> host, context |-> context]]

Answer(t, what) == To(t, "answered") /\ got' = [got EXCEPT ![t] = what]

-----------------------------------------------------------------------------
(* gethostbyname and gethostbyaddr *)

Writing(t, hook) == pc[t] \in {"given", "found"} /\ call[t].hook = hook
Using(t, hook) == Writing(t, hook) \/ (pc[t] = "hostent" /\ call[t].hook = hook)

(* The static buffer that a hook fills. *)
BugBufferOf(hook) == "gethostbyname"           \* one buffer for both hooks

BufferOf(hook) == hook

(* The argument is copied to the static buffer. *)
CopyArgument(t) ==
    \E hook \in OldHooks, host \in Hosts \ Bypassed :
        /\ pc[t] = "idle"
        /\ To(t, "given")
        /\ Call(t, hook, host, Nothing)
        /\ buffer' = [buffer EXCEPT ![BufferOf(hook)][Given(hook)] = host]
        /\ undisturbed' = [u \in Threads |->
                              IF u = t THEN ~\E v \in Threads \ {t} : Writing(v, hook)
                              ELSE undisturbed[u] /\ ~Using(u, hook)]
        /\ UNCHANGED <<should_resolve, got, async>>

(* The table is asked with what the buffer holds now. *)
SearchTable(t) ==
    /\ pc[t] = "given"
    /\ To(t, "found")
    /\ got' = [got EXCEPT ![t] = buffer[BufferOf(call[t].hook)][Given(call[t].hook)]]
    /\ UNCHANGED <<should_resolve, call, static, async>>

(* The answer is stored, and the caller has a pointer to the buffer. *)
FillHostent(t) ==
    /\ pc[t] = "found"
    /\ To(t, "hostent")
    /\ buffer' = [buffer EXCEPT ![BufferOf(call[t].hook)][Found(call[t].hook)] = got[t]]
    /\ undisturbed' = [u \in Threads |->
                          undisturbed[u] /\ (u = t \/ ~Using(u, call[t].hook))]
    /\ UNCHANGED <<should_resolve, call, got, async>>

-----------------------------------------------------------------------------
(* getaddrinfo and getnameinfo *)

BugGetShouldResolve(t) == \E u \in Threads : should_resolve[u]   \* not thread-local

get_should_resolve(t) == should_resolve[t]

(* getaddrinfo_test and getnameinfo_test: whether the system is to answer. *)
test(t, host) == host \in Bypassed \/ get_should_resolve(t)

(* The result is the caller's, and a failure of malloc, or a buffer of the  *)
(* caller that is too small, leaves nothing behind.                         *)
Info(t) ==
    \E hook \in InfoHooks, host \in Hosts :
        /\ pc[t] = "idle"
        /\ Call(t, hook, host, Nothing)
        /\ \/ test(t, host) /\ Answer(t, "system")
           \/ ~test(t, host) /\ \E what \in {"table", "error"} : Answer(t, what)
        /\ UNCHANGED <<should_resolve, static, async>>

(* The asynchronous forms up to mach_port_allocate, whose success is taken  *)
(* for a failure: the port is forgotten.  A failure goes on, with memory    *)
(* for the result.                                                          *)
async_start(t) ==
    \E hook \in InfoHooks, host \in Hosts, c \in Requests :
        /\ pc[t] = "idle" /\ status[c] = "new"
        /\ Call(t, hook, host, c)
        /\ \/ /\ test(t, host)
              /\ status' = [status EXCEPT ![c] = "system"]
              /\ Answer(t, "system")
              /\ UNCHANGED <<memory, ports>>
           \/ /\ ~test(t, host)
              /\ status' = [status EXCEPT ![c] = "refused"]
              /\ ports' = ports \cup {c}
              /\ Answer(t, "error")
              /\ UNCHANGED memory
           \/ /\ ~test(t, host)
              /\ status' = [status EXCEPT ![c] = "starting"]
              /\ memory' = [memory EXCEPT ![c] = "hook"]
              /\ To(t, "starting")
              /\ UNCHANGED <<got, ports>>
        /\ UNCHANGED <<should_resolve, static, queue, calledback>>

BugGiveUpLate(t) ==                  \* the status is looked at after the dispatch
    /\ pc[t] = "starting"
    /\ status' = [status EXCEPT ![call[t].context] = "refused"]
    /\ memory' = [memory EXCEPT ![call[t].context] = "freed"]
    /\ queue' = queue \cup {call[t].context}
    /\ Answer(t, "error")
    /\ UNCHANGED <<should_resolve, call, static, calledback, ports>>

(* Memory is short, or a name does not fit: what there is, is freed.        *)
GiveUp(t) ==
    /\ pc[t] = "starting"
    /\ status' = [status EXCEPT ![call[t].context] = "refused"]
    /\ memory' = [memory EXCEPT ![call[t].context] = "freed"]
    /\ Answer(t, "error")
    /\ UNCHANGED <<should_resolve, call, static, queue, calledback, ports>>

(* The result goes with the block that will call back.  The name that       *)
(* getnameinfo is to return has the space of a pointer, not of its buffer.  *)
Dispatch(t) ==
    /\ pc[t] = "starting"
    /\ ~(call[t].hook = "getnameinfo" /\ call[t].host \in Long)
    /\ memory' = [memory EXCEPT ![call[t].context] = "queue"]
    /\ queue' = queue \cup {call[t].context}
    /\ To(t, "dispatched")
    /\ UNCHANGED <<should_resolve, call, got, static, status, calledback, ports>>

(* The call returns zero.  Its callback may have been made already. *)
Started(t) ==
    /\ pc[t] = "dispatched"
    /\ status' = [status EXCEPT ![call[t].context] = "started"]
    /\ Answer(t, "table")
    /\ UNCHANGED <<should_resolve, call, static, memory, queue, calledback, ports>>

(* A thread of the dispatch queue makes the callback, which owns the result. *)
Callback(c) ==
    /\ c \in queue
    /\ queue' = queue \ {c}
    /\ calledback' = calledback \cup {c}
    /\ memory' = [memory EXCEPT ![c] = "application"]
    /\ UNCHANGED <<should_resolve, pc, call, got, static, status, ports>>

(* The caller is done with its answer. *)
Release(t) ==
    /\ pc[t] \in {"hostent", "answered"}
    /\ To(t, "idle")
    /\ call' = [call EXCEPT ![t] = NoCall]
    /\ got' = [got EXCEPT ![t] = Nothing]
    /\ undisturbed' = [undisturbed EXCEPT ![t] = TRUE]
    /\ UNCHANGED <<buffer, async>>

BugSetShouldResolve(t, b) ==         \* one flag for all threads
    should_resolve' = [u \in Threads |-> b]

set_should_resolve(t, b) == should_resolve' = [should_resolve EXCEPT ![t] = b]

-----------------------------------------------------------------------------
(* Properties *)

Places == {"idle", "given", "found", "hostent", "starting", "dispatched", "answered"}

ResolverTypeOK ==
    /\ should_resolve \in [Threads -> BOOLEAN]
    /\ pc \in [Threads -> Places]
    /\ call \in [Threads -> [hook : OldHooks \cup InfoHooks \cup {"none"},
                             host : Hosts \cup {Nothing},
                             context : Requests \cup {Nothing}]]
    /\ got \in [Threads -> Hosts \cup Answers \cup {Nothing}]
    /\ buffer \in [OldHooks -> [Fields -> Hosts \cup {Nothing}]]
    /\ undisturbed \in [Threads -> BOOLEAN]
    /\ status \in [Requests -> {"new", "system", "starting", "refused", "started"}]
    /\ memory \in [Requests -> {"none", "hook", "queue", "application", "freed"}]
    /\ queue \subseteq Requests /\ calledback \subseteq Requests
    /\ ports \subseteq Requests

(* What gethostbyname or gethostbyaddr points its caller to is the caller's *)
(* host and nothing else, for as long as no other thread writes the answer  *)
(* of the same function: the two functions do not disturb one another.      *)
HostentKept ==
    \A t \in Threads : pc[t] = "hostent" /\ undisturbed[t] =>
        \A f \in Fields : buffer[BufferOf(call[t].hook)][f] = call[t].host

(* An asynchronous call that was refused, or left to the system, is never   *)
(* called back by a hook and leaves no memory behind.  One that returned    *)
(* zero has its callback made or on the way, never both, and its result     *)
(* belongs to that.                                                         *)
CallbackFits ==
    \A c \in Requests :
        /\ c \in queue \cup calledback => status[c] \in {"starting", "started"}
        /\ status[c] = "started" => c \in queue \cup calledback
        /\ c \in queue <=> memory[c] = "queue"
        /\ c \in calledback <=> memory[c] = "application"
        /\ status[c] = "refused" => memory[c] \in {"none", "freed"}

(* A port that a hook has made is the caller's or is destroyed.             *)
NoStrayPort == ports = {}
=============================================================================
