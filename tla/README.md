# Skia, specified

Skia is a "Transparent SOCKS Redirector" for iOS (`src/control`).  A library is loaded into every
application and hooks its network calls.  Resolving a host name yields an address of Skia's own, connecting to
such an address asks the user's configuration script for a proxy, and the connection goes there.  A daemon and
a preference pane manage the local proxies.  This directory holds TLA+ models of the parts where order, failure
and concurrency decide, what TLC checks of them and what TLAPS proves.

## Inventory

| Component | State | Operations | Interacts with | What is hard, what makes it correct |
|---|---|---|---|---|
| Shared mutex (`libc++/shared_mutex`, `.cpp`) | state word (writer bit, reader count), two condition variables | `lock`, `try_lock`, `unlock`, shared and timed forms | guards the resolve table and the proxy cache | exclusion; no lost wake-up; a writer gets in; a writer that times out undoes its bit |
| Resolve table (`skia.hpp` 61-82, `skia.cpp` 166-233) | name to index, index to name, next index | `name_to_addr`, `addr_to_name`, `is_resolved_addr` | resolver hooks write, `connect`, `query_proxy` and reverse lookups read | an address leads back to the name it was given for; the pool is recycled oldest first; no second search after the lock was given up |
| Proxy cache (`skia.cpp` 131-153) | destination to proxy | `query_proxy` | script, `connect`, netcore hooks | answers are those of the script for that destination; `noCache` honoured; no second search before the store |
| Bypass rules (`skia.cpp` 8-11, 59-129) | none; `current_application`, which is fixed | `should_bypass`, `extract_target` | all hooks | arithmetic on addresses; the same destination as a name, an address, or one inside the other is treated alike |
| Configuration (`config.cpp`) | a script context, built when `skia` is first used | `execute`, `evaluate`, `read_script` | `query_proxy`; `proxy.js` and the user's script | every error amounts to an empty script or no proxy; re-entry during construction |
| Script support (`res/proxy.js`) | DNS cache of one query | `dnsResolve`, `__skia_queryProxy` | native resolver, through the hooks | two queries share the cache |
| Connect hook (`posix.cpp` 15-290) | descriptors, the local variables of each call | `connect`, `make_direct`, `make_proxied`, `timed_connect`, `send_bytes`, `recv_bytes` | table, cache, the kernel, a proxy | every failure path closes its socket once; the socket handed over is the one asked for; the handshake is read to its last byte; it ends |
| Resolver hooks (`posix.cpp` 292-506) | static buffers, a thread-local flag, ports of asynchronous calls | `gethostbyname/addr`, `getaddrinfo`, `getnameinfo`, their asynchronous forms, the script's `dnsResolve` | table, script | shared buffers; a callback exactly once; the flag |
| Netcore hooks (`netcore.cpp`) | a thread-local pointer to a local variable of the hook | path update, proxy settings | bypass rules, `query_proxy` | path updates inside one another; the pointer is gone when the variable is; the settings are those of the update's own endpoint |
| Daemon (`skiad.mm`) | property lists, launchd jobs, their processes | requests to save or delete instances, and to start, stop or restart their processes | preferences, launchd | a request is several steps over files and jobs, with others inside it; dictionary order; a crash in between; a job runs what its file says; a restart ends the old process; who waits is answered |
| Preferences (`skiapref.mm`) | the list, the edited instance | save, delete, reset, start/stop/restart | daemon | what the user is told against what the daemon did |
| Sample script (`res/config.js`) | - | `queryProxy` | asked by `query_proxy`; compares names and addresses through `proxy.js` | does for every host what its comments say |
| Vendored headers, packaging, view resources | - | - | - | no state of the program |

All hooks run on the application's threads.  The table and the cache are the only state that they share under a
lock; the locks are taken and released by hand, for single map operations, and never across a callback.

## Modules

Order in which they were built, the innermost first.

| Module | What it is | Source |
|---|---|---|
| `RWLock` | abstract: what a reader/writer lock promises | |
| `SharedMutex` | the mutex | `libc++/shared_mutex`, `shared_mutex.cpp` |
| `NameFifo` | abstract: a first-in-first-out memory for names | |
| `ResolveTable` | the resolve table | `skia.cpp` 166-233, `skia.hpp` 61-82 |
| `ProxyCache` | `query_proxy`, its cache and the application that asks | `skia.cpp` 8-57, 131-153 |
| `Bypass` | the bypass rules, and what each hook asks `query_proxy` about | `skia.cpp` 59-136, 155-164; `netcore.cpp` 49-92; `posix.cpp` 253-272 |
| `Netcore` | composition: `ProxyCache` and `Bypass` under path updates and `connect` | `netcore.cpp` 39-47, 92-129 |
| `ConfigScript` | the sample configuration, as operators | `res/config.js` 36-118; `res/proxy.js` 16-69 |
| `SamplePolicy` | composition: `Netcore` with the sample configuration for its script | `res/config.js` 36-118 |
| `Redirect` | composition: `ResolveTable` (extended) with the resolver hook, `query_proxy` by address and the name's uses in the connect hook | `skia.cpp` 155-164, `posix.cpp` |
| `Connect` | the connect hook over the descriptor table | `posix.cpp` 109-290 |
| `Socks5` | the conversation with the proxy | `posix.cpp` 15-107, 152-251 |
| `Resolver` | the resolver hooks | `posix.cpp` 292-506 |
| `ScriptDns` | composition: `Resolver` under the script's DNS cache | `res/proxy.js` 1, 16-32, 71-76; `posix.cpp` 501-506 |
| `SkiaService` | the daemon with the preferences and launchd around it | `skiad.mm` 27-132, `skiapref.mm` 54-68, 233-282 |
| `MC*` | values for the constants of each | |
| `*Proofs` | theorems | |

A definition whose name starts with `Bug` is an altered copy of the definition after it.  No specification uses
it; it is there to be swapped in, to show that a property fails when the code does that.

### SharedMutex

One action is a stretch of code between two points at which `__mut_` is free.  `write_entered` and `n_readers`
are the two fields of `__state_`; `gate1`, `gate2` are the sets of threads asleep on the condition variables.  A
woken thread leaves the set at once and re-tests its condition in `ResumeLock` or `ResumeShared`, in any order
with newcomers.  `lock(t, TRUE)` is `try_lock_until`, whose wait may expire at any time (`ExpireLock`), also when a
notification has come as well.  A failed `try_lock` changes nothing and is no step.

### ResolveTable

A lookup that misses is two actions, `name_to_index` and `make_index`, because the code gives up the shared lock
before it takes the exclusive one and does not search again.  Each critical section is one action: `SharedMutex`
shows that they exclude each other.  The hash maps are functions with a value for "no entry".  `addr_count` is
2^24 - 1 in the code and a parameter here; the low bits of an address run over 0 .. `addr_count`, and the mask
of `addr_to_index` is a remainder.  Two history variables say when the code's guarantees end: `wrapped`, whether the
index has been back to zero, and `raced`, whether two threads were between the two critical sections with one name.
Until `raced` the table implements `NameFifo`; `NameFifo` itself says nothing of the time after that.

### ProxyCache

`find`, `evaluate`, `store`: search under the shared lock, script without a lock, store under the exclusive one.
The script is the constant `Script`: which results it may return for a destination, the null of an error among
them, for each application (`Script[application]`, of which `Returns` is what this process gets); `application` is
`current_application`, which the code asks for at every query and which never changes.  A proxy whose host
`inet_aton` refuses counts as direct.  The port of the proxy travels with its host.  The early return for an empty
name or port zero, which looks at neither cache nor script, is `Bypass!query_proxy`: it yields the empty set of
questions.

### Bypass, Netcore and ConfigScript

An IPv4 address is its four bytes.  `inet_ntop`, `inet_aton` and the resolve table are constants, related by
`NamesAssumption`.  The masks of `bypass_networks` are applied byte by byte; a mask is a row of ones, so `&` is the
removal of a remainder (`And`).  `ConnectQuestion` and `EndpointQuestion` are the two ways from what a hook is given
to the key of the cache; they differ where the code does, in the order of the tests, in `extract_target` and in the
table's addresses.

In `Netcore` a path update is `tcp_connection_handle_path_changed` (up to the search in the cache), `Query`,
`Applied` (the pointer is set) and, after any amount of the original function, `Returned` (the pointer is cleared).
The original function is Skia's to hook and not to write: while it runs the thread may call `connect` or get another
path update, so `updates` is a stack for each thread.  `proxy_key` is the thread-local variable: it names a thread and
one of its updates, for the address of that update's local variable, so that a pointer which outlives its variable
can be told.  `nw_path_copy_proxy_settings` changes nothing and is a function of the state, which `SettingsFit`
evaluates in every state.  `nested` is history.

In `ConfigScript` a name is a sequence of pieces, with the dot a piece of its own; a label may be several pieces, since
the comparisons of `proxy.js` are of strings and mind no dots.  `queryProxy` is the function whole; what `dnsResolve`
answers is a parameter (`Lookups`: an address is kept for the rest of the query, a failure is asked for again), and
`Math.random` a set of two results.  The object with the blocked domains has the keys it is given and those that every
object inherits (`blockedKeys`).  `Meant` restates the sample's comments; `Outside` and `NotBlocked` leave out the names
for which the code does something else (below, under the violations).  `SamplePolicy` gives
`queryProxy` to `ProxyCache` as its script: `SampleAnswers` are the results for a destination whose name is spelled
`Spelling` and for which `dnsResolve` may find `Resolution`; `SampleAssumption` says that `Script` is made of them, but
for the destinations in `Elsewhere`, with which the run tries what the sample never answers.

### Redirect

A thread resolves names (`Resolve`), then connects with an address it holds.  The hook reads the name behind the
address up to three times: for the script, for the check of `make_proxied`, and for the request (or, in
`make_direct`, the real lookup).  Between the reads other threads go on resolving.

### Connect

The descriptor table maps a number to a socket (its peer and whether it is nonblocking) or to `Closed`; `socket`
takes the lowest free number.  Each system call of the hook that changes the table is a step; an attempt at a
connection, with its handshake, is one step that works or fails.  The application opens and closes sockets at
any time, on other threads; with `AppAborts` it also closes one that is being connected.  `original` is the way
of all bypassed calls.  `Unnamed` are the destinations for which `make_proxied` throws before it has a socket.

### Socks5

The proxy's side is a sequence of bytes, of which any amount may have arrived; `recv` returns any amount up to
what was asked.  `SystemCallFails` stands for every error, closed connection and timeout of `try_select`,
`timed_connect`, `send_bytes` and `recv_bytes`.  Of what is sent the model keeps the length and the length byte.

### Resolver and ScriptDns

A thread is in at most one call.  `buffer` holds the static buffers: a name and an address, in the order in which
the hook writes them (`CopyArgument`, `FillHostent`), with the search of the table between (`SearchTable`), which
reads the buffer and not the argument.  A host stands for its name and for its address of the table, which
`Redirect` is about.  An asynchronous call goes on only when `mach_port_allocate` has failed, as in the code; then
`Dispatch` and `Started` are two steps, and the callback may come between.  `memory` names the owner of the result
that was allocated.

In `ScriptDns` a query is `Begin` ... `End`, or the same without the last statement when `queryProxy` throws.
`dnsResolve` is a miss; a hit changes nothing.  That the engine runs one thread at a time and gives its lock up
around native functions is how JavaScriptCore works, not Skia's code; a thread that waits for the lock after its
native function is one whose `NativeReturns` waits.  `alone`, `own` and `undisturbed` are history.

### SkiaService

`plist` is the directory of property lists, `job` what launchd has loaded.  A dictionary of a request is a function
with a value for "not in it"; its names are taken in any order.  One set of requests stands for both messages: a value
is a configuration, `Deleted`, or one of `Operations`, and the preferences never mix them.

`frames` is the stack of requests that the daemon is handling: `waitUntilExit` runs the run loop, and a message that
comes meanwhile is handled inside.  The effect of `launchctl` (`Unload`, `Load`, `Stop`, `Start`) may come at any
time while its frame waits, the steps of the daemon itself
(`Take`, `Write`, `Erase`, `Reply`) are those of the innermost frame.  `Reopen` is how a second request can come at
all, since the preferences wait for their answers.  If the messaging centre did not deliver in that run loop mode,
`MaxFrames = 1` would be the daemon; the theorems hold for every depth.  `torn`, `mixed` and `unsure` are history:
instances whose handling was cut short or failed, that two requests handled at once, and that were being handled
when the list was fetched.  Where two requests meet at one instance (`mixed`) the model does reach a job that runs
another configuration than its file and a job whose file is gone; the properties leave exactly these out.  A
`launchctl` that outlives a crashed daemon is taken to have finished before the next message.

The preferences wait for both messages on their main thread (`saving`, `operating`); after the first they fetch the
list, after the second they do not.  An operation touches no file, and of the process the model keeps the one thing
that the preferences promise about it: `kept` holds the instances whose process may still be the one that ran when a
restart was last asked for.  `Unload` and `Stop` end a process, `Start` ends none.  When launchd starts a loaded job's
process, and starts it again (KeepAlive), is left out: a new process is not the one in `kept`.

## Runs

| Run | Bounds | What it shows |
|---|---|---|
| `mutex` | 4 threads, 3 reader slots | exclusion, no lost wake-up, an entered writer gets in, no sleeper is forgotten, implements `RWLock`; the count stops at its limit and the word is right |
| `redirect` | 2 threads, 4 names, 3 addresses | addresses lead back and the table is a FIFO memory that fits its pool until two threads enter a name at once; whatever races, addresses in use keep their names and lead to the right host in the first round; names never vanish |
| `netcore` | 2 threads, 3 applications, 2 path updates at a time, the sample as the script; 19 destinations, inside and outside of each range and domain, one in other case, one below an inherited key | cache and answers are the script's, nobody asks twice, steady answers stay; the settings fit their update and the pointer never dangles; listed destinations stay direct; every connection gets what the sample's comments say |
| `listed_direct` | the same hooks, 1 endpoint | **violated**: a listed IPv4 address inside an IPv6 one is put to the script |
| `connect` | 2 threads, 4 descriptors, 1 destination, 2 addresses per name | no leaked, shared or foreign socket; the outcome fits the socket |
| `connect_live` | 1 thread in the hook, 3 descriptors, 2 addresses, aborts and unnamed destinations | connect returns |
| `connect_unnamed` | 2 threads, 4 descriptors | **violated**: a failed call closes another thread's descriptor |
| `socks5` | 6 destinations, 13 answers of a proxy | handshake read exactly, refused only for a reason, request well framed, it ends |
| `script_dns` | 2 threads, a short, a long and a bypassed name, 1 request, 1 real address | script and application are given what each should; the cache belongs to its query; buffers, memory and callbacks to their calls |
| `resolver_port` | same | **violated**: the port of an asynchronous call is forgotten |
| `daemon` | 2 instances and a second spelling of one, 2 configurations, restarts, 2 requests at once, `OneLost` and `LostFirst` (below) | jobs, files and the list agree, requests are served and a restart ends the old process, wherever nothing was cut short or met; who waits is answered |
| `daemon_save` | the same with a name that the daemon refuses, 1 request at once | **violated**: what was saved is in no property list |

Why the bounds are enough.

* The mutex: a writer behind each gate, a reader inside and one more that waits need four threads, and three slots
  let them meet the limit; the proofs cover every number.  With two sleepers at a full count one of them is never
  woken, which the code's limit of 2^31 - 1 readers keeps away from practice.
* The table: two threads, because the only race is between the two halves of one lookup and another whole one;
  three addresses and four names make the pool wrap and recycle any number of times, since the index is finite and the
  run explores the whole space.
* Netcore: two threads are what it takes to race for the cache and for two thread-local pointers; two updates, on one
  thread or on two, are what it takes to nest.  What concerns one destination needs no second one beside it, so that
  `TwoKeys` lets only one destination be in use next to `"printer"`, which is the one with a proxy and another that is
  not to be cached: enough to see an answer go to the wrong key.  Destinations come as each kind of argument: the
  first and last address of the listed ranges and the ones next to them, the same inside IPv6 ones, an address of the
  table, names at the edges of the sample's domains, and arguments that nobody is asked about.
* Connect: each thread can hold the application's socket and its own, or the table is full, and the loop over
  addresses starts again after a failure in both runs.  `connect_live` has one thread in the hook, because the
  descriptor table is all that calls share and the application's other threads open and close descriptors meanwhile.
* Socks5: lengths on both sides of 255, each address type, each refusal, a stop in the middle, and two bytes of the
  tunnel behind the handshake.
* ScriptDns: requests share nothing but the dispatch queue, which keeps no order; two hosts tell whose answer is in
  a buffer; which real address a host has makes no difference to the cache.
* Daemon: one instance for each of two nested requests or both on the same, two configurations to tell the old from
  the new.  Once an instance is torn or mixed the properties are about the other one.  `OneLost` stops where both
  are, for then they say nothing but `ListTrue`, `RestartInterrupts` and `Answered`, which one lost instance can
  reach too.  `LostFirst` leaves out new requests that do not concern the lost instance while it is lost.  Stopping
  and starting alone add nothing to restarting, which does both: `Asked` has only what the preferences have a button
  for, and the theorems cover all three.

Threads and names are symmetric where a safety run declares them so; no liveness run uses symmetry.

`socks5` switches off the deadlock check: a call that has ended with the connection closed stops.

### The violations

They are failures of the code, at the lines `PROJECT.json` gives.  `resolver_port` is every asynchronous resolution:
the test of `mach_port_allocate` is inverted.  `connect_unnamed` needs an IPv6 destination that starts with byte
240 and a proxy for it.  `daemon_save` needs one user who gives an instance a name with a space, or changes a letter
to upper case.  `listed_direct` needs a path update of an application's own connection to an address such as
::ffff:10.0.0.0: the connect hook takes the IPv4 address out first and connects directly, the netcore hook asks the
script.

Known and outside the properties: with `AppAborts` in a run of `Connect` that checks `NoStrays`, the application's
socket, closed while connect is in progress, is brought back by `dup2` and belongs to nobody; `connect` therefore
checks `NoStrays` for applications that leave a socket alone while they connect it.  `CachePersists` is about
destinations that the script answers consistently: with random proxies, as in the sample, the second of two threads
that miss replaces the first one's answer, although `config.js` 30-31 says that the cache persists.  `gethostbyname`
called by two threads at once may give one the other's answer, or one's name with the other's address; `HostentKept`
says what is left.

Two limits of the table are conditions of properties rather than runs.  Two threads that miss the same name both
enter it, and when the pool has then gone round, after 16777215 names in one process, the table may hold names whose
addresses lead elsewhere, and more names than addresses.  `LeadsBack`, `WithinPool` and the refinement of `NameFifo`
are therefore about the time until then, `AnswersHold` and `RightHost` about the first round; beyond it a new
address still keeps its name for the next `addr_count` - 1 entries (`NewAddressesLast`), and an address
that is recycled between two of the hook's reads also leads the connection to another host than the script was asked
about.

In the netcore hooks the pointer is cleared and not restored: a path update inside another one leaves the outer one
the system's settings, and one that goes direct sees the outer one's proxy.  Nothing in the code says whether updates
nest, so `SettingsFit` is about those that do not.  An endpoint whose address is one of the table's is put to the
script as the text of that address and not as its name (`netcore.cpp` 78-82).  `proxy_port` is given to the system in
network byte order (`netcore.cpp` 116).  A null that stands for an error of the script is cached for good like any
other.  The names of the device and `localhost` are compared with their case, and `::1` is not bypassed.  Three kinds
of names are read by the sample's code otherwise than by its comments, and `PolicyHolds` leaves them to neither side.
An internal domain matches the end of a name that has no dot before it, `notcc98.org` for `cc98.org`.  A blocked domain
matches only as it is spelled, while the internal ones mind no case, so `WWW.Google.com` is connected to directly.  And
a name below a key of `Object.prototype`, such as `x.constructor`, is found in the object of blocked domains
(`config.js` 93, 108) and given a proxy, although it is in none of the lists.  `SampleBlocksByKey` says of the last
two exactly what the code does.  (`proxy.js` 17 asks `hasOwnProperty` of the cache itself: a lookup of the name
`hasOwnProperty` that finds an address replaces that function for the rest of the query.  The names in `ScriptDns` are
none of the inherited keys.)  Names of eight bytes and more do not fit in the `host` of an asynchronous reverse lookup
(`posix.cpp` 488), behind the inverted test of `resolver_port`.

## Fairness

* `SharedMutex!FairSpec`: an awake thread gets `__mut_` in the end, and an owner leaves its critical section, in
  Skia a few operations on a map.  No call, timeout or spurious wake-up has to happen.
* `Connect!FairSpec`: each system call of the hook returns.  Waits are `select` calls of ten seconds; the
  assumption is that signals do not restart one for ever (`posix.cpp` 35) and that the system's resolver ends.
* `SkiaService!FairSpec`: while the daemon has a request, its thread or one of its `launchctl` goes on.  No request,
  crash or restart has to happen.  While the preferences wait they send nothing, so that what nests inside the
  request comes to an end.
* `Socks5!FairSpec`: a wait ends with bytes, the end of the stream or the timeout.  Nothing is assumed of the proxy.

## Proofs

All are for any number of threads, names, addresses, destinations and any script.

* `SharedMutexProofs`.  The inductive invariant is `TypeOK`, `StateWord` and `GateMembers` (who sleeps where):
  a step adds or removes one thread from the sets that the word counts, and lemmas on cardinalities do the
  counting.  From it follow `MutualExclusion` and the refinement of `RWLock`.  `NoLostWakeup` needs
  `EnoughSlots`, a reader slot for every thread, which 2^31 - 1 slots are in practice.
* `RedirectProofs`.  The table first.  `FirstRound`, that in the first round only indices not given out yet are
  written, gives `AnswersHold`.  Until two threads miss one name at once the two maps are inverse on the indices given
  out (`TableBijection`), which gives `LeadsBack` and `WithinPool`.  Then the refinement of `NameFifo`: `Queue` reads
  the names off the table from the oldest index on, around its end, and a step either adds one behind the others
  (`QueueGrows`) or drops the first as well (`QueueTurns`).  `Redirect` is the table with more variables
  (`RedirectUsesTable`), so the table's theorems carry over (`TableSoundUnderHooks`).  `NewAddressesLast` is about all
  rounds and all races: each entry overwrites the index whose turn has come and brings every other one a turn nearer.
  A name found in the table gets its old address, whose turn may be next.  `Behind` says that every index
  known to the table or to a thread has a name, and gives `NamesLast`; `Honest`, that every read so far gave the host
  that was resolved, gives `RightHost`.
* `ProxyCacheProofs`.  `CacheInv` adds what a thread is about to store and that a thread that has run the script
  has stored its answer or is about to.  `CachePersists` is about destinations that the script answers
  consistently (`Steady`), which the documentation does not ask for.
* `NetcoreProofs`.  Every step of the hooks is a step of the cache or none (`HooksUseTheCache`), so the cache's
  theorems hold under them.  The invariant has a part for each thread: what its stack of updates looks like
  (`Nesting`), what its pointer may point to (`Pointer`), and that alone, without nesting, it points to the current
  update or nowhere (`Alone`).  `ListedStayDirect` rests on `NamesAssumption`, that the system's conversions of
  addresses are inverse and the table's names are not listed, and on a lemma about the masks.  `MasksAreRanges` is
  its other half: the arithmetic bypasses nothing but the four ranges.  `HooksAgree` says that an IPv4 address
  outside the table leads to the same question by whichever way it comes, all but the one of `listed_direct`.
* The sample, also in `NetcoreProofs`.  `SampleDoesAsMeant` is about one run of `queryProxy`, `PolicyHolds` about all
  connections, by `AnswerSound`.  The loop over the dots of a name is a recursive function, and there is no induction
  theorem to cite for one.  `LeastNumber`, that a set of numbers has a least member, stands in: the loop ends
  (`SearchExists`) and finds what it should (`LoopFinds`), since a dot for which it did not would have another behind
  it, nearer to the end of the name.  So `InBlockedDomain` is that the name or a rest of it behind a dot is a key,
  which is `Under` (`BlockedIsUnder`); `SampleBlocksByKey` is what that makes of `queryProxy`, inherited keys and case
  included.  A name under a domain is under it in lower case too (`UnderInAnyCase`), so a host that is not blocked in
  any spelling is not found.  Assumed are a name that is not empty and does not begin with a dot, lookups that have
  some outcome, that a dot has no lower case, and that the application with a proxy of its own is not also in the list
  of blocked ones.
* `ConnectProofs`.  Types are right whatever the application does, and so is the bound on a call (`CallsAreBounded`):
  each step of the hook lowers `StepsLeft`, and nothing else raises it.  With destinations that all have names
  (`Unnamed = {}`) calls keep to sockets of their own (`CallsKeepApart`), which gives `OthersUntouched`;
  `connect_unnamed` shows what happens without.  `NoStrays` and `CallOutcome` also need an application that leaves a
  socket alone while it connects it (`~AppAborts`): their invariant says who owns each open descriptor and what each
  place in the hook knows about its two.
* `Socks5Proofs`.  The buffer is a piece of the stream (`BufferFits`), and every place of the handshake knows which
  (`Position`): so the last field ends where the tunnel begins, however the stream was cut.  From the same invariant
  the handshake takes 269 steps at most (`HandshakeIsBounded`), with one byte at a time and a name of 255.
* `ScriptDnsProofs`.  The invariant follows the parts of the system.  `BufferFits` says what of an undisturbed
  call is in its static buffer so far.  `RequestFits` and `OneCaller` tie status, memory, queue and callback of a
  request to the one call that is making it.  `ScriptFits` says that a thread's flag is set exactly while it is in a
  native function, which gives `RightAnswer`, and with it `CacheFits` gives `CacheReal` and `CacheIsOwn`.
* `SkiaServiceProofs`.  To `JobsFromFiles`, `UntornAgree` and `Served` the invariant adds that two requests have
  only mixed instances in common (`Overlap`), that an instance whose file is being changed has no job (`Unloaded`)
  and that what is about to be loaded is what was asked for (`Written`).  `BusyFile`, `OneHandler` and
  `PastUntouched` say that a step disturbs no instance but its own, and `OperationFrame` that an operation disturbs
  none.  `ListTrue` needs that all that is being handled is unsure while the list is shown.  For `RestartInterrupts`,
  a process in `kept` is one that its request has still to stop, or a request inside that one (`KeptInv`).  Nothing
  is assumed of the names but that lower case is idempotent; with names that the daemon takes and leaves as they are,
  `Served` gives `SaveKeeps` (`PlainNamesAreKept`), the property that `daemon_save` violates with others.
  `RequestsAreBounded`: each step of the daemon or of a `launchctl` answers the innermost request or lowers what is
  left of one (`WorkLeft`) and raises none, so only new requests can put an answer off.

Only model-checked: liveness (`WriterGetsIn`, `GateReopens`, `CallsReturn`, `Ends`, `Answered`), which the prover
cannot reach.  Of `CallsReturn`, `Ends` and `Answered` the theorems above prove the part without fairness: that the
steps of the call, the handshake or the request which remain are bounded, and that none of them adds to what remains.
The type invariants are proved for all values of the
constants and, but for that of `SharedMutex`, are not in the runs.

## Not modelled

* Initialisation: `skia::instance` (`skia.cpp` 4) is a static variable, and its constructor runs the scripts.  A script
  that resolves a name at its top level comes back into it on the same thread.  Whether it does is decided by the
  script alone, before there is a second actor.
* `config.cpp`: reading the scripts and calling the engine.  Their outcome, errors included, is `Script`.
* The preferences' editor: its fields, the script view, the test of a script's result, cells and layout.
* `primaryIpAddress`, `hostNameDomainLevel` and `isHostResolvable` of `proxy.js`, which keep no state and which the
  sample does not use; the hooks of `netcore.cpp` for the log of debug builds; `shared_lock` of `libc++/shared_mutex`,
  which Skia does not use.
* An allocation that fails between `lock` and `unlock`, `SIGPIPE` in `send_bytes`, and signals that restart a wait:
  hazards without a property, with the reason beside each.
* Apple's headers under `include/` and `skiad.h`, packaging, view resources and the script engine.  The headers are
  about 4,700 of the 6,200 lines of code and hold declarations only; what can be modelled is in the rest.
