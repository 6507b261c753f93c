---------------------------- MODULE SkiaService ----------------------------
(* The daemon skiad and the preferences that talk to it (skiad.mm,           *)
(* skiapref.mm).  An instance is a property list in a directory of launchd   *)
(* and the job that launchd made of it.  A request names instances and says  *)
(* for each which configuration it shall have, that it is to go, or that its *)
(* process shall stop, start or restart; the daemon handles the names one    *)
(* after the other.                                                          *)
(*                                                                           *)
(* The daemon has one thread, but NSTask's waitUntilExit runs the run loop,  *)
(* which also delivers messages: a request that comes while launchctl works  *)
(* is handled at once, inside the one that waits.  `frames' is that stack.   *)
(* It takes a second sender, which the preferences are when they are killed  *)
(* and opened again.  The daemon may crash and the device may be restarted   *)
(* between any two steps.                                                    *)
(*                                                                           *)
(* Left out: when launchd starts the process of a loaded job, and starts it  *)
(* again (KeepAlive); validateDaemonConfig, which refuses what the           *)
(* preferences refuse to send.                                               *)
EXTENDS Naturals, Sequences

CONSTANTS
    Typed,      \* names that a user may give an instance
    Lower,      \* the same in lower case
    Valid,      \* the names made of letters, digits and underscores
    Configs,    \* configurations of an instance
    Asked,      \* what may be asked to be done to a process
    MaxFrames,  \* bound: requests at once, the nested ones included
    None,       \* no property list, no job, not in a request
    Deleted,    \* the empty dictionary, in place of a configuration
    NoName

ASSUME NamesAssumption ==
    /\ Lower \in [Typed -> Typed]
    /\ \A n \in Typed : Lower[Lower[n]] = Lower[n]
    /\ Valid \subseteq Typed
    /\ \A n \in Valid : Lower[n] \in Valid
    /\ NoName \notin Typed

(* What the daemon can do to an instance's process.  The preferences have a  *)
(* button for the last one only.                                             *)
Operations == {"Start", "Stop", "Restart"}

ASSUME ConfigsAssumption ==
    /\ {None, Deleted} \cap Configs = {} /\ None # Deleted
    /\ Asked \subseteq Operations
    /\ Operations \cap (Configs \cup {None, Deleted}) = {}

ASSUME FramesAssumption == MaxFrames \in Nat \ {0}

VARIABLES
    plist,    \* the configuration in an instance's property list
    job,      \* the configuration launchd has loaded an instance's job with
    frames,   \* the requests that the daemon is handling, the innermost last
    ui,       \* the preferences: "idle", waiting for an answer ("saving",
              \* "operating"), or about to fetch the list again ("stale")
    shown,    \* the instances the preferences list
    unsure,   \* history: those that were being handled when the list was made
    torn,     \* history: instances whose last handling was cut short or failed
    mixed,    \* history: instances that two requests handled at once
    kept      \* history: instances whose process, with its connections, may
              \* be the one that ran when its restart was last asked for

vars == <<plist, job, frames, ui, shown, unsure, torn, mixed, kept>>

-----------------------------------------------------------------------------
(* One property list for all names that differ in case only.                 *)
Files == {Lower[n] : n \in Valid}

(* What a request asks for each of its names.                                *)
Requests == [Typed -> Configs \cup {Deleted, None} \cup Operations]

Names(request) == {n \in Typed : request[n] # None}

(* `name' is the one at hand, `step' what comes next for it; in all steps    *)
(* but the first launchctl is or may still be at work.                       *)
Steps == {"next", "unload", "write", "remove", "load", "stop", "start", "waited"}

Frames == [request : Requests, todo : SUBSET Typed, name : Typed \cup {NoName}, step : Steps]

(* The names of a request that are about files, and those about processes.   *)
Filing(request) == {n \in Names(request) \cap Valid : request[n] \notin Operations}

Operating(request) == {n \in Names(request) \cap Valid : request[n] \in Operations}

FilesOf(request) == {Lower[n] : n \in Filing(request)}

Restarting(request) == {Lower[n] : n \in {m \in Operating(request) : request[m] = "Restart"}}

(* The file that frame i is handling, and the configuration whose fields go  *)
(* into it as the arguments of the job.                                      *)
File(i) == Lower[frames[i].name]
Wanted(i) == frames[i].request[frames[i].name]

Filed == {f \in Files : plist[f] # None}

Handled == UNION {FilesOf(frames[i].request) : i \in DOMAIN frames}

Init ==
    /\ plist \in [Files -> Configs \cup {None}]
    /\ job = plist
    /\ frames = <<>>
    /\ ui = "idle"
    /\ shown = Filed
    /\ unsure = {}
    /\ torn = {}
    /\ mixed = {}
    /\ kept = {}

-----------------------------------------------------------------------------
(* The preferences.  The daemon takes a message when it has nothing to do or *)
(* waits for launchctl.                                                      *)
Top == Len(frames)

Listens == frames # <<>> => frames[Top].step # "next"

Waits == {"saving", "operating"}

Send(request, waits) ==
    /\ ui = "idle"
    /\ Listens
    /\ Len(frames) < MaxFrames
    /\ ui' = waits
    /\ frames' = Append(frames, [request |-> request, todo |-> Names(request),
                                 name |-> NoName, step |-> "next"])
    /\ mixed' = mixed \cup (FilesOf(request) \cap Handled)
    /\ kept' = kept \cup {f \in Restarting(request) : job[f] # None}
    /\ unsure' = IF waits = "saving" THEN {} ELSE unsure
    /\ UNCHANGED <<plist, job, shown, torn>>

(* A new name for an instance is a new instance and the old one's end.       *)
SaveRequest(old, n, config) ==
    [m \in Typed |-> IF m = n THEN config ELSE IF m = old THEN Deleted ELSE None]

Save == \E old \in shown \cup {NoName}, n \in Typed, config \in Configs :
            Send(SaveRequest(old, n, config), "saving")

OneRequest(old, value) == [m \in Typed |-> IF m = old THEN value ELSE None]

Delete == \E old \in shown : Send(OneRequest(old, Deleted), "saving")

Operate == \E old \in shown, operation \in Asked :
               Send(OneRequest(old, operation), "operating")

(* The answer, which is nil also when there was none, leads to a new list,   *)
(* except to an operation.                                                   *)
Answer(waits) == IF waits = "saving" THEN "stale" ELSE IF waits = "operating" THEN "idle" ELSE waits

Refresh ==
    /\ ui = "stale"
    /\ Listens
    /\ ui' = "idle"
    /\ shown' = Filed
    /\ unsure' = Handled
    /\ UNCHANGED <<plist, job, frames, torn, mixed, kept>>

(* The preferences are killed while they wait, and opened again.             *)
Reopen ==
    /\ ui \in Waits
    /\ ui' = "stale"
    /\ unsure' = {}
    /\ UNCHANGED <<plist, job, frames, shown, torn, mixed, kept>>

-----------------------------------------------------------------------------
(* The daemon.  The names of a dictionary come in any order; one that is not *)
(* valid is passed over.                                                     *)
FirstStep(value) == IF value = "Start" THEN "start"
                    ELSE IF value \in Operations THEN "stop" ELSE "unload"

Take ==
    /\ frames # <<>>
    /\ frames[Top].step \in {"next", "waited"}
    /\ \E n \in frames[Top].todo :
           frames' = [frames EXCEPT ![Top].todo = @ \ {n},
                                    ![Top].name = IF n \in Valid THEN n ELSE NoName,
                                    ![Top].step = IF n \in Valid
                                                  THEN FirstStep(frames[Top].request[n]) ELSE "next"]
    /\ UNCHANGED <<plist, job, ui, shown, unsure, torn, mixed, kept>>

(* Altered: the job stays loaded while its property list is replaced.        *)
BugStayLoaded(i) ==
    /\ frames[i].step = "unload"
    /\ frames' = [frames EXCEPT ![i].step = IF Wanted(i) = Deleted THEN "remove" ELSE "write"]
    /\ torn' = torn \ {File(i)}
    /\ UNCHANGED <<plist, job, ui, shown, unsure, mixed, kept>>

(* launchctl is a process of its own: it goes on while its frame waits below *)
(* others.  It finds the job by the property list; the process goes with it. *)
Unload(i) ==
    /\ frames[i].step = "unload"
    /\ IF plist[File(i)] = None THEN UNCHANGED <<job, kept>>
       ELSE /\ job' = [job EXCEPT ![File(i)] = None]
            /\ kept' = kept \ {File(i)}
    /\ frames' = [frames EXCEPT ![i].step = IF Wanted(i) = Deleted THEN "remove" ELSE "write"]
    /\ torn' = torn \ {File(i)}
    /\ UNCHANGED <<plist, ui, shown, unsure, mixed>>

(* The result of writing or removing the file is not looked at.              *)
Write ==
    /\ frames # <<>>
    /\ frames[Top].step = "write"
    /\ frames' = [frames EXCEPT ![Top].step = "load"]
    /\ \/ plist' = [plist EXCEPT ![File(Top)] = Wanted(Top)] /\ torn' = torn
       \/ plist' = plist /\ torn' = torn \cup {File(Top)}
    /\ UNCHANGED <<job, ui, shown, unsure, mixed, kept>>

(* Altered: unloading is taken for removing.                                 *)
BugErase ==
    /\ frames # <<>>
    /\ frames[Top].step = "remove"
    /\ frames' = [frames EXCEPT ![Top].step = "next", ![Top].name = NoName]
    /\ UNCHANGED <<plist, job, ui, shown, unsure, torn, mixed, kept>>

Erase ==
    /\ frames # <<>>
    /\ frames[Top].step = "remove"
    /\ frames' = [frames EXCEPT ![Top].step = "next", ![Top].name = NoName]
    /\ \/ plist' = [plist EXCEPT ![File(Top)] = None] /\ torn' = torn
       \/ plist' = plist /\ torn' = torn \cup {File(Top)}
    /\ UNCHANGED <<job, ui, shown, unsure, mixed, kept>>

(* Altered: what was saved is loaded at the next start of the device only.   *)
BugLoad(i) ==
    /\ frames[i].step = "load"
    /\ frames' = [frames EXCEPT ![i].step = "waited", ![i].name = NoName]
    /\ UNCHANGED <<plist, job, ui, shown, unsure, torn, mixed, kept>>

(* A job that is loaded already is left as it is.                            *)
Load(i) ==
    /\ frames[i].step = "load"
    /\ job' = IF job[File(i)] = None THEN [job EXCEPT ![File(i)] = plist[File(i)]] ELSE job
    /\ frames' = [frames EXCEPT ![i].step = "waited", ![i].name = NoName]
    /\ UNCHANGED <<plist, ui, shown, unsure, torn, mixed, kept>>

(* Altered: a process that is to restart is started only.                    *)
BugStop(i) ==
    /\ frames[i].step = "stop"
    /\ frames' = IF Wanted(i) = "Restart" THEN [frames EXCEPT ![i].step = "start"]
                 ELSE [frames EXCEPT ![i].step = "waited", ![i].name = NoName]
    /\ kept' = IF Wanted(i) = "Restart" THEN kept ELSE kept \ {File(i)}
    /\ UNCHANGED <<plist, job, ui, shown, unsure, torn, mixed>>

(* launchctl finds the process by the label of its job, if that is loaded.   *)
Stop(i) ==
    /\ frames[i].step = "stop"
    /\ frames' = IF Wanted(i) = "Restart" THEN [frames EXCEPT ![i].step = "start"]
                 ELSE [frames EXCEPT ![i].step = "waited", ![i].name = NoName]
    /\ kept' = kept \ {File(i)}
    /\ UNCHANGED <<plist, job, ui, shown, unsure, torn, mixed>>

(* Of a process that is there nothing is started; of one that is not, a new  *)
(* one.                                                                      *)
Start(i) ==
    /\ frames[i].step = "start"
    /\ frames' = [frames EXCEPT ![i].step = "waited", ![i].name = NoName]
    /\ UNCHANGED <<plist, job, ui, shown, unsure, torn, mixed, kept>>

(* Altered: an answer does not lead to a new list.                           *)
BugReply ==
    /\ frames # <<>>
    /\ frames[Top].todo = {}
    /\ frames[Top].step \in {"next", "waited"}
    /\ frames' = SubSeq(frames, 1, Top - 1)
    /\ ui' = IF ui \in Waits THEN "idle" ELSE ui
    /\ UNCHANGED <<plist, job, shown, unsure, torn, mixed, kept>>

(* Altered: a request is answered when the daemon has nothing else to do.    *)
BugReplyLast ==
    /\ Top = 1
    /\ frames[Top].todo = {}
    /\ frames[Top].step \in {"next", "waited"}
    /\ frames' = <<>>
    /\ ui' = Answer(ui)
    /\ UNCHANGED <<plist, job, shown, unsure, torn, mixed, kept>>

(* Only the innermost request can be one that somebody waits for.            *)
Reply ==
    /\ frames # <<>>
    /\ frames[Top].todo = {}
    /\ frames[Top].step \in {"next", "waited"}
    /\ frames' = SubSeq(frames, 1, Top - 1)
    /\ ui' = Answer(ui)
    /\ UNCHANGED <<plist, job, shown, unsure, torn, mixed, kept>>

(* The daemon dies; launchd starts a new one for the next message.           *)
Crash ==
    /\ frames # <<>>
    /\ frames' = <<>>
    /\ ui' = Answer(ui)
    /\ torn' = torn \cup {File(i) : i \in {j \in DOMAIN frames :
                                             frames[j].step \in {"write", "remove", "load"}}}
    /\ kept' = {}
    /\ UNCHANGED <<plist, job, shown, unsure, mixed>>

(* launchd loads what it finds.                                              *)
Reboot ==
    /\ frames' = <<>>
    /\ job' = plist
    /\ ui' = "stale"
    /\ unsure' = {}
    /\ torn' = {}
    /\ mixed' = {}
    /\ kept' = {}
    /\ UNCHANGED <<plist, shown>>

(* What the daemon and its launchctl do. *)
Work ==
    \/ Take \/ Write \/ Erase \/ Reply
    \/ \E i \in DOMAIN frames : Unload(i) \/ Load(i) \/ Stop(i) \/ Start(i)

Next ==
    \/ Save \/ Delete \/ Operate \/ Refresh \/ Reopen
    \/ Work
    \/ Crash \/ Reboot

Spec == Init /\ [][Next]_vars

(* The daemon's thread runs, or one of its launchctl goes on.  Nobody has to *)
(* ask for anything, and neither crash nor restart has to happen.            *)
FairSpec == Spec /\ WF_vars(Work)

-----------------------------------------------------------------------------
TypeOK ==
    /\ plist \in [Files -> Configs \cup {None}]
    /\ job \in [Files -> Configs \cup {None}]
    /\ frames \in Seq(Frames)
    /\ \A i \in DOMAIN frames :
           LET fr == frames[i]
           IN  /\ fr.todo \subseteq Names(fr.request)
               /\ fr.step \in {"unload", "write", "remove", "load"}
                      => fr.name \in Filing(fr.request)
               /\ fr.step \in {"stop", "start"} => fr.name \in Operating(fr.request)
               /\ fr.step \in {"write", "load"} => Wanted(i) \in Configs
               /\ fr.step = "remove" => Wanted(i) = Deleted
               /\ fr.step \in {"next", "waited"} => fr.name = NoName
    /\ ui \in Waits \cup {"idle", "stale"}
    /\ shown \subseteq Files
    /\ unsure \subseteq Files
    /\ torn \subseteq Files
    /\ mixed \subseteq Files
    /\ kept \subseteq Files

(* A job runs with the configuration in its property list, also in the       *)
(* middle of a request and after a crash there, as long as no two requests   *)
(* handle the instance at once: it is unloaded before the file is written or *)
(* removed.                                                                  *)
JobsFromFiles ==
    \A f \in Files \ mixed : job[f] \in {None, plist[f]}

(* The file that a frame is changing.                                        *)
AtHand == {File(i) : i \in {j \in DOMAIN frames : frames[j].step \in {"write", "remove", "load"}}}

(* An instance whose handling is neither under way nor was cut short has its *)
(* job loaded exactly when it has a property list: nothing is left unloaded  *)
(* by a request that went well.                                              *)
UntornAgree ==
    \A f \in Files \ (torn \cup mixed \cup AtHand) : job[f] = plist[f]

(* The valid names that frame i is through with, and what each has become if *)
(* all went well.                                                            *)
Past(i) == Filing(frames[i].request) \ (frames[i].todo \cup {frames[i].name})

Outcome(i, n) == IF frames[i].request[n] = Deleted THEN None ELSE frames[i].request[n]

(* Another name of the request stands for the same file.                     *)
Twin(i, n) == \E m \in Filing(frames[i].request) \ {n} : Lower[m] = Lower[n]

(* A name that a request is through with has become what was asked: saved    *)
(* and loaded, or gone; if it shares its file with no other name of the      *)
(* request nor with another request, and nothing failed.                     *)
Served ==
    \A i \in DOMAIN frames : \A n \in Past(i) :
        \/ Twin(i, n)
        \/ Lower[n] \in torn \cup mixed
        \/ plist[Lower[n]] = Outcome(i, n) /\ job[Lower[n]] = Outcome(i, n)

(* The list on the screen is that of the property lists, except for what was *)
(* still being handled when it was fetched.                                  *)
ListTrue ==
    ui = "idle" => \A f \in Files \ unsure : f \in shown <=> plist[f] # None

(* "This instance will be restarted and all active connections will be       *)
(* interrupted": when a restart is about to be answered, the process that    *)
(* ran when it was asked for is gone, whatever else was handled meanwhile.   *)
RestartInterrupts ==
    frames # <<>> /\ frames[Top].todo = {} /\ frames[Top].step \in {"next", "waited"}
        => Restarting(frames[Top].request) \cap kept = {}

(* Preferences that wait for the daemon, as their main thread does, are      *)
(* given an answer, however many requests the daemon is in the middle of; it *)
(* answers, or dies.                                                         *)
Answered == ui \in Waits ~> ui \notin Waits

(* What the preferences lead to expect: saving keeps what was entered, and   *)
(* only Delete deletes.  When a request is done and nothing failed, the      *)
(* configurations in it are in some property list.                           *)
SaveKeeps ==
    \A i \in DOMAIN frames :
        LET fr == frames[i]
        IN  fr.todo = {} /\ fr.step \in {"next", "waited"} /\ torn \cup mixed = {}
                => \A n \in Names(fr.request) :
                       fr.request[n] \in Configs
                           => \E f \in Files : plist[f] = fr.request[n]
=============================================================================
