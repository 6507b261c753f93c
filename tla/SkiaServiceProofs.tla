------------------------- MODULE SkiaServiceProofs -------------------------
(* Theorems about SkiaService, for any names, configurations and depth of    *)
(* nested requests.                                                          *)
EXTENDS SkiaService, FiniteSets, SequenceTheorems, FiniteSetTheorems, TLAPS

-----------------------------------------------------------------------------
(* Two requests have only mixed instances in common.                         *)
Overlap ==
    \A i, j \in DOMAIN frames :
        i # j => FilesOf(frames[i].request) \cap FilesOf(frames[j].request) \subseteq mixed

(* An instance whose file is being changed has no job.                       *)
Unloaded ==
    \A i \in DOMAIN frames :
        frames[i].step \in {"write", "remove", "load"} /\ File(i) \notin mixed
            => job[File(i)] = None

(* What is about to be loaded is what was asked for.                         *)
Written ==
    \A i \in DOMAIN frames :
        frames[i].step = "load" /\ File(i) \notin torn \cup mixed
            => plist[File(i)] = Wanted(i)

IInv ==
    /\ TypeOK
    /\ Overlap
    /\ JobsFromFiles
    /\ Unloaded
    /\ Written
    /\ UntornAgree
    /\ Served

-----------------------------------------------------------------------------
THEOREM InitIInv == Init => IInv
  BY NamesAssumption, ConfigsAssumption
  DEF Init, IInv, TypeOK, Overlap, JobsFromFiles, Unloaded, Written, UntornAgree, Served, Filed, Files, AtHand

(* The requests that the preferences send are requests.                      *)
LEMMA OneIsRequest ==
  ASSUME NEW old, NEW value \in {Deleted} \cup Operations
  PROVE  OneRequest(old, value) \in Requests
  BY DEF OneRequest, Requests

LEMMA SaveIsRequest ==
  ASSUME NEW old \in Files \cup {NoName}, NEW n \in Typed, NEW config \in Configs
  PROVE  SaveRequest(old, n, config) \in Requests
  BY DEF SaveRequest, Requests

LEMMA SendIInv ==
  ASSUME IInv, NEW request \in Requests, NEW waits \in Waits, Send(request, waits)
  PROVE  IInv'
<1> DEFINE new == [request |-> request, todo |-> Names(request), name |-> NoName, step |-> "next"]
<1>0. PICK m : m = Len(frames) + 1
  OBVIOUS
<1>1. new \in Frames
  BY DEF Frames, Names, Steps
<1>2. /\ frames \in Seq(Frames)
      /\ frames' = Append(frames, new)
      /\ Len(frames) \in Nat
  BY DEF IInv, TypeOK, Send
<1>3. /\ frames' \in Seq(Frames)
      /\ DOMAIN frames' = DOMAIN frames \cup {m}
      /\ m \notin DOMAIN frames
      /\ \A i \in DOMAIN frames : frames'[i] = frames[i]
      /\ frames'[m] = new
  BY <1>0, <1>1, <1>2
<1> HIDE DEF new
<1>4. /\ new.request = request
      /\ new.todo = Names(request)
      /\ new.name = NoName
      /\ new.step = "next"
  BY DEF new
<1>5. FilesOf(request) \subseteq Files
  BY DEF FilesOf, Filing, Files
<1>6. UNCHANGED <<plist, job, torn>> /\ mixed' = mixed \cup (FilesOf(request) \cap Handled)
  BY DEF Send
<1>7. TypeOK'
  <2>1. Restarting(request) \subseteq Files
    BY DEF Restarting, Operating, Files
  <2> QED
    BY <1>3, <1>4, <1>5, <1>6, <2>1 DEF IInv, TypeOK, Send, Wanted
<1>8. Overlap'
  <2> SUFFICES ASSUME NEW i \in DOMAIN frames', NEW j \in DOMAIN frames', i # j,
                      NEW f \in FilesOf(frames'[i].request), f \in FilesOf(frames'[j].request)
               PROVE  f \in mixed'
    BY DEF Overlap
  <2>1. CASE i \in DOMAIN frames /\ j \in DOMAIN frames
    BY <1>3, <1>6, <2>1 DEF IInv, Overlap
  <2>2. CASE i \in DOMAIN frames /\ j = m
    BY <1>3, <1>4, <1>6, <2>2 DEF Handled
  <2>3. CASE j \in DOMAIN frames /\ i = m
    BY <1>3, <1>4, <1>6, <2>3 DEF Handled
  <2> QED
    BY <1>3, <2>1, <2>2, <2>3
<1>9. JobsFromFiles' /\ Unloaded' /\ Written'
  BY <1>3, <1>4, <1>6 DEF IInv, JobsFromFiles, Unloaded, Written, File, Wanted
<1>10. AtHand' = AtHand
  BY <1>3, <1>4 DEF AtHand, File
<1>11. UntornAgree'
  BY <1>6, <1>10 DEF IInv, UntornAgree
<1>12. Served'
  <2>1. \A i \in DOMAIN frames :
            /\ Past(i)' = Past(i)
            /\ \A n \in Past(i) : Outcome(i, n)' = Outcome(i, n) /\ Twin(i, n)' = Twin(i, n)
    BY <1>3 DEF Past, Outcome, Twin
  <2>2. Past(m)' = {}
    BY <1>3, <1>4 DEF Past, Filing
  <2> QED
    BY <1>3, <1>6, <2>1, <2>2 DEF IInv, Served
<1> QED
  BY <1>7, <1>8, <1>9, <1>11, <1>12 DEF IInv

-----------------------------------------------------------------------------
Busy == {"unload", "write", "remove", "load"}

(* Whoever else has to do with a file that frame k is handling shares it.    *)
LEMMA BusyFile ==
  ASSUME TypeOK, NEW k \in DOMAIN frames, frames[k].step \in Busy
  PROVE  /\ frames[k] \in Frames
         /\ frames[k].name \in Filing(frames[k].request)
         /\ File(k) \in Files
         /\ File(k) \in FilesOf(frames[k].request)
         /\ Wanted(k) \in Configs \cup {Deleted}
<1>1. frames[k] \in Frames
  BY DEF TypeOK
<1>2. frames[k].name \in Filing(frames[k].request)
  BY DEF TypeOK, Busy
<1>3. frames[k].request \in Requests
  BY <1>1 DEF Frames
<1>4. Wanted(k) \in Configs \cup {Deleted}
  BY <1>2, <1>3 DEF Wanted, Requests, Filing, Names
<1> QED
  BY <1>1, <1>2, <1>4, NamesAssumption DEF File, Files, FilesOf, Filing

LEMMA OneHandler ==
  ASSUME TypeOK, Overlap,
         NEW i \in DOMAIN frames, NEW k \in DOMAIN frames, i # k,
         frames[k].step \in Busy,
         File(k) \in FilesOf(frames[i].request)
  PROVE  File(k) \in mixed
  BY BusyFile DEF Overlap

LEMMA PastUntouched ==
  ASSUME TypeOK, Overlap,
         NEW i \in DOMAIN frames, NEW n \in Past(i), ~Twin(i, n),
         NEW k \in DOMAIN frames, frames[k].step \in Busy, Lower[n] = File(k)
  PROVE  Lower[n] \in mixed
<1>1. CASE i = k
  BY <1>1, BusyFile DEF Past, Twin, File
<1>2. CASE i # k
  BY <1>2, OneHandler DEF Past, FilesOf
<1> QED
  BY <1>1, <1>2

LEMMA UnloadIInv ==
  ASSUME IInv, NEW k \in DOMAIN frames, Unload(k)
  PROVE  IInv'
<1> DEFINE f == File(k)
           s == IF Wanted(k) = Deleted THEN "remove" ELSE "write"
<1>1. /\ f \in Files
      /\ f \in FilesOf(frames[k].request)
      /\ Wanted(k) \in Configs \cup {Deleted}
      /\ frames[k] \in Frames
      /\ frames[k].name \in Filing(frames[k].request)
  BY BusyFile DEF IInv, Unload, Busy
<1>2. /\ frames' \in Seq(Frames)
      /\ DOMAIN frames' = DOMAIN frames
      /\ \A i \in DOMAIN frames : i # k => frames'[i] = frames[i]
      /\ frames'[k] = [frames[k] EXCEPT !.step = s]
  <2>1. s \in Steps
    BY DEF Steps
  <2>2. [frames[k] EXCEPT !.step = s] \in Frames
    BY <1>1, <2>1 DEF Frames
  <2>3. frames' = [frames EXCEPT ![k].step = s] /\ frames \in Seq(Frames)
    BY DEF IInv, TypeOK, Unload
  <2> HIDE DEF s
  <2> QED
    BY <2>2, <2>3
<1>3. /\ frames'[k].request = frames[k].request
      /\ frames'[k].todo = frames[k].todo
      /\ frames'[k].name = frames[k].name
      /\ frames'[k].step = s
  BY <1>1, <1>2 DEF Frames
<1>4. /\ \A i \in DOMAIN frames : File(i)' = File(i) /\ Wanted(i)' = Wanted(i)
  BY <1>2, <1>3 DEF File, Wanted
<1>5. /\ UNCHANGED <<plist, mixed>>
      /\ torn' = torn \ {f}
      /\ job' \in [Files -> Configs \cup {None}]
      /\ \A g \in Files \ {f} : job'[g] = job[g]
      /\ f \notin mixed => job'[f] = None
  BY <1>1 DEF IInv, TypeOK, JobsFromFiles, Unload
<1> HIDE DEF f, s
<1>6. TypeOK'
  BY <1>1, <1>2, <1>3, <1>4, <1>5 DEF IInv, TypeOK, Unload, s
<1>7. Overlap'
  <2>1. \A i \in DOMAIN frames : FilesOf(frames'[i].request) = FilesOf(frames[i].request)
    BY <1>2, <1>3
  <2> QED
    BY <1>2, <1>5, <2>1 DEF IInv, Overlap
<1>8. JobsFromFiles'
  BY <1>5 DEF IInv, JobsFromFiles
<1>9. \A i \in DOMAIN frames : i # k /\ frames[i].step \in Busy /\ f \notin mixed => File(i) # f
  BY <1>1, BusyFile, OneHandler DEF IInv, f, Unload, Busy
<1>10. Unloaded'
  BY <1>2, <1>3, <1>4, <1>5, <1>9, BusyFile DEF IInv, Unloaded, Busy, f
<1>11. Written'
  <2> SUFFICES ASSUME NEW i \in DOMAIN frames, frames'[i].step = "load", File(i) \notin torn' \cup mixed
               PROVE  plist[File(i)] = Wanted(i)
    BY <1>2, <1>4, <1>5 DEF Written
  <2>1. i # k
    BY <1>3 DEF s
  <2>2. frames[i].step = "load"
    BY <1>2, <2>1
  <2>3. File(i) # f
    BY <1>5, <1>9, <2>1, <2>2 DEF Busy
  <2> QED
    BY <1>5, <2>2, <2>3 DEF IInv, Written
<1>12. AtHand' = AtHand \cup {f}
  BY <1>2, <1>3, <1>4 DEF AtHand, f, s, Unload
<1>13. UntornAgree'
  BY <1>5, <1>12 DEF IInv, UntornAgree
<1>14. Served'
  <2> SUFFICES ASSUME NEW i \in DOMAIN frames, NEW n \in Past(i), ~Twin(i, n), Lower[n] \notin torn' \cup mixed
               PROVE  plist'[Lower[n]] = Outcome(i, n) /\ job'[Lower[n]] = Outcome(i, n)
    <3>1. \A i \in DOMAIN frames :
              /\ Past(i)' = Past(i)
              /\ \A n \in Past(i) : Outcome(i, n)' = Outcome(i, n) /\ Twin(i, n)' = Twin(i, n)
      BY <1>2, <1>3 DEF Past, Twin, Outcome
    <3> QED
      BY <3>1, <1>2, <1>5 DEF Served
  <2>1. Lower[n] # f
    BY PastUntouched, <1>5 DEF IInv, f, Unload, Busy
  <2>2. Lower[n] \in Files
    BY NamesAssumption DEF Past, Filing, Files
  <2> QED
    BY <1>5, <2>1, <2>2 DEF IInv, Served
<1> QED
  BY <1>6, <1>7, <1>8, <1>10, <1>11, <1>13, <1>14 DEF IInv

LEMMA TopFrame ==
  ASSUME TypeOK, frames # <<>>
  PROVE  Top \in DOMAIN frames
  BY DEF TypeOK, Top

LEMMA TakeIInv ==
  ASSUME IInv, Take
  PROVE  IInv'
<1>0. PICK k : k = Top
  OBVIOUS
<1>1. PICK t \in frames[k].todo :
          frames' = [frames EXCEPT ![k].todo = @ \ {t},
                                   ![k].name = IF t \in Valid THEN t ELSE NoName,
                                   ![k].step = IF t \in Valid THEN FirstStep(frames[k].request[t]) ELSE "next"]
  BY <1>0 DEF Take
<1>2. /\ k \in DOMAIN frames
      /\ frames[k] \in Frames
      /\ frames[k].step \in {"next", "waited"}
      /\ frames[k].name = NoName
      /\ frames[k].todo \subseteq Names(frames[k].request)
  BY <1>0, TopFrame DEF IInv, TypeOK, Take
<1>3. UNCHANGED <<plist, job, ui, shown, unsure, torn, mixed, kept>>
  BY DEF Take
<1> DEFINE nm == IF t \in Valid THEN t ELSE NoName
           s == IF t \in Valid THEN FirstStep(frames[k].request[t]) ELSE "next"
<1>4. /\ frames' \in Seq(Frames)
      /\ DOMAIN frames' = DOMAIN frames
      /\ \A i \in DOMAIN frames : i # k => frames'[i] = frames[i]
  BY <1>1, <1>2 DEF IInv, TypeOK, Frames, Steps, Names
<1>5. /\ frames'[k].request = frames[k].request
      /\ frames'[k].todo = frames[k].todo \ {t}
      /\ frames'[k].name = nm
      /\ frames'[k].step = s
  BY <1>1, <1>2 DEF Frames, IInv, TypeOK
<1>6. /\ t \in Names(frames[k].request)
      /\ s \in {"unload", "stop", "start", "next"}
      /\ s = "unload" => nm = t /\ t \in Filing(frames[k].request)
      /\ s \in {"stop", "start"} => nm = t /\ t \in Operating(frames[k].request)
      /\ s = "next" => nm = NoName /\ t \notin Valid
  BY <1>2 DEF FirstStep, Operations, Filing, Operating
<1> HIDE DEF nm, s
<1>7. \A i \in DOMAIN frames : i # k => File(i)' = File(i) /\ Wanted(i)' = Wanted(i)
  BY <1>4 DEF File, Wanted
<1>8. TypeOK'
  BY <1>2, <1>3, <1>4, <1>5, <1>7, <1>6 DEF IInv, TypeOK
<1>9. Overlap'
  BY <1>3, <1>4, <1>5 DEF IInv, Overlap
<1>10. AtHand' = AtHand
  BY <1>2, <1>4, <1>5, <1>7, <1>6 DEF AtHand
<1>11. JobsFromFiles' /\ Unloaded' /\ Written' /\ UntornAgree'
  BY <1>2, <1>3, <1>4, <1>5, <1>7, <1>10, <1>6 DEF IInv, JobsFromFiles, Unloaded, Written, UntornAgree
<1>12. Served'
  <2>1. /\ Past(k)' = Past(k)
        /\ \A n \in Past(k) : Outcome(k, n)' = Outcome(k, n) /\ Twin(k, n)' = Twin(k, n)
    <3>1. nm \in Filing(frames[k].request) => nm = t
      BY <1>6, NamesAssumption DEF Filing, Operating, Names
    <3>2. t \in Filing(frames[k].request) => nm = t
      BY <1>6 DEF Filing, Operating
    <3> QED
      BY <1>2, <1>5, <1>6, <3>1, <3>2, NamesAssumption DEF Past, Outcome, Twin, Filing, Names
  <2>2. \A i \in DOMAIN frames : i # k =>
            /\ Past(i)' = Past(i)
            /\ \A n \in Past(i) : Outcome(i, n)' = Outcome(i, n) /\ Twin(i, n)' = Twin(i, n)
    BY <1>4 DEF Past, Outcome, Twin
  <2> QED
    BY <1>3, <1>4, <2>1, <2>2 DEF IInv, Served
<1> QED
  BY <1>8, <1>9, <1>11, <1>12 DEF IInv

LEMMA ReplyIInv ==
  ASSUME IInv, Reply
  PROVE  IInv'
<1>1. /\ frames' = SubSeq(frames, 1, Len(frames) - 1)
      /\ frames \in Seq(Frames)
      /\ frames # <<>>
      /\ Len(frames) \in Nat \ {0}
  BY DEF IInv, TypeOK, Reply, Top
<1>2. /\ frames' \in Seq(Frames)
      /\ DOMAIN frames' = DOMAIN frames \ {Len(frames)}
      /\ \A i \in DOMAIN frames' : frames'[i] = frames[i]
  BY <1>1
<1>3. UNCHANGED <<plist, job, shown, unsure, torn, mixed, kept>> /\ ui' \in {ui, "stale", "idle"}
  BY DEF Reply, Answer
<1>4. /\ frames[Len(frames)].step \in {"next", "waited"}
      /\ \A i \in DOMAIN frames' : File(i)' = File(i) /\ Wanted(i)' = Wanted(i)
  BY <1>2 DEF Reply, Top, File, Wanted
<1>5. AtHand' = AtHand
  BY <1>2, <1>4 DEF AtHand
<1>6. TypeOK'
  BY <1>2, <1>3, <1>4 DEF IInv, TypeOK
<1>7. Overlap' /\ JobsFromFiles' /\ Unloaded' /\ Written' /\ UntornAgree'
  BY <1>2, <1>3, <1>4, <1>5 DEF IInv, Overlap, JobsFromFiles, Unloaded, Written, UntornAgree
<1>8. Served'
  <2>1. \A i \in DOMAIN frames' :
            /\ Past(i)' = Past(i)
            /\ \A n \in Past(i) : Outcome(i, n)' = Outcome(i, n) /\ Twin(i, n)' = Twin(i, n)
    BY <1>2 DEF Past, Outcome, Twin
  <2> QED
    BY <1>2, <1>3, <2>1 DEF IInv, Served
<1> QED
  BY <1>6, <1>7, <1>8 DEF IInv

LEMMA CrashIInv ==
  ASSUME IInv, Crash
  PROVE  IInv'
<1>1. /\ frames' = <<>>
      /\ UNCHANGED <<plist, job, shown, unsure, mixed>>
      /\ ui' \in {ui, "stale", "idle"}
      /\ torn' = torn \cup AtHand
      /\ kept' = {}
  BY DEF Crash, AtHand, Answer
<1>2. AtHand \subseteq Files
  BY BusyFile DEF AtHand, Busy, IInv
<1>3. AtHand' = {}
  BY <1>1 DEF AtHand
<1>4. TypeOK'
  BY <1>1, <1>2 DEF IInv, TypeOK
<1> QED
  BY <1>1, <1>3, <1>4 DEF IInv, Overlap, JobsFromFiles, Unloaded, Written, UntornAgree, Served

LEMMA RebootIInv ==
  ASSUME IInv, Reboot
  PROVE  IInv'
<1>1. AtHand' = {}
  BY DEF Reboot, AtHand
<1> QED
  BY <1>1 DEF Reboot, IInv, TypeOK, Overlap, JobsFromFiles, Unloaded, Written, UntornAgree, Served

(* Steps of the preferences that send nothing.                               *)
LEMMA ListIInv ==
  ASSUME IInv, Refresh \/ Reopen
  PROVE  IInv'
<1>1. UNCHANGED <<plist, job, frames, torn, mixed, kept>>
  BY DEF Refresh, Reopen
<1>2. Handled \subseteq Files /\ Filed \subseteq Files
  BY DEF Handled, FilesOf, Filing, Files, Filed
<1>3. TypeOK'
  <2>1. \A i \in DOMAIN frames : Wanted(i)' = Wanted(i)
    BY <1>1 DEF Wanted
  <2> QED
    BY <1>1, <1>2, <2>1 DEF IInv, TypeOK, Refresh, Reopen
<1>4. AtHand' = AtHand /\ \A i \in DOMAIN frames : File(i)' = File(i) /\ Wanted(i)' = Wanted(i)
  BY <1>1 DEF AtHand, File, Wanted
<1>5. \A i \in DOMAIN frames :
          /\ Past(i)' = Past(i)
          /\ \A n \in Past(i) : Outcome(i, n)' = Outcome(i, n) /\ Twin(i, n)' = Twin(i, n)
  BY <1>1 DEF Past, Outcome, Twin
<1> QED
  BY <1>1, <1>3, <1>4, <1>5
  DEF IInv, Overlap, JobsFromFiles, Unloaded, Written, UntornAgree, Served

LEMMA WriteIInv ==
  ASSUME IInv, Write
  PROVE  IInv'
<1>0. PICK k : k = Top
  OBVIOUS
<1> DEFINE f == File(k)
<1>1. /\ frames[k].step = "write"
      /\ frames' = [frames EXCEPT ![k].step = "load"]
      /\ \/ plist' = [plist EXCEPT ![f] = Wanted(k)] /\ torn' = torn
         \/ plist' = plist /\ torn' = torn \cup {f}
      /\ UNCHANGED <<job, ui, shown, unsure, mixed, kept>>
  BY <1>0 DEF Write
<1>2. /\ k \in DOMAIN frames
      /\ frames[k] \in Frames
      /\ f \in Files
      /\ f \in FilesOf(frames[k].request)
      /\ Wanted(k) \in Configs
      /\ frames[k].name \in Filing(frames[k].request)
  BY <1>0, <1>1, TopFrame, BusyFile DEF IInv, TypeOK, Write, Busy
<1>3. /\ frames' \in Seq(Frames)
      /\ DOMAIN frames' = DOMAIN frames
      /\ \A i \in DOMAIN frames : i # k => frames'[i] = frames[i]
  BY <1>1, <1>2 DEF IInv, TypeOK, Frames, Steps
<1>4. /\ frames'[k].request = frames[k].request
      /\ frames'[k].todo = frames[k].todo
      /\ frames'[k].name = frames[k].name
      /\ frames'[k].step = "load"
  BY <1>1, <1>2 DEF IInv, TypeOK, Frames
<1>5. \A i \in DOMAIN frames : File(i)' = File(i) /\ Wanted(i)' = Wanted(i)
  BY <1>3, <1>4 DEF File, Wanted
<1>6. /\ plist' \in [Files -> Configs \cup {None}]
      /\ \A g \in Files \ {f} : plist'[g] = plist[g]
      /\ torn \subseteq torn' /\ torn' \subseteq torn \cup {f}
      /\ f \notin torn' => plist'[f] = Wanted(k)
      /\ f \notin mixed => job[f] = None
  BY <1>1, <1>2 DEF IInv, TypeOK, Unloaded
<1> HIDE DEF f
<1>7. TypeOK'
  BY <1>1, <1>2, <1>3, <1>4, <1>5, <1>6 DEF IInv, TypeOK
<1>8. Overlap'
  BY <1>1, <1>3, <1>4 DEF IInv, Overlap
<1>9. JobsFromFiles'
  BY <1>1, <1>6 DEF IInv, JobsFromFiles
<1>10. \A i \in DOMAIN frames : i # k /\ frames[i].step \in Busy /\ f \notin mixed => File(i) # f
  BY <1>1, <1>2, BusyFile, OneHandler DEF IInv, f, Busy
<1>11. Unloaded'
  BY <1>1, <1>3, <1>4, <1>5, <1>6 DEF IInv, Unloaded, f
<1>12. Written'
  <2> SUFFICES ASSUME NEW i \in DOMAIN frames, frames'[i].step = "load", File(i) \notin torn' \cup mixed
               PROVE  plist'[File(i)] = Wanted(i)
    BY <1>1, <1>3, <1>5 DEF Written
  <2>1. CASE i = k
    BY <1>6, <2>1 DEF f
  <2>2. CASE i # k
    <3>1. frames[i].step = "load"
      BY <1>3, <2>2
    <3>2. File(i) # f /\ File(i) \in Files
      BY <1>1, <1>10, <2>2, <3>1, BusyFile DEF IInv, Busy, f
    <3> QED
      BY <1>6, <3>1, <3>2 DEF IInv, Written
  <2> QED
    BY <2>1, <2>2
<1>13. AtHand' = AtHand /\ f \in AtHand
  BY <1>1, <1>2, <1>3, <1>4, <1>5 DEF AtHand, f
<1>14. UntornAgree'
  BY <1>1, <1>6, <1>13 DEF IInv, UntornAgree
<1>15. Served'
  <2>1. \A i \in DOMAIN frames :
            /\ Past(i)' = Past(i)
            /\ \A n \in Past(i) : Outcome(i, n)' = Outcome(i, n) /\ Twin(i, n)' = Twin(i, n)
    BY <1>3, <1>4 DEF Past, Outcome, Twin
  <2> SUFFICES ASSUME NEW i \in DOMAIN frames, NEW n \in Past(i), ~Twin(i, n), Lower[n] \notin torn' \cup mixed
               PROVE  plist'[Lower[n]] = Outcome(i, n) /\ job[Lower[n]] = Outcome(i, n)
    BY <1>1, <1>3, <2>1 DEF Served
  <2>2. Lower[n] # f
    BY <1>1, <1>2, PastUntouched DEF IInv, f, Busy
  <2>3. Lower[n] \in Files
    BY NamesAssumption DEF Past, Filing, Files
  <2> QED
    BY <1>6, <2>2, <2>3 DEF IInv, Served
<1> QED
  BY <1>7, <1>8, <1>9, <1>11, <1>12, <1>14, <1>15 DEF IInv

LEMMA EraseIInv ==
  ASSUME IInv, Erase
  PROVE  IInv'
<1>0. PICK k : k = Top
  OBVIOUS
<1> DEFINE f == File(k)
<1>1. /\ frames[k].step = "remove"
      /\ frames' = [frames EXCEPT ![k].step = "next", ![k].name = NoName]
      /\ \/ plist' = [plist EXCEPT ![f] = None] /\ torn' = torn
         \/ plist' = plist /\ torn' = torn \cup {f}
      /\ UNCHANGED <<job, ui, shown, unsure, mixed, kept>>
  BY <1>0 DEF Erase
<1>2. /\ k \in DOMAIN frames
      /\ frames[k] \in Frames
      /\ f \in Files
      /\ f \in FilesOf(frames[k].request)
      /\ Wanted(k) = Deleted
      /\ frames[k].name \in Filing(frames[k].request)
  BY <1>0, <1>1, TopFrame, BusyFile DEF IInv, TypeOK, Erase, Busy
<1>3. /\ frames' \in Seq(Frames)
      /\ DOMAIN frames' = DOMAIN frames
      /\ \A i \in DOMAIN frames : i # k => frames'[i] = frames[i]
  <2>1. [frames[k] EXCEPT !.step = "next", !.name = NoName] \in Frames
    BY <1>2 DEF Frames, Steps
  <2>2. frames \in Seq(Frames)
    BY DEF IInv, TypeOK
  <2>3. frames' = [frames EXCEPT ![k] = [frames[k] EXCEPT !.step = "next", !.name = NoName]]
    BY <1>1, <1>2
  <2> QED
    BY <1>2, <2>1, <2>2, <2>3
<1>4. /\ frames'[k].request = frames[k].request
      /\ frames'[k].todo = frames[k].todo
      /\ frames'[k].name = NoName
      /\ frames'[k].step = "next"
  BY <1>1, <1>2 DEF IInv, TypeOK, Frames
<1>5. \A i \in DOMAIN frames : i # k => File(i)' = File(i) /\ Wanted(i)' = Wanted(i)
  BY <1>3 DEF File, Wanted
<1>6. /\ plist' \in [Files -> Configs \cup {None}]
      /\ \A g \in Files \ {f} : plist'[g] = plist[g]
      /\ torn \subseteq torn' /\ torn' \subseteq torn \cup {f}
      /\ f \notin torn' => plist'[f] = None
      /\ f \notin mixed => job[f] = None
  BY <1>1, <1>2 DEF IInv, TypeOK, Unloaded
<1> HIDE DEF f
<1>7. TypeOK'
  BY <1>1, <1>2, <1>3, <1>4, <1>5, <1>6 DEF IInv, TypeOK
<1>8. Overlap'
  BY <1>1, <1>3, <1>4 DEF IInv, Overlap
<1>9. JobsFromFiles'
  BY <1>1, <1>6 DEF IInv, JobsFromFiles
<1>10. \A i \in DOMAIN frames : i # k /\ frames[i].step \in Busy /\ f \notin mixed => File(i) # f
  BY <1>1, <1>2, BusyFile, OneHandler DEF IInv, f, Busy
<1>11. Unloaded'
  BY <1>1, <1>3, <1>4, <1>5, <1>6 DEF IInv, Unloaded
<1>12. Written'
  <2> SUFFICES ASSUME NEW i \in DOMAIN frames, frames'[i].step = "load", File(i)' \notin torn' \cup mixed
               PROVE  plist'[File(i)'] = Wanted(i)'
    BY <1>1, <1>3 DEF Written
  <2>1. i # k
    BY <1>4
  <2>2. frames[i].step = "load" /\ File(i)' = File(i) /\ Wanted(i)' = Wanted(i)
    BY <1>3, <1>5, <2>1
  <2>3. File(i) # f /\ File(i) \in Files
    BY <1>1, <1>10, <2>1, <2>2, BusyFile DEF IInv, Busy, f
  <2> QED
    BY <1>6, <2>2, <2>3 DEF IInv, Written
<1>13. AtHand \subseteq AtHand' \cup {f}
  BY <1>3, <1>5 DEF AtHand, f
<1>14. UntornAgree'
  BY <1>1, <1>2, <1>6, <1>13 DEF IInv, UntornAgree
<1>15. /\ Past(k)' \subseteq Past(k) \cup {frames[k].name}
       /\ \A n \in Past(k)' : Outcome(k, n)' = Outcome(k, n) /\ Twin(k, n)' = Twin(k, n)
       /\ \A i \in DOMAIN frames : i # k =>
              /\ Past(i)' = Past(i)
              /\ \A n \in Past(i) : Outcome(i, n)' = Outcome(i, n) /\ Twin(i, n)' = Twin(i, n)
  BY <1>3, <1>4 DEF Past, Outcome, Twin
<1>16. Served'
  <2> SUFFICES ASSUME NEW i \in DOMAIN frames, NEW n \in Past(i)', ~Twin(i, n), Lower[n] \notin torn' \cup mixed
               PROVE  plist'[Lower[n]] = Outcome(i, n) /\ job[Lower[n]] = Outcome(i, n)
    BY <1>1, <1>3, <1>15 DEF Served
  <2>1. CASE n \in Past(i)
    <3>1. Lower[n] # f
      BY <1>1, <1>2, <2>1, PastUntouched DEF IInv, f, Busy
    <3>2. Lower[n] \in Files
      BY <2>1, NamesAssumption DEF Past, Filing, Files
    <3> QED
      BY <1>6, <2>1, <3>1, <3>2 DEF IInv, Served
  <2>2. CASE i = k /\ n = frames[k].name
    <3>1. Lower[n] = f /\ Outcome(i, n) = None
      BY <1>2, <2>2 DEF f, File, Outcome, Wanted
    <3> QED
      BY <1>6, <3>1
  <2> QED
    BY <1>15, <2>1, <2>2
<1> QED
  BY <1>7, <1>8, <1>9, <1>11, <1>12, <1>14, <1>16 DEF IInv

LEMMA LoadIInv ==
  ASSUME IInv, NEW k \in DOMAIN frames, Load(k)
  PROVE  IInv'
<1> DEFINE f == File(k)
<1>1. /\ frames[k].step = "load"
      /\ frames' = [frames EXCEPT ![k].step = "waited", ![k].name = NoName]
      /\ job' = IF job[f] = None THEN [job EXCEPT ![f] = plist[f]] ELSE job
      /\ UNCHANGED <<plist, ui, shown, unsure, torn, mixed, kept>>
  BY DEF Load
<1>2. /\ frames[k] \in Frames
      /\ f \in Files
      /\ f \in FilesOf(frames[k].request)
      /\ Wanted(k) \in Configs
      /\ frames[k].name \in Filing(frames[k].request)
  BY <1>1, BusyFile DEF IInv, TypeOK, Busy
<1>3. /\ frames' \in Seq(Frames)
      /\ DOMAIN frames' = DOMAIN frames
      /\ \A i \in DOMAIN frames : i # k => frames'[i] = frames[i]
  BY <1>1, <1>2 DEF IInv, TypeOK, Frames, Steps
<1>4. /\ frames'[k].request = frames[k].request
      /\ frames'[k].todo = frames[k].todo
      /\ frames'[k].name = NoName
      /\ frames'[k].step = "waited"
  BY <1>1, <1>2 DEF IInv, TypeOK, Frames
<1>5. \A i \in DOMAIN frames : i # k => File(i)' = File(i) /\ Wanted(i)' = Wanted(i)
  BY <1>3 DEF File, Wanted
<1>6. /\ job' \in [Files -> Configs \cup {None}]
      /\ \A g \in Files \ {f} : job'[g] = job[g]
      /\ f \notin mixed => job'[f] = plist[f]
      /\ f \notin torn \cup mixed => plist[f] = Wanted(k)
  BY <1>1, <1>2 DEF IInv, TypeOK, Unloaded, Written
<1> HIDE DEF f
<1>7. TypeOK'
  BY <1>1, <1>2, <1>3, <1>4, <1>5, <1>6 DEF IInv, TypeOK
<1>8. Overlap'
  BY <1>1, <1>3, <1>4 DEF IInv, Overlap
<1>9. JobsFromFiles'
  BY <1>1, <1>6 DEF IInv, JobsFromFiles
<1>10. \A i \in DOMAIN frames : i # k /\ frames[i].step \in Busy /\ f \notin mixed => File(i) # f
  BY <1>1, <1>2, BusyFile, OneHandler DEF IInv, f, Busy
<1>11. Unloaded'
  <2> SUFFICES ASSUME NEW i \in DOMAIN frames, frames'[i].step \in {"write", "remove", "load"}, File(i)' \notin mixed
               PROVE  job'[File(i)'] = None
    BY <1>1, <1>3 DEF Unloaded
  <2>1. i # k
    BY <1>4
  <2>2. frames[i].step \in {"write", "remove", "load"} /\ File(i)' = File(i)
    BY <1>3, <1>5, <2>1
  <2>3. File(i) # f /\ File(i) \in Files
    BY <1>10, <2>1, <2>2, BusyFile DEF IInv, Busy, f
  <2> QED
    BY <1>6, <2>2, <2>3 DEF IInv, Unloaded
<1>12. Written'
  BY <1>1, <1>3, <1>4, <1>5 DEF IInv, Written
<1>13. AtHand \subseteq AtHand' \cup {f}
  BY <1>3, <1>5 DEF AtHand, f
<1>14. UntornAgree'
  BY <1>1, <1>2, <1>6, <1>13 DEF IInv, UntornAgree
<1>15. /\ Past(k)' \subseteq Past(k) \cup {frames[k].name}
       /\ \A n \in Past(k)' : Outcome(k, n)' = Outcome(k, n) /\ Twin(k, n)' = Twin(k, n)
       /\ \A i \in DOMAIN frames : i # k =>
              /\ Past(i)' = Past(i)
              /\ \A n \in Past(i) : Outcome(i, n)' = Outcome(i, n) /\ Twin(i, n)' = Twin(i, n)
  BY <1>3, <1>4 DEF Past, Outcome, Twin
<1>16. Served'
  <2> SUFFICES ASSUME NEW i \in DOMAIN frames, NEW n \in Past(i)', ~Twin(i, n), Lower[n] \notin torn \cup mixed
               PROVE  plist[Lower[n]] = Outcome(i, n) /\ job'[Lower[n]] = Outcome(i, n)
    BY <1>1, <1>3, <1>15 DEF Served
  <2>1. CASE n \in Past(i)
    <3>1. Lower[n] # f
      BY <1>1, <1>2, <2>1, PastUntouched DEF IInv, f, Busy
    <3>2. Lower[n] \in Files
      BY <2>1, NamesAssumption DEF Past, Filing, Files
    <3> QED
      BY <1>6, <2>1, <3>1, <3>2 DEF IInv, Served
  <2>2. CASE i = k /\ n = frames[k].name
    <3>1. Lower[n] = f /\ Outcome(i, n) = Wanted(k)
      BY <1>2, <2>2, ConfigsAssumption DEF f, File, Outcome, Wanted
    <3> QED
      BY <1>6, <2>2, <3>1
  <2> QED
    BY <1>15, <2>1, <2>2
<1> QED
  BY <1>7, <1>8, <1>9, <1>11, <1>12, <1>14, <1>16 DEF IInv

(* What is done to a process touches neither files nor jobs.                 *)
LEMMA OperationFrame ==
  ASSUME TypeOK, NEW k \in DOMAIN frames, Stop(k) \/ Start(k)
  PROVE  /\ frames' \in Seq(Frames)
         /\ DOMAIN frames' = DOMAIN frames
         /\ \A i \in DOMAIN frames : i # k => frames'[i] = frames[i]
         /\ frames'[k].request = frames[k].request
         /\ frames'[k].todo = frames[k].todo
         /\ \/ frames'[k].step = "waited" /\ frames'[k].name = NoName
            \/ /\ frames[k].step = "stop" /\ frames'[k].step = "start"
               /\ frames'[k].name = frames[k].name
         /\ frames[k].step \in {"stop", "start"}
         /\ frames[k].name \in Operating(frames[k].request)
         /\ kept' \subseteq kept
         /\ UNCHANGED <<plist, job, ui, shown, unsure, torn, mixed>>
<1>1. /\ frames \in Seq(Frames)
      /\ frames[k] \in Frames
      /\ frames[k].step \in {"stop", "start"}
      /\ frames[k].name \in Operating(frames[k].request)
  BY DEF TypeOK, Stop, Start
<1>2. PICK s, nm : /\ frames' = [frames EXCEPT ![k].step = s, ![k].name = nm]
                   /\ \/ s = "waited" /\ nm = NoName
                      \/ frames[k].step = "stop" /\ s = "start" /\ nm = frames[k].name
  <2>1. CASE Start(k) \/ (Stop(k) /\ Wanted(k) # "Restart")
    <3>1. frames' = [frames EXCEPT ![k].step = "waited", ![k].name = NoName]
      BY <2>1 DEF Start, Stop
    <3> QED
      BY <3>1
  <2>2. CASE Stop(k) /\ Wanted(k) = "Restart"
    <3>1. frames' = [frames EXCEPT ![k].step = "start"] /\ frames[k].step = "stop"
      BY <2>2 DEF Stop
    <3>2. [frames[k] EXCEPT !.step = "start"]
              = [frames[k] EXCEPT !.step = "start", !.name = frames[k].name]
      BY <1>1 DEF Frames
    <3>3. frames' = [frames EXCEPT ![k].step = "start", ![k].name = frames[k].name]
      BY <1>1, <3>1, <3>2
    <3> QED
      BY <3>1, <3>3
  <2> QED
    BY <2>1, <2>2
<1>3. [frames[k] EXCEPT !.step = s, !.name = nm] \in Frames
  BY <1>1, <1>2 DEF Frames, Steps
<1>4. frames'[k] = [frames[k] EXCEPT !.step = s, !.name = nm]
  BY <1>1, <1>2
<1>5. /\ frames' \in Seq(Frames)
      /\ DOMAIN frames' = DOMAIN frames
      /\ \A i \in DOMAIN frames : i # k => frames'[i] = frames[i]
  <2>1. frames' = [frames EXCEPT ![k] = [frames[k] EXCEPT !.step = s, !.name = nm]]
    BY <1>1, <1>2
  <2> QED
    BY <1>1, <1>3, <2>1
<1>6. /\ frames'[k].request = frames[k].request
      /\ frames'[k].todo = frames[k].todo
      /\ frames'[k].step = s
      /\ frames'[k].name = nm
  BY <1>1, <1>4 DEF Frames
<1>7. kept' \subseteq kept /\ UNCHANGED <<plist, job, ui, shown, unsure, torn, mixed>>
  BY DEF Stop, Start
<1> QED
  BY <1>1, <1>2, <1>5, <1>6, <1>7

LEMMA OperationIInv ==
  ASSUME IInv, NEW k \in DOMAIN frames, Stop(k) \/ Start(k)
  PROVE  IInv'
<1>1. /\ frames' \in Seq(Frames)
      /\ DOMAIN frames' = DOMAIN frames
      /\ \A i \in DOMAIN frames : i # k => frames'[i] = frames[i]
      /\ frames'[k].request = frames[k].request
      /\ frames'[k].todo = frames[k].todo
      /\ \/ frames'[k].step = "waited" /\ frames'[k].name = NoName
         \/ frames'[k].step = "start" /\ frames'[k].name = frames[k].name
      /\ frames[k].step \in {"stop", "start"}
      /\ frames[k].name \in Operating(frames[k].request)
      /\ kept' \subseteq kept
      /\ UNCHANGED <<plist, job, ui, shown, unsure, torn, mixed>>
  BY OperationFrame DEF IInv
<1>2. \A i \in DOMAIN frames : i # k => File(i)' = File(i) /\ Wanted(i)' = Wanted(i)
  BY <1>1 DEF File, Wanted
<1>3. TypeOK'
  BY <1>1, <1>2 DEF IInv, TypeOK
<1>4. Overlap'
  BY <1>1 DEF IInv, Overlap
<1>5. AtHand' = AtHand
  BY <1>1, <1>2 DEF AtHand
<1>6. JobsFromFiles' /\ Unloaded' /\ Written' /\ UntornAgree'
  BY <1>1, <1>2, <1>5 DEF IInv, JobsFromFiles, Unloaded, Written, UntornAgree
<1>7. Served'
  <2>1. \A i \in DOMAIN frames :
            /\ Past(i)' = Past(i)
            /\ \A n \in Past(i) : Outcome(i, n)' = Outcome(i, n) /\ Twin(i, n)' = Twin(i, n)
    <3>1. NoName \notin Filing(frames[k].request) /\ frames[k].name \notin Filing(frames[k].request)
      BY <1>1, NamesAssumption DEF Filing, Operating, Names
    <3> QED
      BY <1>1, <3>1 DEF Past, Outcome, Twin
  <2> QED
    BY <1>1, <2>1 DEF IInv, Served
<1> QED
  BY <1>3, <1>4, <1>6, <1>7 DEF IInv

-----------------------------------------------------------------------------
THEOREM StepIInv == IInv /\ [Next]_vars => IInv'
<1> SUFFICES ASSUME IInv, [Next]_vars PROVE IInv'
  OBVIOUS
<1>1. CASE Save
  BY <1>1, SaveIsRequest, SendIInv DEF Save, IInv, TypeOK, Waits
<1>2. CASE Delete \/ Operate
  <2>1. ASSUME NEW old \in shown, Send(OneRequest(old, Deleted), "saving") PROVE IInv'
    BY <2>1, OneIsRequest, SendIInv DEF Waits
  <2>2. ASSUME NEW old \in shown, NEW operation \in Asked,
               Send(OneRequest(old, operation), "operating")
        PROVE  IInv'
    <3>1. operation \in Operations
      BY ConfigsAssumption
    <3> QED
      BY <2>2, <3>1, OneIsRequest, SendIInv DEF Waits
  <2> QED
    BY <1>2, <2>1, <2>2 DEF Delete, Operate
<1>3. CASE Refresh \/ Reopen
  BY <1>3, ListIInv
<1>4. CASE Take
  BY <1>4, TakeIInv
<1>5. CASE Write
  BY <1>5, WriteIInv
<1>6. CASE Erase
  BY <1>6, EraseIInv
<1>7. CASE Reply
  BY <1>7, ReplyIInv
<1>8. ASSUME NEW i \in DOMAIN frames, Unload(i) \/ Load(i) PROVE IInv'
  BY <1>8, UnloadIInv, LoadIInv
<1>12. ASSUME NEW i \in DOMAIN frames, Stop(i) \/ Start(i) PROVE IInv'
  BY <1>12, OperationIInv
<1>9. CASE Crash
  BY <1>9, CrashIInv
<1>10. CASE Reboot
  BY <1>10, RebootIInv
<1>11. CASE UNCHANGED vars
  BY <1>11 DEF vars, IInv, TypeOK, Overlap, JobsFromFiles, Unloaded, Written, UntornAgree, Served,
               AtHand, File, Wanted, Past, Outcome, Twin
<1> QED
  BY <1>1, <1>2, <1>3, <1>4, <1>5, <1>6, <1>7, <1>8, <1>9, <1>10, <1>11, <1>12 DEF Next, Work

THEOREM AlwaysIInv == Spec => []IInv
  BY InitIInv, StepIInv, PTL DEF Spec

(* The state is well formed, however requests nest and the daemon fails.     *)
THEOREM TypeCorrect == Spec => []TypeOK
<1>1. IInv => TypeOK
  BY DEF IInv
<1> QED
  BY <1>1, AlwaysIInv, PTL

(* A job never runs with another configuration than its property list's,     *)
(* unless two requests were at the instance at once.                         *)
THEOREM JobsAreFromFiles == Spec => []JobsFromFiles
<1>1. IInv => JobsFromFiles
  BY DEF IInv
<1> QED
  BY <1>1, AlwaysIInv, PTL

(* Requests that go well leave no instance unloaded.                         *)
THEOREM UntornInstancesAgree == Spec => []UntornAgree
<1>1. IInv => UntornAgree
  BY DEF IInv
<1> QED
  BY <1>1, AlwaysIInv, PTL

(* What a request is through with has become what it asked for.              *)
THEOREM RequestsAreServed == Spec => []Served
<1>1. IInv => Served
  BY DEF IInv
<1> QED
  BY <1>1, AlwaysIInv, PTL

(* Saving keeps what was entered where names are in lower case and of the    *)
(* characters that the daemon takes: the names are all that it can founder   *)
(* on when nothing fails.                                                    *)
THEOREM PlainNamesAreKept ==
  ASSUME \A n \in Typed : n \in Valid /\ Lower[n] = n
  PROVE  Spec => []SaveKeeps
<1>1. IInv => SaveKeeps
  <2> SUFFICES ASSUME IInv,
                      NEW i \in DOMAIN frames,
                      frames[i].todo = {}, frames[i].step \in {"next", "waited"},
                      torn \cup mixed = {},
                      NEW n \in Names(frames[i].request),
                      frames[i].request[n] \in Configs
               PROVE  \E f \in Files : plist[f] = frames[i].request[n]
    BY DEF SaveKeeps
  <2>1. n \in Typed /\ n \in Valid /\ Lower[n] = n /\ n \in Files
    BY DEF Names, Files
  <2>2. n \in Filing(frames[i].request)
    BY <2>1, ConfigsAssumption DEF Filing
  <2>3. n \in Past(i)
    BY <2>1, <2>2, NamesAssumption DEF Past, IInv, TypeOK
  <2>4. ~Twin(i, n)
    BY <2>1 DEF Twin, Filing, Names
  <2>5. plist[Lower[n]] = Outcome(i, n)
    BY <2>3, <2>4 DEF IInv, Served
  <2> QED
    BY <2>1, <2>5, ConfigsAssumption DEF Outcome
<1> QED
  BY <1>1, AlwaysIInv, PTL

-----------------------------------------------------------------------------
(* The list is in use: it is on the screen, or will be again when the answer *)
(* to an operation comes.  All that is being handled is unsure then.         *)
InUse == ui \in {"idle", "operating"}

ListInv == InUse => /\ Handled \subseteq unsure
                    /\ \A f \in Files \ unsure : f \in shown <=> plist[f] # None

(* Only a new request adds to what is being handled.                         *)
LEMMA HandledShrinks ==
  ASSUME TypeOK,
         \/ Take \/ Write \/ Erase \/ Reply
         \/ \E i \in DOMAIN frames : Unload(i) \/ Load(i) \/ Stop(i) \/ Start(i)
  PROVE  Handled' \subseteq Handled
<1>1. frames \in Seq(Frames)
  BY DEF TypeOK
<1>2. CASE Reply
  <2>1. DOMAIN frames' \subseteq DOMAIN frames /\ \A i \in DOMAIN frames' : frames'[i] = frames[i]
    BY <1>1, <1>2 DEF Reply, Top
  <2> QED
    BY <2>1 DEF Handled
<1>3. CASE Take \/ Write \/ Erase \/ \E i \in DOMAIN frames : Unload(i) \/ Load(i)
  <2>1. DOMAIN frames' = DOMAIN frames
    BY <1>1, <1>3 DEF Take, Write, Erase, Unload, Load
  <2>2. \A i \in DOMAIN frames : frames'[i].request = frames[i].request
    <3>1. \A i \in DOMAIN frames : frames[i] \in Frames
      BY <1>1
    <3>2. CASE Take
      <4>1. PICK t \in frames[Top].todo :
                frames' = [frames EXCEPT ![Top].todo = @ \ {t},
                                         ![Top].name = IF t \in Valid THEN t ELSE NoName,
                                         ![Top].step = IF t \in Valid
                                                       THEN FirstStep(frames[Top].request[t]) ELSE "next"]
        BY <3>2 DEF Take
      <4>2. CASE t \in Valid
        BY <1>1, <3>1, <4>1, <4>2 DEF Frames
      <4>3. CASE t \notin Valid
        BY <1>1, <3>1, <4>1, <4>3 DEF Frames
      <4> QED
        BY <4>2, <4>3
    <3>3. CASE Write \/ Erase
      BY <1>1, <3>1, <3>3 DEF Write, Erase, Frames
    <3>4. ASSUME NEW k \in DOMAIN frames, Unload(k) \/ Load(k)
          PROVE  \A i \in DOMAIN frames : frames'[i].request = frames[i].request
      <4>1. CASE Unload(k)
        <5>1. PICK step : frames' = [frames EXCEPT ![k].step = step]
          BY <4>1 DEF Unload
        <5> QED
          BY <1>1, <3>1, <5>1 DEF Frames
      <4>2. CASE Load(k)
        BY <1>1, <3>1, <4>2 DEF Load, Frames
      <4> QED
        BY <3>4, <4>1, <4>2
    <3> QED
      BY <1>3, <3>2, <3>3, <3>4
  <2> QED
    BY <2>1, <2>2 DEF Handled
<1>4. ASSUME NEW k \in DOMAIN frames, Stop(k) \/ Start(k)
      PROVE  Handled' \subseteq Handled
  BY <1>4, OperationFrame DEF Handled
<1> QED
  BY <1>2, <1>3, <1>4

(* The list is that of the property lists, but for what was still being      *)
(* handled when it was fetched.                                              *)
THEOREM ListIsTrue == Spec => []ListTrue
<1>1. Init => ListInv
  BY DEF Init, ListInv, Handled, Filed
<1>2. ASSUME TypeOK, ListInv, [Next]_vars
      PROVE  ListInv'
  <2>1. CASE Save \/ Delete
    BY <1>2, <2>1 DEF Save, Delete, Send, ListInv, InUse
  <2>9. CASE Operate
    <3>1. PICK old \in shown, operation \in Operations :
              Send(OneRequest(old, operation), "operating")
      BY <2>9, ConfigsAssumption DEF Operate
    <3>2. Handled' \subseteq Handled
      <4> DEFINE request == OneRequest(old, operation)
                 new == [request |-> request, todo |-> Names(request), name |-> NoName, step |-> "next"]
      <4>1. frames' = Append(frames, new) /\ frames \in Seq(Frames)
        BY <1>2, <3>1 DEF Send, TypeOK
      <4>2. FilesOf(request) = {}
        BY ConfigsAssumption DEF FilesOf, Filing, OneRequest, Names
      <4>3. new.request = request
        OBVIOUS
      <4> HIDE DEF new, request
      <4>4. PICK m : m = Len(frames) + 1
        OBVIOUS
      <4>5. /\ DOMAIN frames' = DOMAIN frames \cup {m}
            /\ \A i \in DOMAIN frames : i # m /\ frames'[i] = frames[i]
            /\ frames'[m] = new
        BY <4>1, <4>4
      <4> QED
        BY <4>2, <4>3, <4>5 DEF Handled
    <3> QED
      BY <1>2, <3>1, <3>2 DEF Send, ListInv, InUse
  <2>2. CASE Refresh
    <3>1. Handled' = Handled
      BY <1>2, <2>2 DEF Refresh, Handled
    <3> QED
      BY <1>2, <2>2, <3>1 DEF Refresh, ListInv, InUse, Filed
  <2>3. CASE Reopen \/ Reboot
    BY <1>2, <2>3 DEF Reopen, Reboot, ListInv, InUse
  <2>4. CASE Crash
    <3>1. Handled' = {}
      BY <1>2, <2>4 DEF Crash, Handled
    <3>2. InUse' => InUse
      BY <2>4 DEF Crash, Answer, InUse
    <3> QED
      BY <1>2, <2>4, <3>1, <3>2 DEF Crash, ListInv
  <2>5. CASE Take \/ Reply \/ \E i \in DOMAIN frames : Unload(i) \/ Load(i) \/ Stop(i) \/ Start(i)
    <3>1. /\ UNCHANGED <<plist, shown, unsure>>
          /\ InUse' => InUse
      BY <1>2, <2>5 DEF Take, Reply, Unload, Load, Stop, Start, Answer, InUse
    <3> QED
      BY <1>2, <2>5, <3>1, HandledShrinks DEF ListInv
  <2>6. CASE Write \/ Erase
    <3>1. PICK k \in DOMAIN frames : k = Top /\ frames[k].step \in Busy
      BY <1>2, <2>6, TopFrame DEF Write, Erase, Busy
    <3>2. /\ UNCHANGED <<shown, unsure, ui>>
          /\ \A f \in Files \ {File(k)} : plist'[f] = plist[f]
      <4>1. CASE Write
        BY <1>2, <3>1, <4>1 DEF Write, TypeOK
      <4>2. CASE Erase
        BY <1>2, <3>1, <4>2 DEF Erase, TypeOK
      <4> QED
        BY <2>6, <4>1, <4>2
    <3>3. File(k) \in Handled
      BY <1>2, <3>1, BusyFile DEF Handled
    <3> QED
      BY <1>2, <2>6, <3>2, <3>3, HandledShrinks DEF ListInv, InUse
  <2>7. CASE UNCHANGED vars
    BY <1>2, <2>7 DEF vars, ListInv, InUse, Handled
  <2> QED
    BY <1>2, <2>1, <2>2, <2>3, <2>4, <2>5, <2>6, <2>7, <2>9 DEF Next, Work
<1>3. ListInv => ListTrue
  BY DEF ListInv, InUse, ListTrue
<1> QED
  BY <1>1, <1>2, <1>3, TypeCorrect, PTL DEF Spec

-----------------------------------------------------------------------------
(* A name for file f that frame i is to stop, so as to restart it.           *)
AwaitsStop(i, f) ==
    \E n \in Operating(frames[i].request) :
        /\ Lower[n] = f
        /\ frames[i].request[n] = "Restart"
        /\ \/ n \in frames[i].todo
           \/ frames[i].name = n /\ frames[i].step = "stop"

(* A process from before a restart is one that the request is still to stop, *)
(* or another request inside it.                                             *)
KeptInv ==
    \A i \in DOMAIN frames : \A f \in Restarting(frames[i].request) \cap kept :
        \/ AwaitsStop(i, f)
        \/ \E j \in DOMAIN frames : j > i /\ f \in Restarting(frames[j].request)

(* A step of one frame that is not at its stop.                              *)
LEMMA KeptByOthers ==
  ASSUME TypeOK, KeptInv, NEW k \in DOMAIN frames,
         DOMAIN frames' = DOMAIN frames,
         \A i \in DOMAIN frames : i # k => frames'[i] = frames[i],
         frames'[k].request = frames[k].request,
         frames'[k].todo = frames[k].todo,
         frames[k].step # "stop",
         kept' \subseteq kept
  PROVE  KeptInv'
<1>1. \A i \in DOMAIN frames : frames'[i].request = frames[i].request
  OBVIOUS
<1>2. \A i \in DOMAIN frames : \A f : AwaitsStop(i, f) => AwaitsStop(i, f)'
  BY <1>1 DEF AwaitsStop
<1> QED
  BY <1>1, <1>2 DEF KeptInv

LEMMA KeptBySend ==
  ASSUME TypeOK, KeptInv, NEW request \in Requests, NEW waits, Send(request, waits)
  PROVE  KeptInv'
<1> DEFINE new == [request |-> request, todo |-> Names(request), name |-> NoName, step |-> "next"]
<1>0. PICK m : m = Len(frames) + 1
  OBVIOUS
<1>1. frames' = Append(frames, new) /\ frames \in Seq(Frames)
  BY DEF Send, TypeOK
<1>2. new.request = request /\ new.todo = Names(request)
  OBVIOUS
<1> HIDE DEF new
<1>3. /\ DOMAIN frames' = DOMAIN frames \cup {m}
      /\ \A i \in DOMAIN frames : i < m /\ frames'[i] = frames[i]
      /\ frames'[m] = new
  BY <1>0, <1>1
<1>4. kept' \subseteq kept \cup Restarting(request)
  BY DEF Send
<1>5. \A f \in Restarting(request) : AwaitsStop(m, f)'
  <2> SUFFICES ASSUME NEW f \in Restarting(request) PROVE AwaitsStop(m, f)'
    OBVIOUS
  <2>1. PICK n \in Operating(request) : request[n] = "Restart" /\ f = Lower[n]
    BY DEF Restarting
  <2>2. n \in Names(request)
    BY DEF Operating
  <2> QED
    BY <1>2, <1>3, <2>1, <2>2 DEF AwaitsStop
<1>6. \A i \in DOMAIN frames : \A f : AwaitsStop(i, f) => AwaitsStop(i, f)'
  BY <1>3 DEF AwaitsStop
<1>7. ASSUME NEW i \in DOMAIN frames', NEW f \in Restarting(frames'[i].request) \cap kept'
      PROVE  \/ AwaitsStop(i, f)'
             \/ \E j \in DOMAIN frames' : j > i /\ f \in Restarting(frames'[j].request)
  <2>1. CASE i = m
    BY <1>2, <1>3, <1>5, <2>1
  <2>2. CASE i \in DOMAIN frames /\ f \in Restarting(request)
    BY <1>0, <1>1, <1>2, <1>3, <2>2
  <2>3. CASE i \in DOMAIN frames /\ f \in kept
    BY <1>3, <1>6, <1>7, <2>3 DEF KeptInv
  <2> QED
    BY <1>3, <1>4, <1>7, <2>1, <2>2, <2>3
<1> QED
  BY <1>7 DEF KeptInv

LEMMA KeptByTake ==
  ASSUME TypeOK, KeptInv, Take
  PROVE  KeptInv'
<1>0. PICK k : k = Top
  OBVIOUS
<1>1. PICK t \in frames[k].todo :
          frames' = [frames EXCEPT ![k].todo = @ \ {t},
                                   ![k].name = IF t \in Valid THEN t ELSE NoName,
                                   ![k].step = IF t \in Valid THEN FirstStep(frames[k].request[t]) ELSE "next"]
  BY <1>0 DEF Take
<1>2. /\ k \in DOMAIN frames
      /\ frames \in Seq(Frames)
      /\ frames[k] \in Frames
      /\ frames[k].step \in {"next", "waited"}
  BY <1>0, TopFrame DEF TypeOK, Take
<1>3. /\ DOMAIN frames' = DOMAIN frames
      /\ \A i \in DOMAIN frames : i # k => frames'[i] = frames[i]
  BY <1>1, <1>2
<1>4. /\ frames'[k].request = frames[k].request
      /\ frames'[k].todo = frames[k].todo \ {t}
      /\ frames'[k].name = IF t \in Valid THEN t ELSE NoName
      /\ frames'[k].step = IF t \in Valid THEN FirstStep(frames[k].request[t]) ELSE "next"
  BY <1>1, <1>2 DEF Frames
<1>5. \A f : AwaitsStop(k, f) => AwaitsStop(k, f)'
  <2> SUFFICES ASSUME NEW f, AwaitsStop(k, f) PROVE AwaitsStop(k, f)'
    OBVIOUS
  <2>1. PICK n \in Operating(frames[k].request) :
            Lower[n] = f /\ frames[k].request[n] = "Restart" /\ n \in frames[k].todo
    BY <1>2 DEF AwaitsStop
  <2>2. CASE n = t
    <3>1. t \in Valid /\ FirstStep(frames[k].request[t]) = "stop"
      BY <2>1, <2>2 DEF Operating, FirstStep, Operations
    <3> QED
      BY <1>4, <2>1, <2>2, <3>1 DEF AwaitsStop
  <2>3. CASE n # t
    BY <1>4, <2>1, <2>3 DEF AwaitsStop
  <2> QED
    BY <2>2, <2>3
<1>6. \A i \in DOMAIN frames : \A f : AwaitsStop(i, f) => AwaitsStop(i, f)'
  BY <1>3, <1>5 DEF AwaitsStop
<1>7. kept' = kept
  BY DEF Take
<1>8. \A i \in DOMAIN frames : frames'[i].request = frames[i].request
  BY <1>3, <1>4
<1> QED
  BY <1>3, <1>6, <1>7, <1>8 DEF KeptInv

LEMMA KeptByStop ==
  ASSUME TypeOK, KeptInv, NEW k \in DOMAIN frames, Stop(k)
  PROVE  KeptInv'
<1>1. /\ DOMAIN frames' = DOMAIN frames
      /\ \A i \in DOMAIN frames : i # k => frames'[i] = frames[i]
      /\ frames'[k].request = frames[k].request
      /\ frames'[k].todo = frames[k].todo
  BY OperationFrame
<1>2. kept' = kept \ {File(k)}
  BY DEF Stop
<1>3. \A i \in DOMAIN frames : frames'[i].request = frames[i].request
  BY <1>1
<1>4. \A i \in DOMAIN frames : \A f : f # File(k) /\ AwaitsStop(i, f) => AwaitsStop(i, f)'
  BY <1>1 DEF AwaitsStop, File
<1> QED
  BY <1>1, <1>2, <1>3, <1>4 DEF KeptInv

(* The innermost request has nothing left to stop.                           *)
LEMMA RestartedByTop ==
  ASSUME TypeOK, KeptInv
  PROVE  RestartInterrupts
<1> SUFFICES ASSUME frames # <<>>, frames[Top].todo = {}, frames[Top].step \in {"next", "waited"},
                    NEW f \in Restarting(frames[Top].request) \cap kept
             PROVE  FALSE
  BY DEF RestartInterrupts
<1>1. Top \in DOMAIN frames /\ \A j \in DOMAIN frames : ~(j > Top)
  BY TopFrame DEF Top, TypeOK
<1>2. ~AwaitsStop(Top, f)
  BY DEF AwaitsStop
<1> QED
  BY <1>1, <1>2 DEF KeptInv

LEMMA KeptByReply ==
  ASSUME TypeOK, KeptInv, Reply
  PROVE  KeptInv'
<1>1. Restarting(frames[Top].request) \cap kept = {}
  BY RestartedByTop DEF RestartInterrupts, Reply
<1>2. /\ DOMAIN frames' = DOMAIN frames \ {Top}
      /\ \A i \in DOMAIN frames' : frames'[i] = frames[i]
      /\ kept' = kept
  BY DEF Reply, Top, TypeOK
<1>3. \A i \in DOMAIN frames' : \A f : AwaitsStop(i, f) => AwaitsStop(i, f)'
  BY <1>2 DEF AwaitsStop
<1> QED
  BY <1>1, <1>2, <1>3 DEF KeptInv

(* A restart that is about to be answered has ended the process that ran     *)
(* when it was asked for, however many requests came in between.             *)
THEOREM RestartsInterrupt == Spec => []RestartInterrupts
<1>1. Init => KeptInv
  BY DEF Init, KeptInv
<1>2. ASSUME TypeOK, KeptInv, [Next]_vars
      PROVE  KeptInv'
  <2>1. CASE Save
    BY <1>2, <2>1, SaveIsRequest, KeptBySend DEF Save, TypeOK
  <2>2. CASE Delete
    BY <1>2, <2>2, OneIsRequest, KeptBySend DEF Delete
  <2>3. CASE Operate
    BY <1>2, <2>3, ConfigsAssumption, OneIsRequest, KeptBySend DEF Operate
  <2>4. CASE Refresh \/ Reopen \/ UNCHANGED vars
    <3>1. UNCHANGED <<frames, kept>>
      BY <2>4 DEF Refresh, Reopen, vars
    <3> QED
      BY <1>2, <3>1 DEF KeptInv, AwaitsStop
  <2>5. CASE Take
    BY <1>2, <2>5, KeptByTake
  <2>6. CASE Write \/ Erase
    <3>1. Top \in DOMAIN frames /\ frames \in Seq(Frames) /\ frames[Top] \in Frames
      BY <1>2, <2>6, TopFrame DEF TypeOK, Write, Erase
    <3>2. /\ DOMAIN frames' = DOMAIN frames
          /\ \A i \in DOMAIN frames : i # Top => frames'[i] = frames[i]
          /\ frames'[Top].request = frames[Top].request
          /\ frames'[Top].todo = frames[Top].todo
          /\ frames[Top].step # "stop"
          /\ kept' = kept
      <4>1. CASE Write
        BY <3>1, <4>1 DEF Write, Frames
      <4>2. CASE Erase
        BY <3>1, <4>2 DEF Erase, Frames
      <4> QED
        BY <2>6, <4>1, <4>2
    <3> QED
      BY <1>2, <3>1, <3>2, KeptByOthers
  <2>7. CASE Reply
    BY <1>2, <2>7, KeptByReply
  <2>8. ASSUME NEW k \in DOMAIN frames, Unload(k) \/ Load(k)
        PROVE  KeptInv'
    <3>1. frames \in Seq(Frames) /\ frames[k] \in Frames
      BY <1>2 DEF TypeOK
    <3>2. /\ DOMAIN frames' = DOMAIN frames
          /\ \A i \in DOMAIN frames : i # k => frames'[i] = frames[i]
          /\ frames'[k].request = frames[k].request
          /\ frames'[k].todo = frames[k].todo
          /\ frames[k].step # "stop"
          /\ kept' \subseteq kept
      <4>1. CASE Unload(k)
        <5>1. PICK step : frames' = [frames EXCEPT ![k].step = step]
          BY <4>1 DEF Unload
        <5>2. frames[k].step = "unload" /\ kept' \subseteq kept
          BY <4>1 DEF Unload
        <5> QED
          BY <3>1, <5>1, <5>2 DEF Frames
      <4>2. CASE Load(k)
        BY <3>1, <4>2 DEF Load, Frames
      <4> QED
        BY <2>8, <4>1, <4>2
    <3> QED
      BY <1>2, <3>2, KeptByOthers
  <2>9. ASSUME NEW k \in DOMAIN frames, Start(k)
        PROVE  KeptInv'
    <3>1. frames[k].step = "start" /\ kept' = kept
      BY <2>9 DEF Start
    <3> QED
      BY <1>2, <2>9, <3>1, OperationFrame, KeptByOthers
  <2>10. ASSUME NEW k \in DOMAIN frames, Stop(k)
         PROVE  KeptInv'
    BY <1>2, <2>10, KeptByStop
  <2>11. CASE Crash \/ Reboot
    BY <2>11 DEF Crash, Reboot, KeptInv
  <2> QED
    BY <1>2, <2>1, <2>2, <2>3, <2>4, <2>5, <2>6, <2>7, <2>8, <2>9, <2>10, <2>11 DEF Next, Work
<1>3. TypeOK /\ KeptInv => RestartInterrupts
  BY RestartedByTop
<1> QED
  BY <1>1, <1>2, <1>3, TypeCorrect, PTL DEF Spec

-----------------------------------------------------------------------------
(* What is still to be done of a request: its names, each of which takes     *)
(* four steps at most, and the rest of the steps of the one at hand.         *)
Ahead(step) == CASE step = "unload"                    -> 3
                 [] step \in {"write", "stop"}           -> 2
                 [] step \in {"remove", "load", "start"} -> 1
                 [] OTHER                              -> 0

WorkLeft(i) == 4 * Cardinality(frames[i].todo) + Ahead(frames[i].step)

(* Request i has come nearer to its answer, and the others are as they were. *)
Nearer(i) ==
    /\ DOMAIN frames' = DOMAIN frames
    /\ WorkLeft(i)' < WorkLeft(i)
    /\ \A j \in DOMAIN frames \ {i} : WorkLeft(j)' = WorkLeft(j)

(* The daemon answers its innermost request or comes nearer to an answer.    *)
WorkShortens == [][Work => Reply \/ \E i \in DOMAIN frames : Nearer(i)]_vars

LEMMA TodoFinite ==
  ASSUME TypeOK, IsFiniteSet(Typed), NEW i \in DOMAIN frames
  PROVE  /\ IsFiniteSet(frames[i].todo)
         /\ Cardinality(frames[i].todo) \in 0 .. Cardinality(Typed)
         /\ Cardinality(Typed) \in Nat
<1>1. frames[i].todo \in SUBSET Typed
  BY DEF TypeOK, Names
<1>2. IsFiniteSet(frames[i].todo) /\ Cardinality(frames[i].todo) <= Cardinality(Typed)
  BY <1>1, FS_Subset
<1> QED
  BY <1>2, FS_CardinalityType

LEMMA WorkLeftType ==
  ASSUME TypeOK, IsFiniteSet(Typed), NEW i \in DOMAIN frames
  PROVE  WorkLeft(i) \in 0 .. 4 * Cardinality(Typed) + 3
<1>1. Ahead(frames[i].step) \in 0 .. 3
  BY DEF Ahead
<1> QED
  BY <1>1, TodoFinite DEF WorkLeft

(* A step brings its frame nearer when it takes a name, or goes on with the  *)
(* one at hand.                                                              *)
LEMMA OneIsNearer ==
  ASSUME TypeOK, IsFiniteSet(Typed), NEW k \in DOMAIN frames,
         DOMAIN frames' = DOMAIN frames,
         \A j \in DOMAIN frames \ {k} : frames'[j] = frames[j],
         \/ /\ frames[k].step \in {"next", "waited"}
            /\ \E t \in frames[k].todo : frames'[k].todo = frames[k].todo \ {t}
         \/ /\ frames'[k].todo = frames[k].todo
            /\ Ahead(frames'[k].step) < Ahead(frames[k].step)
  PROVE  Nearer(k)
<1> DEFINE count == Cardinality(frames[k].todo)
           later == Cardinality(frames'[k].todo)
           ahead == Ahead(frames[k].step)
           next == Ahead(frames'[k].step)
<1>1. count \in Nat /\ ahead \in 0 .. 3 /\ next \in 0 .. 3
  BY TodoFinite DEF Ahead
<1>2. \/ ahead = 0 /\ later = count - 1
      \/ later = count /\ next < ahead
  <2>1. CASE /\ frames[k].step \in {"next", "waited"}
             /\ \E t \in frames[k].todo : frames'[k].todo = frames[k].todo \ {t}
    <3>1. ahead = 0
      BY <2>1 DEF Ahead
    <3>2. PICK t \in frames[k].todo : frames'[k].todo = frames[k].todo \ {t}
      BY <2>1
    <3>3. IsFiniteSet(frames[k].todo)
      BY TodoFinite
    <3>4. Cardinality(frames[k].todo \ {t}) = Cardinality(frames[k].todo) - 1
      BY <3>3, FS_RemoveElement
    <3>5. later = count - 1
      BY <3>2, <3>4
    <3> QED
      BY <3>1, <3>5
  <2> QED
    BY <2>1
<1> HIDE DEF count, later, ahead, next
<1>3. 4 * later + next < 4 * count + ahead
  BY <1>1, <1>2
<1>4. WorkLeft(k)' < WorkLeft(k)
  BY <1>3 DEF WorkLeft, count, later, ahead, next
<1>5. \A j \in DOMAIN frames \ {k} : WorkLeft(j)' = WorkLeft(j)
  BY DEF WorkLeft
<1> QED
  BY <1>4, <1>5 DEF Nearer

LEMMA LaunchctlNearer ==
  ASSUME TypeOK, IsFiniteSet(Typed), NEW k \in DOMAIN frames,
         Unload(k) \/ Load(k) \/ Stop(k) \/ Start(k)
  PROVE  Nearer(k)
<1>1. frames \in Seq(Frames) /\ frames[k] \in Frames
  BY DEF TypeOK
<1>2. CASE Unload(k)
  <2>1. PICK step \in {"remove", "write"} : frames' = [frames EXCEPT ![k].step = step]
    BY <1>2 DEF Unload
  <2>2. frames[k].step = "unload"
    BY <1>2 DEF Unload
  <2>3. /\ DOMAIN frames' = DOMAIN frames
        /\ \A j \in DOMAIN frames \ {k} : frames'[j] = frames[j]
        /\ frames'[k].todo = frames[k].todo
        /\ frames'[k].step = step
    BY <1>1, <2>1 DEF Frames
  <2>4. Ahead(frames'[k].step) < Ahead(frames[k].step)
    BY <2>1, <2>2, <2>3 DEF Ahead
  <2> QED
    BY <2>3, <2>4, OneIsNearer
<1>3. CASE Load(k)
  <2>1. /\ frames' = [frames EXCEPT ![k].step = "waited", ![k].name = NoName]
        /\ frames[k].step = "load"
    BY <1>3 DEF Load
  <2>2. /\ DOMAIN frames' = DOMAIN frames
        /\ \A j \in DOMAIN frames \ {k} : frames'[j] = frames[j]
        /\ frames'[k].todo = frames[k].todo
        /\ frames'[k].step = "waited"
    BY <1>1, <2>1 DEF Frames
  <2>3. Ahead(frames'[k].step) < Ahead(frames[k].step)
    BY <2>1, <2>2 DEF Ahead
  <2> QED
    BY <2>2, <2>3, OneIsNearer
<1>4. CASE Stop(k) \/ Start(k)
  <2>1. /\ DOMAIN frames' = DOMAIN frames
        /\ \A j \in DOMAIN frames \ {k} : frames'[j] = frames[j]
        /\ frames'[k].todo = frames[k].todo
        /\ frames'[k].step \in {"waited", "start"}
    BY <1>4, OperationFrame
  <2>2. CASE Stop(k)
    <3>1. frames[k].step = "stop"
      BY <2>2 DEF Stop
    <3>2. Ahead(frames'[k].step) < Ahead(frames[k].step)
      BY <2>1, <3>1 DEF Ahead
    <3> QED
      BY <2>1, <3>2, OneIsNearer
  <2>3. CASE Start(k)
    <3>1. frames[k].step = "start"
      BY <2>3 DEF Start
    <3>2. frames'[k].step = "waited"
      BY <1>4, <3>1, OperationFrame
    <3>3. Ahead(frames'[k].step) < Ahead(frames[k].step)
      BY <3>1, <3>2 DEF Ahead
    <3> QED
      BY <2>1, <3>3, OneIsNearer
  <2> QED
    BY <1>4, <2>2, <2>3
<1> QED
  BY <1>2, <1>3, <1>4

LEMMA DaemonNearer ==
  ASSUME TypeOK, IsFiniteSet(Typed), Take \/ Write \/ Erase
  PROVE  \E k \in DOMAIN frames : Nearer(k)
<1>0. PICK k : k = Top
  OBVIOUS
<1>1. k \in DOMAIN frames /\ frames \in Seq(Frames) /\ frames[k] \in Frames
  <2>1. frames # <<>>
    BY DEF Take, Write, Erase
  <2> QED
    BY <1>0, <2>1, TopFrame DEF TypeOK
<1>2. CASE Take
  <2>1. PICK t \in frames[k].todo :
            frames' = [frames EXCEPT
                           ![k].todo = @ \ {t},
                           ![k].name = IF t \in Valid THEN t ELSE NoName,
                           ![k].step = IF t \in Valid THEN FirstStep(frames[k].request[t]) ELSE "next"]
    BY <1>0, <1>2 DEF Take
  <2>2. /\ DOMAIN frames' = DOMAIN frames
        /\ \A j \in DOMAIN frames \ {k} : frames'[j] = frames[j]
        /\ frames'[k].todo = frames[k].todo \ {t}
    BY <1>1, <2>1 DEF Frames
  <2>3. frames[k].step \in {"next", "waited"}
    BY <1>0, <1>2 DEF Take
  <2>4. \E u \in frames[k].todo : frames'[k].todo = frames[k].todo \ {u}
    BY <2>1, <2>2
  <2> QED
    BY <1>1, <2>2, <2>3, <2>4, OneIsNearer
<1>3. CASE Write
  <2>1. frames' = [frames EXCEPT ![k].step = "load"] /\ frames[k].step = "write"
    BY <1>0, <1>3 DEF Write
  <2>2. /\ DOMAIN frames' = DOMAIN frames
        /\ \A j \in DOMAIN frames \ {k} : frames'[j] = frames[j]
        /\ frames'[k].todo = frames[k].todo
        /\ frames'[k].step = "load"
    BY <1>1, <2>1 DEF Frames
  <2>3. Ahead(frames'[k].step) < Ahead(frames[k].step)
    BY <2>1, <2>2 DEF Ahead
  <2> QED
    BY <1>1, <2>2, <2>3, OneIsNearer
<1>4. CASE Erase
  <2>1. /\ frames' = [frames EXCEPT ![k].step = "next", ![k].name = NoName]
        /\ frames[k].step = "remove"
    BY <1>0, <1>4 DEF Erase
  <2>2. /\ DOMAIN frames' = DOMAIN frames
        /\ \A j \in DOMAIN frames \ {k} : frames'[j] = frames[j]
        /\ frames'[k].todo = frames[k].todo
        /\ frames'[k].step = "next"
    BY <1>1, <2>1 DEF Frames
  <2>3. Ahead(frames'[k].step) < Ahead(frames[k].step)
    BY <2>1, <2>2 DEF Ahead
  <2> QED
    BY <1>1, <2>2, <2>3, OneIsNearer
<1> QED
  BY <1>2, <1>3, <1>4

(* The daemon is through with a request after four steps for each name and   *)
(* one for the answer, however many requests are inside it and whatever goes *)
(* wrong: no step of the daemon or its launchctl adds to what is to be done. *)
THEOREM RequestsAreBounded ==
  ASSUME IsFiniteSet(Typed)
  PROVE  Spec => /\ WorkShortens
                 /\ [](\A i \in DOMAIN frames : WorkLeft(i) \in 0 .. 4 * Cardinality(Typed) + 3)
<1>1. TypeOK => \A i \in DOMAIN frames : WorkLeft(i) \in 0 .. 4 * Cardinality(Typed) + 3
  BY WorkLeftType
<1>2. TypeOK => [Work => Reply \/ \E i \in DOMAIN frames : Nearer(i)]_vars
  <2> SUFFICES ASSUME TypeOK, Work
               PROVE  Reply \/ \E i \in DOMAIN frames : Nearer(i)
    OBVIOUS
  <2>1. CASE Take \/ Write \/ Erase
    BY <2>1, DaemonNearer
  <2>2. ASSUME NEW i \in DOMAIN frames, Unload(i) \/ Load(i) \/ Stop(i) \/ Start(i)
        PROVE  Nearer(i)
    BY <2>2, LaunchctlNearer
  <2> QED
    BY <2>1, <2>2 DEF Work
<1> QED
  BY <1>1, <1>2, TypeCorrect, PTL DEF WorkShortens
=============================================================================
