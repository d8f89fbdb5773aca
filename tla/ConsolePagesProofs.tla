-------------------------- MODULE ConsolePagesProofs --------------------------
(***************************************************************************)
(* Proofs about ConsolePages, for any set of runs, any hardening evidence  *)
(* a workflow can leave and any number of failures and presses.            *)
(*                                                                         *)
(* The labels speak of what a page was sent, and the caches that answers   *)
(* are made from are of different ages.  What carries the proofs is that   *)
(* what is recorded of a run does not change any more (Judged, Kept), that *)
(* the index knows recorded runs only (Known), and that the patch viewer   *)
(* waits exactly for the request of the effect that runs (Viewer).         *)
(***************************************************************************)
EXTENDS ConsolePages, TLAPS

Words == {"RUNNING", "PAUSED", "FAILED", "SUCCEEDED"} \cup SecurityStates
Gates == {"passed", "failed", "unavailable"}
Over == {"ended", "recorded", "closed"}

(* What a workflow writes down in the end. *)
Written == [result : Words, hardening : Hardening, cleanup : Cleanups]

ServerTyped ==
  /\ stage \in [Runs -> Stages]
  /\ verdict \in [Runs -> Words]
  /\ boxes \subseteq Runs
  /\ files \in [Runs -> FilesType]
  /\ cleanup \in [Runs -> Cleanups \cup {NoCleanup}]
  /\ manifest \in [Runs -> Written \cup {NoManifest}]
  /\ index \subseteq Runs
  /\ open = Expired \/ open.runs \subseteq Runs
  /\ inventory = Expired \/ inventory.runs \subseteq Runs
  /\ faults \in 0 .. MaxFaults

(* A run that is over was cleaned up, and is a success only with its gates *)
(* passed and its sandbox gone.                                            *)
Judged(r) ==
  stage[r] \in Over =>
    /\ cleanup[r] \in Cleanups
    /\ verdict[r] = "SUCCEEDED" => cleanup[r].verified = TRUE /\ files[r] = WholeFiles

(* The manifest repeats the verdict and the cleanup, and evidence that     *)
(* admits the verdict.                                                     *)
Kept(r) ==
  Recorded(r) =>
    /\ stage[r] \in {"recorded", "closed"}
    /\ manifest[r] \in Written
    /\ manifest[r].result = verdict[r] /\ manifest[r].cleanup = cleanup[r]
    /\ Recordable(manifest[r].hardening)
    /\ verdict[r] \in Verdicts(manifest[r].hardening)

(* What is indexed, or was called leaked, is recorded. *)
Known ==
  /\ \A r \in index : Recorded(r)
  /\ ops /= NoOps =>
       \A r \in DOMAIN ops.sandboxes : ops.sandboxes[r] = "leaked" => r \in Runs /\ Recorded(r)

ServerInv == ServerTyped /\ (\A r \in Runs : Judged(r) /\ Kept(r)) /\ Known

(* The two kinds of answer a run page is drawn from. *)
LiveAnswer(d) ==
  /\ d.kind = "live" /\ d.state \in Words
  /\ d.hardening = NoHardening /\ d.cleanup = NoCleanup
  /\ d.patch \in BOOLEAN /\ d.gates \in Gates
  /\ d.actions = runActions(d.state)

FinalAnswer(d) ==
  /\ d.kind = "final" /\ d.state \in Words
  /\ d.hardening \in Hardening /\ d.cleanup \in Cleanups
  /\ d.patch \in BOOLEAN /\ d.gates \in Gates

(* The patch viewer is idle exactly while the detail has no patch, and     *)
(* loading exactly while the request of its effect is under way.           *)
Viewer ==
  /\ effect \in Nat /\ patch.of = effect
  /\ patch.phase \in {"idle", "loading", "text", "error"}
  /\ patch.phase = "idle" <=> ~Available(detail)
  /\ patch.phase = "loading" <=> effect \in fetches
  /\ fetches \subseteq 1 .. effect

PageInv ==
  /\ shown \in Runs \cup {"none"}
  /\ trouble \in {"none", "not found", "failed"}
  /\ detail = NoData \/ LiveAnswer(detail) \/ FinalAnswer(detail)
  /\ shown /= "none" => ops = NoOps
  /\ shown = "none" => detail = NoData
  /\ Viewer

Inv == ServerInv /\ PageInv

-----------------------------------------------------------------------------
(* The evidence                                                            *)

LEMMA EvidenceFacts ==
  /\ NoHardening \in Hardening /\ Recordable(NoHardening)
  /\ \A h \in Hardening : Verdicts(h) \subseteq Words
  /\ \A h \in Hardenings : h \in Hardening /\ Recordable(h)
  /\ NoManifest \notin Written /\ NoCleanup \notin Cleanups
<1>1. NoHardening \in Hardening /\ Recordable(NoHardening)
  BY DEF NoHardening, Hardening, Recordable
<1>2. \A h \in Hardening : Verdicts(h) \subseteq Words
  BY DEF Verdicts, Words, SecurityStates
<1>3. \A h \in Hardenings : h \in Hardening /\ Recordable(h)
  BY ServerAssumption
<1>4. NoManifest \notin Written /\ NoCleanup \notin Cleanups
  BY DEF NoManifest, NoCleanup, Written, Cleanups, Words, SecurityStates
<1> QED BY <1>1, <1>2, <1>3, <1>4

(* What cleanup reports: the labels and counts read these fields.          *)
LEMMA CleanupFacts ==
  ASSUME NEW c \in Cleanups
  PROVE  /\ c.verified \in BOOLEAN /\ c.attempted \in BOOLEAN /\ c.remaining = 0
         /\ c.outcome \in {"SKIPPED", "SUCCESS", "ERROR"}
         /\ c.outcome = "SUCCESS" <=> c.verified = TRUE
         /\ c.outcome = "SKIPPED" <=> c.attempted = FALSE
<1>1. CASE c = [attempted |-> FALSE, outcome |-> "SKIPPED", verified |-> FALSE, remaining |-> 0]
  BY <1>1
<1>2. CASE c = [attempted |-> TRUE, outcome |-> "SUCCESS", verified |-> TRUE, remaining |-> 0]
  BY <1>2
<1>3. CASE c = [attempted |-> TRUE, outcome |-> "ERROR", verified |-> FALSE, remaining |-> 0]
  BY <1>3
<1> QED BY <1>1, <1>2, <1>3 DEF Cleanups

(* A success leaves no room for a violated boundary, a gate that is not    *)
(* clean or a tripped scan.                                                *)
LEMMA SuccessIsClean ==
  ASSUME NEW h \in Hardening, Recordable(h), "SUCCEEDED" \in Verdicts(h)
  PROVE  h.probe /= "violated" /\ h.gate = "clean" /\ h.behavior /= "tripped"
BY DEF Hardening, Recordable, Verdicts

-----------------------------------------------------------------------------
(* The factory and the caches                                              *)

\* What a step of one run leaves alone.
Apart(r) ==
  \A q \in Runs \ {r} :
    /\ stage'[q] = stage[q] /\ verdict'[q] = verdict[q] /\ files'[q] = files[q]
    /\ cleanup'[q] = cleanup[q] /\ manifest'[q] = manifest[q]

(* A step of the factory keeps the invariant if it keeps it of its run.    *)
LEMMA OneRun ==
  ASSUME ServerInv, NEW r \in Runs, Apart(r), ServerTyped',
         Judged(r)', Kept(r)', Recorded(r) => Recorded(r)',
         UNCHANGED <<caches, ops>>
  PROVE  ServerInv'
<1>1. ASSUME NEW q \in Runs, q /= r PROVE Judged(q)' /\ Kept(q)'
  BY <1>1 DEF ServerInv, Apart, Judged, Kept, Recorded
<1>2. \A q \in Runs : Recorded(q) => Recorded(q)'
  BY DEF Apart, Recorded
<1>3. \A q \in index' : Recorded(q)'
  BY <1>2 DEF ServerInv, Known, ServerTyped, caches
<1>4. Known'
  BY <1>2, <1>3 DEF ServerInv, Known
<1> QED BY <1>1, <1>4 DEF ServerInv

LEMMA FactoryKeeps ==
  ASSUME ServerInv, Factory, UNCHANGED ops
  PROVE  ServerInv'
<1> USE DEF ServerInv, factory, caches
<1>1. PICK r \in Runs :
        Start(r) \/ Create(r) \/ Collect(r) \/ Verify(r) \/ Pause(r) \/ Finish(r)
        \/ Clean(r) \/ Record(r) \/ Close(r)
  BY DEF Factory
<1>2. /\ stage[r] \in Stages /\ verdict[r] \in Words
      /\ files[r] \in FilesType
      /\ cleanup[r] \in Cleanups \cup {NoCleanup}
      /\ manifest[r] \in Written \cup {NoManifest}
      /\ Judged(r) /\ Kept(r)
  BY DEF ServerTyped
<1>3. CASE Start(r)
  <2>1. ServerTyped' /\ Apart(r)
    BY <1>2, <1>3 DEF Start, ServerTyped, Apart, Stages
  <2>2. stage'[r] = "starting" /\ ~Recorded(r) /\ ~Recorded(r)'
    BY <1>2, <1>3 DEF Start, ServerTyped, Kept, Recorded
  <2> QED BY <1>3, <2>1, <2>2, OneRun DEF Start, Judged, Kept, Over
<1>4. CASE Create(r)
  <2>1. ServerTyped' /\ Apart(r)
    BY <1>2, <1>4 DEF Create, ServerTyped, Apart, Stages
  <2>2. stage'[r] = "running" /\ ~Recorded(r) /\ ~Recorded(r)'
    BY <1>2, <1>4 DEF Create, ServerTyped, Kept, Recorded
  <2> QED BY <1>4, <2>1, <2>2, OneRun DEF Create, Judged, Kept, Over
<1>5. CASE Collect(r) \/ Verify(r)
  <2>0. PICK f \in FilesType : files' = [files EXCEPT ![r] = f]
    <3>1. CASE Collect(r)
      <4>1. [files[r] EXCEPT !.patch = TRUE] \in FilesType
        BY <1>2 DEF FilesType
      <4> QED BY <3>1, <4>1 DEF Collect
    <3>2. CASE Verify(r)
      <4>1. PICK result \in {"passed", "failed"} : files' = [files EXCEPT ![r].gates = result]
        BY <3>2 DEF Verify
      <4>2. [files[r] EXCEPT !.gates = result] \in FilesType
        BY <1>2 DEF FilesType
      <4> QED BY <4>1, <4>2
    <3> QED BY <1>5, <3>1, <3>2
  <2>1. ServerTyped' /\ Apart(r)
    BY <1>2, <1>5, <2>0 DEF Collect, Verify, ServerTyped, Apart
  <2>2. stage'[r] = "running" /\ ~Recorded(r) /\ ~Recorded(r)' /\ UNCHANGED caches
    BY <1>2, <1>5 DEF Collect, Verify, ServerTyped, Kept, Recorded
  <2> QED BY <2>1, <2>2, OneRun DEF Judged, Kept, Over
<1>6. CASE Pause(r)
  <2>1. ServerTyped' /\ Apart(r)
    BY <1>2, <1>6 DEF Pause, ServerTyped, Apart, Stages, Words
  <2>2. stage'[r] = "paused" /\ ~Recorded(r) /\ ~Recorded(r)'
    BY <1>2, <1>6 DEF Pause, ServerTyped, Kept, Recorded
  <2> QED BY <1>6, <2>1, <2>2, OneRun DEF Pause, Judged, Kept, Over
<1>7. CASE Finish(r)
  <2>1. PICK v \in Words : verdict' = [verdict EXCEPT ![r] = v]
    BY <1>7, EvidenceFacts DEF Finish
  <2>2. ServerTyped' /\ Apart(r)
    BY <1>2, <1>7, <2>1 DEF Finish, ServerTyped, Apart, Stages
  <2>3. stage'[r] = "cleaning" /\ ~Recorded(r) /\ ~Recorded(r)' /\ UNCHANGED caches
    BY <1>2, <1>7 DEF Finish, ServerTyped, Kept, Recorded
  <2> QED BY <2>2, <2>3, OneRun DEF Judged, Kept, Over
<1>8. CASE Clean(r)
  <2>1. PICK c \in Cleanups :
          /\ cleanup' = [cleanup EXCEPT ![r] = c]
          /\ boxes' = boxes \ {r} \/ boxes' = boxes
          /\ verdict' = [verdict EXCEPT ![r] =
               IF verdict[r] = "SUCCEEDED" /\ ~(c.verified /\ files[r] = WholeFiles)
               THEN "FAILED" ELSE verdict[r]]
    BY <1>8 DEF Clean
  <2>2. ServerTyped' /\ Apart(r)
    BY <1>2, <1>8, <2>1 DEF Clean, ServerTyped, Apart, Stages, Words
  <2>3. stage'[r] = "ended" /\ ~Recorded(r) /\ ~Recorded(r)' /\ UNCHANGED caches
    BY <1>2, <1>8 DEF Clean, ServerTyped, Kept, Recorded
  <2>4. c.verified \in BOOLEAN
    BY CleanupFacts
  <2>5. Judged(r)'
    BY <1>2, <1>8, <2>1, <2>4 DEF Clean, Judged, ServerTyped
  <2> QED BY <2>2, <2>3, <2>5, OneRun DEF Kept
<1>9. CASE Record(r)
  <2>1. ~Recorded(r) /\ UNCHANGED <<caches, verdict, files, cleanup, boxes, faults>>
    BY <1>2, <1>9 DEF Record, Kept
  <2>2. CASE stage' = [stage EXCEPT ![r] = "closed"] /\ UNCHANGED manifest
    <3>1. ServerTyped' /\ Apart(r)
      BY <2>1, <2>2 DEF ServerTyped, Apart, Stages
    <3>2. Judged(r)'
      BY <1>2, <1>9, <2>1, <2>2 DEF Record, Judged, Over, ServerTyped
    <3> QED BY <2>1, <2>2, <3>1, <3>2, OneRun DEF Kept, Recorded
  <2>3. CASE stage' = [stage EXCEPT ![r] = "recorded"]
    <3>1. PICK h \in IF cleanup[r].attempted THEN Hardenings ELSE {NoHardening} :
            /\ verdict[r] \in Verdicts(h)
            /\ manifest' = [manifest EXCEPT ![r] =
                 [result |-> verdict[r], hardening |-> h, cleanup |-> cleanup[r]]]
      BY <1>9, <2>3 DEF Record, ServerTyped
    <3>2. h \in Hardening /\ Recordable(h)
      BY EvidenceFacts
    <3>3. cleanup[r] \in Cleanups
      BY <1>2, <1>9 DEF Record, Judged, Over
    <3>4. [result |-> verdict[r], hardening |-> h, cleanup |-> cleanup[r]] \in Written
      BY <1>2, <3>2, <3>3 DEF Written
    <3>5. ServerTyped' /\ Apart(r)
      BY <2>1, <2>3, <3>1, <3>4 DEF ServerTyped, Apart, Stages
    <3>6. Judged(r)'
      BY <1>2, <1>9, <2>1, <2>3 DEF Record, Judged, Over, ServerTyped
    <3>7. Kept(r)'
      BY <2>1, <2>3, <3>1, <3>2, <3>4 DEF Kept, ServerTyped
    <3> QED BY <2>1, <3>5, <3>6, <3>7, OneRun
  <2> QED BY <1>9, <2>2, <2>3 DEF Record
<1>10. CASE Close(r)
  <2>1. ServerTyped' /\ Apart(r)
    BY <1>10 DEF Close, ServerTyped, Apart, Stages
  <2>2. Judged(r)' /\ Kept(r)' /\ (Recorded(r) => Recorded(r)')
    BY <1>2, <1>10 DEF Close, Judged, Kept, Recorded, Over, ServerTyped
  <2> QED BY <1>10, <2>1, <2>2, OneRun DEF Close
<1> QED BY <1>1, <1>3, <1>4, <1>5, <1>6, <1>7, <1>8, <1>9, <1>10

(* A failure is counted below the bound. *)
LEMMA FaultsStayBounded ==
  ASSUME ServerInv, faults' = faults \/ (faults < MaxFaults /\ faults' = faults + 1)
  PROVE  faults' \in 0 .. MaxFaults
<1>1. faults \in 0 .. MaxFaults /\ MaxFaults \in Nat
  BY ServerAssumption DEF ServerInv, ServerTyped
<1> QED BY <1>1

LEMMA CachesKeep ==
  ASSUME ServerInv, IndexCache \/ LiveCaches, UNCHANGED ops
  PROVE  ServerInv'
<1>1. UNCHANGED <<stage, verdict, boxes, files, cleanup, manifest>>
  BY DEF IndexCache, LiveCaches, RefreshIndex, RefreshIndexPartly, RefreshOpen,
         RefreshOpenFails, RefreshInventory, RefreshInventoryFails, factory
<1>2. faults' \in 0 .. MaxFaults
  BY FaultsStayBounded
     DEF IndexCache, LiveCaches, RefreshIndex, RefreshIndexPartly, RefreshOpen,
         RefreshOpenFails, RefreshInventory, RefreshInventoryFails
<1>3. index' \subseteq Runs /\ \A r \in index' : Recorded(r)
  BY DEF IndexCache, LiveCaches, RefreshIndex, RefreshIndexPartly, RefreshOpen,
         RefreshOpenFails, RefreshInventory, RefreshInventoryFails, ServerInv, ServerTyped,
         Known
<1>4. open' = Expired \/ open'.runs \subseteq Runs
  BY DEF IndexCache, LiveCaches, RefreshIndex, RefreshIndexPartly, RefreshOpen,
         RefreshOpenFails, RefreshInventory, RefreshInventoryFails, ServerInv, ServerTyped,
         Snapshot
<1>5. inventory' = Expired \/ inventory'.runs \subseteq Runs
  BY DEF IndexCache, LiveCaches, RefreshIndex, RefreshIndexPartly, RefreshOpen,
         RefreshOpenFails, RefreshInventory, RefreshInventoryFails, ServerInv, ServerTyped,
         Snapshot
<1>6. ServerTyped'
  BY <1>1, <1>2, <1>3, <1>4, <1>5 DEF ServerInv, ServerTyped
<1>7. Known'
  BY <1>1, <1>3 DEF ServerInv, Known, Recorded
<1>8. \A r \in Runs : Judged(r)' /\ Kept(r)'
  BY <1>1 DEF ServerInv, Judged, Kept, Recorded
<1> QED BY <1>6, <1>7, <1>8 DEF ServerInv

(* A step of a page changes nothing of the server but the count of faults. *)
LEMMA ServerStays ==
  ASSUME ServerInv, UNCHANGED <<factory, caches, ops>>, faults' \in 0 .. MaxFaults
  PROVE  ServerInv'
<1>1. UNCHANGED <<stage, verdict, boxes, files, cleanup, manifest, index, open, inventory>>
  BY DEF factory, caches
<1>2. ServerTyped'
  BY <1>1 DEF ServerInv, ServerTyped
<1>3. Known' /\ \A r \in Runs : Judged(r)' /\ Kept(r)'
  BY <1>1 DEF ServerInv, Known, Judged, Kept, Recorded
<1> QED BY <1>2, <1>3 DEF ServerInv

-----------------------------------------------------------------------------
(* The run page                                                            *)

LEMMA AnswersAreTyped ==
  ASSUME ServerInv, NEW r \in Runs, NEW answered \in BOOLEAN
  PROVE  LET a == RunDetail(r, answered)
         IN  a = NotFound \/ LiveAnswer(a) \/ FinalAnswer(a)
<1>1. verdict[r] \in Words /\ HasPatch(r) \in BOOLEAN /\ GateResult(r) \in Gates
  BY DEF ServerInv, ServerTyped, HasPatch, GateResult, Gates, FilesType
<1>2. LiveAnswer(LiveDetail(r))
  BY <1>1 DEF LiveAnswer, LiveDetail
<1>3. ASSUME r \in index PROVE FinalAnswer(RecordedDetail(r))
  <2>1. manifest[r] \in Written
    BY <1>3 DEF ServerInv, Known, Kept
  <2> QED BY <1>1, <2>1 DEF FinalAnswer, RecordedDetail, Written
<1> QED BY <1>2, <1>3 DEF RunDetail

\* What a page may hold, now or after a step.
Drawn(d) == d = NoData \/ LiveAnswer(d) \/ FinalAnswer(d)

LEMMA AvailableIsDecided ==
  ASSUME NEW d, Drawn(d)
  PROVE  Available(d) \in BOOLEAN
BY DEF Available

LEMMA ViewerFollows ==
  ASSUME PageInv, Drawn(detail'), NEW pressed \in BOOLEAN, PatchEffectOf(detail', pressed)
  PROVE  Viewer'
<1>1. Available(detail) \in BOOLEAN /\ Available(detail') \in BOOLEAN
  BY AvailableIsDecided DEF PageInv, Drawn
<1>2. Viewer
  BY DEF PageInv
<1>3. CASE PatchEffect(Available(detail'))
  <2>1. effect + 1 \notin fetches /\ effect + 1 \in Nat
        /\ 1 .. effect \subseteq 1 .. (effect + 1) /\ effect + 1 \in 1 .. (effect + 1)
    BY <1>2 DEF Viewer
  <2>2. /\ effect' = effect + 1 /\ patch'.of = effect'
        /\ patch'.phase = IF Available(detail') THEN "loading" ELSE "idle"
        /\ fetches' = IF Available(detail') THEN fetches \cup {effect + 1} ELSE fetches
    BY <1>3 DEF PatchEffect, Patch
  <2>3. fetches' \subseteq 1 .. effect'
    BY <1>2, <2>1, <2>2 DEF Viewer
  <2>4. patch'.phase = "idle" <=> ~Available(detail')
    BY <1>1, <2>2
  <2>5. patch'.phase = "loading" <=> effect' \in fetches'
    BY <1>1, <2>1, <2>2
  <2> QED BY <2>1, <2>2, <2>3, <2>4, <2>5 DEF Viewer, Available
<1>4. CASE Available(detail') = Available(detail) /\ UNCHANGED <<effect, patch, fetches>>
  BY <1>2, <1>4 DEF Viewer, Available
<1> QED BY <1>3, <1>4 DEF PatchEffectOf

LEMMA AnswerKeepsPage ==
  ASSUME PageInv, NEW a, a = NotFound \/ LiveAnswer(a) \/ FinalAnswer(a),
         NEW pressed \in BOOLEAN, Answer(a, pressed), shown /= "none", UNCHANGED ops
  PROVE  PageInv'
<1>1. Drawn(detail')
  BY DEF Answer, PageInv, Drawn
<1>2. Viewer'
  BY <1>1, ViewerFollows DEF Answer
<1>3. trouble' \in {"none", "not found", "failed"} /\ shown' = shown
  BY DEF Answer
<1> QED BY <1>1, <1>2, <1>3 DEF PageInv, Drawn, LiveAnswer, FinalAnswer

LEMMA ArrivalKeepsPage ==
  ASSUME PageInv, NEW n \in fetches, PatchArrives(n), UNCHANGED ops
  PROVE  PageInv'
<1>1. Viewer /\ n \in 1 .. effect
  BY DEF PageInv, Viewer
<1>2. UNCHANGED <<shown, detail, trouble, effect>> /\ fetches' = fetches \ {n}
  BY DEF PatchArrives
<1>3. CASE n = effect
  <2>1. Available(detail)
    BY <1>1, <1>3 DEF Viewer
  <2>2. \E phase \in {"text", "error"} : patch' = Patch(phase, n)
    BY <1>3 DEF PatchArrives
  <2>3. patch'.of = effect /\ patch'.phase \in {"text", "error"}
    BY <1>3, <2>2 DEF Patch
  <2>4. Viewer'
    BY <1>1, <1>2, <1>3, <2>1, <2>3 DEF Viewer, Available
  <2> QED BY <1>2, <2>4 DEF PageInv, LiveAnswer, FinalAnswer
<1>4. CASE n /= effect
  <2>1. patch' = patch
    BY <1>4 DEF PatchArrives
  <2>2. Viewer'
    BY <1>1, <1>2, <1>4, <2>1 DEF Viewer, Available
  <2> QED BY <1>2, <2>2 DEF PageInv, LiveAnswer, FinalAnswer
<1> QED BY <1>3, <1>4

LEMMA RunPageKeeps ==
  ASSUME Inv, RunNext, UNCHANGED opsPage
  PROVE  Inv'
<1> USE DEF Inv
<1>1. UNCHANGED ops
  BY DEF opsPage
<1>2. faults \in 0 .. MaxFaults
  BY DEF ServerInv, ServerTyped
<1>3. CASE PollRun
  <2>1. PICK answered \in BOOLEAN :
          /\ faults' = faults \/ (faults < MaxFaults /\ faults' = faults + 1)
          /\ Answer(RunDetail(shown, answered), FALSE)
    BY <1>3 DEF PollRun
  <2>2. shown \in Runs /\ shown /= "none"
    BY <1>3 DEF PollRun, PageInv
  <2>3. PageInv'
    BY <1>1, <2>1, <2>2, AnswersAreTyped, AnswerKeepsPage
  <2>4. faults' \in 0 .. MaxFaults
    BY <2>1, FaultsStayBounded
  <2> QED BY <1>1, <2>1, <2>3, <2>4, ServerStays DEF Answer
<1>4. CASE PollRunFails
  <2>1. UNCHANGED <<shown, detail, effect, patch, fetches, factory, caches>>
        /\ trouble' = "failed" /\ faults' \in 0 .. MaxFaults
    BY <1>4, FaultsStayBounded DEF PollRunFails
  <2>2. Viewer'
    BY <2>1 DEF PageInv, Viewer, Available
  <2>3. PageInv'
    BY <1>1, <2>1, <2>2 DEF PageInv, LiveAnswer, FinalAnswer
  <2> QED BY <1>1, <2>1, <2>3, ServerStays
<1>5. CASE Refresh
  <2>1. shown \in Runs /\ shown /= "none" /\ Answer(RunDetail(shown, TRUE), TRUE)
    BY <1>5 DEF Refresh, PageInv
  <2>2. PageInv'
    BY <1>1, <2>1, AnswersAreTyped, AnswerKeepsPage
  <2> QED BY <1>1, <1>2, <1>5, <2>1, <2>2, ServerStays DEF Answer, Refresh
<1>6. CASE RetryPatch
  <2>1. UNCHANGED <<shown, detail, trouble, faults, factory, caches>>
        /\ PatchEffectOf(detail', TRUE)
    BY <1>6 DEF RetryPatch
  <2>2. Viewer'
    BY <2>1, ViewerFollows DEF PageInv, Drawn, LiveAnswer, FinalAnswer
  <2>3. PageInv'
    BY <1>1, <2>1, <2>2 DEF PageInv, LiveAnswer, FinalAnswer
  <2> QED BY <1>1, <1>2, <2>1, <2>3, ServerStays
<1>7. CASE \E n \in fetches : PatchArrives(n)
  <2>1. PICK n \in fetches : PatchArrives(n)
    BY <1>7
  <2>2. PageInv'
    BY <1>1, <2>1, ArrivalKeepsPage
  <2>3. UNCHANGED <<factory, caches>> /\ faults' \in 0 .. MaxFaults
    BY <2>1, FaultsStayBounded DEF PatchArrives
  <2> QED BY <1>1, <2>2, <2>3, ServerStays
<1> QED BY <1>3, <1>4, <1>5, <1>6, <1>7 DEF RunNext

-----------------------------------------------------------------------------
(* The operations page and the router                                      *)

LEMMA WorldKeeps ==
  ASSUME Inv, World
  PROVE  Inv'
<1>1. UNCHANGED <<runPage, opsPage>> /\ (Factory \/ IndexCache \/ LiveCaches)
  BY DEF World
<1>2. ServerInv'
  BY <1>1, FactoryKeeps, CachesKeep DEF Inv, opsPage
<1>3. PageInv'
  BY <1>1 DEF Inv, PageInv, LiveAnswer, FinalAnswer, Viewer, Available, runPage, opsPage
<1> QED BY <1>2, <1>3 DEF Inv

(* What the page calls leaked is of a run the index knew at that moment.   *)
LEMMA OperationsAreKnown ==
  ASSUME ServerInv, inventory /= Expired
  PROVE  \A r \in DOMAIN Operations.sandboxes :
           Operations.sandboxes[r] = "leaked" => r \in Runs /\ Recorded(r)
<1>1. Operations.sandboxes = [r \in inventory.runs |-> SandboxFlag(r)]
  BY DEF Operations
<1>2. \A r \in inventory.runs : SandboxFlag(r) = "leaked" => r \in index
  BY DEF SandboxFlag
<1> QED BY <1>1, <1>2 DEF ServerInv, ServerTyped, Known

LEMMA OpsPageKeeps ==
  ASSUME Inv, OpsPage
  PROVE  Inv'
<1> USE DEF Inv
<1>1. OnOperations /\ UNCHANGED runPage
  BY DEF OpsPage
<1>2. PageInv'
  BY <1>1 DEF OnOperations, PageInv, LiveAnswer, FinalAnswer, Viewer, Available, runPage
<1>3. CASE PollOps
  <2>1. ops' = Operations /\ UNCHANGED server /\ inventory /= Expired
    BY <1>3 DEF PollOps
  <2>2. UNCHANGED <<stage, verdict, boxes, files, cleanup, manifest, index, open,
                    inventory, faults>>
    BY <2>1 DEF server, factory, caches
  <2>3. Known'
    BY <2>1, <2>2, OperationsAreKnown DEF ServerInv, Known, Recorded
  <2>4. ServerTyped' /\ \A r \in Runs : Judged(r)' /\ Kept(r)'
    BY <2>2 DEF ServerInv, ServerTyped, Judged, Kept, Recorded
  <2> QED BY <1>2, <2>3, <2>4 DEF ServerInv
<1>4. CASE PollOpsFails
  <2>1. UNCHANGED <<ops, factory, caches>> /\ faults' \in 0 .. MaxFaults
    BY <1>4, FaultsStayBounded DEF PollOpsFails
  <2> QED BY <1>2, <2>1, ServerStays
<1> QED BY <1>3, <1>4 DEF OpsPage

LEMMA NavigateKeeps ==
  ASSUME Inv, Navigate
  PROVE  Inv'
<1> USE DEF Inv
<1>1. /\ ops' = NoOps /\ detail' = NoData /\ trouble' = "none" /\ fetches' = {}
      /\ effect' \in {0, 1} /\ patch' = Patch("idle", effect')
      /\ shown' \in Runs \cup {"none"}
  BY DEF Navigate, GoToRun, GoToOperations, OpenRun, LeaveRun, OpenOps
<1>2. /\ UNCHANGED <<stage, verdict, boxes, files, cleanup, manifest, index, faults>>
      /\ open' = open \/ open' = Expired
      /\ inventory' = inventory \/ inventory' = Expired
  BY DEF Navigate, GoToRun, GoToOperations, LiveCachesExpire, server, factory, caches
<1>3. Viewer'
  <2>1. patch'.phase = "idle" /\ patch'.of = effect' /\ effect' \in Nat
    BY <1>1 DEF Patch
  <2>2. ~Available(detail')
    BY <1>1 DEF Available, NoData
  <2> QED BY <1>1, <2>1, <2>2 DEF Viewer, Available
<1>4. PageInv'
  BY <1>1, <1>3 DEF PageInv
<1>5. ServerTyped' /\ Known' /\ \A r \in Runs : Judged(r)' /\ Kept(r)'
  BY <1>1, <1>2 DEF ServerInv, ServerTyped, Known, Judged, Kept, Recorded
<1> QED BY <1>4, <1>5 DEF ServerInv

LEMMA InitHolds == ASSUME PagesInit PROVE Inv
<1> USE DEF PagesInit, ServerInit, RunInit, OpsInit
<1>1. MaxFaults \in Nat
  BY ServerAssumption
<1>2. ServerTyped
  BY <1>1 DEF ServerTyped, Stages, Words, NoFiles, FilesType
<1>3. \A r \in Runs : stage[r] = "absent" /\ ~Recorded(r)
  BY DEF Recorded
<1>4. (\A r \in Runs : Judged(r) /\ Kept(r)) /\ Known
  BY <1>3 DEF Judged, Kept, Known, Over
<1>5. Viewer
  BY DEF Viewer, Available, NoData, Patch
<1>6. PageInv
  BY <1>5 DEF PageInv
<1> QED BY <1>2, <1>4, <1>6 DEF Inv, ServerInv

LEMMA StepKeeps == Inv /\ [Next]_pages => Inv'
<1> SUFFICES ASSUME Inv, [Next]_pages PROVE Inv'
  OBVIOUS
<1>1. CASE World
  BY <1>1, WorldKeeps
<1>2. CASE RunPage
  BY <1>2, RunPageKeeps DEF RunPage
<1>3. CASE OpsPage
  BY <1>3, OpsPageKeeps
<1>4. CASE Navigate
  BY <1>4, NavigateKeeps
<1>5. CASE Toggle \/ UNCHANGED pages
  <2>1. UNCHANGED <<stage, verdict, boxes, files, cleanup, manifest, index, open,
                    inventory, faults, shown, detail, trouble, effect, patch, fetches, ops>>
    BY <1>5 DEF Toggle, pages, server, factory, caches, runPage, opsPage
  <2>2. ServerInv'
    BY <2>1 DEF Inv, ServerInv, ServerTyped, Known, Judged, Kept, Recorded
  <2>3. PageInv'
    BY <2>1 DEF Inv, PageInv, LiveAnswer, FinalAnswer, Viewer, Available
  <2> QED BY <2>2, <2>3 DEF Inv
<1> QED BY <1>1, <1>2, <1>3, <1>4, <1>5 DEF Next

LEMMA PagesInvariant == Spec => []Inv
BY InitHolds, StepKeeps, PTL DEF Spec

(* The switch.                                                             *)
LEMMA WorkspaceIsTyped == Spec => []WorkspaceTypeOK
<1>1. PagesInit => WorkspaceTypeOK
  BY DEF PagesInit, WorkspaceInit, WorkspaceTypeOK
<1>2. WorkspaceTypeOK /\ [Next]_pages => WorkspaceTypeOK'
  <2> SUFFICES ASSUME WorkspaceTypeOK, [Next]_pages PROVE WorkspaceTypeOK'
    OBVIOUS
  <2>1. Switch \/ UNCHANGED autoRefresh
    <3>1. CASE RunPage
      BY <3>1 DEF RunPage, RunNext, PollRun, PollRunFails, Refresh, RetryPatch, PatchArrives
    <3>2. CASE OpsPage
      BY <3>2 DEF OpsPage, PollOps, PollOpsFails
    <3>3. CASE World \/ Navigate \/ Toggle \/ UNCHANGED pages
      BY <3>3 DEF World, Navigate, GoToRun, GoToOperations, Toggle, pages
    <3> QED BY <3>1, <3>2, <3>3 DEF Next
  <2> QED BY <2>1 DEF WorkspaceTypeOK, Switch
<1> QED BY <1>1, <1>2, PTL DEF Spec

-----------------------------------------------------------------------------
(* The labels                                                              *)

LEMMA CleanLabelIsBackedUp == Inv => CleanIsBackedUp
<1> SUFFICES ASSUME Inv, detail /= NoData, SecurityLabel(detail).tone = "success"
             PROVE  /\ BehaviorSection(detail.hardening) = {"success"}
                    /\ GateSection(detail.hardening) = {"success"}
                    /\ SecurityCard(detail.hardening) \cap {"danger", "warning"} = {}
  BY DEF CleanIsBackedUp
<1> DEFINE h == detail.hardening
           s == summarizeHardening(h)
<1>1. h \in Hardening
  BY EvidenceFacts DEF Inv, PageInv, LiveAnswer, FinalAnswer
<1>2. /\ s.behavior_measured <=> h.behavior /= "none"
      /\ s.tripped <=> h.behavior = "tripped"
      /\ s.findings = IF h.behavior \in {"findings", "tripped"} THEN 1 ELSE 0
      /\ s.egress_violations = IF h.probe = "violated" THEN 1 ELSE 0
      /\ s.gate_checked <=> h.gate \in {"clean", "modified"}
      /\ s.gate_modified <=> h.gate = "modified"
  BY DEF summarizeHardening
<1> HIDE DEF s
<1>3. /\ s.behavior_measured \/ s.tripped
      /\ ~s.tripped /\ ~(s.egress_violations > 0) /\ ~(s.findings > 0)
      /\ ~s.gate_modified /\ s.gate_checked
  BY DEF SecurityLabel, securityMeta, Label, s
<1>4. h.behavior = "clean" /\ h.probe /= "violated" /\ h.gate = "clean"
  BY <1>1, <1>2, <1>3 DEF Hardening
<1> HIDE DEF h
<1>5. /\ BehaviorSection(h) = {"success"} /\ GateSection(h) = {"success"}
      /\ ProbeSection(h) \subseteq {"success"}
  BY <1>1, <1>4 DEF BehaviorSection, GateSection, ProbeSection, Hardening
<1> QED BY <1>5 DEF SecurityCard, h

LEMMA LiveIsNotDressedUp == Inv => NothingFabricated
<1> SUFFICES ASSUME Inv, detail.kind = "live" PROVE NothingFabricated
  BY DEF NothingFabricated
<1>1. LiveAnswer(detail)
  <2>1. detail = NoData \/ LiveAnswer(detail) \/ FinalAnswer(detail)
    BY DEF Inv, PageInv
  <2>2. detail /= NoData /\ ~FinalAnswer(detail)
    BY DEF NoData, FinalAnswer
  <2> QED BY <2>1, <2>2
<1>2. /\ RunBanner = "live" /\ RunHeader(detail).live
      /\ RunHeader(detail).review <=> detail.state = "PAUSED"
  BY <1>1 DEF RunBanner, RunHeader
<1>3. /\ cleanupMeta(detail.cleanup).label = "Not reported"
      /\ ~RunSummaryCards(detail).remaining /\ ~RunMetadataCard(detail).budget
  <2>1. detail.cleanup.outcome = ""
    <3>1. detail.cleanup = NoCleanup
      BY <1>1 DEF LiveAnswer
    <3>2. NoCleanup.outcome = ""
      BY DEF NoCleanup
    <3> QED BY <3>1, <3>2
  <2> QED BY <2>1 DEF cleanupMeta, Label, RunSummaryCards, RunMetadataCard
<1>4. RunRow(detail).shield /= "check"
  <2>0. detail.hardening.behavior = "none" /\ detail.hardening.probe = "none"
    BY <1>1 DEF LiveAnswer, NoHardening
  <2>1. ~summarizeHardening(detail.hardening).measured
    BY <2>0 DEF summarizeHardening
  <2>2. SecurityLabel(detail).tone /= "success"
    BY <2>1 DEF SecurityLabel, securityMeta, Label
  <2> QED BY <2>2 DEF RunRow, SecurityIndicator
<1>5. "approve" \in CommandsCard(detail) <=> detail.state = "PAUSED"
  BY <1>1 DEF LiveAnswer, CommandsCard, runActions
<1>6. detail.state = "PAUSED" <=> reviewMeta("", detail.state, FALSE) = "Awaiting review"
  BY DEF reviewMeta
<1> QED BY <1>2, <1>3, <1>4, <1>5, <1>6 DEF NothingFabricated

LEMMA GapsAreExplained == Inv => MissingIsExplained
<1> SUFFICES ASSUME Inv, detail /= NoData PROVE MissingIsExplained
  BY DEF MissingIsExplained
<1> DEFINE h == detail.hardening
<1>1. LiveAnswer(detail) \/ FinalAnswer(detail)
  BY DEF Inv, PageInv
<1>2. ~RunSummaryCards(detail).gates => "No verification result" \in Warnings(detail)
  BY DEF RunSummaryCards, Warnings
<1>3. RunMetadataCard(detail).unrecorded => detail.kind = "live" \/ h = NoHardening
  BY DEF RunMetadataCard
<1>4. RunMetadataCard(detail).unrecorded
        => Warnings(detail) \cap {"No hardening evidence", "No durable manifest"} /= {}
  BY <1>1, <1>3 DEF Warnings, LiveAnswer, FinalAnswer
<1> QED BY <1>2, <1>4 DEF MissingIsExplained

(* The manifest of a run that is recorded.                                 *)
LEMMA ManifestFacts ==
  ASSUME Inv, NEW r \in Runs, Recorded(r)
  PROVE  LET d == RecordedDetail(r)
         IN  /\ d.kind = "final" /\ d.state \in Verdicts(d.hardening)
             /\ d.hardening \in Hardening /\ Recordable(d.hardening)
             /\ d.cleanup \in Cleanups
             /\ d.state = "SUCCEEDED" =>
                  d.cleanup.verified = TRUE /\ d.gates = "passed" /\ d.patch = TRUE
<1>1. Kept(r) /\ Judged(r)
  BY DEF Inv, ServerInv
<1>2. /\ manifest[r] \in Written /\ Recordable(manifest[r].hardening)
      /\ manifest[r].result = verdict[r] /\ manifest[r].cleanup = cleanup[r]
      /\ verdict[r] \in Verdicts(manifest[r].hardening)
      /\ verdict[r] = "SUCCEEDED" => cleanup[r].verified = TRUE /\ files[r] = WholeFiles
  BY <1>1 DEF Kept, Judged, Over
<1>3. files[r] = WholeFiles => GateResult(r) = "passed" /\ HasPatch(r)
  BY DEF GateResult, HasPatch, WholeFiles
<1> QED BY <1>2, <1>3 DEF RecordedDetail, Written

(* A green run: every card of its page agrees.                             *)
LEMMA GreenIsWhole == Inv => GreenRunIsWhole
<1> SUFFICES ASSUME Inv, NEW r \in Runs, Recorded(r),
                    RunRow(RecordedDetail(r)).status.tone = "success"
             PROVE  LET d == RecordedDetail(r)
                    IN /\ RunHeader(d).download
                       /\ VerificationCard(d) = "success"
                       /\ RunRow(d).cleanup.tone = "success"
                       /\ \A c \in DOMAIN ConditionsCard(d) : ConditionsCard(d)[c] /= "danger"
                       /\ "danger" \notin SecurityCard(d.hardening)
                       /\ Warnings(d) = {}
  BY DEF GreenRunIsWhole
<1> DEFINE d == RecordedDetail(r)
           h == d.hardening
<1>1. /\ d.kind = "final" /\ d.state \in Verdicts(h)
      /\ h \in Hardening /\ Recordable(h) /\ d.cleanup \in Cleanups
      /\ d.state = "SUCCEEDED" =>
           d.cleanup.verified = TRUE /\ d.gates = "passed" /\ d.patch = TRUE
  BY ManifestFacts
<1>2. StatusPill(d.state).tone = "success"
  BY DEF RunRow
<1> HIDE DEF d
<1>3. d.state = "SUCCEEDED"
  BY <1>2 DEF StatusPill, Label, runStateTone
<1>4. h.probe /= "violated" /\ h.gate = "clean" /\ h.behavior /= "tripped"
  BY <1>1, <1>3, SuccessIsClean
<1>5. RunHeader(d).download /\ VerificationCard(d) = "success"
  BY <1>1, <1>3 DEF RunHeader, VerificationCard
<1>6. RunRow(d).cleanup.tone = "success"
  <2>1. d.cleanup.outcome = "SUCCESS" /\ d.cleanup.verified = TRUE
    BY <1>1, <1>3, CleanupFacts
  <2> QED BY <2>1 DEF RunRow, cleanupMeta, Label
<1>7. \A c \in DOMAIN ConditionsCard(d) : ConditionsCard(d)[c] /= "danger"
  <2>1. h.probe \in {"none", "clean"}
    BY <1>1, <1>4 DEF Hardening
  <2>2. \A c \in {"CleanupVerified", "EgressVerified", "GateIntegrity", "BehaviorScanned"} :
          Conditions(d)[c] \in {"True", "Unknown"}
    BY <1>1, <1>3, <1>4, <2>1 DEF Conditions
  <2>3. DOMAIN Conditions(d) = {"CleanupVerified", "EgressVerified", "GateIntegrity",
                                "BehaviorScanned"}
    BY DEF Conditions
  <2>4. \A c \in DOMAIN Conditions(d) : statusMeta(Conditions(d)[c]) /= "danger"
    BY <2>2, <2>3 DEF statusMeta
  <2> QED BY <2>4 DEF ConditionsCard
<1>8. "danger" \notin SecurityCard(h)
  BY <1>1, <1>4 DEF SecurityCard, ProbeSection, BehaviorSection, GateSection, Hardening
<1>9. Warnings(d) = {}
  <2>1. h /= NoHardening
    BY <1>4 DEF NoHardening
  <2> QED BY <1>1, <1>3, <2>1 DEF Warnings
<1> QED BY <1>5, <1>6, <1>7, <1>8, <1>9 DEF d

(* A red section, and what stands beside it.                               *)
LEMMA RedIsEverywhere ==
  ASSUME NEW d, d.hardening \in Hardening, Recordable(d.hardening),
         d.state \in Verdicts(d.hardening), "danger" \in SecurityCard(d.hardening)
  PROVE  /\ \E c \in DOMAIN ConditionsCard(d) :
              c /= "CleanupVerified" /\ ConditionsCard(d)[c] = "danger"
         /\ RunRow(d).status.tone /= "success"
         /\ RunRow(d).shield = IF GateGoesUnseen(d) THEN "off" ELSE "alert"
<1> DEFINE h == d.hardening
           s == summarizeHardening(h)
<1>1. h.probe = "violated" \/ h.gate = "modified" \/ h.behavior = "tripped"
  BY DEF SecurityCard, ProbeSection, BehaviorSection, GateSection, Hardening
<1>2. DOMAIN ConditionsCard(d) = {"CleanupVerified", "EgressVerified", "GateIntegrity",
                                  "BehaviorScanned"}
  BY DEF ConditionsCard, Conditions
<1>3. \E c \in DOMAIN ConditionsCard(d) :
        c /= "CleanupVerified" /\ ConditionsCard(d)[c] = "danger"
  <2>1. CASE h.probe = "violated"
    <3>1. Conditions(d)["EgressVerified"] = "False"
      BY <2>1 DEF Conditions
    <3>2. ConditionsCard(d)["EgressVerified"] = "danger"
      BY <1>2, <3>1 DEF ConditionsCard, statusMeta, Conditions
    <3> QED BY <1>2, <3>2
  <2>2. CASE h.gate = "modified"
    <3>1. Conditions(d)["GateIntegrity"] = "False"
      BY <2>2 DEF Conditions
    <3>2. ConditionsCard(d)["GateIntegrity"] = "danger"
      BY <1>2, <3>1 DEF ConditionsCard, statusMeta, Conditions
    <3> QED BY <1>2, <3>2
  <2>3. CASE h.behavior = "tripped" /\ h.gate = "none"
    <3>1. Conditions(d)["GateIntegrity"] = "False"
      BY <2>3 DEF Conditions
    <3>2. ConditionsCard(d)["GateIntegrity"] = "danger"
      BY <1>2, <3>1 DEF ConditionsCard, statusMeta, Conditions
    <3> QED BY <1>2, <3>2
  <2>4. CASE h.behavior = "tripped" /\ h.gate \notin {"none", "modified"}
    <3>1. Conditions(d)["BehaviorScanned"] = "False"
      BY <2>4 DEF Conditions
    <3>2. ConditionsCard(d)["BehaviorScanned"] = "danger"
      BY <1>2, <3>1 DEF ConditionsCard, statusMeta, Conditions
    <3> QED BY <1>2, <3>2
  <2> QED BY <1>1, <2>1, <2>2, <2>3, <2>4
<1>4. RunRow(d).status.tone /= "success"
  <2>1. d.state /= "SUCCEEDED"
    BY <1>1, SuccessIsClean
  <2>2. runStateTone(d.state) /= "success"
    BY <2>1 DEF runStateTone
  <2> QED BY <2>2 DEF RunRow, StatusPill, Label
<1>5. RunRow(d).shield = IF GateGoesUnseen(d) THEN "off" ELSE "alert"
  <2>1. /\ s.measured <=> h.behavior /= "none" \/ h.probe /= "none"
        /\ s.behavior_measured <=> h.behavior /= "none"
        /\ s.tripped <=> h.behavior = "tripped"
        /\ s.findings = IF h.behavior \in {"findings", "tripped"} THEN 1 ELSE 0
        /\ s.egress_violations = IF h.probe = "violated" THEN 1 ELSE 0
        /\ s.gate_modified <=> h.gate = "modified"
    BY DEF summarizeHardening
  <2>2. GateGoesUnseen(d) <=> h.gate = "modified" /\ ~s.measured /\ d.state \notin SecurityStates
    BY DEF GateGoesUnseen
  <2> HIDE DEF s
  <2>3. CASE GateGoesUnseen(d)
    <3>1. SecurityLabel(d).tone = "muted"
      BY <2>2, <2>3 DEF SecurityLabel, securityMeta, Label, SecurityStates, s
    <3> QED BY <2>3, <3>1 DEF RunRow, SecurityIndicator
  <2>4. CASE ~GateGoesUnseen(d)
    <3>1. d.state \in SecurityStates \/ s.measured
      BY <1>1, <2>1, <2>2, <2>4 DEF Hardening
    <3>2. SecurityLabel(d).tone \notin {"muted", "success"}
      BY <1>1, <2>1, <3>1 DEF SecurityLabel, securityMeta, Label, SecurityStates, s
    <3> QED BY <2>4, <3>2 DEF RunRow, SecurityIndicator
  <2> QED BY <2>3, <2>4
<1> QED BY <1>3, <1>4, <1>5

(* The tone of a cleanup, wherever it is drawn.                            *)
LEMMA CleanupTonesAgree ==
  ASSUME NEW d, d.cleanup \in Cleanups
  PROVE  LET cards == RunSummaryCards(d)
         IN  /\ cards.cleanup = cards.cleaned
             /\ CleanupCounts(d.cleanup) = "failed" <=> cards.cleanup = "danger"
             /\ CleanupCounts(d.cleanup) = "verified"
                  <=> ConditionsCard(d)["CleanupVerified"] = "success"
<1> DEFINE c == d.cleanup
<1>1. /\ c.verified \in BOOLEAN /\ c.attempted \in BOOLEAN /\ c.remaining = 0
      /\ c.outcome \in {"SKIPPED", "SUCCESS", "ERROR"}
      /\ c.outcome = "SUCCESS" <=> c.verified = TRUE
      /\ c.outcome = "SKIPPED" <=> c.attempted = FALSE
  BY CleanupFacts
<1>2. RunSummaryCards(d).cleanup = cleanupMeta(c).tone /\ RunSummaryCards(d).cleaned = CleanupPill(c)
  BY DEF RunSummaryCards
<1>3. ConditionsCard(d)["CleanupVerified"] = IF c.verified THEN "success" ELSE "danger"
  BY <1>1 DEF ConditionsCard, Conditions, statusMeta
<1> HIDE DEF c
<1>4. cleanupMeta(c).tone = CleanupPill(c)
  BY <1>1 DEF cleanupMeta, Label, CleanupPill, cleanupTone
<1>5. CleanupCounts(c) = "failed" <=> cleanupMeta(c).tone = "danger"
  BY <1>1 DEF cleanupMeta, Label, CleanupCounts
<1>6. CleanupCounts(c) = "verified" <=> c.verified = TRUE
  BY <1>1 DEF CleanupCounts
<1> QED BY <1>1, <1>2, <1>3, <1>4, <1>5, <1>6 DEF c

LEMMA AllScreensAgree == Inv => ScreensAgree
BY ManifestFacts, CleanupTonesAgree, RedIsEverywhere DEF ScreensAgree

LEMMA LeaksAreOver == Inv => NoLiveRunIsCalledLeaked
BY DEF Inv, ServerInv, Known, Kept, NoLiveRunIsCalledLeaked, ShownLeaked, FlagsWith, OpsView

-----------------------------------------------------------------------------
(* No label of a page says more than the evidence it was sent: a green     *)
(* security label has its scan and its gate check behind it, a live page   *)
(* fabricates nothing, a green run is whole on all its cards, and what is  *)
(* missing is said to be missing (components/runs/utils.js,                *)
(* run-notices.jsx), for any set of runs and any evidence.                 *)
THEOREM LabelsStandOnEvidence == Spec => []LabelsAreGrounded
<1>1. Inv => LabelsAreGrounded
  BY CleanLabelIsBackedUp, LiveIsNotDressedUp, GapsAreExplained, GreenIsWhole
     DEF LabelsAreGrounded
<1> QED BY <1>1, PagesInvariant, PTL

(* Two views of one run do not contradict each other, however old the      *)
(* caches behind them: the patch in the viewer is of this page, red is red *)
(* everywhere, and no sandbox is called leaked while its run is at work    *)
(* (buildLiveSandboxes of catalog.go).                                     *)
THEOREM ViewsDoNotContradict == Spec => []ViewsAgree
<1>1. Inv /\ WorkspaceTypeOK => TypeOK
  <2> SUFFICES ASSUME Inv, WorkspaceTypeOK PROVE TypeOK
    OBVIOUS
  <2>1. RunTypeOK
    <3>1. detail = NoData \/ LiveAnswer(detail) \/ FinalAnswer(detail)
      BY DEF Inv, PageInv
    <3>2. detail.kind \in {"none", "live", "final"}
      BY <3>1 DEF LiveAnswer, FinalAnswer, NoData
    <3>3. effect \in Nat /\ patch.of = effect /\ fetches \subseteq 1 .. effect
          /\ patch.phase \in {"idle", "loading", "text", "error"}
      BY DEF Inv, PageInv, Viewer
    <3>4. patch.of \in 0 .. effect /\ \A n \in fetches : n \in 1 .. effect
      BY <3>3
    <3> QED BY <3>2, <3>3, <3>4 DEF Inv, PageInv, RunTypeOK
  <2> QED BY <2>1 DEF Inv, ServerInv, ServerTyped, PageInv, TypeOK
<1>2. Inv => PatchIsOfThisView
  BY DEF Inv, PageInv, Viewer, PatchIsOfThisView
<1>3. Inv /\ WorkspaceTypeOK => ViewsAgree
  BY <1>1, <1>2, AllScreensAgree, LeaksAreOver DEF ViewsAgree
<1> QED BY <1>3, PagesInvariant, WorkspaceIsTyped, PTL
=============================================================================
