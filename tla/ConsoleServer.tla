---------------------------- MODULE ConsoleServer ----------------------------
(***************************************************************************)
(* The console server's view of a factory at work: runs that proceed while *)
(* somebody looks at them, and the three caches the answers are made from, *)
(* each filled at a moment of its own: the index of manifests (index.go),  *)
(* the open workflows and the sandbox inventory (live.go).                 *)
(*                                                                         *)
(* A run is cut down to what the console can observe of it; FactoryRun is  *)
(* its full model.  A cache may be refreshed by any request at any time,   *)
(* and may be as old as the time since; the ages of the code (15, 5 and    *)
(* 20 s) are not modelled.  A live cache that has expired is read anew     *)
(* before it is used.                                                      *)
(***************************************************************************)
EXTENDS ConsoleCards, FiniteSets

CONSTANTS Runs,       \* the runs of the factory
          Hardenings, \* the hardening evidence they may leave
          MaxFaults   \* bound on the failures of a query, a scan or an answer

ASSUME ServerAssumption ==
  /\ IsFiniteSet(Runs)
  /\ Hardenings \subseteq {h \in Hardening : Recordable(h)}
  /\ MaxFaults \in Nat

VARIABLES
  stage,     \* how far the workflow is
  verdict,   \* the state the workflow reports
  boxes,     \* runs whose sandbox exists
  files,     \* the patch and the gates' result in the evidence store
  cleanup,   \* the workflow's cleanup result
  manifest,  \* what run.json holds
  index,     \* the runs the evidence index knows
  open,      \* the cached list of open workflows
  inventory, \* the cached sandbox inventory
  faults     \* failures so far

factory == <<stage, verdict, boxes, files, cleanup, manifest>>
caches == <<index, open, inventory>>
server == <<factory, caches, faults>>

Stages == {"absent", "starting", "running", "paused", "cleaning", "ended", "recorded", "closed"}
Live == {"starting", "running", "paused", "cleaning", "ended", "recorded"}
NoManifest == [result |-> "none", hardening |-> NoHardening, cleanup |-> NoCleanup]
Snapshot(ok, S) == [available |-> ok, runs |-> S]
Expired == Snapshot(FALSE, {"expired"})
NoFiles == [patch |-> FALSE, gates |-> "unavailable"]
WholeFiles == [patch |-> TRUE, gates |-> "passed"]
FilesType == [patch : BOOLEAN, gates : {"unavailable", "passed", "failed"}]

\* The manifest is on disk.
Recorded(r) == manifest[r] /= NoManifest

-----------------------------------------------------------------------------
ServerInit ==
  /\ stage = [r \in Runs |-> "absent"]
  /\ verdict = [r \in Runs |-> "RUNNING"]
  /\ boxes = {}
  /\ files = [r \in Runs |-> NoFiles]
  /\ cleanup = [r \in Runs |-> NoCleanup]
  /\ manifest = [r \in Runs |-> NoManifest]
  /\ index = {}
  /\ open = Expired /\ inventory = Expired
  /\ faults = 0

(***************************************************************************)
(* The factory (external to the console)                                   *)
(***************************************************************************)
\* The workflow starts.
Start(r) ==
  /\ stage[r] = "absent"
  /\ stage' = [stage EXCEPT ![r] = "starting"]
  /\ UNCHANGED <<verdict, boxes, files, cleanup, manifest, caches, faults>>

\* The sandbox is created.
Create(r) ==
  /\ stage[r] = "starting"
  /\ stage' = [stage EXCEPT ![r] = "running"]
  /\ boxes' = boxes \cup {r}
  /\ UNCHANGED <<verdict, files, cleanup, manifest, caches, faults>>

\* collect writes the patch.
Collect(r) ==
  /\ stage[r] = "running" /\ files[r] = NoFiles
  /\ files' = [files EXCEPT ![r].patch = TRUE]
  /\ UNCHANGED <<stage, verdict, boxes, cleanup, manifest, caches, faults>>

\* RunVerification writes the result of the gates, with the patch collected or,
\* when its collection failed, without.
Verify(r) ==
  /\ stage[r] = "running" /\ files[r].gates = "unavailable"
  /\ \E result \in {"passed", "failed"} : files' = [files EXCEPT ![r].gates = result]
  /\ UNCHANGED <<stage, verdict, boxes, cleanup, manifest, caches, faults>>

\* The review gate; a decision is one way to finish.
Pause(r) ==
  /\ stage[r] = "running"
  /\ stage' = [stage EXCEPT ![r] = "paused"]
  /\ verdict' = [verdict EXCEPT ![r] = "PAUSED"]
  /\ UNCHANGED <<boxes, files, cleanup, manifest, caches, faults>>

\* The run's steps are over.
Finish(r) ==
  /\ stage[r] \in {"starting", "running", "paused"}
  /\ stage' = [stage EXCEPT ![r] = "cleaning"]
  /\ \E h \in Hardenings : \E v \in Verdicts(h) :
       /\ stage[r] = "starting" => v = "FAILED"
       /\ v = "SUCCEEDED" => files[r].gates /= "failed"
       /\ verdict' = [verdict EXCEPT ![r] = v]
  /\ UNCHANGED <<boxes, files, cleanup, manifest, caches, faults>>

\* cleanupSandbox. A run whose evidence could not be written (collectionFailed),
\* or whose cleanup is not verified, is no success.
Clean(r) ==
  /\ stage[r] = "cleaning"
  /\ stage' = [stage EXCEPT ![r] = "ended"]
  /\ \E c \in Cleanups :
       /\ c.attempted <=> r \in boxes
       /\ cleanup' = [cleanup EXCEPT ![r] = c]
       /\ \/ boxes' = boxes \ {r}
          \/ c.outcome = "ERROR" /\ UNCHANGED boxes
       /\ verdict' = [verdict EXCEPT ![r] =
            IF @ = "SUCCEEDED" /\ ~(c.verified /\ files[r] = WholeFiles) THEN "FAILED" ELSE @]
  /\ UNCHANGED <<files, manifest, caches, faults>>

\* finalizeRun writes the manifest, or fails for good. Without a sandbox there
\* is nothing to measure.
Record(r) ==
  /\ stage[r] = "ended"
  /\ \/ /\ \E h \in IF cleanup[r].attempted THEN Hardenings ELSE {NoHardening} :
             /\ verdict[r] \in Verdicts(h)
             /\ manifest' = [manifest EXCEPT ![r] =
                  [result |-> verdict[r], hardening |-> h, cleanup |-> cleanup[r]]]
        /\ stage' = [stage EXCEPT ![r] = "recorded"]
     \/ /\ stage' = [stage EXCEPT ![r] = "closed"]
        /\ UNCHANGED manifest
  /\ UNCHANGED <<verdict, boxes, files, cleanup, caches, faults>>

Close(r) ==
  /\ stage[r] = "recorded"
  /\ stage' = [stage EXCEPT ![r] = "closed"]
  /\ UNCHANGED <<verdict, boxes, files, cleanup, manifest, caches, faults>>

(***************************************************************************)
(* The caches                                                              *)
(***************************************************************************)
\* evidenceIndex.refresh.
RefreshIndex ==
  /\ index' = {r \in Runs : Recorded(r)}
  /\ UNCHANGED <<factory, open, inventory, faults>>

\* A run.json that cannot be examined leaves the index, known before or not.
RefreshIndexPartly(r) ==
  /\ faults < MaxFaults /\ Recorded(r)
  /\ index' = {q \in Runs : Recorded(q)} \ {r}
  /\ faults' = faults + 1
  /\ UNCHANGED <<factory, open, inventory>>

\* liveService.openRuns; a failure is cached as well.
RefreshOpen ==
  /\ open' = Snapshot(TRUE, {r \in Runs : stage[r] \in Live})
  /\ UNCHANGED <<factory, index, inventory, faults>>

RefreshOpenFails ==
  /\ faults < MaxFaults
  /\ open' = Snapshot(FALSE, {})
  /\ faults' = faults + 1
  /\ UNCHANGED <<factory, index, inventory>>

\* liveService.sandboxes.
RefreshInventory ==
  /\ inventory' = Snapshot(TRUE, boxes)
  /\ UNCHANGED <<factory, index, open, faults>>

RefreshInventoryFails ==
  /\ faults < MaxFaults
  /\ inventory' = Snapshot(FALSE, {})
  /\ faults' = faults + 1
  /\ UNCHANGED <<factory, index, open>>

Factory ==
  \E r \in Runs :
    Start(r) \/ Create(r) \/ Collect(r) \/ Verify(r) \/ Pause(r) \/ Finish(r) \/ Clean(r) \/ Record(r) \/ Close(r)

IndexCache == RefreshIndex \/ \E r \in Runs : RefreshIndexPartly(r)

LiveCaches ==
  \/ RefreshOpen \/ RefreshOpenFails
  \/ RefreshInventory \/ RefreshInventoryFails

(***************************************************************************)
(* The answers                                                             *)
(***************************************************************************)
NotFound == [kind |-> "not found"]

\* readPatchDetail and readVerificationDetail.
HasPatch(r) == files[r].patch
GateResult(r) == files[r].gates

\* buildRunDetail.
RecordedDetail(r) ==
  [kind |-> "final", state |-> manifest[r].result, hardening |-> manifest[r].hardening,
   cleanup |-> manifest[r].cleanup, patch |-> HasPatch(r), gates |-> GateResult(r),
   actions |-> runActions("")]

\* writeLiveRunDetail: the workflow's own status, and the files there are.
LiveDetail(r) ==
  [kind |-> "live", state |-> verdict[r], hardening |-> NoHardening,
   cleanup |-> NoCleanup, patch |-> HasPatch(r), gates |-> GateResult(r),
   actions |-> runActions(verdict[r])]

(* Mutant: the workflow is never asked. *)
RunDetailRecordedOnly(r, answered) ==
  IF r \in index THEN RecordedDetail(r) ELSE NotFound

\* handleRunDetail; answered tells whether Temporal answered.
RunDetail(r, answered) ==
  IF r \in index THEN RecordedDetail(r)
  ELSE IF answered /\ stage[r] /= "absent" THEN LiveDetail(r) ELSE NotFound

\* handleRunPatch, with runEvidenceAvailable.
PatchIsServed(r, answered) == (r \in index \/ answered) /\ HasPatch(r)

(* Mutant: a sandbox that is owned and of no open workflow is a leak. *)
SandboxFlagHasty(r) ==
  IF ~open.available THEN "unattributed"
  ELSE IF r \in open.runs THEN "active"
  ELSE "leaked"

\* buildLiveSandboxes, for the sandbox of a run.
SandboxFlag(r) ==
  IF ~open.available THEN "unattributed"
  ELSE IF r \in open.runs THEN "active"
  ELSE IF r \in index THEN "leaked"
  ELSE "unattributed"

LiveCachesExpire == open' = Expired /\ inventory' = Expired

\* buildOperations.
Operations ==
  [kind        |-> "operations",
   available   |-> inventory.available,
   attribution |-> open.available,
   sandboxes   |-> [r \in inventory.runs |-> SandboxFlag(r)],
   counts      |-> [r \in index |-> CleanupCounts(manifest[r].cleanup)]]
=============================================================================
