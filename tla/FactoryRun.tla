----------------------------- MODULE FactoryRun -----------------------------
(***************************************************************************)
(* One durable run of the software factory: the Temporal workflow          *)
(* softwareChangeWorkflow (internal/factory/workflow.go), the activities   *)
(* it awaits (internal/factory/activities.go), the sandbox provider they   *)
(* drive, and the operators who cancel the run or answer its review gate.  *)
(*                                                                         *)
(* The workflow is sequential; pc names the activity it awaits.  What      *)
(* interleaves with it: an operator's cancellation, the total-timeout      *)
(* timer, review signals (buffered by Temporal at any time), the attempts  *)
(* of CreateSandbox, which run on after the workflow has stopped waiting   *)
(* for them, and a provider that may finish a create late.                 *)
(***************************************************************************)
EXTENDS Naturals, Sequences, FiniteSets

CONSTANTS
  Features,          \* switches the resolved resources of a run may turn on
  MaxCreateAttempts, \* infraRetry's MaximumAttempts for CreateSandbox
  MaxDestroyAttempts,\* cleanupSandbox's MaximumAttempts
  MaxFinalAttempts,  \* finalizeRun's MaximumAttempts
  MaxSignals         \* bound: review decisions the operators send

ASSUME BoundsAssumption ==
  /\ MaxCreateAttempts \in Nat \ {0}
  /\ MaxDestroyAttempts \in Nat \ {0}
  /\ MaxFinalAttempts \in Nat \ {0}
  /\ MaxSignals \in Nat

ASSUME FeaturesAssumption ==
  Features \subseteq {"intake", "probe", "monitor", "alert_blocked",
                      "review", "suspend"}

VARIABLES
  cfg,              \* features of this run; fixed by validation
  pc,               \* the workflow's current step
  state,            \* status.State, what the status query shows
  retErr,           \* the error run() is about to return
  cancelReq,        \* the workflow's own context is cancelled
  totalTimedOut,    \* the total-timeout timer fired first
  conds,            \* status.Conditions
  probe,            \* lockdown.Probe
  agentOutcome,     \* SKIPPED until the agent activity resolves
  exitAs,           \* which path the agent's result takes after the audit
  gate,             \* gateIntegrity
  behavior,         \* merged threat report: "nil", "clean" or "tripped"
  patchScanned,     \* ScanPatch returned a report
  verifyOutcome,    \* status.VerifyOutcome
  collectionFailed, \* some evidence is not durable
  reviewOutcome,    \* "" until the gate closes
  decisionSeen,     \* the decision used was sent while the run was PAUSED
  suspendOutcome,
  inbox,            \* review signals buffered by Temporal
  createPhase, createAttempt,             \* the CreateSandbox activity
  vms, pending, created,                  \* the provider's view of this run
  sandboxID,                              \* 0 until a create is acknowledged
  destroyPhase, destroyAttempt, destroyIds, \* the DestroySandbox activity
  cleanup,          \* CleanupResult: "none", "skipped", "error" or "verified"
  finalAttempt,
  manifest,         \* run.json
  changeRecorded

verdictVars == <<probe, agentOutcome, exitAs, gate, behavior, patchScanned,
                 verifyOutcome, collectionFailed>>
reviewVars  == <<reviewOutcome, decisionSeen, suspendOutcome>>
createVars  == <<createPhase, createAttempt>>
worldVars   == <<vms, pending, created>>
destroyVars == <<destroyPhase, destroyAttempt, destroyIds>>
endVars     == <<cleanup, finalAttempt, manifest, changeRecorded>>
opVars      == <<cancelReq, totalTimedOut>>
flowVars    == <<pc, state, retErr, conds>>

vars == <<cfg, flowVars, opVars, verdictVars, reviewVars, inbox, createVars,
          worldVars, sandboxID, destroyVars, endVars>>

-----------------------------------------------------------------------------
(* Values *)

RunStates ==
  {"RUNNING", "PAUSED", "AGENT_FAILED", "VERIFICATION_FAILED", "SUCCEEDED",
   "CANCELLED", "INFRASTRUCTURE_FAILED", "INVALID_REQUEST", "BLOCKED",
   "QUARANTINED", "GATE_TAMPERED", "EGRESS_UNVERIFIED", "REJECTED"}

ConditionTypes ==
  {"Validated", "SandboxReady", "WorkspacePrepared", "RepositoryPrepared",
   "InventoryWritten", "EgressVerified", "AgentCompleted", "AgentBlocked",
   "ArtifactsCollected", "GateIntegrity", "BehaviorScanned", "ReviewPaused",
   "Verified", "CleanupVerified", "EvidenceWritten"}

\* "Absent": no entry of that type in the list yet.
ConditionStatus == {"Absent", "True", "False", "Unknown"}

\* The steps of run(), during which the total-timeout timer is armed.
RunSteps ==
  {"intake.assess", "cube.create", "sandbox.prepare", "repo.prepare",
   "inventory.write", "network.lockdown", "egress.alert", "egress.collect",
   "agent.run", "audit.collect", "audit.gates", "audit.scan", "tamper.alert",
   "quarantine.alert", "blocked.alert", "verify", "verify.error.collect",
   "verify.drift", "review.preview", "review.suspend", "review.wait",
   "review.resume"}

Steps == {"validate"} \cup RunSteps
           \cup {"cube.destroy", "finalizing", "recording", "closed", "failed"}

Closed == pc \in {"closed", "failed"}

ReviewSteps == {"review.preview", "review.suspend", "review.wait", "review.resume"}

\* ReviewDecision.Decision as it arrives in the signal.
Decisions == {"approved", "rejected"}
SandboxIDs == 1 .. MaxCreateAttempts

Errors          == {"none", "error", "canceled"}
ProbeVerdicts   == {"nil", "verified", "inconclusive", "violated"}
AgentOutcomes   == {"SKIPPED", "SUCCESS", "FAILED", "TIMED_OUT", "ERROR", "CANCELLED"}
AgentExits      == {"none", "error", "blocked", "failed", "success"}
GateReports     == {"nil", "clean", "modified"}
ThreatReports   == {"nil", "clean", "tripped"}
VerifyOutcomes  == {"SKIPPED", "SUCCESS", "FAILED", "ERROR"}
ReviewOutcomes  == Decisions \cup {"", "timeout"}
SuspendOutcomes == {"none", "SUCCESS", "SKIPPED", "FAILED"}
ReviewSignals   == [decision: Decisions, paused: BOOLEAN]
CreatePhases    == {"none", "idle", "list", "call", "over"}
DestroyPhases   == {"idle", "destroy", "verify"}
CleanupResults  == {"none", "skipped", "error", "verified"}
Conditions      == [ConditionTypes -> ConditionStatus]

NoManifest == [result |-> "NONE", agent |-> "SKIPPED", verify |-> "SKIPPED",
               cleanup |-> "none", review |-> "",
               conds |-> [t \in ConditionTypes |-> "Absent"]]

-----------------------------------------------------------------------------
(* What the code's helpers do *)

\* run()'s context is derived from the workflow's: either cancels it.
Canceled == cancelReq \/ totalTimedOut

\* What Get on an activity future of run()'s context may return: an activity
\* that is in flight or scheduled when the context is cancelled resolves with a
\* CanceledError at once (WaitForCancellation is not set).
Results == IF Canceled THEN {"canceled"} ELSE {"ok", "error"}

\* SetCondition replaces the entry of the same type and never removes one.
SetCondition(t, status) == conds' = [conds EXCEPT ![t] = status]

\* The end of run() and lines 204-213 of its caller, which no await separates.
Verdict(s, e) ==
  CASE e = "none"                    -> s
    [] e # "none" /\ totalTimedOut   -> "INFRASTRUCTURE_FAILED"
    [] e # "none" /\ ~totalTimedOut /\ (e = "canceled" \/ cancelReq) -> "CANCELLED"
    [] OTHER                         -> s

Return(s, e) ==
  /\ state' = Verdict(s, e)
  /\ retErr' = e
  /\ pc' = "cube.destroy"

Goto(step) == pc' = step /\ UNCHANGED <<state, retErr>>

-----------------------------------------------------------------------------
Init ==
  /\ cfg \in SUBSET Features
  /\ pc = "validate"
  /\ state = "RUNNING"
  /\ retErr = "none"
  /\ cancelReq = FALSE
  /\ totalTimedOut = FALSE
  /\ conds = [t \in ConditionTypes |-> "Absent"]
  /\ probe = "nil"
  /\ agentOutcome = "SKIPPED"
  /\ exitAs = "none"
  /\ gate = "nil"
  /\ behavior = "nil"
  /\ patchScanned = FALSE
  /\ verifyOutcome = "SKIPPED"
  /\ collectionFailed = FALSE
  /\ reviewOutcome = ""
  /\ decisionSeen = FALSE
  /\ suspendOutcome = "none"
  /\ inbox = <<>>
  /\ createPhase = "none"
  /\ createAttempt = 0
  /\ vms = {}
  /\ pending = {}
  /\ created = {}
  /\ sandboxID = 0
  /\ destroyPhase = "idle"
  /\ destroyAttempt = 0
  /\ destroyIds = {}
  /\ cleanup = "none"
  /\ finalAttempt = 0
  /\ manifest = NoManifest
  /\ changeRecorded = FALSE

-----------------------------------------------------------------------------
(* 1. Validate, and advisory intake *)

EnterCreate == pc' = "cube.create" /\ createPhase' = "idle"

ValidateRequest ==
  /\ pc = "validate"
  /\ \/ /\ "ok" \in Results
        /\ SetCondition("Validated", "True")
        /\ IF "intake" \in cfg
             THEN pc' = "intake.assess" /\ UNCHANGED createPhase
             ELSE EnterCreate
        /\ UNCHANGED <<state, retErr>>
     \/ \E e \in Results \ {"ok"} :
          /\ SetCondition("Validated", "False")
          /\ Return("INVALID_REQUEST", e)
          /\ UNCHANGED createPhase
  /\ UNCHANGED <<cfg, opVars, verdictVars, reviewVars, inbox, createAttempt,
                 worldVars, sandboxID, destroyVars, endVars>>

\* Whatever the assessment returns, the task's path does not change.
AssessIntake ==
  /\ pc = "intake.assess"
  /\ EnterCreate
  /\ UNCHANGED <<cfg, state, retErr, conds, opVars, verdictVars, reviewVars,
                 inbox, createAttempt, worldVars, sandboxID, destroyVars, endVars>>

-----------------------------------------------------------------------------
(* 2. CreateSandbox: the activity's attempts, and the workflow awaiting it *)

workflowUnchanged == UNCHANGED <<cfg, flowVars, opVars, verdictVars, reviewVars,
                                 inbox, sandboxID, destroyVars, endVars>>

\* Mutant: an off-by-one in the attempt bound.
CreateDispatchOneMore ==
  /\ pc = "cube.create" /\ ~Canceled /\ createPhase = "idle"
  /\ createAttempt <= MaxCreateAttempts
  /\ createPhase' = "list" /\ createAttempt' = createAttempt + 1
  /\ workflowUnchanged /\ UNCHANGED worldVars

\* Temporal dispatches an attempt as long as the workflow still wants it.
CreateDispatch ==
  /\ pc = "cube.create"
  /\ ~Canceled
  /\ createPhase = "idle"
  /\ createAttempt < MaxCreateAttempts
  /\ createPhase' = "list"
  /\ createAttempt' = createAttempt + 1
  /\ workflowUnchanged
  /\ UNCHANGED worldVars

AttemptFails ==
  /\ createPhase' = "idle"
  /\ UNCHANGED <<createAttempt, sandboxID, conds, pc, state, retErr>>

\* The activity's result reaches the workflow only while it is still waiting.
AttemptReturns(id) ==
  /\ createPhase' = "over"
  /\ UNCHANGED <<createAttempt, state, retErr>>
  /\ IF pc = "cube.create" /\ ~Canceled
       THEN /\ sandboxID' = id
            /\ SetCondition("SandboxReady", "True")
            /\ pc' = "sandbox.prepare"
       ELSE UNCHANGED <<sandboxID, conds, pc>>

\* Mutant: a retried create is issued again.
NeverRefuse == FALSE

\* Never issue a second create after an ambiguous first attempt.
RefuseCreate == createAttempt > 1

\* List by ownership, then adopt, refuse or go on to create.
CreateList ==
  /\ createPhase = "list"
  /\ \/ AttemptFails
     \/ \E id \in vms : vms = {id} /\ AttemptReturns(id)
     \/ /\ vms = {}
        /\ ~RefuseCreate
        /\ createPhase' = "call"
        /\ UNCHANGED <<createAttempt, sandboxID, conds, pc, state, retErr>>
  /\ UNCHANGED <<cfg, opVars, verdictVars, reviewVars, inbox, worldVars,
                 destroyVars, endVars>>

\* provider.Create: the VM and the response are separate facts.
CreateCall ==
  /\ createPhase = "call"
  /\ \/ /\ vms' = vms \cup {createAttempt}
        /\ created' = created \cup {createAttempt}
        /\ UNCHANGED pending
        /\ AttemptReturns(createAttempt) \/ AttemptFails
     \/ /\ UNCHANGED worldVars
        /\ AttemptFails
     \/ /\ pending' = pending \cup {createAttempt}
        /\ UNCHANGED <<vms, created>>
        /\ AttemptFails
  /\ UNCHANGED <<cfg, opVars, verdictVars, reviewVars, inbox, destroyVars, endVars>>

\* The control plane settles a create whose caller gave up.
ProviderSettles ==
  /\ \E id \in pending :
       /\ pending' = pending \ {id}
       /\ \/ vms' = vms \cup {id} /\ created' = created \cup {id}
          \/ UNCHANGED <<vms, created>>
  /\ workflowUnchanged
  /\ UNCHANGED createVars

\* Retries exhausted, or the workflow's wait is cancelled; an attempt that is
\* executing at that moment is not heartbeating and runs to its end.
CreateFails ==
  /\ pc = "cube.create"
  /\ \/ Canceled /\ Return("INFRASTRUCTURE_FAILED", "canceled")
     \/ /\ ~Canceled
        /\ createPhase = "idle"
        /\ createAttempt = MaxCreateAttempts
        /\ Return("INFRASTRUCTURE_FAILED", "error")
  /\ SetCondition("SandboxReady", "False")
  /\ UNCHANGED <<cfg, opVars, verdictVars, reviewVars, inbox, createVars,
                 worldVars, sandboxID, destroyVars, endVars>>

-----------------------------------------------------------------------------
(* 3-4b. Provision the sandbox: three steps of the same shape *)

bodyUnchanged == UNCHANGED <<cfg, opVars, inbox, createVars, worldVars,
                             sandboxID, destroyVars, endVars>>

\* Mutant: a finished step is not written to the conditions.
ProvisionSilent(step, condition, next) ==
  /\ pc = step
  /\ "ok" \in Results
  /\ Goto(next)
  /\ UNCHANGED <<conds, verdictVars, reviewVars>>
  /\ bodyUnchanged

Provision(step, condition, next) ==
  /\ pc = step
  /\ \/ /\ "ok" \in Results
        /\ SetCondition(condition, "True")
        /\ Goto(next)
     \/ \E e \in Results \ {"ok"} :
          /\ SetCondition(condition, "False")
          /\ Return("INFRASTRUCTURE_FAILED", e)
  /\ UNCHANGED <<verdictVars, reviewVars>>
  /\ bodyUnchanged

PrepareSandbox == Provision("sandbox.prepare", "WorkspacePrepared", "repo.prepare")

PrepareRepository == Provision("repo.prepare", "RepositoryPrepared", "inventory.write")

\* The inventory in the sandbox is fatal, its copy in the evidence is not.
WriteInventory ==
  /\ pc = "inventory.write"
  /\ \/ /\ "ok" \in Results
        /\ \E evidenceError \in BOOLEAN :
             collectionFailed' = (collectionFailed \/ evidenceError)
        /\ SetCondition("InventoryWritten", "True")
        /\ Goto("network.lockdown")
     \/ \E e \in Results \ {"ok"} :
          /\ SetCondition("InventoryWritten", "False")
          /\ Return("INFRASTRUCTURE_FAILED", e)
          /\ UNCHANGED collectionFailed
  /\ UNCHANGED <<probe, agentOutcome, exitAs, gate, behavior, patchScanned,
                 verifyOutcome, reviewVars>>
  /\ bodyUnchanged

-----------------------------------------------------------------------------
(* 5. Lock down runtime egress, and measure it *)

\* What the workflow makes of a probe: violated stops the run.
EgressCondition(p) ==
  CASE p = "violated" -> "False"
    [] p = "verified" -> "True"
    [] OTHER          -> "Unknown"

\* Mutant: the probe's violations are recorded and the run goes on.
RecordProbeOnly ==
  /\ pc = "network.lockdown"
  /\ \E p \in {"verified", "inconclusive", "violated"} :
       probe' = p /\ SetCondition("EgressVerified", EgressCondition(p))
  /\ Goto("agent.run")
  /\ UNCHANGED <<agentOutcome, exitAs, gate, behavior, patchScanned,
                 verifyOutcome, collectionFailed, reviewVars>>
  /\ bodyUnchanged

ApplyRuntimeNetwork ==
  /\ pc = "network.lockdown"
  /\ \/ /\ "ok" \in Results
        /\ \E p \in IF "probe" \in cfg
                      THEN {"verified", "inconclusive", "violated"}
                      ELSE {"nil"},
              evidenceError \in BOOLEAN :
             /\ evidenceError => p # "nil"
             /\ probe' = p
             /\ collectionFailed' = (collectionFailed \/ evidenceError)
             /\ SetCondition("EgressVerified", EgressCondition(p))
             /\ IF p = "violated"
                  THEN /\ state' = "EGRESS_UNVERIFIED"
                       /\ retErr' = "error"
                       /\ pc' = "egress.alert"
                  ELSE Goto("agent.run")
     \/ \E e \in Results \ {"ok"} :
          /\ state' = "EGRESS_UNVERIFIED"
          /\ retErr' = e
          /\ pc' = "egress.alert"
          /\ SetCondition("EgressVerified", "False")
          /\ UNCHANGED <<probe, collectionFailed>>
  /\ UNCHANGED <<agentOutcome, exitAs, gate, behavior, patchScanned,
                 verifyOutcome, reviewVars>>
  /\ bodyUnchanged

\* recordAlert awaits the webhook; delivered or not, the run goes on.
AlertEgress ==
  /\ pc = "egress.alert"
  /\ Goto("egress.collect")
  /\ UNCHANGED <<conds, verdictVars, reviewVars>>
  /\ bodyUnchanged

\* collect(): a failure never changes the verdict, only that evidence is missing.
Collected ==
  \/ /\ "ok" \in Results
     /\ SetCondition("ArtifactsCollected", "True")
     /\ UNCHANGED collectionFailed
  \/ /\ \E e \in Results : e # "ok"
     /\ collectionFailed' = TRUE
     /\ UNCHANGED conds

collectUnchanged ==
  /\ UNCHANGED <<probe, agentOutcome, exitAs, gate, behavior, patchScanned,
                 verifyOutcome, reviewVars>>
  /\ bodyUnchanged

CollectAfterEgress ==
  /\ pc = "egress.collect"
  /\ Collected
  /\ Return("EGRESS_UNVERIFIED", retErr)
  /\ collectUnchanged

-----------------------------------------------------------------------------
(* 6. Run the agent once, then audit whatever it left behind *)

\* The activity returned a result: success, non-zero exit or time-out, possibly
\* with the BLOCKED sentinel and a scan of the agent's output.
RunAgent ==
  /\ pc = "agent.run"
  /\ "ok" \in Results
  /\ \E outcome \in {"SUCCESS", "FAILED", "TIMED_OUT"}, blocked \in BOOLEAN,
        scan \in IF "monitor" \in cfg THEN {"clean", "tripped"} ELSE {"nil"},
        evidenceError \in BOOLEAN :
       /\ agentOutcome' = outcome
       /\ behavior' = scan
       /\ collectionFailed' = (collectionFailed \/ evidenceError)
       /\ exitAs' = CASE blocked -> "blocked"
                      [] ~blocked /\ outcome # "SUCCESS" -> "failed"
                      [] OTHER -> "success"
       /\ conds' = [conds EXCEPT
                      !["AgentBlocked"] = IF blocked THEN @ ELSE "False",
                      !["AgentCompleted"] =
                         IF ~blocked /\ outcome = "SUCCESS" THEN "True" ELSE @]
  /\ Goto("audit.collect")
  /\ UNCHANGED <<probe, gate, patchScanned, verifyOutcome, reviewVars>>
  /\ bodyUnchanged

\* Mutant: a failed agent activity ends the run before the audit.
RunAgentErrorUnaudited ==
  /\ pc = "agent.run"
  /\ SetCondition("AgentCompleted", "False")
  /\ \E e \in Results \ {"ok"} : agentOutcome' = "ERROR" /\ Return("AGENT_FAILED", e)
  /\ UNCHANGED <<exitAs, probe, gate, behavior, patchScanned, verifyOutcome,
                 collectionFailed, reviewVars>>
  /\ bodyUnchanged

\* isCancellation also matches any error text with "canceled" in it, such as a
\* stopping worker's "context canceled".
RunAgentError ==
  /\ pc = "agent.run"
  /\ SetCondition("AgentCompleted", "False")
  /\ \/ \E e \in Results \ {"ok"} :
          /\ agentOutcome' = "CANCELLED"
          /\ Return("CANCELLED", e)
          /\ UNCHANGED exitAs
     \/ /\ "error" \in Results
        /\ agentOutcome' = "ERROR"
        /\ exitAs' = "error"
        /\ state' = "AGENT_FAILED"
        /\ pc' = "audit.collect"
        /\ UNCHANGED retErr
  /\ UNCHANGED <<probe, gate, behavior, patchScanned, verifyOutcome,
                 collectionFailed, reviewVars>>
  /\ bodyUnchanged

AuditCollect ==
  /\ pc = "audit.collect"
  /\ Collected
  /\ Goto("audit.gates")
  /\ collectUnchanged

\* Leaving the audit: quarantineIfTripped, then the path the agent's result set.
AfterScan(report) ==
  IF report = "tripped"
    THEN /\ conds' = [conds EXCEPT !["BehaviorScanned"] = "False",
                                   !["AgentCompleted"] = "False"]
         /\ state' = "QUARANTINED"
         /\ retErr' = "error"
         /\ pc' = "quarantine.alert"
    ELSE LET scanned == [conds EXCEPT !["BehaviorScanned"] =
                            IF report = "nil" THEN "Unknown" ELSE "True"]
         IN  \/ /\ exitAs = "success"
                /\ conds' = scanned
                /\ Goto("verify")
             \/ /\ exitAs = "failed"
                /\ conds' = [scanned EXCEPT !["AgentCompleted"] = "False"]
                /\ Return("AGENT_FAILED", "error")
             \/ /\ exitAs = "error"
                /\ conds' = scanned
                /\ Return("AGENT_FAILED", "error")
             \/ /\ exitAs = "blocked"
                /\ conds' = [scanned EXCEPT !["AgentCompleted"] = "False",
                                            !["AgentBlocked"] = "True"]
                /\ IF "alert_blocked" \in cfg
                     THEN /\ state' = "BLOCKED"
                          /\ retErr' = "error"
                          /\ pc' = "blocked.alert"
                     ELSE Return("BLOCKED", "error")

\* Mutant: the check itself succeeded, so the condition says True.
GateCheckSucceeded ==
  /\ pc = "audit.gates"
  /\ \E modified \in BOOLEAN :
       /\ gate' = IF modified THEN "modified" ELSE "clean"
       /\ IF modified
            THEN state' = "GATE_TAMPERED" /\ retErr' = "error" /\ pc' = "tamper.alert"
            ELSE Goto("audit.scan")
  /\ SetCondition("GateIntegrity", "True")
  /\ UNCHANGED <<probe, agentOutcome, exitAs, behavior, patchScanned,
                 verifyOutcome, collectionFailed, reviewVars>>
  /\ bodyUnchanged

\* CheckGateIntegrity runs once; a check that could not run is not a clean gate.
CheckGateIntegrity ==
  /\ pc = "audit.gates"
  /\ \/ \E e \in Results \ {"ok"} :
          /\ SetCondition("GateIntegrity", "False")
          /\ Return("INFRASTRUCTURE_FAILED", e)
          /\ UNCHANGED <<gate, collectionFailed>>
     \/ /\ "ok" \in Results
        /\ \E modified, evidenceError \in BOOLEAN :
             /\ gate' = IF modified THEN "modified" ELSE "clean"
             /\ collectionFailed' = (collectionFailed \/ evidenceError)
             /\ SetCondition("GateIntegrity", IF modified THEN "False" ELSE "True")
             /\ IF modified
                  THEN /\ state' = "GATE_TAMPERED"
                       /\ retErr' = "error"
                       /\ pc' = "tamper.alert"
                  ELSE Goto("audit.scan")
  /\ UNCHANGED <<probe, agentOutcome, exitAs, behavior, patchScanned,
                 verifyOutcome, reviewVars>>
  /\ bodyUnchanged

\* mergeThreatReports: a missing report contributes nothing.
Merge(a, b) ==
  CASE a = "tripped" \/ b = "tripped" -> "tripped"
    [] a = "nil"                      -> b
    [] OTHER                          -> a

\* ScanPatch, when the monitor is on; a failed scan is an entry in
\* behaviorError, and the verdict then rests on the other reports.
ScanPatch ==
  /\ pc = "audit.scan"
  /\ \E report \in
       IF "monitor" \in cfg
         THEN IF "ok" \in Results THEN {"nil", "clean", "tripped"} ELSE {"nil"}
         ELSE {"nil"} :
       /\ patchScanned' = (report # "nil")
       /\ behavior' = Merge(behavior, report)
       /\ AfterScan(Merge(behavior, report))
  /\ UNCHANGED <<probe, agentOutcome, exitAs, gate, verifyOutcome,
                 collectionFailed, reviewVars>>
  /\ bodyUnchanged

\* Mutant: the caller drops the error after the alert.
AlertAndContinue ==
  /\ pc \in {"tamper.alert", "quarantine.alert", "blocked.alert"}
  /\ Goto("verify")
  /\ UNCHANGED <<conds, verdictVars, reviewVars>>
  /\ bodyUnchanged

\* The three alerts after which run() returns the error it already holds.
AlertAndReturn ==
  /\ pc \in {"tamper.alert", "quarantine.alert", "blocked.alert"}
  /\ Return(state, retErr)
  /\ UNCHANGED <<conds, verdictVars, reviewVars>>
  /\ bodyUnchanged

-----------------------------------------------------------------------------
(* 7-8. Deterministic verification, and the drift it may cause *)

RunVerification ==
  /\ pc = "verify"
  /\ \/ /\ "ok" \in Results
        /\ \E passed, evidenceError \in BOOLEAN :
             /\ verifyOutcome' = IF passed THEN "SUCCESS" ELSE "FAILED"
             /\ collectionFailed' = (collectionFailed \/ evidenceError)
        /\ Goto("verify.drift")
     \/ \E e \in Results \ {"ok"} :
          /\ verifyOutcome' = "ERROR"
          /\ state' = "INFRASTRUCTURE_FAILED"
          /\ retErr' = e
          /\ pc' = "verify.error.collect"
          /\ UNCHANGED collectionFailed
  /\ UNCHANGED <<conds, probe, agentOutcome, exitAs, gate, behavior,
                 patchScanned, reviewVars>>
  /\ bodyUnchanged

CollectAfterVerifyError ==
  /\ pc = "verify.error.collect"
  /\ Collected
  /\ Return("INFRASTRUCTURE_FAILED", retErr)
  /\ collectUnchanged

\* Lines 680-719: the gates decide whether the change is good, a human whether
\* it is accepted.
Decide(base, reviewed) ==
  /\ conds' = [base EXCEPT !["Verified"] =
                 IF verifyOutcome = "SUCCESS" THEN "True" ELSE "False"]
  /\ \/ verifyOutcome # "SUCCESS" /\ Return("VERIFICATION_FAILED", "error")
     \/ /\ verifyOutcome = "SUCCESS"
        /\ reviewed = "rejected"
        /\ Return("REJECTED", "error")
     \/ /\ verifyOutcome = "SUCCESS"
        /\ reviewed # "rejected"
        /\ Return("SUCCEEDED", "none")

\* The second collection; then the review gate if one is configured.
CollectDrift ==
  /\ pc = "verify.drift"
  /\ \E e \in Results :
       /\ collectionFailed' = (collectionFailed \/ e # "ok")
       /\ LET after == IF e # "ok" THEN conds
                       ELSE [conds EXCEPT !["ArtifactsCollected"] = "True"]
          IN  IF "review" \in cfg
                THEN /\ conds' = [after EXCEPT !["ReviewPaused"] = "True"]
                     /\ state' = "PAUSED"
                     /\ pc' = "review.preview"
                     /\ UNCHANGED retErr
                ELSE Decide(after, "")
  /\ collectUnchanged

-----------------------------------------------------------------------------
(* 8b. The human review gate *)

\* Publication is a convenience; skipped, failed or done, the gate goes on.
PreviewSandbox ==
  /\ pc = "review.preview"
  /\ Goto("review.suspend")
  /\ UNCHANGED <<conds, verdictVars, reviewVars>>
  /\ bodyUnchanged

SuspendSandbox ==
  /\ pc = "review.suspend"
  /\ suspendOutcome' \in
       CASE "suspend" \notin cfg -> {"SKIPPED"}
         [] "suspend" \in cfg /\ ~Canceled -> {"SUCCESS", "SKIPPED", "FAILED"}
         [] OTHER -> {"FAILED"}
  /\ Goto("review.wait")
  /\ UNCHANGED <<conds, verdictVars, reviewOutcome, decisionSeen>>
  /\ bodyUnchanged

\* A decision or a time-out ends the wait: wake the sandbox if it was
\* checkpointed, else go straight to the verdict.
GateCloses(outcome) ==
  LET after == [conds EXCEPT !["ReviewPaused"] = "False"]
  IN  /\ reviewOutcome' = outcome
      /\ IF suspendOutcome = "SUCCESS"
           THEN conds' = after /\ Goto("review.resume")
           ELSE Decide(after, outcome)

\* The selector tries the signal channel first.
ReviewSignal ==
  /\ pc = "review.wait"
  /\ inbox # <<>>
  /\ decisionSeen' = Head(inbox).paused
  /\ GateCloses(Head(inbox).decision)
  /\ inbox' = Tail(inbox)
  /\ UNCHANGED <<cfg, opVars, verdictVars, suspendOutcome, createVars, worldVars,
                 sandboxID, destroyVars, endVars>>

\* Mutant: no timer bounds the wait; only a cancellation ends it.
ReviewTimerOnCancel ==
  /\ pc = "review.wait" /\ inbox = <<>> /\ Canceled
  /\ GateCloses("timeout")
  /\ UNCHANGED <<verdictVars, decisionSeen, suspendOutcome>>
  /\ bodyUnchanged

\* The timer future is ready when the timeout expires, and also when the
\* context it was created from is cancelled; the callback does not look at why.
ReviewTimer ==
  /\ pc = "review.wait"
  /\ inbox = <<>>
  /\ GateCloses("timeout")
  /\ UNCHANGED <<verdictVars, decisionSeen, suspendOutcome>>
  /\ bodyUnchanged

ResumeSandbox ==
  /\ pc = "review.resume"
  /\ \/ "ok" \in Results /\ Decide(conds, reviewOutcome)
     \/ \E e \in Results \ {"ok"} :
          /\ SetCondition("ReviewPaused", "False")
          /\ Return("INFRASTRUCTURE_FAILED", e)
  /\ UNCHANGED <<verdictVars, reviewVars>>
  /\ bodyUnchanged

-----------------------------------------------------------------------------
(* Cleanup, on a context no cancellation reaches *)

endUnchanged == UNCHANGED <<cfg, opVars, verdictVars, reviewVars, inbox,
                            createVars, sandboxID, finalAttempt, manifest,
                            changeRecorded>>

\* Mutant: missing evidence does not stand in the way of SUCCEEDED.
CleanupDoneLax(result) ==
  /\ cleanup' = result
  /\ SetCondition("CleanupVerified", IF result = "verified" THEN "True" ELSE "False")
  /\ state' = IF state = "SUCCEEDED" /\ result # "verified"
                THEN "INFRASTRUCTURE_FAILED" ELSE state
  /\ pc' = "finalizing"
  /\ UNCHANGED retErr

\* Mutant: any run whose teardown is not verified is an infrastructure failure.
CleanupDoneAny(result) ==
  /\ cleanup' = result
  /\ SetCondition("CleanupVerified", IF result = "verified" THEN "True" ELSE "False")
  /\ state' = IF result # "verified" THEN "INFRASTRUCTURE_FAILED" ELSE state
  /\ pc' = "finalizing"
  /\ UNCHANGED retErr

\* Lines 217-232: success requires durable evidence and verified teardown.
CleanupDone(result) ==
  /\ cleanup' = result
  /\ SetCondition("CleanupVerified", IF result = "verified" THEN "True" ELSE "False")
  /\ state' = IF state = "SUCCEEDED" /\ (collectionFailed \/ result # "verified")
                THEN "INFRASTRUCTURE_FAILED" ELSE state
  /\ pc' = "finalizing"
  /\ UNCHANGED retErr

CleanupSkipped ==
  /\ pc = "cube.destroy"
  /\ createPhase = "none"
  /\ CleanupDone("skipped")
  /\ endUnchanged
  /\ UNCHANGED <<worldVars, destroyVars>>

\* One attempt: list the sandboxes this execution owns ...
DestroyList ==
  /\ pc = "cube.destroy"
  /\ createPhase # "none"
  /\ destroyPhase = "idle"
  /\ destroyAttempt < MaxDestroyAttempts
  /\ destroyAttempt' = destroyAttempt + 1
  /\ \/ /\ destroyIds' = vms \cup ({sandboxID} \ {0})
        /\ destroyPhase' = "destroy"
     \/ UNCHANGED <<destroyIds, destroyPhase>>
  /\ endUnchanged
  /\ UNCHANGED <<flowVars, worldVars, cleanup>>

\* ... destroy each; an accepted destroy need not have taken effect yet ...
DestroyCalls ==
  /\ destroyPhase = "destroy"
  /\ \E gone \in SUBSET destroyIds : vms' = vms \ gone
  /\ destroyPhase' \in {"idle", "verify"}
  /\ endUnchanged
  /\ UNCHANGED <<flowVars, pending, created, destroyAttempt, destroyIds, cleanup>>

\* Mutant: the destroy call is trusted and the second listing dropped.
TrustDestroy == {}

\* What the second listing still counts against the run.
Remaining == vms

\* ... and list again: only an empty listing, durably recorded, is verified.
DestroyVerify ==
  /\ destroyPhase = "verify"
  /\ destroyPhase' = "idle"
  /\ \/ /\ Remaining = {}
        /\ CleanupDone("verified")
     \/ UNCHANGED <<flowVars, cleanup>>
  /\ endUnchanged
  /\ UNCHANGED <<worldVars, destroyAttempt, destroyIds>>

DestroyExhausted ==
  /\ pc = "cube.destroy"
  /\ destroyPhase = "idle"
  /\ destroyAttempt = MaxDestroyAttempts
  /\ CleanupDone("error")
  /\ endUnchanged
  /\ UNCHANGED <<worldVars, destroyVars>>

-----------------------------------------------------------------------------
(* The manifest, and the change it belongs to *)

Manifest == [result |-> state, agent |-> agentOutcome, verify |-> verifyOutcome,
             cleanup |-> cleanup, review |-> reviewOutcome, conds |-> conds]

\* Mutant: the repeated write, after a lost answer, records the failure it saw.
FinalizeResultDowngraded ==
  /\ pc = "finalizing"
  /\ LET again == IF finalAttempt = 0 THEN Manifest
                  ELSE [Manifest EXCEPT !.result = "INFRASTRUCTURE_FAILED"]
     IN \/ /\ finalAttempt < MaxFinalAttempts
           /\ manifest' = again
           /\ SetCondition("EvidenceWritten", "True")
           /\ pc' = "recording"
           /\ UNCHANGED finalAttempt
        \/ /\ finalAttempt < MaxFinalAttempts
           /\ finalAttempt' = finalAttempt + 1
           /\ manifest' \in {manifest, again}
           /\ UNCHANGED <<pc, conds>>
        \/ /\ finalAttempt = MaxFinalAttempts
           /\ pc' = "failed"
           /\ UNCHANGED <<manifest, finalAttempt, conds>>
  /\ UNCHANGED <<cfg, state, retErr, opVars, verdictVars, reviewVars, inbox,
                 createVars, worldVars, sandboxID, destroyVars, cleanup,
                 changeRecorded>>

FinalizeResult ==
  /\ pc = "finalizing"
  /\ \/ /\ finalAttempt < MaxFinalAttempts
        /\ manifest' = Manifest
        /\ SetCondition("EvidenceWritten", "True")
        /\ pc' = "recording"
        /\ UNCHANGED finalAttempt
     \/ /\ finalAttempt < MaxFinalAttempts
        /\ finalAttempt' = finalAttempt + 1
        /\ manifest' \in {manifest, Manifest}
        /\ UNCHANGED <<pc, conds>>
     \/ /\ finalAttempt = MaxFinalAttempts
        /\ pc' = "failed"
        /\ UNCHANGED <<manifest, finalAttempt, conds>>
  /\ UNCHANGED <<cfg, state, retErr, opVars, verdictVars, reviewVars, inbox,
                 createVars, worldVars, sandboxID, destroyVars, cleanup,
                 changeRecorded>>

\* recordChange is best effort, and on the workflow's own context.
RecordChange ==
  /\ pc = "recording"
  /\ pc' = "closed"
  /\ changeRecorded' \in IF cancelReq THEN {FALSE} ELSE BOOLEAN
  /\ state' = manifest.result
  /\ UNCHANGED <<cfg, retErr, conds, opVars, verdictVars, reviewVars, inbox,
                 createVars, worldVars, sandboxID, destroyVars, cleanup,
                 finalAttempt, manifest>>

-----------------------------------------------------------------------------
(* Operators and clocks *)

operatorUnchanged == UNCHANGED <<cfg, flowVars, verdictVars, reviewVars,
                                 createVars, worldVars, sandboxID, destroyVars,
                                 endVars>>

\* factory cancel, factory halt, or a cancellation through Temporal itself.
Cancel ==
  /\ ~Closed
  /\ ~cancelReq
  /\ cancelReq' = TRUE
  /\ UNCHANGED <<totalTimedOut, inbox>>
  /\ operatorUnchanged

\* The timer goroutine: armed after validation, disarmed by run()'s return and
\* by a cancellation.
TotalTimeout ==
  /\ pc \in RunSteps
  /\ ~Canceled
  /\ totalTimedOut' = TRUE
  /\ UNCHANGED <<cancelReq, inbox>>
  /\ operatorUnchanged

\* factory review signals the workflow without looking at its state.
SignalReview(d) ==
  /\ ~Closed
  /\ Len(inbox) < MaxSignals
  /\ inbox' = Append(inbox, [decision |-> d, paused |-> pc \in ReviewSteps])
  /\ UNCHANGED opVars
  /\ operatorUnchanged

-----------------------------------------------------------------------------
RunBody ==
  \/ ValidateRequest \/ AssessIntake \/ CreateFails
  \/ PrepareSandbox \/ PrepareRepository \/ WriteInventory
  \/ ApplyRuntimeNetwork \/ AlertEgress \/ CollectAfterEgress
  \/ RunAgent \/ RunAgentError \/ AuditCollect \/ CheckGateIntegrity \/ ScanPatch
  \/ AlertAndReturn \/ RunVerification \/ CollectAfterVerifyError \/ CollectDrift
  \/ PreviewSandbox \/ SuspendSandbox \/ ReviewSignal \/ ReviewTimer \/ ResumeSandbox

RunEnd ==
  \/ CleanupSkipped \/ DestroyList \/ DestroyCalls \/ DestroyVerify \/ DestroyExhausted
  \/ FinalizeResult \/ RecordChange

CreateActivity == CreateDispatch \/ CreateList \/ CreateCall

Factory == RunBody \/ RunEnd \/ CreateActivity

Operators == Cancel \/ TotalTimeout \/ \E d \in Decisions : SignalReview(d)

Next == Factory \/ Operators \/ ProviderSettles

Spec == Init /\ [][Next]_vars

\* Temporal drives every started run: activities have start-to-close time-outs
\* and a maximum number of attempts, and its timers fire.
Fairness == WF_vars(RunBody) /\ WF_vars(RunEnd) /\ WF_vars(CreateActivity)

FairSpec == Spec /\ Fairness
-----------------------------------------------------------------------------
(* Properties *)

RunManifests ==
  [result: RunStates \cup {"NONE"}, agent: AgentOutcomes, verify: VerifyOutcomes,
   cleanup: CleanupResults, review: ReviewOutcomes, conds: Conditions]

\* Every variable of the run stays within the values its code type admits.
TypeOK ==
  /\ cfg \subseteq Features
  /\ pc \in Steps
  /\ state \in RunStates
  /\ retErr \in Errors
  /\ cancelReq \in BOOLEAN /\ totalTimedOut \in BOOLEAN
  /\ conds \in Conditions
  /\ probe \in ProbeVerdicts
  /\ agentOutcome \in AgentOutcomes
  /\ exitAs \in AgentExits
  /\ gate \in GateReports
  /\ behavior \in ThreatReports
  /\ patchScanned \in BOOLEAN
  /\ verifyOutcome \in VerifyOutcomes
  /\ collectionFailed \in BOOLEAN
  /\ reviewOutcome \in ReviewOutcomes
  /\ decisionSeen \in BOOLEAN
  /\ suspendOutcome \in SuspendOutcomes
  /\ inbox \in Seq(ReviewSignals)
  /\ createPhase \in CreatePhases
  /\ createAttempt \in 0 .. MaxCreateAttempts
  /\ vms \subseteq SandboxIDs /\ pending \subseteq SandboxIDs
  /\ created \subseteq SandboxIDs
  /\ sandboxID \in {0} \cup SandboxIDs
  /\ destroyPhase \in DestroyPhases
  /\ destroyAttempt \in 0 .. MaxDestroyAttempts
  /\ destroyIds \subseteq SandboxIDs
  /\ cleanup \in CleanupResults
  /\ finalAttempt \in 0 .. MaxFinalAttempts
  /\ manifest \in RunManifests
  /\ changeRecorded \in BOOLEAN

\* A manifest that says SUCCEEDED rests on all of it: a boundary that was not
\* found violated, an agent that succeeded, gates it left alone and that then
\* passed, a monitor that did not trip, complete evidence, no human refusal and
\* a teardown that was verified (workflow.go:226-232, 703-718).
SuccessIsEarned ==
  manifest.result = "SUCCEEDED" =>
    /\ probe # "violated"
    /\ manifest.agent = "SUCCESS"
    /\ gate = "clean"
    /\ behavior # "tripped"
    /\ manifest.verify = "SUCCESS"
    /\ ~collectionFailed
    /\ manifest.review # "rejected"
    /\ "review" \in cfg => manifest.review # ""
    /\ manifest.cleanup = "verified"

\* The conditions an operator reads agree with the verdict: SUCCEEDED comes with
\* every step's condition True, a clean boundary and scan or an explicit Unknown.
SuccessConditions ==
  manifest.result = "SUCCEEDED" =>
    /\ \A t \in {"Validated", "SandboxReady", "WorkspacePrepared",
                 "RepositoryPrepared", "InventoryWritten", "AgentCompleted",
                 "ArtifactsCollected", "GateIntegrity", "Verified",
                 "CleanupVerified"} : manifest.conds[t] = "True"
    /\ \A t \in {"EgressVerified", "BehaviorScanned"} :
         manifest.conds[t] \in {"True", "Unknown"}
    /\ \A t \in {"AgentBlocked"} : manifest.conds[t] = "False"

\* No agent outcome skips the audit: a verdict that blames the agent, the gates
\* or the reviewer, or that accepts the change, was reached with the gates checked
\* and found unmodified (workflow.go:722-726, 769-772).
VerdictFollowsAudit ==
  manifest.result \in {"AGENT_FAILED", "BLOCKED", "QUARANTINED",
                       "VERIFICATION_FAILED", "REJECTED", "SUCCEEDED"}
    => gate = "clean"

\* A modified gate leaves its mark in the manifest on every path, also when a
\* cancellation or the total timeout takes the verdict over.
TamperIsRecorded ==
  (manifest.result # "NONE" /\ gate = "modified") =>
    /\ manifest.conds["GateIntegrity"] = "False"
    /\ manifest.result \in {"GATE_TAMPERED", "CANCELLED", "INFRASTRUCTURE_FAILED"}
    /\ manifest.verify = "SKIPPED"

\* Untrusted code never runs behind a boundary that was measured as violated or
\* could not be locked down (workflow.go:441-445, 472-484).
AgentBehindBoundary ==
  agentOutcome # "SKIPPED" =>
    probe # "violated" /\ conds["EgressVerified"] # "False" /\ sandboxID # 0

\* However its create responses are lost, delayed or retried, an execution never
\* asks the provider for a second sandbox (activities.go:616-639).
OneSandboxPerRun == Cardinality(created \cup pending) <= 1

\* The sandbox the run worked in is gone when its teardown is called verified,
\* and stays gone (activities.go:1212-1232).
WorkSandboxGone == cleanup = "verified" => sandboxID \notin vms

\* No manifest exists before cleanup has reported, none is left in a live state,
\* and none still shows the run waiting for a human.
ManifestIsFinal ==
  manifest.result # "NONE" =>
    /\ manifest.cleanup # "none"
    /\ manifest.result \notin {"RUNNING", "PAUSED"}
    /\ manifest.conds["ReviewPaused"] # "True"

\* What a reader of a manifest takes from its fields agrees with its verdict.
ManifestAgrees == SuccessConditions /\ ManifestIsFinal

\* A run stopped for security reasons keeps that verdict to its end, whatever
\* other error was being handled and whatever is alerted, collected, cleaned up
\* or retried afterwards: only a cancellation, or the total timeout, takes it over
\* (workflow.go:204-212, 807-815).
SecurityStopIsFinal ==
  [][(state \in {"EGRESS_UNVERIFIED", "GATE_TAMPERED", "QUARANTINED", "BLOCKED"}) =>
       \/ state' = state
       \/ state' = "CANCELLED" /\ cancelReq
       \/ state' = "INFRASTRUCTURE_FAILED" /\ totalTimedOut]_vars

\* A durable manifest is never replaced by a different one, however often the
\* write is retried.
ManifestIsImmutable ==
  [][manifest.result # "NONE" => manifest' = manifest]_vars

\* What remains of a run without its activities and their attempts.
Phase ==
  CASE pc = "cube.destroy" -> "cleaning"
    [] pc = "finalizing"   -> "writing"
    [] pc = "recording"    -> "recorded"
    [] pc \in {"closed", "failed"} -> pc
    [] OTHER               -> "working"

Box ==
  IF sandboxID = 0 THEN "none"
  ELSE IF sandboxID \in vms THEN "held"
  ELSE "gone"

Lifecycle == INSTANCE RunLifecycle
  WITH phase <- Phase, word <- state, box <- Box, answer <- reviewOutcome,
       cleaned <- cleanup,
       record <- [result |-> manifest.result, cleanup |-> manifest.cleanup,
                  review |-> manifest.review]

\* Every run keeps the promises of RunLifecycle: what it shows moves one way, its
\* verdict fits what it showed, its sandbox is there until then, only a success is
\* taken back, and a durable manifest (whatever was retried) says what the run
\* and its cleanup came to (workflow.go:204-240).
ImplementsLifecycle == Lifecycle!LifecycleSpec

\* Every started run closes: no wait is without a timer or a bounded retry.
RunCloses == <>Closed

\* An acknowledged sandbox is eventually destroyed, or the manifest (or the
\* workflow's failure) says that it may not be.
SandboxIsAccountedFor ==
  (sandboxID # 0) ~> (Closed /\ (sandboxID \notin vms \/ cleanup # "verified"))

\* A run comes to an end, and its sandbox with it or on the record.
RunEndsAccountedFor == RunCloses /\ SandboxIsAccountedFor

-----------------------------------------------------------------------------
(* What the repository says of the run and the code does not do *)

VerdictReached == pc # "cube.destroy" /\ pc' = "cube.destroy"

\* docs/production-readiness.md:27: "Cancellation is recognized across workflow
\* stages".  A run that is cancelled before its verdict, and whose evidence is
\* complete, gets the verdict CANCELLED and no other.
CancelIsRecognized ==
  [][VerdictReached /\ cancelReq /\ ~totalTimedOut /\ ~collectionFailed
       => state' = "CANCELLED"]_vars

\* production_test.go:178-180 calls any other result of a run that exceeded its
\* total timeout "timeout not enforced".
TotalTimeoutIsEnforced ==
  [][VerdictReached /\ totalTimedOut => state' = "INFRASTRUCTURE_FAILED"]_vars

\* docs/FACTORY.md:37: "One microVM per run, destroyed on every exit path
\* including cancellation".  Nothing the run created outlives a verified cleanup.
VerifiedMeansEmpty == cleanup = "verified" => vms = {}

\* model.go:56: "StateCancelled means the workflow was cancelled."
CancelledMeansCancelled == manifest.result = "CANCELLED" => cancelReq

\* workflow.go:669-670: the gate runs after the gates have reported, "so a human
\* reviews the same artifacts the record contains".
DecisionFollowsEvidence == reviewOutcome \in Decisions => decisionSeen

\* docs/operator-guide.md:143-144: "A rejection does not rewrite the gate result:
\* the factory result stays `SUCCEEDED` if the gates passed".
RejectionKeepsResult ==
  (manifest.review = "rejected" /\ manifest.verify = "SUCCESS"
     /\ manifest.cleanup = "verified" /\ ~collectionFailed /\ ~Canceled)
    => manifest.result = "SUCCEEDED"

\* workflow.go:790-791: "an unscanned patch must not look like a clean one".
ScannedMeansPatchScanned == conds["BehaviorScanned"] = "True" => patchScanned
=============================================================================
