-------------------------- MODULE FactoryRunProofs --------------------------
(***************************************************************************)
(* Proofs about FactoryRun, and about StatusWatch beside it, for every     *)
(* value of their constants: first the run and its sandbox (Inv1, Inv2),   *)
(* then what a reader takes from its record (Inv3, WatchInv), and last     *)
(* that it keeps the promises of RunLifecycle (LifeInv).                   *)
(***************************************************************************)
EXTENDS StatusWatch, FiniteSetTheorems, TLAPS

\* An attempt of CreateSandbox has a number, and only the first calls the provider.
CreateInv ==
  /\ createPhase = "none" => createAttempt = 0
  /\ createPhase \in {"list", "call"} => createAttempt >= 1
  /\ createAttempt = 0 => created \cup pending = {}
  /\ createPhase = "list" /\ createAttempt = 1 => created \cup pending = {}
  /\ createPhase = "call" => createAttempt = 1 /\ created \cup pending = {}
  /\ created \cup pending \subseteq {1}
  /\ created \cap pending = {}
  /\ vms \subseteq created

\* Nothing durable is written before the step that writes it.
OrderInv ==
  /\ sandboxID \in created \cup {0}
  /\ pc \in {"validate", "intake.assess"} => createPhase = "none"
  /\ pc \in {"validate", "cube.destroy"} \cup RunSteps =>
       cleanup = "none" /\ manifest.result = "NONE"
  /\ destroyPhase # "idle" => pc = "cube.destroy" /\ createPhase # "none"
  /\ pc \in {"recording", "closed"} => manifest.result # "NONE"

\* TypeOK in four parts, so that an action is only asked about what it touches.
FlowOK == pc \in Steps /\ state \in RunStates /\ retErr \in Errors

CondsOK == conds \in Conditions

VerdictOK ==
  /\ probe \in ProbeVerdicts
  /\ agentOutcome \in AgentOutcomes
  /\ exitAs \in AgentExits
  /\ gate \in GateReports
  /\ behavior \in ThreatReports
  /\ patchScanned \in BOOLEAN
  /\ verifyOutcome \in VerifyOutcomes
  /\ collectionFailed \in BOOLEAN

RestOK ==
  /\ cfg \subseteq Features
  /\ cancelReq \in BOOLEAN /\ totalTimedOut \in BOOLEAN
  /\ reviewOutcome \in ReviewOutcomes
  /\ decisionSeen \in BOOLEAN
  /\ suspendOutcome \in SuspendOutcomes
  /\ inbox \in Seq(ReviewSignals)
  /\ createPhase \in CreatePhases
  /\ createAttempt \in 0 .. MaxCreateAttempts
  /\ vms \subseteq SandboxIDs /\ pending \subseteq SandboxIDs
  /\ created \subseteq SandboxIDs
  /\ sandboxID \in {0} \cup SandboxIDs
  /\ destroyPhase \in DestroyPhases
  /\ destroyAttempt \in 0 .. MaxDestroyAttempts
  /\ destroyIds \subseteq SandboxIDs
  /\ cleanup \in CleanupResults
  /\ finalAttempt \in 0 .. MaxFinalAttempts
  /\ manifest \in RunManifests
  /\ changeRecorded \in BOOLEAN

Inv1 ==
  /\ FlowOK
  /\ CondsOK
  /\ VerdictOK
  /\ RestOK
  /\ CreateInv
  /\ OrderInv

USE BoundsAssumption

LEMMA TypeParts == Inv1 => TypeOK
BY DEF Inv1, TypeOK, FlowOK, CondsOK, VerdictOK, RestOK

LEMMA VerdictType ==
  \A s \in RunStates, e \in Errors : Verdict(s, e) \in RunStates
BY DEF Verdict, RunStates

LEMMA InitInv1 == Init => Inv1
<1> SUFFICES ASSUME Init PROVE Inv1  OBVIOUS
<1>1. manifest \in RunManifests
  BY DEF Init, NoManifest, RunManifests, RunStates, AgentOutcomes, VerifyOutcomes,
         CleanupResults, ReviewOutcomes, Conditions, ConditionStatus
<1>2. FlowOK /\ CondsOK
  BY DEF Init, FlowOK, CondsOK, Steps, RunStates, Errors, Conditions, ConditionStatus
<1>3. VerdictOK
  BY DEF Init, VerdictOK, ProbeVerdicts, AgentOutcomes, AgentExits, GateReports,
         ThreatReports, VerifyOutcomes
<1>4. inbox = <<>>
  BY DEF Init
<1>5. inbox \in Seq(ReviewSignals)
  BY <1>4
<1>6. /\ createAttempt \in 0 .. MaxCreateAttempts
      /\ destroyAttempt \in 0 .. MaxDestroyAttempts
      /\ finalAttempt \in 0 .. MaxFinalAttempts
  <2>1. createAttempt = 0 /\ destroyAttempt = 0 /\ finalAttempt = 0
    BY DEF Init
  <2>2. QED
    BY <2>1
<1>7. RestOK
  BY <1>1, <1>5, <1>6 DEF Init, RestOK, ReviewOutcomes, SuspendOutcomes,
                          CreatePhases, DestroyPhases, CleanupResults
<1>8. CreateInv
  BY DEF Init, CreateInv
<1>9. OrderInv
  BY DEF Init, OrderInv, NoManifest
<1>10. QED
  BY <1>2, <1>3, <1>7, <1>8, <1>9 DEF Inv1

LEMMA StepInv1 == Inv1 /\ [Next]_vars => Inv1'
<1> SUFFICES ASSUME Inv1, [Next]_vars PROVE Inv1'  OBVIOUS
<1> USE DEF Inv1
<1>1. CASE ValidateRequest
  <2>1. FlowOK'
    BY VerdictType, <1>1 DEF ValidateRequest, SetCondition, Return, EnterCreate,
      Results, Errors, FlowOK, Steps, RunSteps, RunStates
  <2>2. CondsOK'
    BY <1>1 DEF ValidateRequest, SetCondition, Return, EnterCreate, Results,
      CondsOK, Conditions, ConditionTypes, ConditionStatus
  <2>3. RestOK'
    BY <1>1 DEF ValidateRequest, SetCondition, Return, EnterCreate, Results,
      RestOK, CreateInv, CreatePhases, opVars, verdictVars, reviewVars,
      createVars, worldVars, destroyVars, endVars
  <2>4. VerdictOK'
    BY <1>1 DEF ValidateRequest, VerdictOK, verdictVars
  <2>5. CreateInv' /\ OrderInv'
    BY <1>1 DEF ValidateRequest, SetCondition, Return, EnterCreate, Results,
      RestOK, CreateInv, OrderInv, RunSteps, opVars, verdictVars, reviewVars,
      createVars, worldVars, destroyVars, endVars
  <2>6. QED
    BY <2>1, <2>2, <2>3, <2>4, <2>5
<1>2. CASE AssessIntake
  <2>1. FlowOK'
    BY <1>2 DEF AssessIntake, EnterCreate, FlowOK, Steps, RunSteps, RunStates
  <2>2. RestOK'
    BY <1>2 DEF AssessIntake, EnterCreate, RestOK, CreateInv, CreatePhases,
      opVars, verdictVars, reviewVars, createVars, worldVars, destroyVars,
      endVars
  <2>3. CondsOK' /\ VerdictOK'
    BY <1>2 DEF AssessIntake, CondsOK, VerdictOK, verdictVars
  <2>4. CreateInv' /\ OrderInv'
    BY <1>2 DEF AssessIntake, EnterCreate, RestOK, CreateInv, OrderInv,
      RunSteps, opVars, verdictVars, reviewVars, createVars, worldVars,
      destroyVars, endVars
  <2>5. QED
    BY <2>1, <2>2, <2>3, <2>4
<1>3. CASE CreateFails
  <2>1. FlowOK'
    BY VerdictType, <1>3 DEF CreateFails, SetCondition, Return, Errors, FlowOK,
      Steps, RunSteps, RunStates
  <2>2. CondsOK'
    BY <1>3 DEF CreateFails, SetCondition, Return, CondsOK, Conditions,
      ConditionTypes, ConditionStatus
  <2>3. VerdictOK' /\ RestOK'
    BY <1>3 DEF CreateFails, VerdictOK, RestOK, opVars, verdictVars, reviewVars,
      createVars, worldVars, destroyVars, endVars
  <2>4. CreateInv' /\ OrderInv'
    BY <1>3 DEF CreateFails, SetCondition, Return, RestOK, CreateInv, OrderInv,
      RunSteps, opVars, verdictVars, reviewVars, createVars, worldVars,
      destroyVars, endVars
  <2>5. QED
    BY <2>1, <2>2, <2>3, <2>4
<1>4. CASE PrepareSandbox
  <2>1. FlowOK'
    BY VerdictType, <1>4 DEF PrepareSandbox, Provision, SetCondition, Goto,
      Return, Results, bodyUnchanged, Errors, FlowOK, Steps, RunSteps, RunStates
  <2>2. CondsOK'
    BY <1>4 DEF PrepareSandbox, Provision, SetCondition, Goto, Return, Results,
      bodyUnchanged, CondsOK, Conditions, ConditionTypes, ConditionStatus
  <2>3. VerdictOK' /\ RestOK'
    BY <1>4 DEF PrepareSandbox, bodyUnchanged, Provision, VerdictOK, RestOK,
      opVars, verdictVars, reviewVars, createVars, worldVars, destroyVars,
      endVars
  <2>4. CreateInv' /\ OrderInv'
    BY <1>4 DEF PrepareSandbox, Provision, SetCondition, Goto, Return, Results,
      bodyUnchanged, RestOK, CreateInv, OrderInv, RunSteps, opVars, verdictVars,
      reviewVars, createVars, worldVars, destroyVars, endVars
  <2>5. QED
    BY <2>1, <2>2, <2>3, <2>4
<1>5. CASE PrepareRepository
  <2>1. FlowOK'
    BY VerdictType, <1>5 DEF PrepareRepository, Provision, SetCondition, Goto,
      Return, Results, bodyUnchanged, Errors, FlowOK, Steps, RunSteps, RunStates
  <2>2. CondsOK'
    BY <1>5 DEF PrepareRepository, Provision, SetCondition, Goto, Return,
      Results, bodyUnchanged, CondsOK, Conditions, ConditionTypes,
      ConditionStatus
  <2>3. VerdictOK' /\ RestOK'
    BY <1>5 DEF PrepareRepository, bodyUnchanged, Provision, VerdictOK, RestOK,
      opVars, verdictVars, reviewVars, createVars, worldVars, destroyVars,
      endVars
  <2>4. CreateInv' /\ OrderInv'
    BY <1>5 DEF PrepareRepository, Provision, SetCondition, Goto, Return,
      Results, bodyUnchanged, RestOK, CreateInv, OrderInv, RunSteps, opVars,
      verdictVars, reviewVars, createVars, worldVars, destroyVars, endVars
  <2>5. QED
    BY <2>1, <2>2, <2>3, <2>4
<1>6. CASE WriteInventory
  <2>1. FlowOK'
    BY VerdictType, <1>6 DEF WriteInventory, SetCondition, Goto, Return,
      Results, bodyUnchanged, Errors, FlowOK, Steps, RunSteps, RunStates
  <2>2. CondsOK'
    BY <1>6 DEF WriteInventory, SetCondition, Goto, Return, Results,
      bodyUnchanged, CondsOK, Conditions, ConditionTypes, ConditionStatus
  <2>3. VerdictOK'
    BY <1>6 DEF WriteInventory, SetCondition, Goto, Return, Results,
      bodyUnchanged, VerdictOK
  <2>4. RestOK'
    BY <1>6 DEF WriteInventory, bodyUnchanged, RestOK, opVars, verdictVars,
      reviewVars, createVars, worldVars, destroyVars, endVars
  <2>5. CreateInv' /\ OrderInv'
    BY <1>6 DEF WriteInventory, SetCondition, Goto, Return, Results,
      bodyUnchanged, RestOK, CreateInv, OrderInv, RunSteps, opVars, verdictVars,
      reviewVars, createVars, worldVars, destroyVars, endVars
  <2>6. QED
    BY <2>1, <2>2, <2>3, <2>4, <2>5
<1>7. CASE ApplyRuntimeNetwork
  <2>1. FlowOK'
    BY <1>7 DEF ApplyRuntimeNetwork, SetCondition, Goto, EgressCondition,
      Results, bodyUnchanged, Errors, FlowOK, Steps, RunSteps, RunStates
  <2>2. CondsOK'
    BY <1>7 DEF ApplyRuntimeNetwork, SetCondition, Goto, EgressCondition,
      Results, bodyUnchanged, CondsOK, Conditions, ConditionTypes,
      ConditionStatus
  <2>3. VerdictOK'
    BY <1>7 DEF ApplyRuntimeNetwork, SetCondition, Goto, EgressCondition,
      Results, bodyUnchanged, VerdictOK, ProbeVerdicts
  <2>4. RestOK'
    BY <1>7 DEF ApplyRuntimeNetwork, bodyUnchanged, RestOK, opVars, verdictVars,
      reviewVars, createVars, worldVars, destroyVars, endVars
  <2>5. CreateInv' /\ OrderInv'
    BY <1>7 DEF ApplyRuntimeNetwork, SetCondition, Goto, EgressCondition,
      Results, bodyUnchanged, RestOK, CreateInv, OrderInv, RunSteps, opVars,
      verdictVars, reviewVars, createVars, worldVars, destroyVars, endVars
  <2>6. QED
    BY <2>1, <2>2, <2>3, <2>4, <2>5
<1>8. CASE AlertEgress
  <2>1. FlowOK'
    BY <1>8 DEF AlertEgress, Goto, bodyUnchanged, FlowOK, Steps, RunSteps,
      RunStates
  <2>2. CondsOK' /\ VerdictOK' /\ RestOK'
    BY <1>8 DEF AlertEgress, bodyUnchanged, CondsOK, VerdictOK, RestOK, opVars,
      verdictVars, reviewVars, createVars, worldVars, destroyVars, endVars
  <2>3. CreateInv' /\ OrderInv'
    BY <1>8 DEF AlertEgress, Goto, bodyUnchanged, RestOK, CreateInv, OrderInv,
      RunSteps, opVars, verdictVars, reviewVars, createVars, worldVars,
      destroyVars, endVars
  <2>4. QED
    BY <2>1, <2>2, <2>3
<1>9. CASE CollectAfterEgress
  <2>1. FlowOK'
    BY VerdictType, <1>9 DEF CollectAfterEgress, Collected, SetCondition,
      Return, collectUnchanged, bodyUnchanged, Errors, FlowOK, Steps, RunSteps,
      RunStates
  <2>2. CondsOK'
    BY <1>9 DEF CollectAfterEgress, Collected, SetCondition, Return,
      collectUnchanged, bodyUnchanged, CondsOK, Conditions, ConditionTypes,
      ConditionStatus
  <2>3. VerdictOK'
    BY <1>9 DEF CollectAfterEgress, Collected, SetCondition, Return,
      collectUnchanged, bodyUnchanged, VerdictOK
  <2>4. RestOK'
    BY <1>9 DEF CollectAfterEgress, collectUnchanged, bodyUnchanged, RestOK,
      opVars, verdictVars, reviewVars, createVars, worldVars, destroyVars,
      endVars
  <2>5. CreateInv' /\ OrderInv'
    BY <1>9 DEF CollectAfterEgress, Collected, SetCondition, Return,
      collectUnchanged, bodyUnchanged, RestOK, CreateInv, OrderInv, RunSteps,
      opVars, verdictVars, reviewVars, createVars, worldVars, destroyVars,
      endVars
  <2>6. QED
    BY <2>1, <2>2, <2>3, <2>4, <2>5
<1>10. CASE RunAgent
  <2>1. FlowOK'
    BY <1>10 DEF RunAgent, Goto, bodyUnchanged, FlowOK, Steps, RunSteps,
      RunStates
  <2>2. CondsOK'
    BY <1>10 DEF RunAgent, Goto, bodyUnchanged, CondsOK, Conditions,
      ConditionTypes, ConditionStatus
  <2>3. VerdictOK'
    BY <1>10 DEF RunAgent, Goto, bodyUnchanged, VerdictOK, AgentOutcomes,
      AgentExits, ThreatReports
  <2>4. RestOK'
    BY <1>10 DEF RunAgent, bodyUnchanged, RestOK, opVars, verdictVars,
      reviewVars, createVars, worldVars, destroyVars, endVars
  <2>5. CreateInv' /\ OrderInv'
    BY <1>10 DEF RunAgent, Goto, bodyUnchanged, RestOK, CreateInv, OrderInv,
      RunSteps, opVars, verdictVars, reviewVars, createVars, worldVars,
      destroyVars, endVars
  <2>6. QED
    BY <2>1, <2>2, <2>3, <2>4, <2>5
<1>11. CASE RunAgentError
  <2>1. FlowOK'
    BY VerdictType, <1>11 DEF RunAgentError, SetCondition, Return, Results,
      bodyUnchanged, Errors, FlowOK, Steps, RunSteps, RunStates
  <2>2. CondsOK'
    BY <1>11 DEF RunAgentError, SetCondition, Return, Results, bodyUnchanged,
      CondsOK, Conditions, ConditionTypes, ConditionStatus
  <2>3. VerdictOK'
    BY <1>11 DEF RunAgentError, SetCondition, Return, Results, bodyUnchanged,
      VerdictOK, AgentOutcomes, AgentExits
  <2>4. RestOK'
    BY <1>11 DEF RunAgentError, bodyUnchanged, RestOK, opVars, verdictVars,
      reviewVars, createVars, worldVars, destroyVars, endVars
  <2>5. CreateInv' /\ OrderInv'
    BY <1>11 DEF RunAgentError, SetCondition, Return, Results, bodyUnchanged,
      RestOK, CreateInv, OrderInv, RunSteps, opVars, verdictVars, reviewVars,
      createVars, worldVars, destroyVars, endVars
  <2>6. QED
    BY <2>1, <2>2, <2>3, <2>4, <2>5
<1>12. CASE AuditCollect
  <2>1. FlowOK'
    BY <1>12 DEF AuditCollect, Collected, SetCondition, Goto, collectUnchanged,
      bodyUnchanged, FlowOK, Steps, RunSteps, RunStates
  <2>2. CondsOK'
    BY <1>12 DEF AuditCollect, Collected, SetCondition, Goto, collectUnchanged,
      bodyUnchanged, CondsOK, Conditions, ConditionTypes, ConditionStatus
  <2>3. VerdictOK'
    BY <1>12 DEF AuditCollect, Collected, SetCondition, Goto, collectUnchanged,
      bodyUnchanged, VerdictOK
  <2>4. RestOK'
    BY <1>12 DEF AuditCollect, collectUnchanged, bodyUnchanged, RestOK, opVars,
      verdictVars, reviewVars, createVars, worldVars, destroyVars, endVars
  <2>5. CreateInv' /\ OrderInv'
    BY <1>12 DEF AuditCollect, Collected, SetCondition, Goto, collectUnchanged,
      bodyUnchanged, RestOK, CreateInv, OrderInv, RunSteps, opVars, verdictVars,
      reviewVars, createVars, worldVars, destroyVars, endVars
  <2>6. QED
    BY <2>1, <2>2, <2>3, <2>4, <2>5
<1>13. CASE CheckGateIntegrity
  <2>1. FlowOK'
    BY VerdictType, <1>13 DEF CheckGateIntegrity, SetCondition, Goto, Return,
      Results, bodyUnchanged, Errors, FlowOK, Steps, RunSteps, RunStates
  <2>2. CondsOK'
    BY <1>13 DEF CheckGateIntegrity, SetCondition, Goto, Return, Results,
      bodyUnchanged, CondsOK, Conditions, ConditionTypes, ConditionStatus
  <2>3. VerdictOK'
    BY <1>13 DEF CheckGateIntegrity, SetCondition, Goto, Return, Results,
      bodyUnchanged, VerdictOK, GateReports
  <2>4. RestOK'
    BY <1>13 DEF CheckGateIntegrity, bodyUnchanged, RestOK, opVars, verdictVars,
      reviewVars, createVars, worldVars, destroyVars, endVars
  <2>5. CreateInv' /\ OrderInv'
    BY <1>13 DEF CheckGateIntegrity, SetCondition, Goto, Return, Results,
      bodyUnchanged, RestOK, CreateInv, OrderInv, RunSteps, opVars, verdictVars,
      reviewVars, createVars, worldVars, destroyVars, endVars
  <2>6. QED
    BY <2>1, <2>2, <2>3, <2>4, <2>5
<1>14. CASE ScanPatch
  <2>1. FlowOK'
    BY VerdictType, <1>14 DEF ScanPatch, AfterScan, Goto, Return, bodyUnchanged,
      Errors, FlowOK, Steps, RunSteps, RunStates
  <2>2. CondsOK'
    BY <1>14 DEF ScanPatch, AfterScan, Goto, Return, bodyUnchanged, CondsOK,
      Conditions, ConditionTypes, ConditionStatus
  <2>3. VerdictOK'
    BY <1>14 DEF ScanPatch, AfterScan, Goto, Return, bodyUnchanged, VerdictOK,
      Merge, ThreatReports
  <2>4. RestOK'
    BY <1>14 DEF ScanPatch, bodyUnchanged, RestOK, opVars, verdictVars,
      reviewVars, createVars, worldVars, destroyVars, endVars
  <2>5. CreateInv' /\ OrderInv'
    BY <1>14 DEF ScanPatch, AfterScan, Goto, Return, bodyUnchanged, RestOK,
      CreateInv, OrderInv, RunSteps, opVars, verdictVars, reviewVars,
      createVars, worldVars, destroyVars, endVars
  <2>6. QED
    BY <2>1, <2>2, <2>3, <2>4, <2>5
<1>15. CASE AlertAndReturn
  <2>1. FlowOK'
    BY VerdictType, <1>15 DEF AlertAndReturn, Return, bodyUnchanged, FlowOK,
      Steps, RunSteps, RunStates
  <2>2. CondsOK' /\ VerdictOK' /\ RestOK'
    BY <1>15 DEF AlertAndReturn, bodyUnchanged, CondsOK, VerdictOK, RestOK,
      opVars, verdictVars, reviewVars, createVars, worldVars, destroyVars,
      endVars
  <2>3. CreateInv' /\ OrderInv'
    BY <1>15 DEF AlertAndReturn, Return, bodyUnchanged, RestOK, CreateInv,
      OrderInv, RunSteps, opVars, verdictVars, reviewVars, createVars,
      worldVars, destroyVars, endVars
  <2>4. QED
    BY <2>1, <2>2, <2>3
<1>16. CASE RunVerification
  <2>1. FlowOK'
    BY <1>16 DEF RunVerification, Goto, Results, bodyUnchanged, Errors, FlowOK,
      Steps, RunSteps, RunStates
  <2>2. VerdictOK'
    BY <1>16 DEF RunVerification, Goto, Results, bodyUnchanged, VerdictOK,
      VerifyOutcomes
  <2>3. CondsOK' /\ RestOK'
    BY <1>16 DEF RunVerification, bodyUnchanged, CondsOK, RestOK, opVars,
      verdictVars, reviewVars, createVars, worldVars, destroyVars, endVars
  <2>4. CreateInv' /\ OrderInv'
    BY <1>16 DEF RunVerification, Goto, Results, bodyUnchanged, RestOK,
      CreateInv, OrderInv, RunSteps, opVars, verdictVars, reviewVars,
      createVars, worldVars, destroyVars, endVars
  <2>5. QED
    BY <2>1, <2>2, <2>3, <2>4
<1>17. CASE CollectAfterVerifyError
  <2>1. FlowOK'
    BY VerdictType, <1>17 DEF CollectAfterVerifyError, Collected, SetCondition,
      Return, collectUnchanged, bodyUnchanged, Errors, FlowOK, Steps, RunSteps,
      RunStates
  <2>2. CondsOK'
    BY <1>17 DEF CollectAfterVerifyError, Collected, SetCondition, Return,
      collectUnchanged, bodyUnchanged, CondsOK, Conditions, ConditionTypes,
      ConditionStatus
  <2>3. VerdictOK'
    BY <1>17 DEF CollectAfterVerifyError, Collected, SetCondition, Return,
      collectUnchanged, bodyUnchanged, VerdictOK
  <2>4. RestOK'
    BY <1>17 DEF CollectAfterVerifyError, collectUnchanged, bodyUnchanged,
      RestOK, opVars, verdictVars, reviewVars, createVars, worldVars,
      destroyVars, endVars
  <2>5. CreateInv' /\ OrderInv'
    BY <1>17 DEF CollectAfterVerifyError, Collected, SetCondition, Return,
      collectUnchanged, bodyUnchanged, RestOK, CreateInv, OrderInv, RunSteps,
      opVars, verdictVars, reviewVars, createVars, worldVars, destroyVars,
      endVars
  <2>6. QED
    BY <2>1, <2>2, <2>3, <2>4, <2>5
<1>18. CASE CollectDrift
  <2>1. FlowOK'
    BY VerdictType, <1>18 DEF CollectDrift, Decide, Return, collectUnchanged,
      bodyUnchanged, Errors, FlowOK, Steps, RunSteps, RunStates
  <2>2. CondsOK'
    BY <1>18 DEF CollectDrift, Decide, Return, collectUnchanged, bodyUnchanged,
      CondsOK, Conditions, ConditionTypes, ConditionStatus
  <2>3. VerdictOK'
    BY <1>18 DEF CollectDrift, Decide, Return, collectUnchanged, bodyUnchanged,
      VerdictOK
  <2>4. RestOK'
    BY <1>18 DEF CollectDrift, collectUnchanged, bodyUnchanged, RestOK, opVars,
      verdictVars, reviewVars, createVars, worldVars, destroyVars, endVars
  <2>5. CreateInv' /\ OrderInv'
    BY <1>18 DEF CollectDrift, Decide, Return, collectUnchanged, bodyUnchanged,
      RestOK, CreateInv, OrderInv, RunSteps, opVars, verdictVars, reviewVars,
      createVars, worldVars, destroyVars, endVars
  <2>6. QED
    BY <2>1, <2>2, <2>3, <2>4, <2>5
<1>19. CASE PreviewSandbox
  <2>1. FlowOK'
    BY <1>19 DEF PreviewSandbox, Goto, bodyUnchanged, FlowOK, Steps, RunSteps,
      RunStates
  <2>2. CondsOK' /\ VerdictOK' /\ RestOK'
    BY <1>19 DEF PreviewSandbox, bodyUnchanged, CondsOK, VerdictOK, RestOK,
      opVars, verdictVars, reviewVars, createVars, worldVars, destroyVars,
      endVars
  <2>3. CreateInv' /\ OrderInv'
    BY <1>19 DEF PreviewSandbox, Goto, bodyUnchanged, RestOK, CreateInv,
      OrderInv, RunSteps, opVars, verdictVars, reviewVars, createVars,
      worldVars, destroyVars, endVars
  <2>4. QED
    BY <2>1, <2>2, <2>3
<1>20. CASE SuspendSandbox
  <2>1. FlowOK'
    BY <1>20 DEF SuspendSandbox, Goto, bodyUnchanged, FlowOK, Steps, RunSteps,
      RunStates
  <2>2. RestOK'
    BY <1>20 DEF SuspendSandbox, Goto, bodyUnchanged, RestOK, CreateInv,
      SuspendOutcomes, opVars, verdictVars, reviewVars, createVars, worldVars,
      destroyVars, endVars
  <2>3. CondsOK' /\ VerdictOK'
    BY <1>20 DEF SuspendSandbox, bodyUnchanged, CondsOK, VerdictOK, verdictVars
  <2>4. CreateInv' /\ OrderInv'
    BY <1>20 DEF SuspendSandbox, Goto, bodyUnchanged, RestOK, CreateInv,
      OrderInv, RunSteps, opVars, verdictVars, reviewVars, createVars,
      worldVars, destroyVars, endVars
  <2>5. QED
    BY <2>1, <2>2, <2>3, <2>4
<1>21. CASE ReviewSignal
  <2>1. FlowOK'
    BY VerdictType, <1>21 DEF ReviewSignal, GateCloses, Decide, Goto, Return,
      Errors, FlowOK, Steps, RunSteps, RunStates
  <2>2. CondsOK'
    BY <1>21 DEF ReviewSignal, GateCloses, Decide, Goto, Return, CondsOK,
      Conditions, ConditionTypes, ConditionStatus
  <2>3. RestOK'
    <3>1. Head(inbox) \in ReviewSignals /\ Tail(inbox) \in Seq(ReviewSignals)
      BY <1>21 DEF ReviewSignal, RestOK
    <3>2. reviewOutcome' \in ReviewOutcomes /\ decisionSeen' \in BOOLEAN
      BY <3>1, <1>21 DEF ReviewSignal, GateCloses, ReviewSignals, ReviewOutcomes
    <3>3. QED
      BY <3>1, <3>2, <1>21 DEF ReviewSignal, RestOK, opVars, createVars, worldVars,
                              destroyVars, endVars
  <2>4. VerdictOK'
    BY <1>21 DEF ReviewSignal, VerdictOK, verdictVars
  <2>5. CreateInv' /\ OrderInv'
    BY <1>21 DEF ReviewSignal, GateCloses, Decide, Goto, Return, RestOK,
      CreateInv, OrderInv, RunSteps, opVars, verdictVars, reviewVars,
      createVars, worldVars, destroyVars, endVars
  <2>6. QED
    BY <2>1, <2>2, <2>3, <2>4, <2>5
<1>22. CASE ReviewTimer
  <2>1. FlowOK'
    BY VerdictType, <1>22 DEF ReviewTimer, GateCloses, Decide, Goto, Return,
      bodyUnchanged, Errors, FlowOK, Steps, RunSteps, RunStates
  <2>2. CondsOK'
    BY <1>22 DEF ReviewTimer, GateCloses, Decide, Goto, Return, bodyUnchanged,
      CondsOK, Conditions, ConditionTypes, ConditionStatus
  <2>3. RestOK'
    BY <1>22 DEF ReviewTimer, GateCloses, Decide, Goto, Return, bodyUnchanged,
      RestOK, CreateInv, ReviewOutcomes, opVars, verdictVars, reviewVars,
      createVars, worldVars, destroyVars, endVars
  <2>4. VerdictOK'
    BY <1>22 DEF ReviewTimer, bodyUnchanged, VerdictOK, verdictVars
  <2>5. CreateInv' /\ OrderInv'
    BY <1>22 DEF ReviewTimer, GateCloses, Decide, Goto, Return, bodyUnchanged,
      RestOK, CreateInv, OrderInv, RunSteps, opVars, verdictVars, reviewVars,
      createVars, worldVars, destroyVars, endVars
  <2>6. QED
    BY <2>1, <2>2, <2>3, <2>4, <2>5
<1>23. CASE ResumeSandbox
  <2>1. FlowOK'
    BY VerdictType, <1>23 DEF ResumeSandbox, Decide, SetCondition, Return,
      Results, bodyUnchanged, Errors, FlowOK, Steps, RunSteps, RunStates
  <2>2. CondsOK'
    BY <1>23 DEF ResumeSandbox, Decide, SetCondition, Return, Results,
      bodyUnchanged, CondsOK, Conditions, ConditionTypes, ConditionStatus
  <2>3. VerdictOK' /\ RestOK'
    BY <1>23 DEF ResumeSandbox, bodyUnchanged, VerdictOK, RestOK, opVars,
      verdictVars, reviewVars, createVars, worldVars, destroyVars, endVars
  <2>4. CreateInv' /\ OrderInv'
    BY <1>23 DEF ResumeSandbox, Decide, SetCondition, Return, Results,
      bodyUnchanged, RestOK, CreateInv, OrderInv, RunSteps, opVars, verdictVars,
      reviewVars, createVars, worldVars, destroyVars, endVars
  <2>5. QED
    BY <2>1, <2>2, <2>3, <2>4
<1>24. CASE CleanupSkipped
  <2>1. FlowOK'
    BY <1>24 DEF CleanupSkipped, CleanupDone, SetCondition, endUnchanged,
      FlowOK, Steps, RunSteps, RunStates
  <2>2. CondsOK'
    BY <1>24 DEF CleanupSkipped, CleanupDone, SetCondition, endUnchanged,
      CondsOK, Conditions, ConditionTypes, ConditionStatus
  <2>3. RestOK'
    BY <1>24 DEF CleanupSkipped, CleanupDone, SetCondition, endUnchanged,
      RestOK, CreateInv, CleanupResults, opVars, verdictVars, reviewVars,
      createVars, worldVars, destroyVars, endVars
  <2>4. VerdictOK'
    BY <1>24 DEF CleanupSkipped, endUnchanged, VerdictOK, verdictVars
  <2>5. CreateInv' /\ OrderInv'
    BY <1>24 DEF CleanupSkipped, CleanupDone, SetCondition, endUnchanged,
      RestOK, CreateInv, OrderInv, RunSteps, opVars, verdictVars, reviewVars,
      createVars, worldVars, destroyVars, endVars
  <2>6. QED
    BY <2>1, <2>2, <2>3, <2>4, <2>5
<1>25. CASE DestroyList
  <2>1. RestOK'
    BY <1>25 DEF DestroyList, endUnchanged, flowVars, RestOK, CreateInv,
      DestroyPhases, opVars, verdictVars, reviewVars, createVars, worldVars,
      destroyVars, endVars
  <2>2. FlowOK' /\ CondsOK' /\ VerdictOK'
    BY <1>25 DEF DestroyList, endUnchanged, FlowOK, CondsOK, VerdictOK,
      flowVars, verdictVars
  <2>3. CreateInv' /\ OrderInv'
    BY <1>25 DEF DestroyList, endUnchanged, flowVars, RestOK, CreateInv,
      OrderInv, RunSteps, opVars, verdictVars, reviewVars, createVars,
      worldVars, destroyVars, endVars
  <2>4. QED
    BY <2>1, <2>2, <2>3
<1>26. CASE DestroyCalls
  <2>1. RestOK'
    BY <1>26 DEF DestroyCalls, endUnchanged, flowVars, RestOK, CreateInv,
      DestroyPhases, opVars, verdictVars, reviewVars, createVars, worldVars,
      destroyVars, endVars
  <2>2. FlowOK' /\ CondsOK' /\ VerdictOK'
    BY <1>26 DEF DestroyCalls, endUnchanged, FlowOK, CondsOK, VerdictOK,
      flowVars, verdictVars
  <2>3. CreateInv' /\ OrderInv'
    BY <1>26 DEF DestroyCalls, endUnchanged, flowVars, RestOK, CreateInv,
      OrderInv, RunSteps, opVars, verdictVars, reviewVars, createVars,
      worldVars, destroyVars, endVars
  <2>4. QED
    BY <2>1, <2>2, <2>3
<1>27. CASE DestroyVerify
  <2>1. FlowOK'
    BY <1>27 DEF DestroyVerify, Remaining, CleanupDone, SetCondition,
      endUnchanged, flowVars, FlowOK, Steps, RunSteps, RunStates
  <2>2. CondsOK'
    BY <1>27 DEF DestroyVerify, Remaining, CleanupDone, SetCondition,
      endUnchanged, flowVars, CondsOK, Conditions, ConditionTypes,
      ConditionStatus
  <2>3. RestOK'
    BY <1>27 DEF DestroyVerify, Remaining, CleanupDone, SetCondition,
      endUnchanged, flowVars, RestOK, CreateInv, CleanupResults, DestroyPhases,
      opVars, verdictVars, reviewVars, createVars, worldVars, destroyVars,
      endVars
  <2>4. VerdictOK'
    BY <1>27 DEF DestroyVerify, endUnchanged, VerdictOK, verdictVars
  <2>5. CreateInv' /\ OrderInv'
    BY <1>27 DEF DestroyVerify, Remaining, CleanupDone, SetCondition,
      endUnchanged, flowVars, RestOK, CreateInv, OrderInv, RunSteps, opVars,
      verdictVars, reviewVars, createVars, worldVars, destroyVars, endVars
  <2>6. QED
    BY <2>1, <2>2, <2>3, <2>4, <2>5
<1>28. CASE DestroyExhausted
  <2>1. FlowOK'
    BY <1>28 DEF DestroyExhausted, CleanupDone, SetCondition, endUnchanged,
      FlowOK, Steps, RunSteps, RunStates
  <2>2. CondsOK'
    BY <1>28 DEF DestroyExhausted, CleanupDone, SetCondition, endUnchanged,
      CondsOK, Conditions, ConditionTypes, ConditionStatus
  <2>3. RestOK'
    BY <1>28 DEF DestroyExhausted, CleanupDone, SetCondition, endUnchanged,
      RestOK, CreateInv, CleanupResults, opVars, verdictVars, reviewVars,
      createVars, worldVars, destroyVars, endVars
  <2>4. VerdictOK'
    BY <1>28 DEF DestroyExhausted, endUnchanged, VerdictOK, verdictVars
  <2>5. CreateInv' /\ OrderInv'
    BY <1>28 DEF DestroyExhausted, CleanupDone, SetCondition, endUnchanged,
      RestOK, CreateInv, OrderInv, RunSteps, opVars, verdictVars, reviewVars,
      createVars, worldVars, destroyVars, endVars
  <2>6. QED
    BY <2>1, <2>2, <2>3, <2>4, <2>5
<1>29. CASE FinalizeResult
  <2>1. FlowOK'
    BY <1>29 DEF FinalizeResult, Manifest, SetCondition, FlowOK, Steps,
      RunSteps, RunStates
  <2>2. CondsOK'
    BY <1>29 DEF FinalizeResult, Manifest, SetCondition, CondsOK, Conditions,
      ConditionTypes, ConditionStatus
  <2>3. RestOK'
    <3>1. Manifest \in RunManifests
      BY DEF Manifest, RunManifests, FlowOK, CondsOK, VerdictOK, RestOK
    <3>2. manifest' \in RunManifests /\ finalAttempt' \in 0 .. MaxFinalAttempts
      BY <3>1, <1>29 DEF FinalizeResult, RestOK
    <3>3. QED
      BY <3>2, <1>29 DEF FinalizeResult, RestOK, opVars, reviewVars, createVars,
                        worldVars, destroyVars
  <2>4. VerdictOK'
    BY <1>29 DEF FinalizeResult, VerdictOK, verdictVars
  <2>5. CreateInv' /\ OrderInv'
    <3>1. Manifest.result # "NONE"
      BY DEF Manifest, FlowOK, RunStates
    <3>2. QED
      BY <3>1, <1>29 DEF FinalizeResult, CreateInv, OrderInv, RunSteps, createVars,
                        worldVars, destroyVars
  <2>6. QED
    BY <2>1, <2>2, <2>3, <2>4, <2>5
<1>30. CASE RecordChange
  <2>1. FlowOK'
    <3>1. manifest.result \in RunStates \cup {"NONE"}
      BY DEF RestOK, RunManifests
    <3>2. manifest.result # "NONE"
      BY <1>30 DEF RecordChange, OrderInv
    <3>3. QED
      BY <3>1, <3>2, <1>30 DEF RecordChange, FlowOK, Steps
  <2>2. RestOK'
    BY <1>30 DEF RecordChange, RestOK, CreateInv, RunManifests, opVars,
      verdictVars, reviewVars, createVars, worldVars, destroyVars, endVars
  <2>3. CondsOK' /\ VerdictOK'
    BY <1>30 DEF RecordChange, CondsOK, VerdictOK, verdictVars
  <2>4. CreateInv' /\ OrderInv'
    BY <1>30 DEF RecordChange, RestOK, CreateInv, OrderInv, RunSteps, opVars,
      verdictVars, reviewVars, createVars, worldVars, destroyVars, endVars
  <2>5. QED
    BY <2>1, <2>2, <2>3, <2>4
<1>31. CASE CreateDispatch
  <2>1. RestOK'
    BY <1>31 DEF CreateDispatch, workflowUnchanged, flowVars, RestOK, CreateInv,
      CreatePhases, opVars, verdictVars, reviewVars, createVars, worldVars,
      destroyVars, endVars
  <2>2. FlowOK' /\ CondsOK' /\ VerdictOK'
    BY <1>31 DEF CreateDispatch, workflowUnchanged, FlowOK, CondsOK, VerdictOK,
      flowVars, verdictVars
  <2>3. CreateInv' /\ OrderInv'
    BY <1>31 DEF CreateDispatch, workflowUnchanged, flowVars, RestOK, CreateInv,
      OrderInv, RunSteps, opVars, verdictVars, reviewVars, createVars,
      worldVars, destroyVars, endVars
  <2>4. QED
    BY <2>1, <2>2, <2>3
<1>32. CASE CreateList
  <2>1. FlowOK'
    BY <1>32 DEF CreateList, RefuseCreate, AttemptFails, AttemptReturns,
      SetCondition, FlowOK, Steps, RunSteps, RunStates
  <2>2. CondsOK'
    BY <1>32 DEF CreateList, RefuseCreate, AttemptFails, AttemptReturns,
      SetCondition, CondsOK, Conditions, ConditionTypes, ConditionStatus
  <2>3. RestOK'
    BY <1>32 DEF CreateList, RefuseCreate, AttemptFails, AttemptReturns,
      SetCondition, RestOK, CreateInv, CreatePhases, opVars, verdictVars,
      reviewVars, createVars, worldVars, destroyVars, endVars
  <2>4. VerdictOK'
    BY <1>32 DEF CreateList, VerdictOK, verdictVars
  <2>5. CreateInv' /\ OrderInv'
    BY <1>32 DEF CreateList, RefuseCreate, AttemptFails, AttemptReturns,
      SetCondition, RestOK, CreateInv, OrderInv, RunSteps, opVars, verdictVars,
      reviewVars, createVars, worldVars, destroyVars, endVars
  <2>6. QED
    BY <2>1, <2>2, <2>3, <2>4, <2>5
<1>33. CASE CreateCall
  <2>1. FlowOK'
    BY <1>33 DEF CreateCall, AttemptFails, AttemptReturns, SetCondition, FlowOK,
      Steps, RunSteps, RunStates
  <2>2. CondsOK'
    BY <1>33 DEF CreateCall, AttemptFails, AttemptReturns, SetCondition,
      CondsOK, Conditions, ConditionTypes, ConditionStatus
  <2>3. RestOK'
    <3>1. createAttempt = 1 /\ createAttempt \in SandboxIDs
      BY <1>33 DEF CreateCall, CreateInv, RestOK, SandboxIDs
    <3>2. vms' \subseteq SandboxIDs /\ pending' \subseteq SandboxIDs
             /\ created' \subseteq SandboxIDs
      BY <3>1, <1>33 DEF CreateCall, worldVars, RestOK
    <3>3. /\ createPhase' \in CreatePhases
          /\ createAttempt' = createAttempt
          /\ sandboxID' \in {0} \cup SandboxIDs
      BY <3>1, <1>33 DEF CreateCall, AttemptFails, AttemptReturns, CreatePhases, RestOK
    <3>4. QED
      BY <3>2, <3>3, <1>33 DEF CreateCall, RestOK, opVars, reviewVars, destroyVars, endVars
  <2>4. VerdictOK'
    BY <1>33 DEF CreateCall, VerdictOK, verdictVars
  <2>5. CreateInv' /\ OrderInv'
    <3>1. createAttempt = 1 /\ created = {} /\ pending = {}
      BY <1>33 DEF CreateCall, CreateInv
    <3>2. CreateInv'
      BY <3>1, <1>33 DEF CreateCall, AttemptFails, AttemptReturns, CreateInv, worldVars
    <3>3. OrderInv'
      BY <3>1, <1>33 DEF CreateCall, AttemptFails, AttemptReturns, OrderInv, worldVars,
                        destroyVars, endVars, RunSteps
    <3>4. QED
      BY <3>2, <3>3
  <2>6. QED
    BY <2>1, <2>2, <2>3, <2>4, <2>5
<1>34. CASE ProviderSettles
  <2>1. RestOK'
    BY <1>34 DEF ProviderSettles, workflowUnchanged, flowVars, RestOK,
      CreateInv, opVars, verdictVars, reviewVars, createVars, worldVars,
      destroyVars, endVars
  <2>2. FlowOK' /\ CondsOK' /\ VerdictOK'
    BY <1>34 DEF ProviderSettles, workflowUnchanged, FlowOK, CondsOK, VerdictOK,
      flowVars, verdictVars
  <2>3. CreateInv' /\ OrderInv'
    BY <1>34 DEF ProviderSettles, workflowUnchanged, flowVars, RestOK,
      CreateInv, OrderInv, RunSteps, opVars, verdictVars, reviewVars,
      createVars, worldVars, destroyVars, endVars
  <2>4. QED
    BY <2>1, <2>2, <2>3
<1>35. CASE Cancel
  <2>1. RestOK'
    BY <1>35 DEF Cancel, operatorUnchanged, flowVars, RestOK, CreateInv, opVars,
      verdictVars, reviewVars, createVars, worldVars, destroyVars, endVars
  <2>2. FlowOK' /\ CondsOK' /\ VerdictOK'
    BY <1>35 DEF Cancel, operatorUnchanged, FlowOK, CondsOK, VerdictOK,
      flowVars, verdictVars
  <2>3. CreateInv' /\ OrderInv'
    BY <1>35 DEF Cancel, operatorUnchanged, flowVars, RestOK, CreateInv,
      OrderInv, RunSteps, opVars, verdictVars, reviewVars, createVars,
      worldVars, destroyVars, endVars
  <2>4. QED
    BY <2>1, <2>2, <2>3
<1>36. CASE TotalTimeout
  <2>1. RestOK'
    BY <1>36 DEF TotalTimeout, operatorUnchanged, flowVars, RestOK, CreateInv,
      opVars, verdictVars, reviewVars, createVars, worldVars, destroyVars,
      endVars
  <2>2. FlowOK' /\ CondsOK' /\ VerdictOK'
    BY <1>36 DEF TotalTimeout, operatorUnchanged, FlowOK, CondsOK, VerdictOK,
      flowVars, verdictVars
  <2>3. CreateInv' /\ OrderInv'
    BY <1>36 DEF TotalTimeout, operatorUnchanged, flowVars, RestOK, CreateInv,
      OrderInv, RunSteps, opVars, verdictVars, reviewVars, createVars,
      worldVars, destroyVars, endVars
  <2>4. QED
    BY <2>1, <2>2, <2>3
<1>37. CASE \E d \in Decisions : SignalReview(d)
  BY <1>37 DEF SignalReview, ReviewSignals, operatorUnchanged, flowVars, FlowOK,
      CondsOK, VerdictOK, RestOK, CreateInv, OrderInv, opVars, verdictVars,
      reviewVars, createVars, worldVars, destroyVars, endVars
<1>38. CASE UNCHANGED vars
  BY <1>38 DEF vars, flowVars, FlowOK, CondsOK, VerdictOK, RestOK, CreateInv,
      OrderInv, opVars, verdictVars, reviewVars, createVars, worldVars,
      destroyVars, endVars
<1>39. QED
  BY <1>1, <1>2, <1>3, <1>4, <1>5, <1>6, <1>7, <1>8, <1>9, <1>10, <1>11, <1>12,
     <1>13, <1>14, <1>15, <1>16, <1>17, <1>18, <1>19, <1>20, <1>21, <1>22,
     <1>23, <1>24, <1>25, <1>26, <1>27, <1>28, <1>29, <1>30, <1>31, <1>32,
     <1>33, <1>34, <1>35, <1>36, <1>37, <1>38
     DEF Next, Factory, RunBody, RunEnd, CreateActivity, Operators

\* Every reachable state is well typed, however the attempts, retries, signals,
\* time-outs and cancellations of a run interleave.
THEOREM TypeCorrect == Spec => []TypeOK
<1>1. Spec => []Inv1
  BY InitInv1, StepInv1, PTL DEF Spec
<1>2. QED
  BY <1>1, TypeParts, PTL

\* A run never asks the provider for a second sandbox: the invariant behind
\* "Never issue a second create after an ambiguous first attempt".
THEOREM OneSandbox == Spec => []OneSandboxPerRun
<1>1. Spec => []Inv1
  BY InitInv1, StepInv1, PTL DEF Spec
<1>2. Inv1 => OneSandboxPerRun
  <2> SUFFICES ASSUME Inv1 PROVE Cardinality(created \cup pending) <= 1
    BY DEF OneSandboxPerRun
  <2>1. created \cup pending \subseteq {1}
    BY DEF Inv1, CreateInv
  <2>2. IsFiniteSet({1}) /\ Cardinality({1}) = 1
    BY FS_Singleton
  <2>3. QED
    BY <2>1, <2>2, FS_Subset
<1>3. QED
  BY <1>1, <1>2, PTL

-----------------------------------------------------------------------------
(***************************************************************************)
(* What a run's verdict rests on.  The properties speak of a manifest      *)
(* written at the end of the run, about facts established many steps       *)
(* earlier, so none of them is inductive.  Inv2 carries each fact from the *)
(* step that establishes it to the manifest: the boundary, the gates, the  *)
(* agent, and the manifest itself.                                         *)
(***************************************************************************)

EndSteps == {"cube.destroy", "finalizing", "recording", "closed", "failed"}

BeforeAgent ==
  {"validate", "intake.assess", "cube.create", "sandbox.prepare", "repo.prepare",
   "inventory.write", "network.lockdown", "egress.alert", "egress.collect"}

AuditSteps == {"audit.collect", "audit.gates", "audit.scan"}

\* The steps only a successful agent's change reaches.
AcceptedSteps == {"verify", "verify.drift"} \cup ReviewSteps

AuditedStates == {"AGENT_FAILED", "BLOCKED", "QUARANTINED", "VERIFICATION_FAILED",
                  "REJECTED", "SUCCEEDED"}

Bounded == probe # "violated" /\ conds["EgressVerified"] # "False" /\ sandboxID # 0

BoundaryInv ==
  /\ pc \in BeforeAgent => agentOutcome = "SKIPPED"
  /\ pc \in {"sandbox.prepare", "repo.prepare", "inventory.write", "network.lockdown"}
       => sandboxID # 0
  /\ pc \in RunSteps \ BeforeAgent => Bounded
  /\ agentOutcome # "SKIPPED" => Bounded

GateInv ==
  /\ pc \in BeforeAgent \cup {"agent.run", "audit.collect", "audit.gates"} =>
       gate = "nil" /\ verifyOutcome = "SKIPPED"
  /\ pc \in AcceptedSteps \cup {"audit.scan", "quarantine.alert", "blocked.alert",
                                "verify.error.collect"} => gate = "clean"
  /\ pc = "tamper.alert" => state = "GATE_TAMPERED"
  /\ gate = "modified" =>
       /\ conds["GateIntegrity"] = "False"
       /\ state \in {"GATE_TAMPERED", "CANCELLED", "INFRASTRUCTURE_FAILED"}
       /\ verifyOutcome = "SKIPPED"
  /\ pc \in EndSteps /\ state \in AuditedStates => gate = "clean"

\* What the verdict SUCCEEDED has behind it when run() returns it.
Earned ==
  /\ probe # "violated"
  /\ agentOutcome = "SUCCESS"
  /\ gate = "clean"
  /\ behavior # "tripped"
  /\ verifyOutcome = "SUCCESS"
  /\ reviewOutcome # "rejected"
  /\ "review" \in cfg => reviewOutcome # ""

SuccessInv ==
  /\ pc \in AuditSteps /\ exitAs = "success" => agentOutcome = "SUCCESS"
  /\ pc \in AcceptedSteps => agentOutcome = "SUCCESS" /\ behavior # "tripped"
  /\ pc \notin EndSteps => state # "SUCCEEDED"
  /\ pc \notin EndSteps \cup {"review.resume"} => reviewOutcome = ""
  /\ pc = "review.resume" => reviewOutcome # ""
  /\ pc \in EndSteps /\ state = "SUCCEEDED" => Earned
  /\ pc \in EndSteps \ {"cube.destroy"} /\ state = "SUCCEEDED" =>
       cleanup = "verified" /\ collectionFailed = FALSE

\* A manifest, once written, repeats what the run still holds.
ManifestInv ==
  manifest.result # "NONE" =>
    /\ pc \in {"finalizing", "recording", "closed", "failed"}
    /\ pc = "finalizing" => manifest = Manifest
    /\ manifest.result = state
    /\ manifest.agent = agentOutcome
    /\ manifest.verify = verifyOutcome
    /\ manifest.cleanup = cleanup
    /\ manifest.review = reviewOutcome
    /\ manifest.conds["GateIntegrity"] = conds["GateIntegrity"]

Inv2 == BoundaryInv /\ GateInv /\ SuccessInv /\ ManifestInv

Inv == Inv1 /\ Inv2 /\ WorkSandboxGone

LEMMA VerdictRange ==
  \A s, e : Verdict(s, e) \in {s, "CANCELLED", "INFRASTRUCTURE_FAILED"}
BY DEF Verdict

LEMMA VerdictNone == \A s : Verdict(s, "none") = s
BY DEF Verdict

LEMMA InitInv2 == Init => Inv2 /\ WorkSandboxGone
<1> SUFFICES ASSUME Init PROVE Inv2 /\ WorkSandboxGone  OBVIOUS
<1>1. BoundaryInv
  BY DEF Init, BoundaryInv, BeforeAgent, RunSteps
<1>2. GateInv
  BY DEF Init, GateInv, BeforeAgent, AcceptedSteps, ReviewSteps, EndSteps
<1>3. SuccessInv
  BY DEF Init, SuccessInv, AuditSteps, AcceptedSteps, ReviewSteps, EndSteps
<1>4. ManifestInv /\ WorkSandboxGone
  BY DEF Init, ManifestInv, NoManifest, WorkSandboxGone
<1>5. QED
  BY <1>1, <1>2, <1>3, <1>4 DEF Inv2

\* Steps that leave the run's own record alone.
LEMMA FrameInv2 ==
  ASSUME Inv2, UNCHANGED <<cfg, flowVars, verdictVars, reviewVars, sandboxID, endVars>>
  PROVE  Inv2'
<1>1. BoundaryInv' /\ GateInv'
  BY DEF Inv2, BoundaryInv, Bounded, GateInv, flowVars, verdictVars
<1>2. SuccessInv'
  BY DEF Inv2, SuccessInv, Earned, flowVars, verdictVars, reviewVars, endVars
<1>3. ManifestInv'
  BY DEF Inv2, ManifestInv, Manifest, flowVars, verdictVars, reviewVars, endVars
<1>4. QED
  BY <1>1, <1>2, <1>3 DEF Inv2

\* run() returned something other than a success ...
LEMMA LostInv ==
  ASSUME pc' = "cube.destroy", state' # "SUCCEEDED" PROVE SuccessInv'
BY DEF SuccessInv, AuditSteps, AcceptedSteps, ReviewSteps, EndSteps

\* ... or a success it had the grounds for.
LEMMA WonInv ==
  ASSUME pc' = "cube.destroy", Earned' PROVE SuccessInv'
BY DEF SuccessInv, AuditSteps, AcceptedSteps, ReviewSteps, EndSteps

LEMMA StepInv2 == Inv1 /\ Inv2 /\ [Next]_vars => Inv2'
<1> SUFFICES ASSUME Inv1, Inv2, [Next]_vars PROVE Inv2'  OBVIOUS
<1> USE VerdictRange, VerdictNone DEF Inv1, Inv2
<1>1. CASE ValidateRequest
  <2>1. BoundaryInv'
    BY <1>1 DEF ValidateRequest, SetCondition, Return, EnterCreate, Results,
      BoundaryInv, Bounded, CondsOK, Conditions, ConditionTypes, BeforeAgent,
      AuditSteps, AcceptedSteps, ReviewSteps, EndSteps, RunSteps, opVars,
      verdictVars, reviewVars, createVars, worldVars, destroyVars, endVars
  <2>2. GateInv'
    BY <1>1 DEF ValidateRequest, SetCondition, Return, EnterCreate, Results,
      GateInv, AuditedStates, CondsOK, Conditions, ConditionTypes, BeforeAgent,
      AuditSteps, AcceptedSteps, ReviewSteps, EndSteps, RunSteps, opVars,
      verdictVars, reviewVars, createVars, worldVars, destroyVars, endVars
  <2>3. SuccessInv'
    <3>1. CASE pc' = "cube.destroy"
      BY <3>1, LostInv, <1>1 DEF ValidateRequest, Return, EnterCreate
    <3>2. CASE pc' # "cube.destroy"
      BY <3>2, <1>1 DEF ValidateRequest, Return, EnterCreate, SuccessInv, AuditSteps,
                        AcceptedSteps, ReviewSteps, EndSteps, reviewVars
    <3>3. QED
      BY <3>1, <3>2
  <2>4. ManifestInv'
    BY <1>1 DEF ValidateRequest, SetCondition, Return, EnterCreate, Results,
      ManifestInv, OrderInv, RunSteps, opVars, verdictVars, reviewVars,
      createVars, worldVars, destroyVars, endVars
  <2>5. QED
    BY <2>1, <2>2, <2>3, <2>4
<1>2. CASE AssessIntake
  <2>1. BoundaryInv'
    BY <1>2 DEF AssessIntake, EnterCreate, BoundaryInv, Bounded, CondsOK,
      Conditions, ConditionTypes, BeforeAgent, AuditSteps, AcceptedSteps,
      ReviewSteps, EndSteps, RunSteps, opVars, verdictVars, reviewVars,
      createVars, worldVars, destroyVars, endVars
  <2>2. GateInv'
    BY <1>2 DEF AssessIntake, EnterCreate, GateInv, AuditedStates, CondsOK,
      Conditions, ConditionTypes, BeforeAgent, AuditSteps, AcceptedSteps,
      ReviewSteps, EndSteps, RunSteps, opVars, verdictVars, reviewVars,
      createVars, worldVars, destroyVars, endVars
  <2>3. SuccessInv'
    BY <1>2 DEF AssessIntake, EnterCreate, SuccessInv, Earned, BeforeAgent,
      AuditSteps, AcceptedSteps, ReviewSteps, EndSteps, RunSteps, opVars,
      verdictVars, reviewVars, createVars, worldVars, destroyVars, endVars
  <2>4. ManifestInv'
    BY <1>2 DEF AssessIntake, EnterCreate, ManifestInv, OrderInv, RunSteps,
      opVars, verdictVars, reviewVars, createVars, worldVars, destroyVars,
      endVars
  <2>5. QED
    BY <2>1, <2>2, <2>3, <2>4
<1>3. CASE CreateFails
  <2>1. BoundaryInv'
    BY <1>3 DEF CreateFails, SetCondition, Return, BoundaryInv, Bounded,
      CondsOK, Conditions, ConditionTypes, BeforeAgent, AuditSteps,
      AcceptedSteps, ReviewSteps, EndSteps, RunSteps, opVars, verdictVars,
      reviewVars, createVars, worldVars, destroyVars, endVars
  <2>2. GateInv'
    BY <1>3 DEF CreateFails, SetCondition, Return, GateInv, AuditedStates,
      CondsOK, Conditions, ConditionTypes, BeforeAgent, AuditSteps,
      AcceptedSteps, ReviewSteps, EndSteps, RunSteps, opVars, verdictVars,
      reviewVars, createVars, worldVars, destroyVars, endVars
  <2>3. SuccessInv'
    BY LostInv, <1>3 DEF CreateFails, Return
  <2>4. ManifestInv'
    BY <1>3 DEF CreateFails, SetCondition, Return, ManifestInv, OrderInv,
      RunSteps, opVars, verdictVars, reviewVars, createVars, worldVars,
      destroyVars, endVars
  <2>5. QED
    BY <2>1, <2>2, <2>3, <2>4
<1>4. CASE PrepareSandbox
  <2>1. BoundaryInv'
    BY <1>4 DEF PrepareSandbox, Provision, SetCondition, Goto, Return, Results,
      bodyUnchanged, BoundaryInv, Bounded, CondsOK, Conditions, ConditionTypes,
      BeforeAgent, AuditSteps, AcceptedSteps, ReviewSteps, EndSteps, RunSteps,
      opVars, verdictVars, reviewVars, createVars, worldVars, destroyVars,
      endVars
  <2>2. GateInv'
    BY <1>4 DEF PrepareSandbox, Provision, SetCondition, Goto, Return, Results,
      bodyUnchanged, GateInv, AuditedStates, CondsOK, Conditions,
      ConditionTypes, BeforeAgent, AuditSteps, AcceptedSteps, ReviewSteps,
      EndSteps, RunSteps, opVars, verdictVars, reviewVars, createVars,
      worldVars, destroyVars, endVars
  <2>3. SuccessInv'
    <3>1. CASE pc' = "cube.destroy"
      BY <3>1, LostInv, <1>4 DEF PrepareSandbox, Provision, Return, Goto
    <3>2. CASE pc' # "cube.destroy"
      BY <3>2, <1>4 DEF PrepareSandbox, Provision, Return, Goto, SuccessInv, AuditSteps,
                        AcceptedSteps, ReviewSteps, EndSteps, verdictVars, reviewVars
    <3>3. QED
      BY <3>1, <3>2
  <2>4. ManifestInv'
    BY <1>4 DEF PrepareSandbox, Provision, SetCondition, Goto, Return, Results,
      bodyUnchanged, ManifestInv, OrderInv, RunSteps, opVars, verdictVars,
      reviewVars, createVars, worldVars, destroyVars, endVars
  <2>5. QED
    BY <2>1, <2>2, <2>3, <2>4
<1>5. CASE PrepareRepository
  <2>1. BoundaryInv'
    BY <1>5 DEF PrepareRepository, Provision, SetCondition, Goto, Return,
      Results, bodyUnchanged, BoundaryInv, Bounded, CondsOK, Conditions,
      ConditionTypes, BeforeAgent, AuditSteps, AcceptedSteps, ReviewSteps,
      EndSteps, RunSteps, opVars, verdictVars, reviewVars, createVars,
      worldVars, destroyVars, endVars
  <2>2. GateInv'
    BY <1>5 DEF PrepareRepository, Provision, SetCondition, Goto, Return,
      Results, bodyUnchanged, GateInv, AuditedStates, CondsOK, Conditions,
      ConditionTypes, BeforeAgent, AuditSteps, AcceptedSteps, ReviewSteps,
      EndSteps, RunSteps, opVars, verdictVars, reviewVars, createVars,
      worldVars, destroyVars, endVars
  <2>3. SuccessInv'
    <3>1. CASE pc' = "cube.destroy"
      BY <3>1, LostInv, <1>5 DEF PrepareRepository, Provision, Return, Goto
    <3>2. CASE pc' # "cube.destroy"
      BY <3>2, <1>5 DEF PrepareRepository, Provision, Return, Goto, SuccessInv, AuditSteps,
                        AcceptedSteps, ReviewSteps, EndSteps, verdictVars, reviewVars
    <3>3. QED
      BY <3>1, <3>2
  <2>4. ManifestInv'
    BY <1>5 DEF PrepareRepository, Provision, SetCondition, Goto, Return,
      Results, bodyUnchanged, ManifestInv, OrderInv, RunSteps, opVars,
      verdictVars, reviewVars, createVars, worldVars, destroyVars, endVars
  <2>5. QED
    BY <2>1, <2>2, <2>3, <2>4
<1>6. CASE WriteInventory
  <2>1. BoundaryInv'
    BY <1>6 DEF WriteInventory, SetCondition, Goto, Return, Results,
      bodyUnchanged, BoundaryInv, Bounded, CondsOK, Conditions, ConditionTypes,
      BeforeAgent, AuditSteps, AcceptedSteps, ReviewSteps, EndSteps, RunSteps,
      opVars, verdictVars, reviewVars, createVars, worldVars, destroyVars,
      endVars
  <2>2. GateInv'
    BY <1>6 DEF WriteInventory, SetCondition, Goto, Return, Results,
      bodyUnchanged, GateInv, AuditedStates, CondsOK, Conditions,
      ConditionTypes, BeforeAgent, AuditSteps, AcceptedSteps, ReviewSteps,
      EndSteps, RunSteps, opVars, verdictVars, reviewVars, createVars,
      worldVars, destroyVars, endVars
  <2>3. SuccessInv'
    <3>1. CASE pc' = "cube.destroy"
      BY <3>1, LostInv, <1>6 DEF WriteInventory, Return, Goto
    <3>2. CASE pc' # "cube.destroy"
      BY <3>2, <1>6 DEF WriteInventory, Return, Goto, SuccessInv, AuditSteps,
                        AcceptedSteps, ReviewSteps, EndSteps, verdictVars, reviewVars
    <3>3. QED
      BY <3>1, <3>2
  <2>4. ManifestInv'
    BY <1>6 DEF WriteInventory, SetCondition, Goto, Return, Results,
      bodyUnchanged, ManifestInv, OrderInv, RunSteps, opVars, verdictVars,
      reviewVars, createVars, worldVars, destroyVars, endVars
  <2>5. QED
    BY <2>1, <2>2, <2>3, <2>4
<1>7. CASE ApplyRuntimeNetwork
  <2>1. BoundaryInv'
    BY <1>7 DEF ApplyRuntimeNetwork, SetCondition, Goto, EgressCondition,
      Results, bodyUnchanged, BoundaryInv, Bounded, CondsOK, Conditions,
      ConditionTypes, BeforeAgent, AuditSteps, AcceptedSteps, ReviewSteps,
      EndSteps, RunSteps, opVars, verdictVars, reviewVars, createVars,
      worldVars, destroyVars, endVars
  <2>2. GateInv'
    BY <1>7 DEF ApplyRuntimeNetwork, SetCondition, Goto, EgressCondition,
      Results, bodyUnchanged, GateInv, AuditedStates, CondsOK, Conditions,
      ConditionTypes, BeforeAgent, AuditSteps, AcceptedSteps, ReviewSteps,
      EndSteps, RunSteps, opVars, verdictVars, reviewVars, createVars,
      worldVars, destroyVars, endVars
  <2>3. SuccessInv'
    BY <1>7 DEF ApplyRuntimeNetwork, SetCondition, Goto, EgressCondition,
      Results, bodyUnchanged, SuccessInv, Earned, BeforeAgent, AuditSteps,
      AcceptedSteps, ReviewSteps, EndSteps, RunSteps, opVars, verdictVars,
      reviewVars, createVars, worldVars, destroyVars, endVars
  <2>4. ManifestInv'
    BY <1>7 DEF ApplyRuntimeNetwork, SetCondition, Goto, EgressCondition,
      Results, bodyUnchanged, ManifestInv, OrderInv, RunSteps, opVars,
      verdictVars, reviewVars, createVars, worldVars, destroyVars, endVars
  <2>5. QED
    BY <2>1, <2>2, <2>3, <2>4
<1>8. CASE AlertEgress
  <2>1. BoundaryInv'
    BY <1>8 DEF AlertEgress, Goto, bodyUnchanged, BoundaryInv, Bounded, CondsOK,
      Conditions, ConditionTypes, BeforeAgent, AuditSteps, AcceptedSteps,
      ReviewSteps, EndSteps, RunSteps, opVars, verdictVars, reviewVars,
      createVars, worldVars, destroyVars, endVars
  <2>2. GateInv'
    BY <1>8 DEF AlertEgress, Goto, bodyUnchanged, GateInv, AuditedStates,
      CondsOK, Conditions, ConditionTypes, BeforeAgent, AuditSteps,
      AcceptedSteps, ReviewSteps, EndSteps, RunSteps, opVars, verdictVars,
      reviewVars, createVars, worldVars, destroyVars, endVars
  <2>3. SuccessInv'
    BY <1>8 DEF AlertEgress, Goto, bodyUnchanged, SuccessInv, Earned,
      BeforeAgent, AuditSteps, AcceptedSteps, ReviewSteps, EndSteps, RunSteps,
      opVars, verdictVars, reviewVars, createVars, worldVars, destroyVars,
      endVars
  <2>4. ManifestInv'
    BY <1>8 DEF AlertEgress, Goto, bodyUnchanged, ManifestInv, OrderInv,
      RunSteps, opVars, verdictVars, reviewVars, createVars, worldVars,
      destroyVars, endVars
  <2>5. QED
    BY <2>1, <2>2, <2>3, <2>4
<1>9. CASE CollectAfterEgress
  <2>1. BoundaryInv'
    BY <1>9 DEF CollectAfterEgress, Collected, SetCondition, Return,
      collectUnchanged, bodyUnchanged, BoundaryInv, Bounded, CondsOK,
      Conditions, ConditionTypes, BeforeAgent, AuditSteps, AcceptedSteps,
      ReviewSteps, EndSteps, RunSteps, opVars, verdictVars, reviewVars,
      createVars, worldVars, destroyVars, endVars
  <2>2. GateInv'
    BY <1>9 DEF CollectAfterEgress, Collected, SetCondition, Return,
      collectUnchanged, bodyUnchanged, GateInv, AuditedStates, CondsOK,
      Conditions, ConditionTypes, BeforeAgent, AuditSteps, AcceptedSteps,
      ReviewSteps, EndSteps, RunSteps, opVars, verdictVars, reviewVars,
      createVars, worldVars, destroyVars, endVars
  <2>3. SuccessInv'
    BY <1>9 DEF CollectAfterEgress, Collected, SetCondition, Return,
      collectUnchanged, bodyUnchanged, SuccessInv, Earned, BeforeAgent,
      AuditSteps, AcceptedSteps, ReviewSteps, EndSteps, RunSteps, opVars,
      verdictVars, reviewVars, createVars, worldVars, destroyVars, endVars
  <2>4. ManifestInv'
    BY <1>9 DEF CollectAfterEgress, Collected, SetCondition, Return,
      collectUnchanged, bodyUnchanged, ManifestInv, OrderInv, RunSteps, opVars,
      verdictVars, reviewVars, createVars, worldVars, destroyVars, endVars
  <2>5. QED
    BY <2>1, <2>2, <2>3, <2>4
<1>10. CASE RunAgent
  <2>1. BoundaryInv'
    BY <1>10 DEF RunAgent, Goto, bodyUnchanged, BoundaryInv, Bounded, CondsOK,
      Conditions, ConditionTypes, BeforeAgent, AuditSteps, AcceptedSteps,
      ReviewSteps, EndSteps, RunSteps, opVars, verdictVars, reviewVars,
      createVars, worldVars, destroyVars, endVars
  <2>2. GateInv'
    BY <1>10 DEF RunAgent, Goto, bodyUnchanged, GateInv, AuditedStates, CondsOK,
      Conditions, ConditionTypes, BeforeAgent, AuditSteps, AcceptedSteps,
      ReviewSteps, EndSteps, RunSteps, opVars, verdictVars, reviewVars,
      createVars, worldVars, destroyVars, endVars
  <2>3. SuccessInv'
    BY <1>10 DEF RunAgent, Goto, bodyUnchanged, SuccessInv, Earned, BeforeAgent,
      AuditSteps, AcceptedSteps, ReviewSteps, EndSteps, RunSteps, opVars,
      verdictVars, reviewVars, createVars, worldVars, destroyVars, endVars
  <2>4. ManifestInv'
    BY <1>10 DEF RunAgent, Goto, bodyUnchanged, ManifestInv, OrderInv, RunSteps,
      opVars, verdictVars, reviewVars, createVars, worldVars, destroyVars,
      endVars
  <2>5. QED
    BY <2>1, <2>2, <2>3, <2>4
<1>11. CASE RunAgentError
  <2>1. BoundaryInv'
    BY <1>11 DEF RunAgentError, SetCondition, Return, Results, bodyUnchanged,
      BoundaryInv, Bounded, CondsOK, Conditions, ConditionTypes, BeforeAgent,
      AuditSteps, AcceptedSteps, ReviewSteps, EndSteps, RunSteps, opVars,
      verdictVars, reviewVars, createVars, worldVars, destroyVars, endVars
  <2>2. GateInv'
    BY <1>11 DEF RunAgentError, SetCondition, Return, Results, bodyUnchanged,
      GateInv, AuditedStates, CondsOK, Conditions, ConditionTypes, BeforeAgent,
      AuditSteps, AcceptedSteps, ReviewSteps, EndSteps, RunSteps, opVars,
      verdictVars, reviewVars, createVars, worldVars, destroyVars, endVars
  <2>3. SuccessInv'
    <3>1. CASE pc' = "cube.destroy"
      BY <3>1, LostInv, <1>11 DEF RunAgentError, Return
    <3>2. CASE pc' # "cube.destroy"
      BY <3>2, <1>11 DEF RunAgentError, Return, SuccessInv, AuditSteps,
                        AcceptedSteps, ReviewSteps, EndSteps, reviewVars
    <3>3. QED
      BY <3>1, <3>2
  <2>4. ManifestInv'
    BY <1>11 DEF RunAgentError, SetCondition, Return, Results, bodyUnchanged,
      ManifestInv, OrderInv, RunSteps, opVars, verdictVars, reviewVars,
      createVars, worldVars, destroyVars, endVars
  <2>5. QED
    BY <2>1, <2>2, <2>3, <2>4
<1>12. CASE AuditCollect
  <2>1. BoundaryInv'
    BY <1>12 DEF AuditCollect, Collected, SetCondition, Goto, collectUnchanged,
      bodyUnchanged, BoundaryInv, Bounded, CondsOK, Conditions, ConditionTypes,
      BeforeAgent, AuditSteps, AcceptedSteps, ReviewSteps, EndSteps, RunSteps,
      opVars, verdictVars, reviewVars, createVars, worldVars, destroyVars,
      endVars
  <2>2. GateInv'
    BY <1>12 DEF AuditCollect, Collected, SetCondition, Goto, collectUnchanged,
      bodyUnchanged, GateInv, AuditedStates, CondsOK, Conditions,
      ConditionTypes, BeforeAgent, AuditSteps, AcceptedSteps, ReviewSteps,
      EndSteps, RunSteps, opVars, verdictVars, reviewVars, createVars,
      worldVars, destroyVars, endVars
  <2>3. SuccessInv'
    BY <1>12 DEF AuditCollect, Collected, SetCondition, Goto, collectUnchanged,
      bodyUnchanged, SuccessInv, Earned, BeforeAgent, AuditSteps, AcceptedSteps,
      ReviewSteps, EndSteps, RunSteps, opVars, verdictVars, reviewVars,
      createVars, worldVars, destroyVars, endVars
  <2>4. ManifestInv'
    BY <1>12 DEF AuditCollect, Collected, SetCondition, Goto, collectUnchanged,
      bodyUnchanged, ManifestInv, OrderInv, RunSteps, opVars, verdictVars,
      reviewVars, createVars, worldVars, destroyVars, endVars
  <2>5. QED
    BY <2>1, <2>2, <2>3, <2>4
<1>13. CASE CheckGateIntegrity
  <2>1. BoundaryInv'
    BY <1>13 DEF CheckGateIntegrity, SetCondition, Goto, Return, Results,
      bodyUnchanged, BoundaryInv, Bounded, CondsOK, Conditions, ConditionTypes,
      BeforeAgent, AuditSteps, AcceptedSteps, ReviewSteps, EndSteps, RunSteps,
      opVars, verdictVars, reviewVars, createVars, worldVars, destroyVars,
      endVars
  <2>2. GateInv'
    BY <1>13 DEF CheckGateIntegrity, SetCondition, Goto, Return, Results,
      bodyUnchanged, GateInv, AuditedStates, CondsOK, Conditions,
      ConditionTypes, BeforeAgent, AuditSteps, AcceptedSteps, ReviewSteps,
      EndSteps, RunSteps, opVars, verdictVars, reviewVars, createVars,
      worldVars, destroyVars, endVars
  <2>3. SuccessInv'
    <3>1. CASE pc' = "cube.destroy"
      BY <3>1, LostInv, <1>13 DEF CheckGateIntegrity, Return, Goto
    <3>2. CASE pc' # "cube.destroy"
      BY <3>2, <1>13 DEF CheckGateIntegrity, Return, Goto, SuccessInv, AuditSteps,
                        AcceptedSteps, ReviewSteps, EndSteps, reviewVars
    <3>3. QED
      BY <3>1, <3>2
  <2>4. ManifestInv'
    BY <1>13 DEF CheckGateIntegrity, SetCondition, Goto, Return, Results,
      bodyUnchanged, ManifestInv, OrderInv, RunSteps, opVars, verdictVars,
      reviewVars, createVars, worldVars, destroyVars, endVars
  <2>5. QED
    BY <2>1, <2>2, <2>3, <2>4
<1>14. CASE ScanPatch
  <2>1. BoundaryInv'
    BY <1>14 DEF ScanPatch, AfterScan, Goto, Return, bodyUnchanged, BoundaryInv,
      Bounded, CondsOK, Conditions, ConditionTypes, BeforeAgent, AuditSteps,
      AcceptedSteps, ReviewSteps, EndSteps, RunSteps, opVars, verdictVars,
      reviewVars, createVars, worldVars, destroyVars, endVars
  <2>2. GateInv'
    BY <1>14 DEF ScanPatch, AfterScan, Goto, Return, bodyUnchanged, GateInv,
      AuditedStates, CondsOK, Conditions, ConditionTypes, BeforeAgent,
      AuditSteps, AcceptedSteps, ReviewSteps, EndSteps, RunSteps, opVars,
      verdictVars, reviewVars, createVars, worldVars, destroyVars, endVars
  <2>3. SuccessInv'
    <3>1. CASE pc' = "cube.destroy"
      BY <3>1, LostInv, <1>14 DEF ScanPatch, AfterScan, Return, Goto
    <3>2. CASE pc' # "cube.destroy"
      BY <3>2, <1>14 DEF ScanPatch, AfterScan, Return, Goto, SuccessInv, AuditSteps,
                        AcceptedSteps, ReviewSteps, EndSteps, reviewVars
    <3>3. QED
      BY <3>1, <3>2
  <2>4. ManifestInv'
    BY <1>14 DEF ScanPatch, AfterScan, Goto, Return, bodyUnchanged, ManifestInv,
      OrderInv, RunSteps, opVars, verdictVars, reviewVars, createVars,
      worldVars, destroyVars, endVars
  <2>5. QED
    BY <2>1, <2>2, <2>3, <2>4
<1>15. CASE AlertAndReturn
  <2>1. BoundaryInv'
    BY <1>15 DEF AlertAndReturn, Return, bodyUnchanged, BoundaryInv, Bounded,
      CondsOK, Conditions, ConditionTypes, BeforeAgent, AuditSteps,
      AcceptedSteps, ReviewSteps, EndSteps, RunSteps, opVars, verdictVars,
      reviewVars, createVars, worldVars, destroyVars, endVars
  <2>2. GateInv'
    BY <1>15 DEF AlertAndReturn, Return, bodyUnchanged, GateInv, AuditedStates,
      CondsOK, Conditions, ConditionTypes, BeforeAgent, AuditSteps,
      AcceptedSteps, ReviewSteps, EndSteps, RunSteps, opVars, verdictVars,
      reviewVars, createVars, worldVars, destroyVars, endVars
  <2>3. SuccessInv'
    BY <1>15 DEF AlertAndReturn, Return, bodyUnchanged, SuccessInv, Earned,
      BeforeAgent, AuditSteps, AcceptedSteps, ReviewSteps, EndSteps, RunSteps,
      opVars, verdictVars, reviewVars, createVars, worldVars, destroyVars,
      endVars
  <2>4. ManifestInv'
    BY <1>15 DEF AlertAndReturn, Return, bodyUnchanged, ManifestInv, OrderInv,
      RunSteps, opVars, verdictVars, reviewVars, createVars, worldVars,
      destroyVars, endVars
  <2>5. QED
    BY <2>1, <2>2, <2>3, <2>4
<1>16. CASE RunVerification
  <2>1. BoundaryInv'
    BY <1>16 DEF RunVerification, Goto, Results, bodyUnchanged, BoundaryInv,
      Bounded, CondsOK, Conditions, ConditionTypes, BeforeAgent, AuditSteps,
      AcceptedSteps, ReviewSteps, EndSteps, RunSteps, opVars, verdictVars,
      reviewVars, createVars, worldVars, destroyVars, endVars
  <2>2. GateInv'
    BY <1>16 DEF RunVerification, Goto, Results, bodyUnchanged, GateInv,
      AuditedStates, CondsOK, Conditions, ConditionTypes, BeforeAgent,
      AuditSteps, AcceptedSteps, ReviewSteps, EndSteps, RunSteps, opVars,
      verdictVars, reviewVars, createVars, worldVars, destroyVars, endVars
  <2>3. SuccessInv'
    BY <1>16 DEF RunVerification, Goto, Results, bodyUnchanged, SuccessInv,
      Earned, BeforeAgent, AuditSteps, AcceptedSteps, ReviewSteps, EndSteps,
      RunSteps, opVars, verdictVars, reviewVars, createVars, worldVars,
      destroyVars, endVars
  <2>4. ManifestInv'
    BY <1>16 DEF RunVerification, Goto, Results, bodyUnchanged, ManifestInv,
      OrderInv, RunSteps, opVars, verdictVars, reviewVars, createVars,
      worldVars, destroyVars, endVars
  <2>5. QED
    BY <2>1, <2>2, <2>3, <2>4
<1>17. CASE CollectAfterVerifyError
  <2>1. BoundaryInv'
    BY <1>17 DEF CollectAfterVerifyError, Collected, SetCondition, Return,
      collectUnchanged, bodyUnchanged, BoundaryInv, Bounded, CondsOK,
      Conditions, ConditionTypes, BeforeAgent, AuditSteps, AcceptedSteps,
      ReviewSteps, EndSteps, RunSteps, opVars, verdictVars, reviewVars,
      createVars, worldVars, destroyVars, endVars
  <2>2. GateInv'
    BY <1>17 DEF CollectAfterVerifyError, Collected, SetCondition, Return,
      collectUnchanged, bodyUnchanged, GateInv, AuditedStates, CondsOK,
      Conditions, ConditionTypes, BeforeAgent, AuditSteps, AcceptedSteps,
      ReviewSteps, EndSteps, RunSteps, opVars, verdictVars, reviewVars,
      createVars, worldVars, destroyVars, endVars
  <2>3. SuccessInv'
    BY <1>17 DEF CollectAfterVerifyError, Collected, SetCondition, Return,
      collectUnchanged, bodyUnchanged, SuccessInv, Earned, BeforeAgent,
      AuditSteps, AcceptedSteps, ReviewSteps, EndSteps, RunSteps, opVars,
      verdictVars, reviewVars, createVars, worldVars, destroyVars, endVars
  <2>4. ManifestInv'
    BY <1>17 DEF CollectAfterVerifyError, Collected, SetCondition, Return,
      collectUnchanged, bodyUnchanged, ManifestInv, OrderInv, RunSteps, opVars,
      verdictVars, reviewVars, createVars, worldVars, destroyVars, endVars
  <2>5. QED
    BY <2>1, <2>2, <2>3, <2>4
<1>18. CASE CollectDrift
  <2>1. BoundaryInv'
    BY <1>18 DEF CollectDrift, Decide, Return, collectUnchanged, bodyUnchanged,
      BoundaryInv, Bounded, CondsOK, Conditions, ConditionTypes, BeforeAgent,
      AuditSteps, AcceptedSteps, ReviewSteps, EndSteps, RunSteps, opVars,
      verdictVars, reviewVars, createVars, worldVars, destroyVars, endVars
  <2>2. GateInv'
    BY <1>18 DEF CollectDrift, Decide, Return, collectUnchanged, bodyUnchanged,
      GateInv, AuditedStates, CondsOK, Conditions, ConditionTypes, BeforeAgent,
      AuditSteps, AcceptedSteps, ReviewSteps, EndSteps, RunSteps, opVars,
      verdictVars, reviewVars, createVars, worldVars, destroyVars, endVars
  <2>3. SuccessInv'
    <3>1. CASE pc' # "cube.destroy"
      BY <3>1, <1>18 DEF CollectDrift, Decide, collectUnchanged, bodyUnchanged, Return, SuccessInv, AuditSteps, AcceptedSteps,
                        ReviewSteps, EndSteps, verdictVars, reviewVars
    <3>2. CASE pc' = "cube.destroy" /\ state' # "SUCCEEDED"
      BY <3>2, LostInv
    <3>3. CASE pc' = "cube.destroy" /\ state' = "SUCCEEDED"
      <4>1. verifyOutcome = "SUCCESS" /\ "review" \notin cfg
        BY <3>3, <1>18 DEF CollectDrift, Decide, collectUnchanged, bodyUnchanged, Return
      <4>2. Earned'
        BY <4>1, <1>18 DEF CollectDrift, Decide, collectUnchanged, bodyUnchanged, SuccessInv, BoundaryInv, Bounded, GateInv,
                          Earned, AcceptedSteps, ReviewSteps, EndSteps, RunSteps,
                          BeforeAgent, verdictVars, reviewVars
      <4>3. QED
        BY <3>3, <4>2, WonInv
    <3>4. QED
      BY <3>1, <3>2, <3>3
  <2>4. ManifestInv'
    BY <1>18 DEF CollectDrift, Decide, Return, collectUnchanged, bodyUnchanged,
      ManifestInv, OrderInv, RunSteps, opVars, verdictVars, reviewVars,
      createVars, worldVars, destroyVars, endVars
  <2>5. QED
    BY <2>1, <2>2, <2>3, <2>4
<1>19. CASE PreviewSandbox
  <2>1. BoundaryInv'
    BY <1>19 DEF PreviewSandbox, Goto, bodyUnchanged, BoundaryInv, Bounded,
      CondsOK, Conditions, ConditionTypes, BeforeAgent, AuditSteps,
      AcceptedSteps, ReviewSteps, EndSteps, RunSteps, opVars, verdictVars,
      reviewVars, createVars, worldVars, destroyVars, endVars
  <2>2. GateInv'
    BY <1>19 DEF PreviewSandbox, Goto, bodyUnchanged, GateInv, AuditedStates,
      CondsOK, Conditions, ConditionTypes, BeforeAgent, AuditSteps,
      AcceptedSteps, ReviewSteps, EndSteps, RunSteps, opVars, verdictVars,
      reviewVars, createVars, worldVars, destroyVars, endVars
  <2>3. SuccessInv'
    BY <1>19 DEF PreviewSandbox, Goto, bodyUnchanged, SuccessInv, Earned,
      BeforeAgent, AuditSteps, AcceptedSteps, ReviewSteps, EndSteps, RunSteps,
      opVars, verdictVars, reviewVars, createVars, worldVars, destroyVars,
      endVars
  <2>4. ManifestInv'
    BY <1>19 DEF PreviewSandbox, Goto, bodyUnchanged, ManifestInv, OrderInv,
      RunSteps, opVars, verdictVars, reviewVars, createVars, worldVars,
      destroyVars, endVars
  <2>5. QED
    BY <2>1, <2>2, <2>3, <2>4
<1>20. CASE SuspendSandbox
  <2>1. BoundaryInv'
    BY <1>20 DEF SuspendSandbox, Goto, bodyUnchanged, BoundaryInv, Bounded,
      CondsOK, Conditions, ConditionTypes, BeforeAgent, AuditSteps,
      AcceptedSteps, ReviewSteps, EndSteps, RunSteps, opVars, verdictVars,
      reviewVars, createVars, worldVars, destroyVars, endVars
  <2>2. GateInv'
    BY <1>20 DEF SuspendSandbox, Goto, bodyUnchanged, GateInv, AuditedStates,
      CondsOK, Conditions, ConditionTypes, BeforeAgent, AuditSteps,
      AcceptedSteps, ReviewSteps, EndSteps, RunSteps, opVars, verdictVars,
      reviewVars, createVars, worldVars, destroyVars, endVars
  <2>3. SuccessInv'
    BY <1>20 DEF SuspendSandbox, Goto, bodyUnchanged, SuccessInv, Earned,
      BeforeAgent, AuditSteps, AcceptedSteps, ReviewSteps, EndSteps, RunSteps,
      opVars, verdictVars, reviewVars, createVars, worldVars, destroyVars,
      endVars
  <2>4. ManifestInv'
    BY <1>20 DEF SuspendSandbox, Goto, bodyUnchanged, ManifestInv, OrderInv,
      RunSteps, opVars, verdictVars, reviewVars, createVars, worldVars,
      destroyVars, endVars
  <2>5. QED
    BY <2>1, <2>2, <2>3, <2>4
<1>21. CASE ReviewSignal
  <2>1. BoundaryInv'
    BY <1>21 DEF ReviewSignal, GateCloses, Decide, Goto, Return, BoundaryInv,
      Bounded, CondsOK, Conditions, ConditionTypes, BeforeAgent, AuditSteps,
      AcceptedSteps, ReviewSteps, EndSteps, RunSteps, opVars, verdictVars,
      reviewVars, createVars, worldVars, destroyVars, endVars
  <2>2. GateInv'
    BY <1>21 DEF ReviewSignal, GateCloses, Decide, Goto, Return, GateInv,
      AuditedStates, CondsOK, Conditions, ConditionTypes, BeforeAgent,
      AuditSteps, AcceptedSteps, ReviewSteps, EndSteps, RunSteps, opVars,
      verdictVars, reviewVars, createVars, worldVars, destroyVars, endVars
  <2>3. SuccessInv'
    <3>1. Head(inbox).decision \in Decisions
      <4>1. inbox \in Seq(ReviewSignals) /\ inbox # <<>>
        BY <1>21 DEF ReviewSignal, RestOK
      <4>2. Head(inbox) \in ReviewSignals
        BY <4>1
      <4>3. QED
        BY <4>2 DEF ReviewSignals
    <3>2. CASE pc' # "cube.destroy"
      BY <3>1, <3>2, <1>21 DEF ReviewSignal, GateCloses, Decide, Goto, Return, SuccessInv,
                              Decisions, AuditSteps, AcceptedSteps, ReviewSteps,
                              EndSteps, verdictVars
    <3>3. CASE pc' = "cube.destroy" /\ state' # "SUCCEEDED"
      BY <3>3, LostInv
    <3>4. CASE pc' = "cube.destroy" /\ state' = "SUCCEEDED"
      <4>1. verifyOutcome = "SUCCESS" /\ reviewOutcome' = "approved"
        BY <3>1, <3>4, <1>21 DEF ReviewSignal, GateCloses, Decide, Goto, Return, Decisions
      <4>2. Earned'
        BY <4>1, <1>21 DEF ReviewSignal, SuccessInv, BoundaryInv, Bounded, GateInv,
                          Earned, AcceptedSteps, ReviewSteps, RunSteps, BeforeAgent,
                          verdictVars
      <4>3. QED
        BY <3>4, <4>2, WonInv
    <3>5. QED
      BY <3>2, <3>3, <3>4
  <2>4. ManifestInv'
    BY <1>21 DEF ReviewSignal, GateCloses, Decide, Goto, Return, ManifestInv,
      OrderInv, RunSteps, opVars, verdictVars, reviewVars, createVars,
      worldVars, destroyVars, endVars
  <2>5. QED
    BY <2>1, <2>2, <2>3, <2>4
<1>22. CASE ReviewTimer
  <2>1. BoundaryInv'
    BY <1>22 DEF ReviewTimer, GateCloses, Decide, Goto, Return, bodyUnchanged,
      BoundaryInv, Bounded, CondsOK, Conditions, ConditionTypes, BeforeAgent,
      AuditSteps, AcceptedSteps, ReviewSteps, EndSteps, RunSteps, opVars,
      verdictVars, reviewVars, createVars, worldVars, destroyVars, endVars
  <2>2. GateInv'
    BY <1>22 DEF ReviewTimer, GateCloses, Decide, Goto, Return, bodyUnchanged,
      GateInv, AuditedStates, CondsOK, Conditions, ConditionTypes, BeforeAgent,
      AuditSteps, AcceptedSteps, ReviewSteps, EndSteps, RunSteps, opVars,
      verdictVars, reviewVars, createVars, worldVars, destroyVars, endVars
  <2>3. SuccessInv'
    <3>1. CASE pc' # "cube.destroy"
      BY <3>1, <1>22 DEF ReviewTimer, GateCloses, Decide, Goto, bodyUnchanged, Return, SuccessInv, AuditSteps, AcceptedSteps,
                        ReviewSteps, EndSteps, verdictVars, reviewVars
    <3>2. CASE pc' = "cube.destroy" /\ state' # "SUCCEEDED"
      BY <3>2, LostInv
    <3>3. CASE pc' = "cube.destroy" /\ state' = "SUCCEEDED"
      <4>1. verifyOutcome = "SUCCESS" /\ reviewOutcome' \notin {"rejected", ""}
        BY <3>3, <1>22 DEF ReviewTimer, GateCloses, Decide, Goto, bodyUnchanged, Return
      <4>2. Earned'
        BY <4>1, <1>22 DEF ReviewTimer, GateCloses, Decide, Goto, bodyUnchanged, SuccessInv, BoundaryInv, Bounded, GateInv,
                          Earned, AcceptedSteps, ReviewSteps, EndSteps, RunSteps,
                          BeforeAgent, verdictVars, reviewVars
      <4>3. QED
        BY <3>3, <4>2, WonInv
    <3>4. QED
      BY <3>1, <3>2, <3>3
  <2>4. ManifestInv'
    BY <1>22 DEF ReviewTimer, GateCloses, Decide, Goto, Return, bodyUnchanged,
      ManifestInv, OrderInv, RunSteps, opVars, verdictVars, reviewVars,
      createVars, worldVars, destroyVars, endVars
  <2>5. QED
    BY <2>1, <2>2, <2>3, <2>4
<1>23. CASE ResumeSandbox
  <2>1. BoundaryInv'
    BY <1>23 DEF ResumeSandbox, Decide, SetCondition, Return, Results,
      bodyUnchanged, BoundaryInv, Bounded, CondsOK, Conditions, ConditionTypes,
      BeforeAgent, AuditSteps, AcceptedSteps, ReviewSteps, EndSteps, RunSteps,
      opVars, verdictVars, reviewVars, createVars, worldVars, destroyVars,
      endVars
  <2>2. GateInv'
    BY <1>23 DEF ResumeSandbox, Decide, SetCondition, Return, Results,
      bodyUnchanged, GateInv, AuditedStates, CondsOK, Conditions,
      ConditionTypes, BeforeAgent, AuditSteps, AcceptedSteps, ReviewSteps,
      EndSteps, RunSteps, opVars, verdictVars, reviewVars, createVars,
      worldVars, destroyVars, endVars
  <2>3. SuccessInv'
    <3>1. CASE pc' # "cube.destroy"
      BY <3>1, <1>23 DEF ResumeSandbox, Decide, bodyUnchanged, Return, SuccessInv, AuditSteps, AcceptedSteps,
                        ReviewSteps, EndSteps, verdictVars, reviewVars
    <3>2. CASE pc' = "cube.destroy" /\ state' # "SUCCEEDED"
      BY <3>2, LostInv
    <3>3. CASE pc' = "cube.destroy" /\ state' = "SUCCEEDED"
      <4>1. verifyOutcome = "SUCCESS" /\ reviewOutcome # "rejected"
        BY <3>3, <1>23 DEF ResumeSandbox, Decide, bodyUnchanged, Return
      <4>2. Earned'
        BY <4>1, <1>23 DEF ResumeSandbox, Decide, bodyUnchanged, SuccessInv, BoundaryInv, Bounded, GateInv,
                          Earned, AcceptedSteps, ReviewSteps, EndSteps, RunSteps,
                          BeforeAgent, verdictVars, reviewVars
      <4>3. QED
        BY <3>3, <4>2, WonInv
    <3>4. QED
      BY <3>1, <3>2, <3>3
  <2>4. ManifestInv'
    BY <1>23 DEF ResumeSandbox, Decide, SetCondition, Return, Results,
      bodyUnchanged, ManifestInv, OrderInv, RunSteps, opVars, verdictVars,
      reviewVars, createVars, worldVars, destroyVars, endVars
  <2>5. QED
    BY <2>1, <2>2, <2>3, <2>4
<1>24. CASE CleanupSkipped
  <2>1. BoundaryInv'
    BY <1>24 DEF CleanupSkipped, CleanupDone, SetCondition, endUnchanged,
      BoundaryInv, Bounded, CondsOK, Conditions, ConditionTypes, BeforeAgent,
      AuditSteps, AcceptedSteps, ReviewSteps, EndSteps, RunSteps, opVars,
      verdictVars, reviewVars, createVars, worldVars, destroyVars, endVars
  <2>2. GateInv'
    BY <1>24 DEF CleanupSkipped, CleanupDone, SetCondition, endUnchanged,
      GateInv, AuditedStates, CondsOK, Conditions, ConditionTypes, BeforeAgent,
      AuditSteps, AcceptedSteps, ReviewSteps, EndSteps, RunSteps, opVars,
      verdictVars, reviewVars, createVars, worldVars, destroyVars, endVars
  <2>3. SuccessInv'
    BY <1>24 DEF CleanupSkipped, CleanupDone, SetCondition, endUnchanged,
      SuccessInv, Earned, BeforeAgent, AuditSteps, AcceptedSteps, ReviewSteps,
      EndSteps, RunSteps, opVars, verdictVars, reviewVars, createVars,
      worldVars, destroyVars, endVars
  <2>4. ManifestInv'
    BY <1>24 DEF CleanupSkipped, CleanupDone, SetCondition, endUnchanged,
      ManifestInv, OrderInv, RunSteps, opVars, verdictVars, reviewVars,
      createVars, worldVars, destroyVars, endVars
  <2>5. QED
    BY <2>1, <2>2, <2>3, <2>4
<1>25. CASE DestroyList
  BY FrameInv2, <1>25 DEF DestroyList, endUnchanged, flowVars, opVars,
      verdictVars, reviewVars, createVars, worldVars, destroyVars, endVars
<1>26. CASE DestroyCalls
  BY FrameInv2, <1>26 DEF DestroyCalls, endUnchanged, flowVars, opVars,
      verdictVars, reviewVars, createVars, worldVars, destroyVars, endVars
<1>27. CASE DestroyVerify
  <2>1. BoundaryInv'
    BY <1>27 DEF DestroyVerify, Remaining, CleanupDone, SetCondition,
      endUnchanged, flowVars, BoundaryInv, Bounded, CondsOK, Conditions,
      ConditionTypes, BeforeAgent, AuditSteps, AcceptedSteps, ReviewSteps,
      EndSteps, RunSteps, opVars, verdictVars, reviewVars, createVars,
      worldVars, destroyVars, endVars
  <2>2. GateInv'
    <3>1. CASE UNCHANGED <<flowVars, cleanup>>
      BY <3>1, <1>27 DEF DestroyVerify, endUnchanged, flowVars, verdictVars, reviewVars,
                        GateInv
    <3>2. CASE Remaining = {} /\ CleanupDone("verified")
      BY <3>2, <1>27 DEF DestroyVerify, CleanupDone, SetCondition, endUnchanged,
                        verdictVars, reviewVars, OrderInv, CondsOK, Conditions,
                        ConditionTypes, BeforeAgent, AuditSteps, AcceptedSteps,
                        ReviewSteps, EndSteps, AuditedStates,
                        GateInv
    <3>3. QED
      BY <3>1, <3>2, <1>27 DEF DestroyVerify
  <2>3. SuccessInv'
    <3>1. CASE UNCHANGED <<flowVars, cleanup>>
      BY <3>1, <1>27 DEF DestroyVerify, endUnchanged, flowVars, verdictVars, reviewVars,
                        SuccessInv, Earned
    <3>2. CASE Remaining = {} /\ CleanupDone("verified")
      <4>1. pc = "cube.destroy" /\ pc' = "finalizing" /\ cleanup' = "verified"
        BY <3>2, <1>27 DEF DestroyVerify, CleanupDone, OrderInv
      <4>2. state' = "SUCCEEDED" => state = "SUCCEEDED" /\ ~collectionFailed
        BY <3>2 DEF CleanupDone
      <4>3. UNCHANGED <<cfg, verdictVars, reviewVars>>
        BY <1>27 DEF DestroyVerify, endUnchanged
      <4>4. state' = "SUCCEEDED" => collectionFailed' = FALSE
        BY <4>2, <4>3 DEF verdictVars, VerdictOK
      <4>5. state' = "SUCCEEDED" => Earned'
        BY <4>1, <4>2, <4>3 DEF SuccessInv, Earned, EndSteps, verdictVars, reviewVars
      <4>6. QED
        BY <4>1, <4>4, <4>5 DEF SuccessInv, AuditSteps, AcceptedSteps, ReviewSteps,
                                EndSteps
    <3>3. QED
      BY <3>1, <3>2, <1>27 DEF DestroyVerify
  <2>4. ManifestInv'
    BY <1>27 DEF DestroyVerify, Remaining, CleanupDone, SetCondition,
      endUnchanged, flowVars, ManifestInv, OrderInv, RunSteps, opVars,
      verdictVars, reviewVars, createVars, worldVars, destroyVars, endVars
  <2>5. QED
    BY <2>1, <2>2, <2>3, <2>4
<1>28. CASE DestroyExhausted
  <2>1. BoundaryInv'
    BY <1>28 DEF DestroyExhausted, CleanupDone, SetCondition, endUnchanged,
      BoundaryInv, Bounded, CondsOK, Conditions, ConditionTypes, BeforeAgent,
      AuditSteps, AcceptedSteps, ReviewSteps, EndSteps, RunSteps, opVars,
      verdictVars, reviewVars, createVars, worldVars, destroyVars, endVars
  <2>2. GateInv'
    BY <1>28 DEF DestroyExhausted, CleanupDone, SetCondition, endUnchanged,
      GateInv, AuditedStates, CondsOK, Conditions, ConditionTypes, BeforeAgent,
      AuditSteps, AcceptedSteps, ReviewSteps, EndSteps, RunSteps, opVars,
      verdictVars, reviewVars, createVars, worldVars, destroyVars, endVars
  <2>3. SuccessInv'
    BY <1>28 DEF DestroyExhausted, CleanupDone, SetCondition, endUnchanged,
      SuccessInv, Earned, BeforeAgent, AuditSteps, AcceptedSteps, ReviewSteps,
      EndSteps, RunSteps, opVars, verdictVars, reviewVars, createVars,
      worldVars, destroyVars, endVars
  <2>4. ManifestInv'
    BY <1>28 DEF DestroyExhausted, CleanupDone, SetCondition, endUnchanged,
      ManifestInv, OrderInv, RunSteps, opVars, verdictVars, reviewVars,
      createVars, worldVars, destroyVars, endVars
  <2>5. QED
    BY <2>1, <2>2, <2>3, <2>4
<1>29. CASE FinalizeResult
  <2>1. BoundaryInv'
    BY <1>29 DEF FinalizeResult, Manifest, SetCondition, BoundaryInv, Bounded,
      CondsOK, Conditions, ConditionTypes, BeforeAgent, AuditSteps,
      AcceptedSteps, ReviewSteps, EndSteps, RunSteps, opVars, verdictVars,
      reviewVars, createVars, worldVars, destroyVars, endVars
  <2>2. GateInv'
    BY <1>29 DEF FinalizeResult, Manifest, SetCondition, GateInv, AuditedStates,
      CondsOK, Conditions, ConditionTypes, BeforeAgent, AuditSteps,
      AcceptedSteps, ReviewSteps, EndSteps, RunSteps, opVars, verdictVars,
      reviewVars, createVars, worldVars, destroyVars, endVars
  <2>3. SuccessInv'
    BY <1>29 DEF FinalizeResult, Manifest, SetCondition, SuccessInv, Earned,
      BeforeAgent, AuditSteps, AcceptedSteps, ReviewSteps, EndSteps, RunSteps,
      opVars, verdictVars, reviewVars, createVars, worldVars, destroyVars,
      endVars
  <2>4. ManifestInv'
    BY <1>29 DEF FinalizeResult, Manifest, SetCondition, ManifestInv, OrderInv,
      CondsOK, Conditions, ConditionTypes, opVars, verdictVars, reviewVars,
      createVars, worldVars, destroyVars, endVars
  <2>5. QED
    BY <2>1, <2>2, <2>3, <2>4
<1>30. CASE RecordChange
  <2>1. BoundaryInv'
    BY <1>30 DEF RecordChange, BoundaryInv, Bounded, CondsOK, Conditions,
      ConditionTypes, BeforeAgent, AuditSteps, AcceptedSteps, ReviewSteps,
      EndSteps, RunSteps, ManifestInv, OrderInv, opVars, verdictVars,
      reviewVars, createVars, worldVars, destroyVars, endVars
  <2>2. GateInv'
    BY <1>30 DEF RecordChange, GateInv, AuditedStates, CondsOK, Conditions,
      ConditionTypes, BeforeAgent, AuditSteps, AcceptedSteps, ReviewSteps,
      EndSteps, RunSteps, ManifestInv, OrderInv, opVars, verdictVars,
      reviewVars, createVars, worldVars, destroyVars, endVars
  <2>3. SuccessInv'
    BY <1>30 DEF RecordChange, SuccessInv, Earned, BeforeAgent, AuditSteps,
      AcceptedSteps, ReviewSteps, EndSteps, RunSteps, ManifestInv, OrderInv,
      opVars, verdictVars, reviewVars, createVars, worldVars, destroyVars,
      endVars
  <2>4. ManifestInv'
    BY <1>30 DEF RecordChange, ManifestInv, Manifest, OrderInv, CondsOK,
      Conditions, ConditionTypes, opVars, verdictVars, reviewVars, createVars,
      worldVars, destroyVars, endVars
  <2>5. QED
    BY <2>1, <2>2, <2>3, <2>4
<1>31. CASE CreateDispatch
  BY FrameInv2, <1>31 DEF CreateDispatch, workflowUnchanged, flowVars, opVars,
      verdictVars, reviewVars, createVars, worldVars, destroyVars, endVars
<1>32. CASE CreateList
  <2>1. BoundaryInv'
    <3>1. \A id \in vms : id # 0
      BY <1>32 DEF RestOK, SandboxIDs
    <3>2. CASE UNCHANGED <<pc, conds, sandboxID>>
      BY <3>2, <1>32 DEF CreateList, BoundaryInv, Bounded, verdictVars
    <3>3. CASE pc = "cube.create" /\ pc' = "sandbox.prepare" /\ sandboxID' # 0
      BY <3>3, <1>32 DEF CreateList, BoundaryInv, Bounded, BeforeAgent, RunSteps, verdictVars
    <3>4. QED
      BY <3>1, <3>2, <3>3, <1>32 DEF CreateList, AttemptFails, AttemptReturns
  <2>2. GateInv'
    BY <1>32 DEF CreateList, RefuseCreate, AttemptFails, AttemptReturns,
      SetCondition, GateInv, AuditedStates, CondsOK, Conditions, ConditionTypes,
      BeforeAgent, AuditSteps, AcceptedSteps, ReviewSteps, EndSteps, RunSteps,
      opVars, verdictVars, reviewVars, createVars, worldVars, destroyVars,
      endVars
  <2>3. SuccessInv'
    BY <1>32 DEF CreateList, RefuseCreate, AttemptFails, AttemptReturns,
      SetCondition, SuccessInv, Earned, BeforeAgent, AuditSteps, AcceptedSteps,
      ReviewSteps, EndSteps, RunSteps, opVars, verdictVars, reviewVars,
      createVars, worldVars, destroyVars, endVars
  <2>4. ManifestInv'
    <3>1. CASE UNCHANGED <<pc, conds, state>>
      BY <3>1, <1>32 DEF CreateList, ManifestInv, Manifest, verdictVars, reviewVars, endVars
    <3>2. CASE pc = "cube.create"
      BY <3>2, <1>32 DEF CreateList, ManifestInv, OrderInv, RunSteps, endVars
    <3>3. QED
      BY <3>1, <3>2, <1>32 DEF CreateList, AttemptFails, AttemptReturns
  <2>5. QED
    BY <2>1, <2>2, <2>3, <2>4
<1>33. CASE CreateCall
  <2>1. BoundaryInv'
    <3>1. createAttempt # 0
      BY <1>33 DEF CreateCall, CreateInv
    <3>2. CASE UNCHANGED <<pc, conds, sandboxID>>
      BY <3>2, <1>33 DEF CreateCall, BoundaryInv, Bounded, verdictVars
    <3>3. CASE pc = "cube.create" /\ pc' = "sandbox.prepare" /\ sandboxID' # 0
      BY <3>3, <1>33 DEF CreateCall, BoundaryInv, Bounded, BeforeAgent, RunSteps, verdictVars
    <3>4. QED
      BY <3>1, <3>2, <3>3, <1>33 DEF CreateCall, AttemptFails, AttemptReturns
  <2>2. GateInv'
    BY <1>33 DEF CreateCall, AttemptFails, AttemptReturns, SetCondition,
      GateInv, AuditedStates, CondsOK, Conditions, ConditionTypes, BeforeAgent,
      AuditSteps, AcceptedSteps, ReviewSteps, EndSteps, RunSteps, opVars,
      verdictVars, reviewVars, createVars, worldVars, destroyVars, endVars
  <2>3. SuccessInv'
    BY <1>33 DEF CreateCall, AttemptFails, AttemptReturns, SetCondition,
      SuccessInv, Earned, BeforeAgent, AuditSteps, AcceptedSteps, ReviewSteps,
      EndSteps, RunSteps, opVars, verdictVars, reviewVars, createVars,
      worldVars, destroyVars, endVars
  <2>4. ManifestInv'
    <3>1. CASE UNCHANGED <<pc, conds, state>>
      BY <3>1, <1>33 DEF CreateCall, ManifestInv, Manifest, verdictVars, reviewVars, endVars
    <3>2. CASE pc = "cube.create"
      BY <3>2, <1>33 DEF CreateCall, ManifestInv, OrderInv, RunSteps, endVars
    <3>3. QED
      BY <3>1, <3>2, <1>33 DEF CreateCall, AttemptFails, AttemptReturns
  <2>5. QED
    BY <2>1, <2>2, <2>3, <2>4
<1>34. CASE ProviderSettles
  BY FrameInv2, <1>34 DEF ProviderSettles, workflowUnchanged, flowVars, opVars,
      verdictVars, reviewVars, createVars, worldVars, destroyVars, endVars
<1>35. CASE Cancel
  BY FrameInv2, <1>35 DEF Cancel, operatorUnchanged, flowVars, opVars,
      verdictVars, reviewVars, createVars, worldVars, destroyVars, endVars
<1>36. CASE TotalTimeout
  BY FrameInv2, <1>36 DEF TotalTimeout, operatorUnchanged, flowVars, opVars,
      verdictVars, reviewVars, createVars, worldVars, destroyVars, endVars
<1>37. CASE \E d \in Decisions : SignalReview(d)
  BY FrameInv2, <1>37 DEF SignalReview, operatorUnchanged, flowVars, opVars,
      verdictVars, reviewVars, createVars, worldVars, destroyVars, endVars
<1>38. CASE UNCHANGED vars
  BY FrameInv2, <1>38 DEF vars, flowVars, opVars, verdictVars, reviewVars,
      createVars, worldVars, destroyVars, endVars
<1>39. QED
  BY <1>1, <1>2, <1>3, <1>4, <1>5, <1>6, <1>7, <1>8, <1>9, <1>10, <1>11, <1>12,
     <1>13, <1>14, <1>15, <1>16, <1>17, <1>18, <1>19, <1>20, <1>21, <1>22,
     <1>23, <1>24, <1>25, <1>26, <1>27, <1>28, <1>29, <1>30, <1>31, <1>32,
     <1>33, <1>34, <1>35, <1>36, <1>37, <1>38
     DEF Next, Factory, RunBody, RunEnd, CreateActivity, Operators

\* vms grows after a verified cleanup only by what was never acknowledged.
LEMMA StepGone == Inv1 /\ WorkSandboxGone /\ [Next]_vars => WorkSandboxGone'
<1> SUFFICES ASSUME Inv1, WorkSandboxGone, [Next]_vars PROVE WorkSandboxGone'  OBVIOUS
<1>1. CASE CreateCall
  BY <1>1 DEF CreateCall, AttemptFails, AttemptReturns, Inv1, CreateInv, OrderInv,
              RunSteps, WorkSandboxGone, worldVars, endVars
<1>2. CASE CreateList
  BY <1>2 DEF CreateList, AttemptFails, AttemptReturns, Inv1, CreateInv, OrderInv,
              RunSteps, WorkSandboxGone, worldVars, endVars
<1>3. CASE ProviderSettles
  BY <1>3 DEF ProviderSettles, workflowUnchanged, Inv1, CreateInv, OrderInv,
              WorkSandboxGone, endVars
<1>4. CASE DestroyCalls
  BY <1>4 DEF DestroyCalls, endUnchanged, WorkSandboxGone
<1>5. CASE DestroyVerify
  BY <1>5 DEF DestroyVerify, Remaining, CleanupDone, endUnchanged, WorkSandboxGone,
              worldVars
<1>6. CASE CleanupSkipped \/ DestroyExhausted
  BY <1>6 DEF CleanupSkipped, DestroyExhausted, CleanupDone, WorkSandboxGone
<1>7. CASE UNCHANGED <<vms, sandboxID, cleanup>>
  BY <1>7 DEF WorkSandboxGone
<1>8. CASE RunBody
  BY <1>7, <1>8
  DEF RunBody, ValidateRequest, AssessIntake, CreateFails, PrepareSandbox,
      PrepareRepository, Provision, WriteInventory, ApplyRuntimeNetwork, AlertEgress,
      CollectAfterEgress, RunAgent, RunAgentError, AuditCollect, CheckGateIntegrity,
      ScanPatch, AlertAndReturn, RunVerification, CollectAfterVerifyError,
      CollectDrift, PreviewSandbox, SuspendSandbox, ReviewSignal, ReviewTimer,
      ResumeSandbox, collectUnchanged, bodyUnchanged, worldVars, endVars
<1>9. CASE DestroyList \/ FinalizeResult \/ RecordChange \/ CreateDispatch
  BY <1>7, <1>9 DEF DestroyList, FinalizeResult, RecordChange, CreateDispatch,
                    endUnchanged, workflowUnchanged, worldVars, endVars
<1>10. CASE Operators \/ UNCHANGED vars
  BY <1>7, <1>10 DEF Operators, Cancel, TotalTimeout, SignalReview,
                     operatorUnchanged, vars, worldVars, endVars
<1>11. QED
  BY <1>1, <1>2, <1>3, <1>4, <1>5, <1>6, <1>8, <1>9, <1>10
     DEF Next, Factory, RunEnd, CreateActivity

LEMMA Invariance == Spec => []Inv
<1>1. Init => Inv
  BY InitInv1, InitInv2 DEF Inv
<1>2. Inv /\ [Next]_vars => Inv'
  BY StepInv1, StepInv2, StepGone DEF Inv
<1>3. QED
  BY <1>1, <1>2, PTL DEF Spec

\* The sandbox a run worked in is gone once its teardown is called verified, and
\* no create that settles late brings it back.
THEOREM WorkSandboxIsGone == Spec => []WorkSandboxGone
<1>1. Inv => WorkSandboxGone
  BY DEF Inv
<1>2. QED
  BY <1>1, Invariance, PTL

\* Untrusted code never runs behind a boundary found violated or not locked down.
THEOREM AgentIsBounded == Spec => []AgentBehindBoundary
<1>1. Inv => AgentBehindBoundary
  BY DEF Inv, Inv2, BoundaryInv, Bounded, AgentBehindBoundary
<1>2. QED
  BY <1>1, Invariance, PTL

\* Every ground of SUCCEEDED that workflow.go states holds when a manifest says it.
THEOREM SuccessEarned == Spec => []SuccessIsEarned
<1>1. Inv => SuccessIsEarned
  BY DEF Inv, Inv2, SuccessInv, Earned, ManifestInv, SuccessIsEarned, EndSteps
<1>2. QED
  BY <1>1, Invariance, PTL

\* No verdict about the agent's change was reached without a clean gate audit.
THEOREM VerdictIsAudited == Spec => []VerdictFollowsAudit
<1>1. Inv => VerdictFollowsAudit
  BY DEF Inv, Inv2, GateInv, AuditedStates, ManifestInv, VerdictFollowsAudit, EndSteps
<1>2. QED
  BY <1>1, Invariance, PTL

\* A modified gate is visible in every manifest written after it was found.
THEOREM TamperShows == Spec => []TamperIsRecorded
<1>1. Inv => TamperIsRecorded
  BY DEF Inv, Inv2, GateInv, ManifestInv, TamperIsRecorded
<1>2. QED
  BY <1>1, Invariance, PTL

\* However often its write is retried, a durable manifest is never replaced by a
\* different one.
THEOREM ManifestStays == Spec => ManifestIsImmutable
<1>1. Inv /\ [Next]_vars => (manifest.result # "NONE" => manifest' = manifest)
  <2> SUFFICES ASSUME Inv, [Next]_vars, manifest.result # "NONE"
               PROVE  manifest' = manifest
    OBVIOUS
  <2>1. pc \in {"finalizing", "recording", "closed", "failed"}
    BY DEF Inv, Inv2, ManifestInv
  <2>2. CASE FinalizeResult
    BY <2>2 DEF Inv, Inv2, ManifestInv, FinalizeResult
  <2>3. CASE RunBody
    BY <2>1, <2>3
    DEF RunBody, ValidateRequest, AssessIntake, CreateFails, PrepareSandbox,
        PrepareRepository, Provision, WriteInventory, ApplyRuntimeNetwork,
        AlertEgress, CollectAfterEgress, RunAgent, RunAgentError, AuditCollect,
        CheckGateIntegrity, ScanPatch, AlertAndReturn, RunVerification,
        CollectAfterVerifyError, CollectDrift, PreviewSandbox, SuspendSandbox,
        ReviewSignal, ReviewTimer, ResumeSandbox
  <2>4. CASE CleanupSkipped \/ DestroyList \/ DestroyCalls \/ DestroyVerify
               \/ DestroyExhausted \/ RecordChange
    BY <2>4 DEF CleanupSkipped, DestroyList, DestroyCalls, DestroyVerify,
                DestroyExhausted, RecordChange, endUnchanged
  <2>5. CASE CreateActivity \/ ProviderSettles \/ Operators \/ UNCHANGED vars
    BY <2>5 DEF CreateActivity, CreateDispatch, CreateList, CreateCall,
                ProviderSettles, Operators, Cancel, TotalTimeout, SignalReview,
                operatorUnchanged, workflowUnchanged, vars, endVars
  <2>6. QED
    BY <2>2, <2>3, <2>4, <2>5 DEF Next, Factory, RunEnd
<1>2. QED
  BY <1>1, Invariance, PTL DEF Spec, ManifestIsImmutable

-----------------------------------------------------------------------------
(***************************************************************************)
(* What a reader takes from the record of a run: the conditions of the     *)
(* manifest agree with its verdict, and three of the states the watcher    *)
(* calls final are.                                                        *)
(*                                                                         *)
(* A condition is set when its step ends and read in the manifest at the   *)
(* end of the run.  Inv3 carries it there: OnPath says which conditions a  *)
(* run has behind it at each step, AtVerdict what SUCCEEDED has, and       *)
(* RecordInv that the manifest repeats them.                               *)
(***************************************************************************)
Alerts == {"tamper.alert", "quarantine.alert", "blocked.alert"}

AfterCreate    == RunSteps \ {"intake.assess", "cube.create"}
AfterPrepare   == AfterCreate \ {"sandbox.prepare"}
AfterRepo      == AfterPrepare \ {"repo.prepare"}
AfterInventory == AfterRepo \ {"inventory.write"}
AfterLockdown  == AfterInventory \ {"network.lockdown", "egress.alert", "egress.collect"}

Done(t) == conds[t] = "True"
NotFalse(t) == conds[t] \in {"True", "Unknown"}

\* The conditions a run has met when it awaits a step.
OnPath ==
  /\ pc \in RunSteps => Done("Validated")
  /\ pc \in AfterCreate => Done("SandboxReady")
  /\ pc \in AfterPrepare => Done("WorkspacePrepared")
  /\ pc \in AfterRepo => Done("RepositoryPrepared")
  /\ pc \in AfterInventory => Done("InventoryWritten")
  /\ pc \in AfterLockdown => NotFalse("EgressVerified")
  /\ (pc \in AuditSteps /\ exitAs = "success") \/ pc \in AcceptedSteps =>
       Done("AgentCompleted") /\ conds["AgentBlocked"] = "False"
  /\ pc \in {"audit.gates", "audit.scan"} \cup AcceptedSteps =>
       Done("ArtifactsCollected") \/ collectionFailed = TRUE
  /\ pc \in {"audit.scan"} \cup AcceptedSteps => Done("GateIntegrity")
  /\ pc \in AcceptedSteps => NotFalse("BehaviorScanned")

Provisioned ==
  /\ Done("Validated") /\ Done("SandboxReady") /\ Done("WorkspacePrepared")
  /\ Done("RepositoryPrepared") /\ Done("InventoryWritten")

Judged ==
  /\ Done("AgentCompleted") /\ Done("GateIntegrity") /\ Done("Verified")
  /\ NotFalse("EgressVerified") /\ NotFalse("BehaviorScanned")
  /\ conds["AgentBlocked"] = "False"
  /\ Done("ArtifactsCollected") \/ collectionFailed = TRUE

\* What the verdict SUCCEEDED has behind it, and cleanup adds.
AtVerdict ==
  /\ pc \in EndSteps /\ state = "SUCCEEDED" => Provisioned /\ Judged
  /\ pc \in EndSteps \ {"cube.destroy"} /\ state = "SUCCEEDED" => Done("CleanupVerified")

\* A run that is over is not shown as live, and its manifest repeats the conditions.
RecordInv ==
  /\ conds["ReviewPaused"] = "True" => pc \in {"review.preview", "review.suspend", "review.wait"}
  /\ pc \in EndSteps \cup Alerts => state \notin {"RUNNING", "PAUSED"}
  /\ pc \in EndSteps \ {"cube.destroy"} => cleanup # "none"
  /\ manifest.result # "NONE" =>
       \A t \in ConditionTypes \ {"EvidenceWritten"} : manifest.conds[t] = conds[t]

\* The states only a verdict sets.
VerdictStates == {"CANCELLED", "INVALID_REQUEST", "VERIFICATION_FAILED"}

WordInv == state \in VerdictStates => pc \in EndSteps

Inv3 == OnPath /\ AtVerdict /\ RecordInv /\ WordInv

\* What the watcher has called final is what the run still says.
WatchInv ==
  /\ watching \in BOOLEAN
  /\ finalState \in VerdictStates => pc \in EndSteps /\ state = finalState
-----------------------------------------------------------------------------
(* Preservation *)

LEMMA InitInv3 == Init => Inv3
<1> SUFFICES ASSUME Init PROVE Inv3  OBVIOUS
<1>1. OnPath
  BY DEF Init, OnPath, Done, NotFalse, AfterCreate, AfterPrepare, AfterRepo, AfterInventory, AfterLockdown, RunSteps, AuditSteps, AcceptedSteps, ReviewSteps
<1>2. AtVerdict /\ WordInv
  BY DEF Init, AtVerdict, WordInv, VerdictStates, EndSteps
<1>3. RecordInv
  BY DEF Init, RecordInv, NoManifest, EndSteps, Alerts, ConditionTypes
<1>4. QED
  BY <1>1, <1>2, <1>3 DEF Inv3

\* Steps that leave the run's own record alone.
LEMMA FrameInv3 ==
  ASSUME Inv3, UNCHANGED <<flowVars, verdictVars, endVars>>
  PROVE  Inv3'
<1>1. OnPath'
  BY DEF Inv3, OnPath, Done, NotFalse, flowVars, verdictVars
<1>2. AtVerdict'
  BY DEF Inv3, AtVerdict, Provisioned, Judged, Done, NotFalse, flowVars, verdictVars
<1>3. RecordInv' /\ WordInv'
  BY DEF Inv3, RecordInv, WordInv, flowVars, endVars
<1>4. QED
  BY <1>1, <1>2, <1>3 DEF Inv3

\* run() goes on to another step ...
LEMMA StepOn ==
  ASSUME pc' \in RunSteps, OnPath', manifest'.result = "NONE", state' \notin VerdictStates,
         pc' \in Alerts => state' \notin {"RUNNING", "PAUSED"},
         conds'["ReviewPaused"] = "True" =>
           pc' \in {"review.preview", "review.suspend", "review.wait"}
  PROVE  Inv3'
  BY DEF Inv3, AtVerdict, RecordInv, WordInv, EndSteps, RunSteps, Alerts

\* ... or returns something other than a success ...
LEMMA Lost3 ==
  ASSUME pc' = "cube.destroy", state' \notin {"SUCCEEDED", "RUNNING", "PAUSED"},
         manifest'.result = "NONE", conds'["ReviewPaused"] # "True"
  PROVE  Inv3'
<1>1. OnPath'
  BY DEF OnPath, Done, NotFalse, AfterCreate, AfterPrepare, AfterRepo, AfterInventory, AfterLockdown, RunSteps, AuditSteps, AcceptedSteps, ReviewSteps
<1>2. AtVerdict' /\ RecordInv' /\ WordInv'
  BY DEF AtVerdict, RecordInv, WordInv, EndSteps, Alerts
<1>3. QED
  BY <1>1, <1>2 DEF Inv3

\* ... or a success with every condition it needs.
LEMMA Won3 ==
  ASSUME pc' = "cube.destroy", state' = "SUCCEEDED", Provisioned', Judged',
         manifest'.result = "NONE", conds'["ReviewPaused"] # "True"
  PROVE  Inv3'
<1>1. OnPath'
  BY DEF OnPath, Done, NotFalse, AfterCreate, AfterPrepare, AfterRepo, AfterInventory, AfterLockdown, RunSteps, AuditSteps, AcceptedSteps, ReviewSteps
<1>2. AtVerdict' /\ RecordInv' /\ WordInv'
  BY DEF AtVerdict, RecordInv, WordInv, EndSteps, Alerts, VerdictStates
<1>3. QED
  BY <1>1, <1>2 DEF Inv3


LEMMA BodyInv3 == Inv1 /\ Inv2 /\ Inv3 /\ RunBody => Inv3'
<1> SUFFICES ASSUME Inv1, Inv2, Inv3, RunBody PROVE Inv3'  OBVIOUS
<1> USE VerdictRange, VerdictNone DEF Inv1, Inv3
<1>1. pc \in {"validate"} \cup RunSteps /\ manifest' = manifest
  BY DEF RunBody, ValidateRequest, AssessIntake, CreateFails, PrepareSandbox,
    PrepareRepository, WriteInventory, ApplyRuntimeNetwork, AlertEgress, CollectAfterEgress,
    RunAgent, RunAgentError, AuditCollect, CheckGateIntegrity, ScanPatch, AlertAndReturn,
    RunVerification, CollectAfterVerifyError, CollectDrift, PreviewSandbox, SuspendSandbox,
    ReviewSignal, ReviewTimer, ResumeSandbox, Provision, collectUnchanged, bodyUnchanged,
    RunSteps, ReviewSteps, endVars
<1>2. manifest'.result = "NONE"
  BY <1>1 DEF OrderInv
<1>3. state \notin VerdictStates
  BY <1>1 DEF WordInv, EndSteps, RunSteps
<1>4. CASE ValidateRequest
  <2>1. CASE pc' # "cube.destroy"
    <3>1. pc' \in RunSteps /\ OnPath'
      BY <1>4, <2>1 DEF ValidateRequest, SetCondition, Return, EnterCreate, Results, OnPath,
        Done, NotFalse, AfterCreate, AfterPrepare, AfterRepo, AfterInventory, AfterLockdown,
        RunSteps, AuditSteps, AcceptedSteps, ReviewSteps, CondsOK, Conditions,
        ConditionTypes, opVars, verdictVars, reviewVars, createVars, worldVars, destroyVars,
        endVars
    <3>2. /\ state' \notin VerdictStates /\ (pc' \in Alerts => state' \notin {"RUNNING", "PAUSED"})
          /\ conds'["ReviewPaused"] = "True" =>
               pc' \in {"review.preview", "review.suspend", "review.wait"}
      BY <1>4, <2>1, <1>3 DEF ValidateRequest, SetCondition, Return, EnterCreate, Results,
        VerdictStates, Alerts, RecordInv, RunSteps, CondsOK, Conditions, ConditionTypes,
        opVars, verdictVars, reviewVars, createVars, worldVars, destroyVars, endVars
    <3>3. QED
      BY <1>2, <3>1, <3>2, StepOn
  <2>2. CASE pc' = "cube.destroy"
    <3>1. state' \notin {"SUCCEEDED", "RUNNING", "PAUSED"} /\ conds'["ReviewPaused"] # "True"
      BY <1>4, <2>2 DEF ValidateRequest, SetCondition, Return, EnterCreate, Results,
        RecordInv, EndSteps, Alerts, CondsOK, Conditions, ConditionTypes, opVars,
        verdictVars, reviewVars, createVars, worldVars, destroyVars, endVars
    <3>2. QED
      BY <1>2, <2>2, <3>1, Lost3
  <2>3. QED
    BY <1>4, <2>1, <2>2
<1>5. CASE AssessIntake
  <2>1. pc' \in RunSteps /\ OnPath'
    BY <1>5 DEF AssessIntake, EnterCreate, OnPath, Done, NotFalse, AfterCreate,
      AfterPrepare, AfterRepo, AfterInventory, AfterLockdown, RunSteps, AuditSteps,
      AcceptedSteps, ReviewSteps, CondsOK, Conditions, ConditionTypes, opVars, verdictVars,
      reviewVars, createVars, worldVars, destroyVars, endVars
  <2>2. /\ state' \notin VerdictStates /\ (pc' \in Alerts => state' \notin {"RUNNING", "PAUSED"})
        /\ conds'["ReviewPaused"] = "True" =>
             pc' \in {"review.preview", "review.suspend", "review.wait"}
    BY <1>5, <1>3 DEF AssessIntake, EnterCreate, VerdictStates, Alerts, RecordInv, RunSteps,
      CondsOK, Conditions, ConditionTypes, opVars, verdictVars, reviewVars, createVars,
      worldVars, destroyVars, endVars
  <2>3. QED
    BY <1>2, <2>1, <2>2, StepOn
<1>6. CASE CreateFails
  <2>1. /\ pc' = "cube.destroy"
        /\ state' \in {"INFRASTRUCTURE_FAILED", "CANCELLED"}
    BY <1>6 DEF CreateFails, Return
  <2>2. conds'["ReviewPaused"] # "True"
    BY <1>6 DEF CreateFails, SetCondition, RecordInv, CondsOK, Conditions, ConditionTypes
  <2>3. QED
    BY <1>2, <2>1, <2>2, Lost3
<1>7. CASE PrepareSandbox
  <2>1. CASE pc' # "cube.destroy"
    <3>1. pc' \in RunSteps /\ OnPath'
      BY <1>7, <2>1 DEF PrepareSandbox, Provision, SetCondition, Goto, Return, Results,
        bodyUnchanged, OnPath, Done, NotFalse, AfterCreate, AfterPrepare, AfterRepo,
        AfterInventory, AfterLockdown, RunSteps, AuditSteps, AcceptedSteps, ReviewSteps,
        CondsOK, Conditions, ConditionTypes, opVars, verdictVars, reviewVars, createVars,
        worldVars, destroyVars, endVars
    <3>2. /\ state' \notin VerdictStates /\ (pc' \in Alerts => state' \notin {"RUNNING", "PAUSED"})
          /\ conds'["ReviewPaused"] = "True" =>
               pc' \in {"review.preview", "review.suspend", "review.wait"}
      BY <1>7, <2>1, <1>3 DEF PrepareSandbox, Provision, SetCondition, Goto, Return,
        Results, bodyUnchanged, VerdictStates, Alerts, RecordInv, RunSteps, CondsOK,
        Conditions, ConditionTypes, opVars, verdictVars, reviewVars, createVars, worldVars,
        destroyVars, endVars
    <3>3. QED
      BY <1>2, <3>1, <3>2, StepOn
  <2>2. CASE pc' = "cube.destroy"
    <3>1. state' \notin {"SUCCEEDED", "RUNNING", "PAUSED"} /\ conds'["ReviewPaused"] # "True"
      BY <1>7, <2>2 DEF PrepareSandbox, Provision, SetCondition, Goto, Return, Results,
        bodyUnchanged, RecordInv, EndSteps, Alerts, CondsOK, Conditions, ConditionTypes,
        opVars, verdictVars, reviewVars, createVars, worldVars, destroyVars, endVars
    <3>2. QED
      BY <1>2, <2>2, <3>1, Lost3
  <2>3. QED
    BY <1>7, <2>1, <2>2
<1>8. CASE PrepareRepository
  <2>1. CASE pc' # "cube.destroy"
    <3>1. pc' \in RunSteps /\ OnPath'
      BY <1>8, <2>1 DEF PrepareRepository, Provision, SetCondition, Goto, Return, Results,
        bodyUnchanged, OnPath, Done, NotFalse, AfterCreate, AfterPrepare, AfterRepo,
        AfterInventory, AfterLockdown, RunSteps, AuditSteps, AcceptedSteps, ReviewSteps,
        CondsOK, Conditions, ConditionTypes, opVars, verdictVars, reviewVars, createVars,
        worldVars, destroyVars, endVars
    <3>2. /\ state' \notin VerdictStates /\ (pc' \in Alerts => state' \notin {"RUNNING", "PAUSED"})
          /\ conds'["ReviewPaused"] = "True" =>
               pc' \in {"review.preview", "review.suspend", "review.wait"}
      BY <1>8, <2>1, <1>3 DEF PrepareRepository, Provision, SetCondition, Goto, Return,
        Results, bodyUnchanged, VerdictStates, Alerts, RecordInv, RunSteps, CondsOK,
        Conditions, ConditionTypes, opVars, verdictVars, reviewVars, createVars, worldVars,
        destroyVars, endVars
    <3>3. QED
      BY <1>2, <3>1, <3>2, StepOn
  <2>2. CASE pc' = "cube.destroy"
    <3>1. state' \notin {"SUCCEEDED", "RUNNING", "PAUSED"} /\ conds'["ReviewPaused"] # "True"
      BY <1>8, <2>2 DEF PrepareRepository, Provision, SetCondition, Goto, Return, Results,
        bodyUnchanged, RecordInv, EndSteps, Alerts, CondsOK, Conditions, ConditionTypes,
        opVars, verdictVars, reviewVars, createVars, worldVars, destroyVars, endVars
    <3>2. QED
      BY <1>2, <2>2, <3>1, Lost3
  <2>3. QED
    BY <1>8, <2>1, <2>2
<1>9. CASE WriteInventory
  <2>1. CASE pc' # "cube.destroy"
    <3>1. pc' \in RunSteps /\ OnPath'
      BY <1>9, <2>1 DEF WriteInventory, SetCondition, Goto, Return, Results, bodyUnchanged,
        OnPath, Done, NotFalse, AfterCreate, AfterPrepare, AfterRepo, AfterInventory,
        AfterLockdown, RunSteps, AuditSteps, AcceptedSteps, ReviewSteps, CondsOK,
        Conditions, ConditionTypes, opVars, verdictVars, reviewVars, createVars, worldVars,
        destroyVars, endVars
    <3>2. /\ state' \notin VerdictStates /\ (pc' \in Alerts => state' \notin {"RUNNING", "PAUSED"})
          /\ conds'["ReviewPaused"] = "True" =>
               pc' \in {"review.preview", "review.suspend", "review.wait"}
      BY <1>9, <2>1, <1>3 DEF WriteInventory, SetCondition, Goto, Return, Results,
        bodyUnchanged, VerdictStates, Alerts, RecordInv, RunSteps, CondsOK, Conditions,
        ConditionTypes, opVars, verdictVars, reviewVars, createVars, worldVars, destroyVars,
        endVars
    <3>3. QED
      BY <1>2, <3>1, <3>2, StepOn
  <2>2. CASE pc' = "cube.destroy"
    <3>1. state' \notin {"SUCCEEDED", "RUNNING", "PAUSED"} /\ conds'["ReviewPaused"] # "True"
      BY <1>9, <2>2 DEF WriteInventory, SetCondition, Goto, Return, Results, bodyUnchanged,
        RecordInv, EndSteps, Alerts, CondsOK, Conditions, ConditionTypes, opVars,
        verdictVars, reviewVars, createVars, worldVars, destroyVars, endVars
    <3>2. QED
      BY <1>2, <2>2, <3>1, Lost3
  <2>3. QED
    BY <1>9, <2>1, <2>2
<1>10. CASE ApplyRuntimeNetwork
  <2>1. pc' \in RunSteps /\ OnPath'
    BY <1>10 DEF ApplyRuntimeNetwork, SetCondition, Goto, EgressCondition, Results,
      bodyUnchanged, OnPath, Done, NotFalse, AfterCreate, AfterPrepare, AfterRepo,
      AfterInventory, AfterLockdown, RunSteps, AuditSteps, AcceptedSteps, ReviewSteps,
      CondsOK, Conditions, ConditionTypes, opVars, verdictVars, reviewVars, createVars,
      worldVars, destroyVars, endVars
  <2>2. /\ state' \notin VerdictStates /\ (pc' \in Alerts => state' \notin {"RUNNING", "PAUSED"})
        /\ conds'["ReviewPaused"] = "True" =>
             pc' \in {"review.preview", "review.suspend", "review.wait"}
    BY <1>10, <1>3 DEF ApplyRuntimeNetwork, SetCondition, Goto, EgressCondition, Results,
      bodyUnchanged, VerdictStates, Alerts, RecordInv, RunSteps, CondsOK, Conditions,
      ConditionTypes, opVars, verdictVars, reviewVars, createVars, worldVars, destroyVars,
      endVars
  <2>3. QED
    BY <1>2, <2>1, <2>2, StepOn
<1>11. CASE AlertEgress
  <2>1. pc' \in RunSteps /\ OnPath'
    BY <1>11 DEF AlertEgress, Goto, bodyUnchanged, OnPath, Done, NotFalse, AfterCreate,
      AfterPrepare, AfterRepo, AfterInventory, AfterLockdown, RunSteps, AuditSteps,
      AcceptedSteps, ReviewSteps, CondsOK, Conditions, ConditionTypes, opVars, verdictVars,
      reviewVars, createVars, worldVars, destroyVars, endVars
  <2>2. /\ state' \notin VerdictStates /\ (pc' \in Alerts => state' \notin {"RUNNING", "PAUSED"})
        /\ conds'["ReviewPaused"] = "True" =>
             pc' \in {"review.preview", "review.suspend", "review.wait"}
    BY <1>11, <1>3 DEF AlertEgress, Goto, bodyUnchanged, VerdictStates, Alerts, RecordInv,
      RunSteps, CondsOK, Conditions, ConditionTypes, opVars, verdictVars, reviewVars,
      createVars, worldVars, destroyVars, endVars
  <2>3. QED
    BY <1>2, <2>1, <2>2, StepOn
<1>12. CASE CollectAfterEgress
  <2>1. /\ pc' = "cube.destroy" /\ state' \notin {"SUCCEEDED", "RUNNING", "PAUSED"}
        /\ conds'["ReviewPaused"] # "True"
    BY <1>12, <1>3 DEF CollectAfterEgress, Collected, SetCondition, Return,
      collectUnchanged, bodyUnchanged, RecordInv, EndSteps, Alerts, Inv2, SuccessInv,
      GateInv, CondsOK, Conditions, ConditionTypes, opVars, verdictVars, reviewVars,
      createVars, worldVars, destroyVars, endVars
  <2>2. QED
    BY <1>2, <2>1, Lost3
<1>13. CASE RunAgent
  <2>1. pc' \in RunSteps /\ OnPath'
    BY <1>13 DEF RunAgent, Goto, bodyUnchanged, OnPath, Done, NotFalse, AfterCreate,
      AfterPrepare, AfterRepo, AfterInventory, AfterLockdown, RunSteps, AuditSteps,
      AcceptedSteps, ReviewSteps, CondsOK, Conditions, ConditionTypes, opVars, verdictVars,
      reviewVars, createVars, worldVars, destroyVars, endVars
  <2>2. /\ state' \notin VerdictStates /\ (pc' \in Alerts => state' \notin {"RUNNING", "PAUSED"})
        /\ conds'["ReviewPaused"] = "True" =>
             pc' \in {"review.preview", "review.suspend", "review.wait"}
    BY <1>13, <1>3 DEF RunAgent, Goto, bodyUnchanged, VerdictStates, Alerts, RecordInv,
      RunSteps, CondsOK, Conditions, ConditionTypes, opVars, verdictVars, reviewVars,
      createVars, worldVars, destroyVars, endVars
  <2>3. QED
    BY <1>2, <2>1, <2>2, StepOn
<1>14. CASE RunAgentError
  <2>1. CASE pc' # "cube.destroy"
    <3>1. pc' \in RunSteps /\ OnPath'
      BY <1>14, <2>1 DEF RunAgentError, SetCondition, Return, Results, bodyUnchanged,
        OnPath, Done, NotFalse, AfterCreate, AfterPrepare, AfterRepo, AfterInventory,
        AfterLockdown, RunSteps, AuditSteps, AcceptedSteps, ReviewSteps, CondsOK,
        Conditions, ConditionTypes, opVars, verdictVars, reviewVars, createVars, worldVars,
        destroyVars, endVars
    <3>2. /\ state' \notin VerdictStates /\ (pc' \in Alerts => state' \notin {"RUNNING", "PAUSED"})
          /\ conds'["ReviewPaused"] = "True" =>
               pc' \in {"review.preview", "review.suspend", "review.wait"}
      BY <1>14, <2>1, <1>3 DEF RunAgentError, SetCondition, Return, Results, bodyUnchanged,
        VerdictStates, Alerts, RecordInv, RunSteps, CondsOK, Conditions, ConditionTypes,
        opVars, verdictVars, reviewVars, createVars, worldVars, destroyVars, endVars
    <3>3. QED
      BY <1>2, <3>1, <3>2, StepOn
  <2>2. CASE pc' = "cube.destroy"
    <3>1. state' \notin {"SUCCEEDED", "RUNNING", "PAUSED"} /\ conds'["ReviewPaused"] # "True"
      BY <1>14, <2>2 DEF RunAgentError, SetCondition, Return, Results, bodyUnchanged,
        RecordInv, EndSteps, Alerts, CondsOK, Conditions, ConditionTypes, opVars,
        verdictVars, reviewVars, createVars, worldVars, destroyVars, endVars
    <3>2. QED
      BY <1>2, <2>2, <3>1, Lost3
  <2>3. QED
    BY <1>14, <2>1, <2>2
<1>15. CASE AuditCollect
  <2>1. pc' \in RunSteps /\ OnPath'
    BY <1>15 DEF AuditCollect, Collected, SetCondition, Goto, collectUnchanged,
      bodyUnchanged, OnPath, Done, NotFalse, AfterCreate, AfterPrepare, AfterRepo,
      AfterInventory, AfterLockdown, RunSteps, AuditSteps, AcceptedSteps, ReviewSteps,
      CondsOK, Conditions, ConditionTypes, opVars, verdictVars, reviewVars, createVars,
      worldVars, destroyVars, endVars
  <2>2. /\ state' \notin VerdictStates /\ (pc' \in Alerts => state' \notin {"RUNNING", "PAUSED"})
        /\ conds'["ReviewPaused"] = "True" =>
             pc' \in {"review.preview", "review.suspend", "review.wait"}
    BY <1>15, <1>3 DEF AuditCollect, Collected, SetCondition, Goto, collectUnchanged,
      bodyUnchanged, VerdictStates, Alerts, RecordInv, RunSteps, CondsOK, Conditions,
      ConditionTypes, opVars, verdictVars, reviewVars, createVars, worldVars, destroyVars,
      endVars
  <2>3. QED
    BY <1>2, <2>1, <2>2, StepOn
<1>16. CASE CheckGateIntegrity
  <2>1. CASE pc' # "cube.destroy"
    <3>1. pc' \in RunSteps /\ OnPath'
      BY <1>16, <2>1 DEF CheckGateIntegrity, SetCondition, Goto, Return, Results,
        bodyUnchanged, OnPath, Done, NotFalse, AfterCreate, AfterPrepare, AfterRepo,
        AfterInventory, AfterLockdown, RunSteps, AuditSteps, AcceptedSteps, ReviewSteps,
        CondsOK, Conditions, ConditionTypes, opVars, verdictVars, reviewVars, createVars,
        worldVars, destroyVars, endVars
    <3>2. /\ state' \notin VerdictStates /\ (pc' \in Alerts => state' \notin {"RUNNING", "PAUSED"})
          /\ conds'["ReviewPaused"] = "True" =>
               pc' \in {"review.preview", "review.suspend", "review.wait"}
      BY <1>16, <2>1, <1>3 DEF CheckGateIntegrity, SetCondition, Goto, Return, Results,
        bodyUnchanged, VerdictStates, Alerts, RecordInv, RunSteps, CondsOK, Conditions,
        ConditionTypes, opVars, verdictVars, reviewVars, createVars, worldVars, destroyVars,
        endVars
    <3>3. QED
      BY <1>2, <3>1, <3>2, StepOn
  <2>2. CASE pc' = "cube.destroy"
    <3>1. state' \notin {"SUCCEEDED", "RUNNING", "PAUSED"} /\ conds'["ReviewPaused"] # "True"
      BY <1>16, <2>2 DEF CheckGateIntegrity, SetCondition, Goto, Return, Results,
        bodyUnchanged, RecordInv, EndSteps, Alerts, CondsOK, Conditions, ConditionTypes,
        opVars, verdictVars, reviewVars, createVars, worldVars, destroyVars, endVars
    <3>2. QED
      BY <1>2, <2>2, <3>1, Lost3
  <2>3. QED
    BY <1>16, <2>1, <2>2
<1>17. CASE ScanPatch
  <2>1. CASE pc' # "cube.destroy"
    <3>1. pc' \in RunSteps /\ OnPath'
      BY <1>17, <2>1 DEF ScanPatch, AfterScan, Goto, Return, bodyUnchanged, OnPath, Done,
        NotFalse, AfterCreate, AfterPrepare, AfterRepo, AfterInventory, AfterLockdown,
        RunSteps, AuditSteps, AcceptedSteps, ReviewSteps, CondsOK, Conditions,
        ConditionTypes, opVars, verdictVars, reviewVars, createVars, worldVars, destroyVars,
        endVars
    <3>2. /\ state' \notin VerdictStates /\ (pc' \in Alerts => state' \notin {"RUNNING", "PAUSED"})
          /\ conds'["ReviewPaused"] = "True" =>
               pc' \in {"review.preview", "review.suspend", "review.wait"}
      BY <1>17, <2>1, <1>3 DEF ScanPatch, AfterScan, Goto, Return, bodyUnchanged,
        VerdictStates, Alerts, RecordInv, RunSteps, CondsOK, Conditions, ConditionTypes,
        opVars, verdictVars, reviewVars, createVars, worldVars, destroyVars, endVars
    <3>3. QED
      BY <1>2, <3>1, <3>2, StepOn
  <2>2. CASE pc' = "cube.destroy"
    <3>1. state' \notin {"SUCCEEDED", "RUNNING", "PAUSED"} /\ conds'["ReviewPaused"] # "True"
      BY <1>17, <2>2 DEF ScanPatch, AfterScan, Goto, Return, bodyUnchanged, RecordInv,
        EndSteps, Alerts, CondsOK, Conditions, ConditionTypes, opVars, verdictVars,
        reviewVars, createVars, worldVars, destroyVars, endVars
    <3>2. QED
      BY <1>2, <2>2, <3>1, Lost3
  <2>3. QED
    BY <1>17, <2>1, <2>2
<1>18. CASE AlertAndReturn
  <2>1. /\ pc' = "cube.destroy" /\ state' \notin {"SUCCEEDED", "RUNNING", "PAUSED"}
        /\ conds'["ReviewPaused"] # "True"
    BY <1>18, <1>3 DEF AlertAndReturn, Return, bodyUnchanged, RecordInv, EndSteps, Alerts,
      Inv2, SuccessInv, GateInv, CondsOK, Conditions, ConditionTypes, opVars, verdictVars,
      reviewVars, createVars, worldVars, destroyVars, endVars
  <2>2. QED
    BY <1>2, <2>1, Lost3
<1>19. CASE RunVerification
  <2>1. pc' \in RunSteps /\ OnPath'
    BY <1>19 DEF RunVerification, Goto, Results, bodyUnchanged, OnPath, Done, NotFalse,
      AfterCreate, AfterPrepare, AfterRepo, AfterInventory, AfterLockdown, RunSteps,
      AuditSteps, AcceptedSteps, ReviewSteps, CondsOK, Conditions, ConditionTypes, opVars,
      verdictVars, reviewVars, createVars, worldVars, destroyVars, endVars
  <2>2. /\ state' \notin VerdictStates /\ (pc' \in Alerts => state' \notin {"RUNNING", "PAUSED"})
        /\ conds'["ReviewPaused"] = "True" =>
             pc' \in {"review.preview", "review.suspend", "review.wait"}
    BY <1>19, <1>3 DEF RunVerification, Goto, Results, bodyUnchanged, VerdictStates, Alerts,
      RecordInv, RunSteps, CondsOK, Conditions, ConditionTypes, opVars, verdictVars,
      reviewVars, createVars, worldVars, destroyVars, endVars
  <2>3. QED
    BY <1>2, <2>1, <2>2, StepOn
<1>20. CASE CollectAfterVerifyError
  <2>1. /\ pc' = "cube.destroy" /\ state' \notin {"SUCCEEDED", "RUNNING", "PAUSED"}
        /\ conds'["ReviewPaused"] # "True"
    BY <1>20, <1>3 DEF CollectAfterVerifyError, Collected, SetCondition, Return,
      collectUnchanged, bodyUnchanged, RecordInv, EndSteps, Alerts, Inv2, SuccessInv,
      GateInv, CondsOK, Conditions, ConditionTypes, opVars, verdictVars, reviewVars,
      createVars, worldVars, destroyVars, endVars
  <2>2. QED
    BY <1>2, <2>1, Lost3
<1>21. CASE CollectDrift
  <2>1. PICK e \in Results :
          /\ collectionFailed' = (collectionFailed \/ e # "ok")
          /\ LET after == IF e # "ok" THEN conds
                          ELSE [conds EXCEPT !["ArtifactsCollected"] = "True"]
             IN  IF "review" \in cfg
                   THEN /\ conds' = [after EXCEPT !["ReviewPaused"] = "True"]
                        /\ state' = "PAUSED"
                        /\ pc' = "review.preview"
                        /\ UNCHANGED retErr
                   ELSE Decide(after, "")
    BY <1>21 DEF CollectDrift
  <2> DEFINE after == IF e # "ok" THEN conds ELSE [conds EXCEPT !["ArtifactsCollected"] = "True"]
  <2>2. /\ after \in Conditions
        /\ \A t \in ConditionTypes \ {"ArtifactsCollected"} : after[t] = conds[t]
        /\ after["ArtifactsCollected"] = "True" \/ collectionFailed' = TRUE
    BY <2>1 DEF CondsOK, Conditions, ConditionTypes, ConditionStatus, VerdictOK
  <2>3. CASE "review" \in cfg
    <3>1. /\ conds' = [after EXCEPT !["ReviewPaused"] = "True"] /\ state' = "PAUSED"
          /\ pc' = "review.preview"
      BY <2>1, <2>3
    <3> HIDE DEF after
    <3>2. /\ \A t \in ConditionTypes \ {"ArtifactsCollected", "ReviewPaused"} : conds'[t] = conds[t]
          /\ conds'["ArtifactsCollected"] = "True" \/ collectionFailed' = TRUE
      BY <2>2, <3>1 DEF Conditions, ConditionTypes
    <3>3. pc = "verify.drift"
      BY <1>21 DEF CollectDrift
    <3>4. OnPath'
      BY <3>1, <3>2, <3>3 DEF OnPath, Done, NotFalse, AfterCreate, AfterPrepare, AfterRepo,
        AfterInventory, AfterLockdown, RunSteps, AuditSteps, AcceptedSteps, ReviewSteps,
        ConditionTypes
    <3>5. QED
      BY <1>2, <3>1, <3>4, StepOn DEF RunSteps, VerdictStates, Alerts
  <2>4. CASE "review" \notin cfg
    <3>1. Decide(after, "") /\ pc = "verify.drift"
      BY <1>21, <2>1, <2>4 DEF CollectDrift
    <3> HIDE DEF after
    <3>2. /\ \A t \in ConditionTypes \ {"ArtifactsCollected", "Verified"} : conds'[t] = conds[t]
          /\ conds'["ArtifactsCollected"] = "True" \/ collectionFailed' = TRUE
          /\ verifyOutcome = "SUCCESS" => conds'["Verified"] = "True"
      BY <2>2, <3>1 DEF Decide, Conditions, ConditionTypes
    <3>3. conds'["ReviewPaused"] # "True"
      BY <3>1, <3>2 DEF RecordInv, ConditionTypes
    <3>4. /\ pc' = "cube.destroy" /\ state' \notin {"RUNNING", "PAUSED"}
          /\ state' = "SUCCEEDED" => verifyOutcome = "SUCCESS"
      BY <3>1 DEF Decide, Return
    <3>5. state' = "SUCCEEDED" => Provisioned' /\ Judged'
      BY <3>1, <3>2, <3>4 DEF Provisioned, Judged, OnPath, Done, NotFalse, AfterCreate,
        AfterPrepare, AfterRepo, AfterInventory, AfterLockdown, RunSteps, AuditSteps,
        AcceptedSteps, ReviewSteps, ConditionTypes
    <3>6. QED
      BY <1>2, <3>3, <3>4, <3>5, Lost3, Won3
  <2>5. QED
    BY <2>3, <2>4
<1>22. CASE PreviewSandbox
  <2>1. pc' \in RunSteps /\ OnPath'
    BY <1>22 DEF PreviewSandbox, Goto, bodyUnchanged, OnPath, Done, NotFalse, AfterCreate,
      AfterPrepare, AfterRepo, AfterInventory, AfterLockdown, RunSteps, AuditSteps,
      AcceptedSteps, ReviewSteps, CondsOK, Conditions, ConditionTypes, opVars, verdictVars,
      reviewVars, createVars, worldVars, destroyVars, endVars
  <2>2. /\ state' \notin VerdictStates /\ (pc' \in Alerts => state' \notin {"RUNNING", "PAUSED"})
        /\ conds'["ReviewPaused"] = "True" =>
             pc' \in {"review.preview", "review.suspend", "review.wait"}
    BY <1>22, <1>3 DEF PreviewSandbox, Goto, bodyUnchanged, VerdictStates, Alerts,
      RecordInv, RunSteps, CondsOK, Conditions, ConditionTypes, opVars, verdictVars,
      reviewVars, createVars, worldVars, destroyVars, endVars
  <2>3. QED
    BY <1>2, <2>1, <2>2, StepOn
<1>23. CASE SuspendSandbox
  <2>1. pc' \in RunSteps /\ OnPath'
    BY <1>23 DEF SuspendSandbox, Goto, bodyUnchanged, OnPath, Done, NotFalse, AfterCreate,
      AfterPrepare, AfterRepo, AfterInventory, AfterLockdown, RunSteps, AuditSteps,
      AcceptedSteps, ReviewSteps, CondsOK, Conditions, ConditionTypes, opVars, verdictVars,
      reviewVars, createVars, worldVars, destroyVars, endVars
  <2>2. /\ state' \notin VerdictStates /\ (pc' \in Alerts => state' \notin {"RUNNING", "PAUSED"})
        /\ conds'["ReviewPaused"] = "True" =>
             pc' \in {"review.preview", "review.suspend", "review.wait"}
    BY <1>23, <1>3 DEF SuspendSandbox, Goto, bodyUnchanged, VerdictStates, Alerts,
      RecordInv, RunSteps, CondsOK, Conditions, ConditionTypes, opVars, verdictVars,
      reviewVars, createVars, worldVars, destroyVars, endVars
  <2>3. QED
    BY <1>2, <2>1, <2>2, StepOn
<1>24. CASE ReviewSignal
  <2>1. CASE pc' # "cube.destroy"
    <3>1. pc' \in RunSteps /\ OnPath'
      BY <1>24, <2>1 DEF ReviewSignal, GateCloses, Decide, Goto, Return, OnPath, Done,
        NotFalse, AfterCreate, AfterPrepare, AfterRepo, AfterInventory, AfterLockdown,
        RunSteps, AuditSteps, AcceptedSteps, ReviewSteps, CondsOK, Conditions,
        ConditionTypes, opVars, verdictVars, reviewVars, createVars, worldVars, destroyVars,
        endVars
    <3>2. /\ state' \notin VerdictStates /\ (pc' \in Alerts => state' \notin {"RUNNING", "PAUSED"})
          /\ conds'["ReviewPaused"] = "True" =>
               pc' \in {"review.preview", "review.suspend", "review.wait"}
      BY <1>24, <2>1, <1>3 DEF ReviewSignal, GateCloses, Decide, Goto, Return,
        VerdictStates, Alerts, RecordInv, RunSteps, CondsOK, Conditions, ConditionTypes,
        opVars, verdictVars, reviewVars, createVars, worldVars, destroyVars, endVars
    <3>3. QED
      BY <1>2, <3>1, <3>2, StepOn
  <2>2. CASE pc' = "cube.destroy" /\ state' # "SUCCEEDED"
    <3>1. state' \notin {"SUCCEEDED", "RUNNING", "PAUSED"} /\ conds'["ReviewPaused"] # "True"
      BY <1>24, <2>2 DEF ReviewSignal, GateCloses, Decide, Goto, Return, RecordInv,
        EndSteps, Alerts, CondsOK, Conditions, ConditionTypes, opVars, verdictVars,
        reviewVars, createVars, worldVars, destroyVars, endVars
    <3>2. QED
      BY <1>2, <2>2, <3>1, Lost3
  <2>3. CASE pc' = "cube.destroy" /\ state' = "SUCCEEDED"
    <3>1. Provisioned' /\ Judged' /\ conds'["ReviewPaused"] # "True"
      BY <1>24, <2>3 DEF ReviewSignal, GateCloses, Decide, Goto, Return, Provisioned,
        Judged, RecordInv, OnPath, Done, NotFalse, AfterCreate, AfterPrepare, AfterRepo,
        AfterInventory, AfterLockdown, RunSteps, AuditSteps, AcceptedSteps, ReviewSteps,
        CondsOK, Conditions, ConditionTypes, opVars, verdictVars, reviewVars, createVars,
        worldVars, destroyVars, endVars
    <3>2. QED
      BY <1>2, <2>3, <3>1, Won3
  <2>4. QED
    BY <1>24, <2>1, <2>2, <2>3
<1>25. CASE ReviewTimer
  <2>1. CASE pc' # "cube.destroy"
    <3>1. pc' \in RunSteps /\ OnPath'
      BY <1>25, <2>1 DEF ReviewTimer, GateCloses, Decide, Goto, Return, bodyUnchanged,
        OnPath, Done, NotFalse, AfterCreate, AfterPrepare, AfterRepo, AfterInventory,
        AfterLockdown, RunSteps, AuditSteps, AcceptedSteps, ReviewSteps, CondsOK,
        Conditions, ConditionTypes, opVars, verdictVars, reviewVars, createVars, worldVars,
        destroyVars, endVars
    <3>2. /\ state' \notin VerdictStates /\ (pc' \in Alerts => state' \notin {"RUNNING", "PAUSED"})
          /\ conds'["ReviewPaused"] = "True" =>
               pc' \in {"review.preview", "review.suspend", "review.wait"}
      BY <1>25, <2>1, <1>3 DEF ReviewTimer, GateCloses, Decide, Goto, Return, bodyUnchanged,
        VerdictStates, Alerts, RecordInv, RunSteps, CondsOK, Conditions, ConditionTypes,
        opVars, verdictVars, reviewVars, createVars, worldVars, destroyVars, endVars
    <3>3. QED
      BY <1>2, <3>1, <3>2, StepOn
  <2>2. CASE pc' = "cube.destroy" /\ state' # "SUCCEEDED"
    <3>1. state' \notin {"SUCCEEDED", "RUNNING", "PAUSED"} /\ conds'["ReviewPaused"] # "True"
      BY <1>25, <2>2 DEF ReviewTimer, GateCloses, Decide, Goto, Return, bodyUnchanged,
        RecordInv, EndSteps, Alerts, CondsOK, Conditions, ConditionTypes, opVars,
        verdictVars, reviewVars, createVars, worldVars, destroyVars, endVars
    <3>2. QED
      BY <1>2, <2>2, <3>1, Lost3
  <2>3. CASE pc' = "cube.destroy" /\ state' = "SUCCEEDED"
    <3>1. Provisioned' /\ Judged' /\ conds'["ReviewPaused"] # "True"
      BY <1>25, <2>3 DEF ReviewTimer, GateCloses, Decide, Goto, Return, bodyUnchanged,
        Provisioned, Judged, RecordInv, OnPath, Done, NotFalse, AfterCreate, AfterPrepare,
        AfterRepo, AfterInventory, AfterLockdown, RunSteps, AuditSteps, AcceptedSteps,
        ReviewSteps, CondsOK, Conditions, ConditionTypes, opVars, verdictVars, reviewVars,
        createVars, worldVars, destroyVars, endVars
    <3>2. QED
      BY <1>2, <2>3, <3>1, Won3
  <2>4. QED
    BY <1>25, <2>1, <2>2, <2>3
<1>26. CASE ResumeSandbox
  <2>1. CASE pc' = "cube.destroy" /\ state' # "SUCCEEDED"
    <3>1. state' \notin {"SUCCEEDED", "RUNNING", "PAUSED"} /\ conds'["ReviewPaused"] # "True"
      BY <1>26, <2>1 DEF ResumeSandbox, Decide, SetCondition, Return, Results,
        bodyUnchanged, RecordInv, EndSteps, Alerts, CondsOK, Conditions, ConditionTypes,
        opVars, verdictVars, reviewVars, createVars, worldVars, destroyVars, endVars
    <3>2. QED
      BY <1>2, <2>1, <3>1, Lost3
  <2>2. CASE pc' = "cube.destroy" /\ state' = "SUCCEEDED"
    <3>1. Provisioned' /\ Judged' /\ conds'["ReviewPaused"] # "True"
      BY <1>26, <2>2 DEF ResumeSandbox, Decide, SetCondition, Return, Results,
        bodyUnchanged, Provisioned, Judged, RecordInv, OnPath, Done, NotFalse, AfterCreate,
        AfterPrepare, AfterRepo, AfterInventory, AfterLockdown, RunSteps, AuditSteps,
        AcceptedSteps, ReviewSteps, CondsOK, Conditions, ConditionTypes, opVars,
        verdictVars, reviewVars, createVars, worldVars, destroyVars, endVars
    <3>2. QED
      BY <1>2, <2>2, <3>1, Won3
  <2>3. pc' = "cube.destroy"
    BY <1>26 DEF ResumeSandbox, Decide, Return
  <2>4. QED
    BY <1>26, <2>1, <2>2, <2>3
<1>27. QED
  BY <1>4, <1>5, <1>6, <1>7, <1>8, <1>9, <1>10, <1>11, <1>12, <1>13, <1>14, <1>15, <1>16,
    <1>17, <1>18, <1>19, <1>20, <1>21, <1>22, <1>23, <1>24, <1>25, <1>26 DEF RunBody

\* Cleanup records its result and takes a success away that it cannot confirm.
LEMMA CleanupDone3 ==
  ASSUME Inv1, Inv3, pc = "cube.destroy", NEW result \in CleanupResults \ {"none"},
         CleanupDone(result), UNCHANGED <<manifest, verdictVars>>
  PROVE  Inv3'
<1>1. /\ pc' = "finalizing" /\ cleanup' = result /\ manifest'.result = "NONE"
      /\ state' \in {state, "INFRASTRUCTURE_FAILED"}
      /\ state' = "SUCCEEDED" => state = "SUCCEEDED" /\ result = "verified"
  BY DEF CleanupDone, Inv1, OrderInv
<1>2. /\ \A t \in ConditionTypes \ {"CleanupVerified"} : conds'[t] = conds[t]
      /\ result = "verified" => conds'["CleanupVerified"] = "True"
  BY DEF CleanupDone, SetCondition, Inv1, CondsOK, Conditions, ConditionTypes
<1>3. OnPath'
  BY <1>1 DEF OnPath, AfterCreate, AfterPrepare, AfterRepo, AfterInventory, AfterLockdown,
    RunSteps, AuditSteps, AcceptedSteps, ReviewSteps
<1>4. AtVerdict'
  BY <1>1, <1>2 DEF Inv3, AtVerdict, Provisioned, Judged, Done, NotFalse, EndSteps,
    ConditionTypes, verdictVars
<1>5. RecordInv'
  BY <1>1, <1>2 DEF Inv3, RecordInv, EndSteps, Alerts, ConditionTypes
<1>6. WordInv'
  BY <1>1 DEF WordInv, EndSteps
<1>7. QED
  BY <1>3, <1>4, <1>5, <1>6 DEF Inv3

LEMMA EndInv3 == Inv1 /\ Inv2 /\ Inv3 /\ RunEnd => Inv3'
<1> SUFFICES ASSUME Inv1, Inv2, Inv3, RunEnd PROVE Inv3'  OBVIOUS
<1>1. CASE CleanupSkipped
  BY <1>1, CleanupDone3 DEF CleanupSkipped, endUnchanged, CleanupResults
<1>2. CASE DestroyList
  BY <1>2, FrameInv3 DEF DestroyList, endUnchanged, endVars
<1>3. CASE DestroyCalls
  BY <1>3, FrameInv3 DEF DestroyCalls, endUnchanged, endVars
<1>4. CASE DestroyVerify
  <2>1. CASE UNCHANGED <<flowVars, cleanup>>
    BY <1>4, <2>1, FrameInv3 DEF DestroyVerify, endUnchanged, endVars
  <2>2. CASE CleanupDone("verified")
    <3>1. pc = "cube.destroy"
      BY <1>4 DEF DestroyVerify, Inv1, OrderInv
    <3>2. QED
      BY <1>4, <2>2, <3>1, CleanupDone3 DEF DestroyVerify, endUnchanged, CleanupResults
  <2>3. QED
    BY <1>4, <2>1, <2>2 DEF DestroyVerify
<1>5. CASE DestroyExhausted
  BY <1>5, CleanupDone3 DEF DestroyExhausted, endUnchanged, CleanupResults
<1>6. CASE FinalizeResult
  <2>1. /\ pc = "finalizing" /\ pc' \in {"finalizing", "recording", "failed"}
        /\ UNCHANGED <<state, cleanup, verdictVars>>
        /\ manifest' \in {manifest, Manifest}
    BY <1>6 DEF FinalizeResult
  <2>2. \A t \in ConditionTypes \ {"EvidenceWritten"} : conds'[t] = conds[t]
    BY <1>6 DEF FinalizeResult, SetCondition, Inv1, CondsOK, Conditions, ConditionTypes
  <2>3. OnPath'
    BY <2>1 DEF OnPath, AfterCreate, AfterPrepare, AfterRepo, AfterInventory, AfterLockdown,
      RunSteps, AuditSteps, AcceptedSteps, ReviewSteps
  <2>4. AtVerdict'
    BY <2>1, <2>2 DEF Inv3, AtVerdict, Provisioned, Judged, Done, NotFalse, EndSteps,
      ConditionTypes, verdictVars
  <2>5. RecordInv'
    BY <2>1, <2>2 DEF Inv3, RecordInv, Manifest, EndSteps, Alerts, ConditionTypes
  <2>6. WordInv'
    BY <2>1 DEF WordInv, EndSteps
  <2>7. QED
    BY <2>3, <2>4, <2>5, <2>6 DEF Inv3
<1>7. CASE RecordChange
  <2>1. /\ pc = "recording" /\ pc' = "closed" /\ state' = state
        /\ UNCHANGED <<conds, cleanup, verdictVars, manifest>>
    BY <1>7 DEF RecordChange, Inv1, OrderInv, Inv2, ManifestInv
  <2>2. OnPath'
    BY <2>1 DEF OnPath, AfterCreate, AfterPrepare, AfterRepo, AfterInventory, AfterLockdown,
      RunSteps, AuditSteps, AcceptedSteps, ReviewSteps
  <2>3. AtVerdict'
    BY <2>1 DEF Inv3, AtVerdict, Provisioned, Judged, Done, NotFalse, EndSteps, verdictVars
  <2>4. RecordInv' /\ WordInv'
    BY <2>1 DEF Inv3, RecordInv, WordInv, EndSteps, Alerts
  <2>5. QED
    BY <2>2, <2>3, <2>4 DEF Inv3
<1>8. QED
  BY <1>1, <1>2, <1>3, <1>4, <1>5, <1>6, <1>7 DEF RunEnd

\* An attempt of CreateSandbox either says nothing to the run or lets it go on.
LEMMA CreateInv3 == Inv1 /\ Inv3 /\ CreateActivity => Inv3'
<1> SUFFICES ASSUME Inv1, Inv3, CreateActivity PROVE Inv3'  OBVIOUS
<1>1. CASE UNCHANGED flowVars
  BY <1>1, FrameInv3
     DEF CreateActivity, CreateDispatch, CreateList, CreateCall, workflowUnchanged, endVars
<1>2. CASE /\ pc = "cube.create" /\ pc' = "sandbox.prepare" /\ UNCHANGED <<state, retErr>>
           /\ SetCondition("SandboxReady", "True") /\ UNCHANGED manifest
  <2>1. /\ \A t \in ConditionTypes \ {"SandboxReady"} : conds'[t] = conds[t]
        /\ conds'["SandboxReady"] = "True"
    BY <1>2 DEF SetCondition, Inv1, CondsOK, Conditions, ConditionTypes
  <2>2. OnPath'
    BY <1>2, <2>1 DEF Inv3, OnPath, Done, NotFalse, AfterCreate, AfterPrepare, AfterRepo,
      AfterInventory, AfterLockdown, RunSteps, AuditSteps, AcceptedSteps, ReviewSteps,
      ConditionTypes
  <2>3. manifest'.result = "NONE"
    BY <1>2 DEF Inv1, OrderInv, RunSteps
  <2>4. state' \notin VerdictStates /\ conds'["ReviewPaused"] # "True"
    BY <1>2, <2>1 DEF Inv3, WordInv, RecordInv, EndSteps, ConditionTypes
  <2>5. QED
    BY <1>2, <2>2, <2>3, <2>4, StepOn DEF RunSteps, Alerts
<1>3. QED
  BY <1>1, <1>2
     DEF CreateActivity, CreateDispatch, CreateList, CreateCall, AttemptFails, AttemptReturns,
         workflowUnchanged, flowVars, endVars

LEMMA StepInv3 == Inv1 /\ Inv2 /\ Inv3 /\ [Next]_vars => Inv3'
<1> SUFFICES ASSUME Inv1, Inv2, Inv3, [Next]_vars PROVE Inv3'  OBVIOUS
<1>1. CASE Operators \/ ProviderSettles \/ UNCHANGED vars
  BY <1>1, FrameInv3
     DEF Operators, Cancel, TotalTimeout, SignalReview, ProviderSettles, operatorUnchanged,
         workflowUnchanged, vars
<1>2. QED
  BY <1>1, BodyInv3, EndInv3, CreateInv3 DEF Next, Factory

-----------------------------------------------------------------------------
(* Theorems *)

LEMMA InvAgrees == Inv /\ Inv3 => ManifestAgrees
<1> SUFFICES ASSUME Inv, Inv3, manifest.result # "NONE" PROVE ManifestAgrees
  BY DEF ManifestAgrees, SuccessConditions, ManifestIsFinal
<1>1. /\ pc \in EndSteps \ {"cube.destroy"} /\ manifest.result = state
      /\ manifest.cleanup = cleanup
  BY DEF Inv, Inv2, ManifestInv, EndSteps
<1>2. \A t \in ConditionTypes \ {"EvidenceWritten"} : manifest.conds[t] = conds[t]
  BY DEF Inv3, RecordInv
<1>3. ManifestIsFinal
  BY <1>1, <1>2 DEF ManifestIsFinal, Inv3, RecordInv, EndSteps, ConditionTypes
<1>4. SuccessConditions
  <2> SUFFICES ASSUME state = "SUCCEEDED" PROVE SuccessConditions
    BY <1>1 DEF SuccessConditions
  <2>1. Provisioned /\ Judged /\ Done("CleanupVerified") /\ collectionFailed = FALSE
    BY <1>1 DEF Inv3, AtVerdict, Inv, Inv2, SuccessInv
  <2>2. QED
    BY <1>2, <2>1 DEF SuccessConditions, Provisioned, Judged, Done, NotFalse, ConditionTypes
<1>5. QED
  BY <1>3, <1>4 DEF ManifestAgrees

\* A manifest that says SUCCEEDED shows every step's condition met, and none is
\* written before cleanup reported or in a state that is still live.
THEOREM RecordAgrees == Spec => []ManifestAgrees
<1>1. Init => Inv /\ Inv3
  BY InitInv1, InitInv2, InitInv3 DEF Inv
<1>2. (Inv /\ Inv3) /\ [Next]_vars => (Inv /\ Inv3)'
  BY StepInv1, StepInv2, StepGone, StepInv3 DEF Inv
<1>3. QED
  BY <1>1, <1>2, InvAgrees, PTL DEF Spec

\* Nothing that happens to a run after it returned changes one of these verdicts.
LEMMA WordStays ==
  ASSUME Inv, [Next]_vars, pc \in EndSteps, state \in VerdictStates
  PROVE  pc' \in EndSteps /\ state' = state
<1>1. CASE RunBody
  BY <1>1 DEF RunBody, ValidateRequest, AssessIntake, CreateFails, PrepareSandbox,
    PrepareRepository, Provision, WriteInventory, ApplyRuntimeNetwork, AlertEgress,
    CollectAfterEgress, RunAgent, RunAgentError, AuditCollect, CheckGateIntegrity, ScanPatch,
    AlertAndReturn, RunVerification, CollectAfterVerifyError, CollectDrift, PreviewSandbox,
    SuspendSandbox, ReviewSignal, ReviewTimer, ResumeSandbox, EndSteps
<1>2. CASE RunEnd
  BY <1>2 DEF RunEnd, CleanupSkipped, DestroyList, DestroyCalls, DestroyVerify,
    DestroyExhausted, CleanupDone, FinalizeResult, RecordChange, Inv, Inv1, OrderInv, Inv2,
    ManifestInv, flowVars, EndSteps, VerdictStates
<1>3. CASE CreateActivity
  BY <1>3 DEF CreateActivity, CreateDispatch, CreateList, CreateCall, AttemptFails,
    AttemptReturns, workflowUnchanged, flowVars, EndSteps
<1>4. CASE Operators \/ ProviderSettles \/ UNCHANGED vars
  BY <1>4 DEF Operators, Cancel, TotalTimeout, SignalReview, ProviderSettles,
    operatorUnchanged, workflowUnchanged, vars, flowVars
<1>5. QED
  BY <1>1, <1>2, <1>3, <1>4 DEF Next, Factory

\* A watcher that printed CANCELLED, INVALID_REQUEST or VERIFICATION_FAILED as the
\* final state, before cleanup had even begun, printed what the manifest will say.
THEOREM WatcherIsRight == WatchSpec => []FinalWordHolds
<1> DEFINE All == Inv /\ Inv3 /\ WatchInv
<1>1. WatchInit => All
  <2>1. WatchInit => WatchInv
    BY DEF WatchInit, WatchInv, VerdictStates
  <2>2. QED
    BY <2>1, InitInv1, InitInv2, InitInv3 DEF WatchInit, Inv
<1>2. All /\ [WatchNext]_allVars => All'
  <2> SUFFICES ASSUME All, [WatchNext]_allVars PROVE All'
    OBVIOUS
  <2>1. [Next]_vars
    BY DEF WatchNext, RunStep, WatchReturns, WatchLosesQuery, allVars
  <2>2. Inv' /\ Inv3'
    BY <2>1, StepInv1, StepInv2, StepGone, StepInv3 DEF Inv
  <2>3. WatchInv'
    <3>1. CASE UNCHANGED watchVars
      BY <2>1, <3>1, WordStays DEF WatchInv, watchVars
    <3>2. CASE WatchReturns
      BY <3>2 DEF WatchReturns, WatchInv, Inv3, WordInv, vars, flowVars
    <3>3. CASE WatchLosesQuery
      BY <3>3 DEF WatchLosesQuery, WatchInv, vars, flowVars
    <3>4. QED
      BY <3>1, <3>2, <3>3 DEF WatchNext, RunStep, allVars
  <2>4. QED
    BY <2>2, <2>3
<1>3. All => FinalWordHolds
  BY DEF FinalWordHolds, Inv, Inv2, ManifestInv, WatchInv, VerdictStates
<1>4. QED
  BY <1>1, <1>2, <1>3, PTL DEF WatchSpec

\* Where a run is that was stopped for security reasons, and that the error it
\* is about to return says "canceled" only of a context that was.
Stops == {"EGRESS_UNVERIFIED", "GATE_TAMPERED", "QUARANTINED", "BLOCKED"}
EgressSteps == {"egress.alert", "egress.collect"}
StopSteps == EndSteps \cup Alerts \cup EgressSteps

StopInv ==
  /\ pc \in EgressSteps => state = "EGRESS_UNVERIFIED"
  /\ state \in Stops =>
       /\ pc \in StopSteps
       /\ pc \notin EndSteps /\ retErr = "canceled" => Canceled

\* What a step may make of a stop: nothing, or what a cancellation or the total
\* timeout makes of it.
Kept ==
  \/ state' = state
  \/ state' = "CANCELLED" /\ cancelReq
  \/ state' = "INFRASTRUCTURE_FAILED" /\ totalTimedOut

LEMMA VerdictKeeps ==
  ASSUME NEW s, NEW e, e = "canceled" => Canceled
  PROVE  \/ Verdict(s, e) = s
         \/ Verdict(s, e) = "CANCELLED" /\ cancelReq
         \/ Verdict(s, e) = "INFRASTRUCTURE_FAILED" /\ totalTimedOut
BY DEF Verdict, Canceled

\* run() sets a stop on the way to an alert or to its end, and goes on from there
\* only to its end, with the verdict it has or one that a cancellation gives.
LEMMA BodyStops ==
  ASSUME StopInv, RunBody
  PROVE  StopInv' /\ (state \in Stops => Kept)
<1> USE VerdictRange DEF StopInv, Stops, StopSteps, EgressSteps, EndSteps, Alerts, Return, Goto,
     Kept, bodyUnchanged, opVars
<1>1. CASE ValidateRequest \/ AssessIntake \/ CreateFails
  BY <1>1 DEF ValidateRequest, AssessIntake, CreateFails, EnterCreate
<1>2. CASE PrepareSandbox \/ PrepareRepository \/ WriteInventory
  BY <1>2 DEF PrepareSandbox, PrepareRepository, WriteInventory, Provision
<1>3. CASE ApplyRuntimeNetwork
  BY <1>3 DEF ApplyRuntimeNetwork, Results, Canceled
<1>4. CASE AlertEgress
  BY <1>4 DEF AlertEgress, Canceled
<1>5. CASE CollectAfterEgress
  <2>1. pc = "egress.collect" /\ pc' = "cube.destroy" /\ state = "EGRESS_UNVERIFIED"
        /\ state' = Verdict(state, retErr)
    BY <1>5 DEF CollectAfterEgress
  <2>2. retErr = "canceled" => Canceled
    BY <2>1
  <2>3. Kept
    BY <2>1, <2>2, VerdictKeeps
  <2>4. QED
    BY <2>1, <2>3
<1>6. CASE RunAgent \/ RunAgentError \/ AuditCollect
  BY <1>6 DEF RunAgent, RunAgentError, AuditCollect
<1>7. CASE CheckGateIntegrity \/ ScanPatch
  BY <1>7 DEF CheckGateIntegrity, ScanPatch, AfterScan
<1>8. CASE AlertAndReturn
  <2>1. pc \in Alerts /\ pc' = "cube.destroy" /\ state' = Verdict(state, retErr)
    BY <1>8 DEF AlertAndReturn
  <2>2. state \in Stops => (retErr = "canceled" => Canceled)
    BY <2>1
  <2>3. state \in Stops => Kept
    BY <2>1, <2>2, VerdictKeeps
  <2>4. QED
    BY <2>1, <2>3
<1>9. CASE RunVerification \/ CollectAfterVerifyError \/ CollectDrift
  BY <1>9 DEF RunVerification, CollectAfterVerifyError, CollectDrift, Decide
<1>10. CASE PreviewSandbox \/ SuspendSandbox \/ ReviewSignal \/ ReviewTimer \/ ResumeSandbox
  BY <1>10 DEF PreviewSandbox, SuspendSandbox, ReviewSignal, ReviewTimer, ResumeSandbox,
     GateCloses, Decide
<1>11. QED
  BY <1>1, <1>2, <1>3, <1>4, <1>5, <1>6, <1>7, <1>8, <1>9, <1>10 DEF RunBody

LEMMA StepStops ==
  ASSUME Inv, StopInv, [Next]_vars
  PROVE  StopInv' /\ (state \in Stops => Kept)
<1>1. CASE RunEnd
  <2>1. pc \in EndSteps
    BY <1>1 DEF RunEnd, CleanupSkipped, DestroyList, DestroyCalls, DestroyVerify,
      DestroyExhausted, FinalizeResult, RecordChange, Inv, Inv1, OrderInv, EndSteps
  <2>2. CASE UNCHANGED <<pc, state>>
    BY <2>1, <2>2 DEF StopInv, StopSteps, EgressSteps, EndSteps, Kept
  <2>3. CASE \E result : CleanupDone(result)
    BY <2>3 DEF CleanupDone, StopInv, Stops, StopSteps, EgressSteps, EndSteps, Kept
  <2>4. CASE FinalizeResult
    BY <2>4 DEF FinalizeResult, StopInv, StopSteps, EgressSteps, EndSteps, Kept
  <2>5. CASE RecordChange
    <3>1. pc' = "closed" /\ state' = state
      BY <2>5 DEF RecordChange, Inv, Inv1, OrderInv, Inv2, ManifestInv
    <3>2. QED
      BY <3>1 DEF StopInv, StopSteps, EgressSteps, EndSteps, Kept
  <2>6. QED
    BY <1>1, <2>2, <2>3, <2>4, <2>5 DEF RunEnd, CleanupSkipped, DestroyList, DestroyCalls,
      DestroyVerify, DestroyExhausted, flowVars
<1>2. CASE CreateActivity
  <2>1. /\ UNCHANGED <<state, retErr, opVars>>
        /\ pc' = pc \/ (pc = "cube.create" /\ pc' = "sandbox.prepare")
    BY <1>2 DEF CreateActivity, CreateDispatch, CreateList, CreateCall, AttemptFails,
      AttemptReturns, workflowUnchanged, flowVars, opVars
  <2>2. QED
    BY <2>1 DEF StopInv, Stops, StopSteps, EgressSteps, EndSteps, Alerts, Kept, Canceled, opVars
<1>3. CASE Operators \/ ProviderSettles \/ UNCHANGED vars
  <2>1. /\ UNCHANGED <<pc, state, retErr>>
        /\ cancelReq' = TRUE \/ UNCHANGED cancelReq
        /\ totalTimedOut' = TRUE \/ UNCHANGED totalTimedOut
    BY <1>3 DEF Operators, Cancel, TotalTimeout, SignalReview, ProviderSettles,
      operatorUnchanged, workflowUnchanged, vars, flowVars, opVars
  <2>2. QED
    BY <2>1 DEF StopInv, Canceled, Kept
<1>4. QED
  BY <1>1, <1>2, <1>3, BodyStops DEF Next, Factory

\* A run stopped at the egress boundary, at a gate, by the scan or by the agent's
\* block keeps that verdict, whatever error was being handled and whatever is
\* alerted, collected, cleaned up or retried between the stop and the manifest:
\* only a cancellation, or the total timeout, takes it over.
THEOREM SecurityStopStays == Spec => SecurityStopIsFinal
<1>1. Init => Inv /\ StopInv
  <2>1. Init => StopInv
    BY Zenon DEF Init, StopInv, Stops, EgressSteps
  <2>2. QED
    BY <2>1, InitInv1, InitInv2 DEF Inv
<1>2. (Inv /\ StopInv) /\ [Next]_vars => (Inv /\ StopInv)'
  BY StepInv1, StepInv2, StepGone, StepStops DEF Inv
<1>3. (Inv /\ StopInv) /\ [Next]_vars =>
        [(state \in {"EGRESS_UNVERIFIED", "GATE_TAMPERED", "QUARANTINED", "BLOCKED"}) =>
           \/ state' = state
           \/ state' = "CANCELLED" /\ cancelReq
           \/ state' = "INFRASTRUCTURE_FAILED" /\ totalTimedOut]_vars
  <2> SUFFICES ASSUME Inv /\ StopInv, Next, state \in Stops PROVE Kept
    BY DEF Stops, Kept
  <2> QED
    BY StepStops
<1>4. QED
  BY <1>1, <1>2, <1>3, PTL DEF Spec, SecurityStopIsFinal

-----------------------------------------------------------------------------
(***************************************************************************)
(* The refinement: a run is what RunLifecycle promises.                    *)
(*                                                                         *)
(* Each step of the workflow is one step of the promise or none, because   *)
(* the step that is awaited tells what the run shows (ShownAt), and that   *)
(* its sandbox is there from its creation to the verdict (Boxed).          *)
(***************************************************************************)
Unboxed == {"validate", "intake.assess", "cube.create"}
BodySteps == {"validate"} \cup RunSteps

ShownAt ==
  /\ pc \in Unboxed \cup {"sandbox.prepare", "repo.prepare", "inventory.write",
                          "network.lockdown", "agent.run", "verify", "verify.drift"} =>
       state = "RUNNING"
  /\ pc \in {"egress.alert", "egress.collect"} => state = "EGRESS_UNVERIFIED"
  /\ pc \in AuditSteps => state = IF exitAs = "error" THEN "AGENT_FAILED" ELSE "RUNNING"
  /\ pc = "tamper.alert" => state = "GATE_TAMPERED"
  /\ pc = "quarantine.alert" => state = "QUARANTINED"
  /\ pc = "blocked.alert" => state = "BLOCKED"
  /\ pc = "verify.error.collect" => state = "INFRASTRUCTURE_FAILED"
  /\ pc \in ReviewSteps => state = "PAUSED"

Boxed ==
  /\ pc \in Unboxed => sandboxID = 0
  /\ pc \in BodySteps \ Unboxed => sandboxID # 0 /\ sandboxID \in vms

LifeInv == ShownAt /\ Boxed

LEMMA InitLifeInv == Init => LifeInv
BY DEF Init, LifeInv, ShownAt, Boxed, Unboxed, BodySteps, RunSteps, AuditSteps, ReviewSteps

\* What run() does leaves the sandbox, the cleanup and the manifest alone.
LEMMA BodyFrame ==
  ASSUME RunBody
  PROVE  /\ pc \in BodySteps
         /\ UNCHANGED <<vms, sandboxID, cleanup, manifest>>
BY DEF RunBody, ValidateRequest, AssessIntake, CreateFails, PrepareSandbox,
   PrepareRepository, Provision, WriteInventory, ApplyRuntimeNetwork, AlertEgress,
   CollectAfterEgress, RunAgent, RunAgentError, AuditCollect, CheckGateIntegrity, ScanPatch,
   AlertAndReturn, RunVerification, CollectAfterVerifyError, CollectDrift, PreviewSandbox,
   SuspendSandbox, ReviewSignal, ReviewTimer, ResumeSandbox, collectUnchanged, bodyUnchanged,
   worldVars, endVars, BodySteps, RunSteps, ReviewSteps

LEMMA PhaseOfBody == \A p \in BodySteps : p \notin EndSteps
BY DEF BodySteps, RunSteps, EndSteps

Promise == Lifecycle!LifecycleNext \/ UNCHANGED Lifecycle!lifecycleVars

\* The four things a step of run() may be: it goes on without a word, ...
LEMMA GoesOn ==
  ASSUME pc \in BodySteps, pc' \in BodySteps,
         UNCHANGED <<vms, sandboxID, cleanup, manifest, state, reviewOutcome>>
  PROVE  Promise
<1>1. Phase' = Phase
  BY PhaseOfBody DEF Phase, EndSteps
<1>2. Box' = Box
  BY DEF Box
<1>3. QED
  BY <1>1, <1>2 DEF Promise, Lifecycle!lifecycleVars

\* ... shows something else, ...
LEMMA Speaks ==
  ASSUME pc \in BodySteps \ Unboxed, pc' \in BodySteps, Boxed,
         UNCHANGED <<vms, sandboxID, cleanup, manifest, reviewOutcome>>,
         \/ state = "RUNNING" /\ state' = "PAUSED"
         \/ state = "RUNNING" /\ state' \in Stops \cup {"AGENT_FAILED", "INFRASTRUCTURE_FAILED"}
         \/ state = "AGENT_FAILED" /\ state' \in {"GATE_TAMPERED", "QUARANTINED"}
  PROVE  Promise
<1>1. Phase' = Phase /\ Phase = "working"
  BY PhaseOfBody DEF Phase, EndSteps
<1>2. Box' = Box /\ Box = "held"
  BY DEF Box, Boxed
<1>3. CASE state' = "PAUSED"
  <2>1. Lifecycle!Pause
    BY <1>1, <1>2, <1>3 DEF Lifecycle!Pause, Stops
  <2>2. QED
    BY <2>1 DEF Promise, Lifecycle!LifecycleNext
<1>4. CASE state' # "PAUSED"
  <2>1. Lifecycle!Trouble(state')
    BY <1>1, <1>2, <1>4 DEF Lifecycle!Trouble, Lifecycle!Stops, Stops
  <2>2. state' \in Lifecycle!Stops \cup {"AGENT_FAILED", "INFRASTRUCTURE_FAILED"}
    BY <1>4 DEF Lifecycle!Stops, Stops
  <2>3. QED
    BY <2>1, <2>2 DEF Promise, Lifecycle!LifecycleNext
<1>5. QED
  BY <1>3, <1>4

\* ... closes the review gate, ...
LEMMA GateIsClosed ==
  ASSUME pc \in BodySteps, pc' \in BodySteps, state = "PAUSED",
         UNCHANGED <<vms, sandboxID, cleanup, manifest, state>>,
         reviewOutcome = "", reviewOutcome' \in Lifecycle!Answers
  PROVE  Promise
<1>1. Phase' = Phase /\ Phase = "working"
  BY PhaseOfBody DEF Phase, EndSteps
<1>2. Box' = Box
  BY DEF Box
<1>3. Lifecycle!CloseGate(reviewOutcome')
  BY <1>1, <1>2 DEF Lifecycle!CloseGate, Lifecycle!Closes
<1>4. QED
  BY <1>3 DEF Promise, Lifecycle!LifecycleNext

\* What a verdict s needs of the run and of its review.
Admitted(s, answer) ==
  /\ s \in Lifecycle!Endings(state)
  /\ s \notin Lifecycle!Interrupted \cup {"INVALID_REQUEST"} => pc \in BodySteps \ Unboxed
  /\ s = "INVALID_REQUEST" => pc \in Unboxed
  /\ state = "PAUSED" /\ s \notin Lifecycle!Interrupted => answer # ""
  /\ s = "SUCCEEDED" => answer # "rejected"
  /\ s = "REJECTED" => answer = "rejected"

\* run() returned with the verdict s, unless it was interrupted.
Returned(s) == pc' = "cube.destroy" /\ state' \in {s} \cup Lifecycle!Interrupted

LEMMA ReturnIs == \A s, e : Return(s, e) => Returned(s)
BY VerdictRange DEF Return, Returned, Lifecycle!Interrupted

\* ... or returns.
LEMMA Decides ==
  ASSUME pc \in BodySteps, Boxed, UNCHANGED <<vms, sandboxID, cleanup, manifest>>,
         NEW s, Returned(s), Admitted(s, reviewOutcome'),
         \/ UNCHANGED reviewOutcome
         \/ state = "PAUSED" /\ reviewOutcome = "" /\ reviewOutcome' \in Lifecycle!Answers
  PROVE  Promise
<1>1. Phase = "working" /\ Phase' = "cleaning"
  BY PhaseOfBody DEF Phase, EndSteps, Returned
<1>2. Box' = Box
  BY DEF Box
<1>3. /\ pc \in BodySteps \ Unboxed => Box = "held"
      /\ pc \in Unboxed => Box = "none"
  BY DEF Box, Boxed
<1>4. state' \in {s} \cup Lifecycle!Interrupted
  BY DEF Returned
<1>5. state' \in Lifecycle!Endings(state)
  BY <1>4 DEF Admitted, Lifecycle!Endings
<1>6. UNCHANGED reviewOutcome \/ \E a \in Lifecycle!Answers : Lifecycle!Closes(a)
  BY DEF Lifecycle!Closes
<1>7. /\ state' \notin Lifecycle!Interrupted \cup {"INVALID_REQUEST"} => Box = "held"
      /\ state' = "INVALID_REQUEST" => Box = "none"
      /\ state = "PAUSED" /\ state' \notin Lifecycle!Interrupted => reviewOutcome' # ""
      /\ state' = "SUCCEEDED" => reviewOutcome' # "rejected"
      /\ state' = "REJECTED" => reviewOutcome' = "rejected"
  BY <1>3, <1>4 DEF Admitted, Lifecycle!Interrupted
<1>8. Lifecycle!Decide(state')
  BY <1>1, <1>2, <1>5, <1>6, <1>7 DEF Lifecycle!Decide
<1>9. QED
  BY <1>5, <1>8 DEF Promise, Lifecycle!LifecycleNext

\* A run that has returned shows what it likes, and gives its sandbox back.
LEMMA EndLifeInv == ASSUME pc' \in EndSteps PROVE LifeInv'
BY DEF LifeInv, ShownAt, Boxed, Unboxed, BodySteps, RunSteps, EndSteps, AuditSteps, ReviewSteps

\* Where a step is awaited, its sandbox and what is shown go with it.
LEMMA Moves ==
  ASSUME LifeInv, pc \in BodySteps, pc' \in BodySteps, pc' \in Unboxed <=> pc \in Unboxed,
         UNCHANGED <<vms, sandboxID, cleanup, manifest, state, reviewOutcome>>, ShownAt'
  PROVE  LifeInv' /\ Promise
BY GoesOn DEF LifeInv, Boxed

LEMMA Shows ==
  ASSUME LifeInv, pc \in BodySteps \ Unboxed, pc' \in BodySteps \ Unboxed,
         UNCHANGED <<vms, sandboxID, cleanup, manifest, reviewOutcome>>, ShownAt',
         \/ state = "RUNNING" /\ state' = "PAUSED"
         \/ state = "RUNNING" /\ state' \in Stops \cup {"AGENT_FAILED", "INFRASTRUCTURE_FAILED"}
         \/ state = "AGENT_FAILED" /\ state' \in {"GATE_TAMPERED", "QUARANTINED"}
  PROVE  LifeInv' /\ Promise
BY Speaks DEF LifeInv, Boxed

\* A buffered signal is one of the two decisions.
LEMMA HeadDecides == Inv1 /\ inbox # <<>> => Head(inbox).decision \in Decisions
<1> SUFFICES ASSUME Inv1, inbox # <<>> PROVE Head(inbox).decision \in Decisions
  OBVIOUS
<1>1. inbox \in Seq(ReviewSignals)
  BY DEF Inv1, RestOK
<1>2. Head(inbox) \in ReviewSignals
  BY <1>1
<1>3. QED
  BY <1>2 DEF ReviewSignals

\* Every step of run(): what it shows next belongs to the step it awaits next, and
\* it is a step of the promise.
LEMMA BodyKeepsPromise ==
  ASSUME Inv1, Inv2, LifeInv, RunBody
  PROVE  LifeInv' /\ Promise
<1>1. pc \in BodySteps /\ UNCHANGED <<vms, sandboxID, cleanup, manifest>>
  BY BodyFrame
<1>2. ShownAt /\ Boxed
  BY DEF LifeInv
<1>3. pc # "review.resume" => reviewOutcome = ""
  BY <1>1 DEF Inv2, SuccessInv, EndSteps, BodySteps, RunSteps, ReviewSteps
<1>4. ASSUME NEW s, Returned(s), Admitted(s, reviewOutcome),
             UNCHANGED reviewOutcome
      PROVE  LifeInv' /\ Promise
  BY <1>1, <1>2, <1>4, Decides, EndLifeInv DEF Returned, EndSteps
<1>5. ASSUME pc \in BodySteps \ Unboxed, UNCHANGED reviewOutcome,
             NEW s, Returned(s), s \in Lifecycle!Interrupted
      PROVE  LifeInv' /\ Promise
  <2>1. Admitted(s, reviewOutcome)
    BY <1>5 DEF Admitted, Lifecycle!Endings, Lifecycle!Interrupted
  <2>2. QED
    BY <2>1, <1>4, <1>5
<1>6. CASE ValidateRequest
  <2>1. /\ pc = "validate" /\ state = "RUNNING" /\ UNCHANGED reviewOutcome
        /\ \/ pc' \in {"intake.assess", "cube.create"} /\ state' = state
           \/ Returned("INVALID_REQUEST")
    BY <1>6, <1>2, ReturnIs DEF ValidateRequest, EnterCreate, reviewVars, ShownAt, Unboxed
  <2>2. CASE Returned("INVALID_REQUEST")
    <3>1. Admitted("INVALID_REQUEST", reviewOutcome)
      BY <2>1 DEF Admitted, Lifecycle!Endings, Lifecycle!Interrupted, Unboxed
    <3>2. QED
      BY <2>1, <2>2, <3>1, <1>4
  <2>3. CASE pc' \in {"intake.assess", "cube.create"} /\ state' = state
    BY <2>1, <2>3, <1>1, Moves DEF ShownAt, Unboxed, BodySteps, RunSteps, ReviewSteps, AuditSteps
  <2>4. QED
    BY <2>1, <2>2, <2>3
<1>7. CASE AssessIntake
  <2>1. /\ pc = "intake.assess" /\ state = "RUNNING" /\ pc' = "cube.create"
        /\ UNCHANGED <<state, reviewOutcome>>
    BY <1>7, <1>2 DEF AssessIntake, EnterCreate, reviewVars, ShownAt, Unboxed
  <2>2. QED
    BY <2>1, <1>1, Moves DEF ShownAt, Unboxed, BodySteps, RunSteps, ReviewSteps, AuditSteps
<1>8. CASE CreateFails
  <2>1. /\ pc = "cube.create" /\ state = "RUNNING" /\ UNCHANGED reviewOutcome
        /\ Returned("INFRASTRUCTURE_FAILED")
    BY <1>8, <1>2, ReturnIs DEF CreateFails, reviewVars, ShownAt, Unboxed
  <2>2. Admitted("INFRASTRUCTURE_FAILED", reviewOutcome)
    BY <2>1 DEF Admitted, Lifecycle!Endings, Lifecycle!Interrupted
  <2>3. QED
    BY <2>1, <2>2, <1>4
<1>9. CASE PrepareSandbox
  <2>1. /\ pc = "sandbox.prepare" /\ state = "RUNNING" /\ UNCHANGED reviewOutcome
        /\ \/ pc' = "repo.prepare" /\ state' = state
           \/ Returned("INFRASTRUCTURE_FAILED")
    BY <1>9, <1>2, ReturnIs DEF PrepareSandbox, Provision, Goto, reviewVars, ShownAt
  <2>2. CASE pc' = "repo.prepare" /\ state' = state
    BY <2>1, <2>2, <1>1, Moves DEF ShownAt, Unboxed, BodySteps, RunSteps, ReviewSteps, AuditSteps
  <2>3. QED
    BY <2>1, <2>2, <1>5 DEF Lifecycle!Interrupted, Unboxed, BodySteps, RunSteps, ReviewSteps, AuditSteps
<1>10. CASE PrepareRepository
  <2>1. /\ pc = "repo.prepare" /\ state = "RUNNING" /\ UNCHANGED reviewOutcome
        /\ \/ pc' = "inventory.write" /\ state' = state
           \/ Returned("INFRASTRUCTURE_FAILED")
    BY <1>10, <1>2, ReturnIs DEF PrepareRepository, Provision, Goto, reviewVars, ShownAt
  <2>2. CASE pc' = "inventory.write" /\ state' = state
    BY <2>1, <2>2, <1>1, Moves DEF ShownAt, Unboxed, BodySteps, RunSteps, ReviewSteps, AuditSteps
  <2>3. QED
    BY <2>1, <2>2, <1>5 DEF Lifecycle!Interrupted, Unboxed, BodySteps, RunSteps, ReviewSteps, AuditSteps
<1>11. CASE WriteInventory
  <2>1. /\ pc = "inventory.write" /\ state = "RUNNING" /\ UNCHANGED reviewOutcome
        /\ \/ pc' = "network.lockdown" /\ state' = state
           \/ Returned("INFRASTRUCTURE_FAILED")
    BY <1>11, <1>2, ReturnIs DEF WriteInventory, Goto, reviewVars, ShownAt
  <2>2. CASE pc' = "network.lockdown" /\ state' = state
    BY <2>1, <2>2, <1>1, Moves DEF ShownAt, Unboxed, BodySteps, RunSteps, ReviewSteps, AuditSteps
  <2>3. QED
    BY <2>1, <2>2, <1>5 DEF Lifecycle!Interrupted, Unboxed, BodySteps, RunSteps, ReviewSteps, AuditSteps
<1>12. CASE ApplyRuntimeNetwork
  <2>1. /\ pc = "network.lockdown" /\ state = "RUNNING" /\ UNCHANGED reviewOutcome
        /\ \/ pc' = "agent.run" /\ state' = state
           \/ pc' = "egress.alert" /\ state' = "EGRESS_UNVERIFIED"
    BY <1>12, <1>2 DEF ApplyRuntimeNetwork, Goto, reviewVars, ShownAt
  <2>2. CASE pc' = "agent.run" /\ state' = state
    BY <2>1, <2>2, <1>1, Moves DEF ShownAt, Unboxed, BodySteps, RunSteps, ReviewSteps, AuditSteps
  <2>3. CASE pc' = "egress.alert" /\ state' = "EGRESS_UNVERIFIED"
    BY <2>1, <2>3, <1>1, Shows DEF ShownAt, Stops, Unboxed, BodySteps, RunSteps, ReviewSteps, AuditSteps
  <2>4. QED
    BY <2>1, <2>2, <2>3
<1>13. CASE AlertEgress
  <2>1. /\ pc = "egress.alert" /\ state = "EGRESS_UNVERIFIED" /\ pc' = "egress.collect"
        /\ UNCHANGED <<state, reviewOutcome>>
    BY <1>13, <1>2 DEF AlertEgress, Goto, reviewVars, ShownAt
  <2>2. QED
    BY <2>1, <1>1, Moves DEF ShownAt, Unboxed, BodySteps, RunSteps, ReviewSteps, AuditSteps
<1>14. CASE CollectAfterEgress
  <2>1. /\ pc = "egress.collect" /\ state = "EGRESS_UNVERIFIED" /\ UNCHANGED reviewOutcome
        /\ Returned("EGRESS_UNVERIFIED")
    BY <1>14, <1>2, ReturnIs DEF CollectAfterEgress, collectUnchanged, reviewVars, ShownAt
  <2>2. Admitted("EGRESS_UNVERIFIED", reviewOutcome)
    BY <2>1 DEF Admitted, Lifecycle!Endings, Lifecycle!Interrupted, Unboxed, BodySteps, RunSteps, ReviewSteps, AuditSteps
  <2>3. QED
    BY <2>1, <2>2, <1>4
<1>15. CASE RunAgent
  <2>1. /\ pc = "agent.run" /\ state = "RUNNING" /\ pc' = "audit.collect"
        /\ UNCHANGED <<state, reviewOutcome>> /\ exitAs' # "error"
    BY <1>15, <1>2 DEF RunAgent, Goto, reviewVars, ShownAt
  <2>2. QED
    BY <2>1, <1>1, Moves DEF ShownAt, Unboxed, BodySteps, RunSteps, ReviewSteps, AuditSteps
<1>16. CASE RunAgentError
  <2>1. /\ pc = "agent.run" /\ state = "RUNNING" /\ UNCHANGED reviewOutcome
        /\ \/ pc' = "audit.collect" /\ state' = "AGENT_FAILED" /\ exitAs' = "error"
           \/ Returned("CANCELLED")
    BY <1>16, <1>2, ReturnIs DEF RunAgentError, reviewVars, ShownAt
  <2>2. CASE pc' = "audit.collect" /\ state' = "AGENT_FAILED" /\ exitAs' = "error"
    BY <2>1, <2>2, <1>1, Shows DEF ShownAt, Unboxed, BodySteps, RunSteps, ReviewSteps, AuditSteps
  <2>3. QED
    BY <2>1, <2>2, <1>5 DEF Lifecycle!Interrupted, Unboxed, BodySteps, RunSteps, ReviewSteps, AuditSteps
<1>17. CASE AuditCollect
  <2>1. /\ pc = "audit.collect" /\ pc' = "audit.gates"
        /\ UNCHANGED <<state, reviewOutcome, exitAs>>
    BY <1>17 DEF AuditCollect, Goto, collectUnchanged, reviewVars
  <2>2. QED
    BY <2>1, <1>1, <1>2, Moves DEF ShownAt, Unboxed, BodySteps, RunSteps, ReviewSteps, AuditSteps
<1>18. CASE CheckGateIntegrity
  <2>1. /\ pc = "audit.gates" /\ UNCHANGED <<reviewOutcome, exitAs>>
        /\ state \in {"RUNNING", "AGENT_FAILED"}
        /\ \/ pc' = "audit.scan" /\ state' = state
           \/ pc' = "tamper.alert" /\ state' = "GATE_TAMPERED"
           \/ Returned("INFRASTRUCTURE_FAILED")
    BY <1>18, <1>2, ReturnIs DEF CheckGateIntegrity, Goto, reviewVars, ShownAt, AuditSteps
  <2>2. CASE pc' = "audit.scan" /\ state' = state
    BY <2>1, <2>2, <1>1, <1>2, Moves DEF ShownAt, Unboxed, BodySteps, RunSteps, ReviewSteps, AuditSteps
  <2>3. CASE pc' = "tamper.alert" /\ state' = "GATE_TAMPERED"
    BY <2>1, <2>3, <1>1, Shows DEF ShownAt, Stops, Unboxed, BodySteps, RunSteps, ReviewSteps, AuditSteps
  <2>4. QED
    BY <2>1, <2>2, <2>3, <1>5 DEF Lifecycle!Interrupted, Unboxed, BodySteps, RunSteps, ReviewSteps, AuditSteps
<1>19. CASE ScanPatch
  <2>1. /\ pc = "audit.scan" /\ UNCHANGED <<reviewOutcome, exitAs>>
        /\ state = IF exitAs = "error" THEN "AGENT_FAILED" ELSE "RUNNING"
    BY <1>19, <1>2 DEF ScanPatch, reviewVars, ShownAt, AuditSteps
  <2>2. \/ pc' = "quarantine.alert" /\ state' = "QUARANTINED"
        \/ exitAs # "error" /\ pc' = "verify" /\ state' = state
        \/ exitAs # "error" /\ pc' = "blocked.alert" /\ state' = "BLOCKED"
        \/ Returned("AGENT_FAILED")
        \/ exitAs # "error" /\ Returned("BLOCKED")
    BY <1>19, ReturnIs DEF ScanPatch, AfterScan, Goto
  <2>3. CASE pc' = "quarantine.alert" /\ state' = "QUARANTINED"
    BY <2>1, <2>3, <1>1, Shows DEF ShownAt, Stops, Unboxed, BodySteps, RunSteps, ReviewSteps, AuditSteps
  <2>4. CASE exitAs # "error" /\ pc' = "verify" /\ state' = state
    BY <2>1, <2>4, <1>1, Moves DEF ShownAt, Unboxed, BodySteps, RunSteps, ReviewSteps, AuditSteps
  <2>5. CASE exitAs # "error" /\ pc' = "blocked.alert" /\ state' = "BLOCKED"
    BY <2>1, <2>5, <1>1, Shows DEF ShownAt, Stops, Unboxed, BodySteps, RunSteps, ReviewSteps, AuditSteps
  <2>6. CASE Returned("AGENT_FAILED")
    <3>1. Admitted("AGENT_FAILED", reviewOutcome)
      BY <2>1 DEF Admitted, Lifecycle!Endings, Lifecycle!Interrupted, Unboxed, BodySteps, RunSteps, ReviewSteps, AuditSteps
    <3>2. QED
      BY <2>1, <2>6, <3>1, <1>4
  <2>7. CASE exitAs # "error" /\ Returned("BLOCKED")
    <3>1. Admitted("BLOCKED", reviewOutcome)
      BY <2>1, <2>7 DEF Admitted, Lifecycle!Endings, Lifecycle!Interrupted, Unboxed, BodySteps, RunSteps, ReviewSteps, AuditSteps
    <3>2. QED
      BY <2>1, <2>7, <3>1, <1>4
  <2>8. QED
    BY <2>2, <2>3, <2>4, <2>5, <2>6, <2>7
<1>20. CASE AlertAndReturn
  <2>1. /\ pc \in {"tamper.alert", "quarantine.alert", "blocked.alert"}
        /\ state \in {"GATE_TAMPERED", "QUARANTINED", "BLOCKED"}
        /\ UNCHANGED reviewOutcome /\ Returned(state)
    BY <1>20, <1>2, ReturnIs DEF AlertAndReturn, reviewVars, ShownAt
  <2>2. Admitted(state, reviewOutcome)
    BY <2>1 DEF Admitted, Lifecycle!Endings, Lifecycle!Interrupted, Unboxed, BodySteps, RunSteps, ReviewSteps, AuditSteps
  <2>3. QED
    BY <2>1, <2>2, <1>4
<1>21. CASE RunVerification
  <2>1. /\ pc = "verify" /\ state = "RUNNING" /\ UNCHANGED reviewOutcome
        /\ \/ pc' = "verify.drift" /\ state' = state
           \/ pc' = "verify.error.collect" /\ state' = "INFRASTRUCTURE_FAILED"
    BY <1>21, <1>2 DEF RunVerification, Goto, reviewVars, ShownAt
  <2>2. CASE pc' = "verify.drift" /\ state' = state
    BY <2>1, <2>2, <1>1, Moves DEF ShownAt, Unboxed, BodySteps, RunSteps, ReviewSteps, AuditSteps
  <2>3. CASE pc' = "verify.error.collect" /\ state' = "INFRASTRUCTURE_FAILED"
    BY <2>1, <2>3, <1>1, Shows DEF ShownAt, Unboxed, BodySteps, RunSteps, ReviewSteps, AuditSteps
  <2>4. QED
    BY <2>1, <2>2, <2>3
<1>22. CASE CollectAfterVerifyError
  <2>1. /\ pc = "verify.error.collect" /\ UNCHANGED reviewOutcome
        /\ Returned("INFRASTRUCTURE_FAILED")
    BY <1>22, ReturnIs DEF CollectAfterVerifyError, collectUnchanged, reviewVars
  <2>2. QED
    BY <2>1, <1>5 DEF Lifecycle!Interrupted, Unboxed, BodySteps, RunSteps, ReviewSteps, AuditSteps
<1>23. CASE CollectDrift
  <2>1. /\ pc = "verify.drift" /\ state = "RUNNING" /\ UNCHANGED reviewOutcome
        /\ reviewOutcome = ""
        /\ \/ pc' = "review.preview" /\ state' = "PAUSED"
           \/ \E base : Decide(base, "")
    BY <1>23, <1>2, <1>3 DEF CollectDrift, collectUnchanged, reviewVars, ShownAt
  <2>2. CASE pc' = "review.preview" /\ state' = "PAUSED"
    BY <2>1, <2>2, <1>1, Shows DEF ShownAt, Unboxed, BodySteps, RunSteps, ReviewSteps, AuditSteps
  <2>3. CASE \E base : Decide(base, "")
    <3>1. Returned("VERIFICATION_FAILED") \/ Returned("SUCCEEDED")
      BY <2>3, ReturnIs DEF Decide
    <3>2. Admitted("VERIFICATION_FAILED", reviewOutcome) /\ Admitted("SUCCEEDED", reviewOutcome)
      BY <2>1 DEF Admitted, Lifecycle!Endings, Lifecycle!Interrupted, Unboxed, BodySteps, RunSteps, ReviewSteps, AuditSteps
    <3>3. QED
      BY <2>1, <3>1, <3>2, <1>4
  <2>4. QED
    BY <2>1, <2>2, <2>3
<1>24. CASE PreviewSandbox \/ SuspendSandbox
  <2>1. /\ pc \in {"review.preview", "review.suspend"} /\ state = "PAUSED"
        /\ pc' \in {"review.suspend", "review.wait"} /\ UNCHANGED <<state, reviewOutcome>>
    BY <1>24, <1>2 DEF PreviewSandbox, SuspendSandbox, Goto, reviewVars, ShownAt, ReviewSteps
  <2>2. QED
    BY <2>1, <1>1, Moves DEF ShownAt, Unboxed, BodySteps, RunSteps, ReviewSteps, AuditSteps
<1>25. CASE ReviewSignal \/ ReviewTimer
  <2>1. /\ pc = "review.wait" /\ state = "PAUSED" /\ reviewOutcome = ""
        /\ reviewOutcome' \in Lifecycle!Answers /\ GateCloses(reviewOutcome')
    <3>1. pc = "review.wait" /\ \E a \in Lifecycle!Answers : GateCloses(a)
      BY <1>25, HeadDecides DEF ReviewSignal, ReviewTimer, Decisions, Lifecycle!Answers
    <3>2. QED
      BY <3>1, <1>2, <1>3 DEF GateCloses, ShownAt, ReviewSteps
  <2>2. CASE pc' = "review.resume" /\ state' = state
    <3>1. Promise
      BY <2>1, <2>2, <1>1, GateIsClosed DEF Unboxed, BodySteps, RunSteps, ReviewSteps, AuditSteps
    <3>2. LifeInv'
      BY <2>1, <2>2, <1>1, <1>2 DEF LifeInv, ShownAt, Boxed, Unboxed, BodySteps, RunSteps, ReviewSteps, AuditSteps
    <3>3. QED
      BY <3>1, <3>2
  <2>3. CASE \E base : Decide(base, reviewOutcome')
    <3>1. \/ Returned("VERIFICATION_FAILED")
          \/ Returned("REJECTED") /\ reviewOutcome' = "rejected"
          \/ Returned("SUCCEEDED") /\ reviewOutcome' # "rejected"
      BY <2>3, ReturnIs DEF Decide
    <3>2. /\ Admitted("VERIFICATION_FAILED", reviewOutcome')
          /\ reviewOutcome' = "rejected" => Admitted("REJECTED", reviewOutcome')
          /\ reviewOutcome' # "rejected" => Admitted("SUCCEEDED", reviewOutcome')
      BY <2>1 DEF Admitted, Lifecycle!Answers, Lifecycle!Endings, Lifecycle!Interrupted,
         Unboxed, BodySteps, RunSteps, ReviewSteps
    <3>3. Promise
      BY <2>1, <3>1, <3>2, <1>1, <1>2, Decides
    <3>4. QED
      BY <3>1, <3>3, EndLifeInv DEF Returned, EndSteps
  <2>4. QED
    BY <2>1, <2>2, <2>3 DEF GateCloses, Goto
<1>26. CASE ResumeSandbox
  <2>1. /\ pc = "review.resume" /\ state = "PAUSED" /\ UNCHANGED reviewOutcome
        /\ reviewOutcome # ""
        /\ \/ Decide(conds, reviewOutcome)
           \/ Returned("INFRASTRUCTURE_FAILED")
    BY <1>26, <1>2, ReturnIs DEF ResumeSandbox, reviewVars, ShownAt, ReviewSteps, Inv2, SuccessInv
  <2>2. CASE Decide(conds, reviewOutcome)
    <3>1. \E s \in {"VERIFICATION_FAILED", "REJECTED", "SUCCEEDED"} :
             Returned(s) /\ Admitted(s, reviewOutcome)
      BY <2>1, <2>2, ReturnIs DEF Decide, Admitted, Lifecycle!Endings, Lifecycle!Interrupted, Unboxed, BodySteps, RunSteps, ReviewSteps, AuditSteps
    <3>2. QED
      BY <2>1, <3>1, <1>4
  <2>3. QED
    BY <2>1, <2>2, <1>5 DEF Lifecycle!Interrupted, Unboxed, BodySteps, RunSteps, ReviewSteps, AuditSteps
<1>27. QED
  BY <1>6, <1>7, <1>8, <1>9, <1>10, <1>11, <1>12, <1>13, <1>14, <1>15, <1>16, <1>17,
     <1>18, <1>19, <1>20, <1>21, <1>22, <1>23, <1>24, <1>25, <1>26 DEF RunBody

\* After run() the promise is kept by what cleanup and the manifest do.
LEMMA EndKeepsPromise ==
  ASSUME Inv1, Inv2, LifeInv, RunEnd
  PROVE  LifeInv' /\ Promise
<1>1. pc \in EndSteps /\ pc' \in EndSteps /\ UNCHANGED <<sandboxID, reviewOutcome>>
  BY DEF RunEnd, CleanupSkipped, DestroyList, DestroyCalls, DestroyVerify, DestroyExhausted,
     CleanupDone, FinalizeResult, RecordChange, endUnchanged, flowVars, reviewVars, Inv1,
     OrderInv, EndSteps
<1>2. LifeInv'
  BY <1>1, EndLifeInv
<1>3. ASSUME pc = "cube.destroy", NEW c \in {"verified", "error", "skipped"},
             CleanupDone(c), UNCHANGED <<vms, sandboxID, reviewOutcome, manifest>>,
             c = "verified" => Box # "held", c = "skipped" => Box = "none"
      PROVE  Promise
  <2>1. Phase = "cleaning" /\ Phase' = "writing" /\ Box' = Box
    BY <1>3 DEF Phase, Box, CleanupDone
  <2>2. /\ cleanup' = c
        /\ \/ state' = state /\ (state = "SUCCEEDED" => c = "verified")
           \/ state = "SUCCEEDED" /\ state' = "INFRASTRUCTURE_FAILED"
    BY <1>3 DEF CleanupDone
  <2>3. Lifecycle!Clean(c)
    BY <1>3, <2>1, <2>2 DEF Lifecycle!Clean
  <2>4. QED
    BY <2>3 DEF Promise, Lifecycle!LifecycleNext
<1>4. CASE CleanupSkipped
  <2>1. sandboxID = 0
    BY <1>4 DEF CleanupSkipped, Inv1, CreateInv, OrderInv
  <2>2. Box = "none"
    BY <2>1 DEF Box
  <2>3. QED
    BY <1>2, <1>3, <1>4, <2>2 DEF CleanupSkipped, endUnchanged, worldVars, reviewVars
<1>5. CASE DestroyList
  <2>1. UNCHANGED <<pc, vms, sandboxID, state, reviewOutcome, cleanup, manifest>>
    BY <1>5 DEF DestroyList, endUnchanged, flowVars, worldVars, reviewVars
  <2>2. QED
    BY <1>2, <2>1 DEF Promise, Lifecycle!lifecycleVars, Phase, Box
<1>6. CASE DestroyCalls
  <2>1. /\ pc = "cube.destroy" /\ vms' \subseteq vms
        /\ UNCHANGED <<pc, sandboxID, state, reviewOutcome, cleanup, manifest>>
    BY <1>6 DEF DestroyCalls, endUnchanged, flowVars, reviewVars, Inv1, OrderInv
  <2>2. Phase = "cleaning" /\ Phase' = Phase
    BY <2>1 DEF Phase
  <2>3. CASE Box' = Box
    BY <1>2, <2>1, <2>2, <2>3 DEF Promise, Lifecycle!lifecycleVars
  <2>4. CASE Box' # Box
    <3>1. Box = "held" /\ Box' = "gone"
      BY <2>1, <2>4 DEF Box
    <3>2. Lifecycle!Release
      BY <2>1, <2>2, <3>1 DEF Lifecycle!Release
    <3>3. QED
      BY <1>2, <3>2 DEF Promise, Lifecycle!LifecycleNext
  <2>5. QED
    BY <2>3, <2>4
<1>7. CASE DestroyVerify
  <2>1. pc = "cube.destroy" /\ UNCHANGED <<vms, sandboxID, reviewOutcome, manifest>>
    BY <1>7 DEF DestroyVerify, endUnchanged, worldVars, reviewVars, Inv1, OrderInv
  <2>2. CASE UNCHANGED <<flowVars, cleanup>>
    BY <1>2, <2>1, <2>2 DEF Promise, Lifecycle!lifecycleVars, Phase, Box, flowVars
  <2>3. CASE Remaining = {} /\ CleanupDone("verified")
    <3>1. Box # "held"
      BY <2>3 DEF Remaining, Box
    <3>2. QED
      BY <1>2, <1>3, <2>1, <2>3, <3>1
  <2>4. QED
    BY <1>7, <2>2, <2>3 DEF DestroyVerify
<1>8. CASE DestroyExhausted
  BY <1>2, <1>3, <1>8 DEF DestroyExhausted, endUnchanged, worldVars, reviewVars
<1>9. CASE FinalizeResult
  <2>1. /\ pc = "finalizing" /\ pc' \in {"finalizing", "recording", "failed"}
        /\ UNCHANGED <<vms, sandboxID, state, reviewOutcome, cleanup>>
        /\ manifest' = Manifest \/ (UNCHANGED manifest /\ pc' # "recording")
    BY <1>9 DEF FinalizeResult, worldVars, reviewVars
  <2>2. /\ Phase = "writing" /\ Phase' \in {"writing", "recorded", "failed"} /\ Box' = Box
        /\ Phase' = "recorded" => pc' = "recording"
    BY <2>1 DEF Phase, Box
  <2>3. Lifecycle!Write(Phase')
    BY <2>1, <2>2 DEF Lifecycle!Write, Manifest
  <2>4. QED
    BY <1>2, <2>2, <2>3 DEF Promise, Lifecycle!LifecycleNext
<1>10. CASE RecordChange
  <2>1. /\ pc = "recording" /\ pc' = "closed"
        /\ UNCHANGED <<vms, sandboxID, state, reviewOutcome, cleanup, manifest>>
    BY <1>10 DEF RecordChange, worldVars, reviewVars, Inv1, OrderInv, Inv2, ManifestInv
  <2>2. Lifecycle!Close
    BY <2>1 DEF Lifecycle!Close, Phase, Box
  <2>3. QED
    BY <1>2, <2>2 DEF Promise, Lifecycle!LifecycleNext
<1>11. QED
  BY <1>4, <1>5, <1>6, <1>7, <1>8, <1>9, <1>10 DEF RunEnd

\* An attempt of CreateSandbox gives the run its sandbox, or is none of its steps;
\* what the provider settles late is never the sandbox of the run.
LEMMA CreateKeepsPromise ==
  ASSUME Inv1, LifeInv, CreateActivity \/ ProviderSettles
  PROVE  LifeInv' /\ Promise
<1>1. UNCHANGED <<state, reviewOutcome, exitAs, cleanup, manifest>>
  BY DEF CreateActivity, CreateDispatch, CreateList, CreateCall, AttemptFails, AttemptReturns,
     ProviderSettles, workflowUnchanged, flowVars, reviewVars, verdictVars, endVars
<1>2. CASE UNCHANGED <<pc, sandboxID>>
  <2>1. sandboxID # 0 => (sandboxID \in vms' <=> sandboxID \in vms)
    BY DEF CreateActivity, CreateDispatch, CreateList, CreateCall, AttemptFails,
       AttemptReturns, ProviderSettles, worldVars, Inv1, CreateInv, OrderInv
  <2>2. Box' = Box /\ Phase' = Phase
    BY <1>2, <2>1 DEF Box, Phase
  <2>3. LifeInv'
    BY <1>1, <1>2, <2>1 DEF LifeInv, ShownAt, Boxed
  <2>4. QED
    BY <1>1, <2>2, <2>3 DEF Promise, Lifecycle!lifecycleVars
<1>3. CASE ~UNCHANGED <<pc, sandboxID>>
  <2>1. /\ pc = "cube.create" /\ pc' = "sandbox.prepare"
        /\ sandboxID' \in vms' /\ sandboxID' # 0
    BY <1>3 DEF CreateActivity, CreateDispatch, CreateList, CreateCall, AttemptFails,
       AttemptReturns, ProviderSettles, workflowUnchanged, flowVars, worldVars, Inv1,
       CreateInv, OrderInv, RestOK, SandboxIDs
  <2>2. state = "RUNNING" /\ sandboxID = 0
    BY <2>1 DEF LifeInv, ShownAt, Boxed, Unboxed
  <2>3. LifeInv'
    BY <1>1, <2>1, <2>2 DEF LifeInv, ShownAt, Boxed, Unboxed, BodySteps, RunSteps,
       AuditSteps, ReviewSteps
  <2>4. Lifecycle!Acquire
    BY <1>1, <2>1, <2>2 DEF Lifecycle!Acquire, Box, Phase
  <2>5. QED
    BY <2>3, <2>4 DEF Promise, Lifecycle!LifecycleNext
<1>4. QED
  BY <1>2, <1>3

LEMMA StepKeepsPromise ==
  ASSUME Inv1, Inv2, LifeInv, [Next]_vars
  PROVE  LifeInv' /\ Promise
<1>1. CASE Operators \/ UNCHANGED vars
  <2>1. UNCHANGED <<pc, state, exitAs, vms, sandboxID, reviewOutcome, cleanup, manifest>>
    BY <1>1 DEF Operators, Cancel, TotalTimeout, SignalReview, operatorUnchanged, vars,
       flowVars, verdictVars, reviewVars, worldVars, endVars
  <2>2. LifeInv'
    BY <2>1 DEF LifeInv, ShownAt, Boxed
  <2>3. QED
    BY <2>1, <2>2 DEF Promise, Lifecycle!lifecycleVars, Phase, Box
<1>2. QED
  BY <1>1, BodyKeepsPromise, EndKeepsPromise, CreateKeepsPromise DEF Next, Factory

\* A run, with all its activities, their attempts and the provider's late effects,
\* is what RunLifecycle promises: each of its steps is one step of the promise or
\* none.
THEOREM RunImplementsLifecycle == Spec => ImplementsLifecycle
<1>1. Init => Lifecycle!LifecycleInit
  <2> SUFFICES ASSUME Init PROVE Lifecycle!LifecycleInit
    OBVIOUS
  <2>1. Phase = "working" /\ Box = "none"
    BY DEF Init, Phase, Box
  <2>2. manifest.result = "NONE" /\ manifest.cleanup = "none" /\ manifest.review = ""
    BY DEF Init, NoManifest
  <2>3. QED
    BY <2>1, <2>2 DEF Init, Lifecycle!LifecycleInit, Lifecycle!Unrecorded
<1>2. Init => Inv /\ LifeInv
  BY InitInv1, InitInv2, InitLifeInv DEF Inv
<1>3. (Inv /\ LifeInv) /\ [Next]_vars =>
        (Inv /\ LifeInv)' /\ [Lifecycle!LifecycleNext]_Lifecycle!lifecycleVars
  BY StepInv1, StepInv2, StepGone, StepKeepsPromise DEF Inv, Promise
<1>4. QED
  BY <1>1, <1>2, <1>3, PTL DEF Spec, ImplementsLifecycle, Lifecycle!LifecycleSpec
=============================================================================
