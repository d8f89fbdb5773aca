--------------------------- MODULE ConsoleEvidence ---------------------------
(***************************************************************************)
(* What the console says about the evidence of one run: the summaries the  *)
(* server makes of a manifest (internal/console/summary.go) and the labels *)
(* and tones the web application gives them (components/runs/utils.js,     *)
(* run-security.jsx, ui/status-pill.jsx).  Texts are left out, except the  *)
(* label a property is about.                                              *)
(***************************************************************************)
EXTENDS Naturals

\* What one run may record of its hardening controls: the behavior scan, an
\* error of one of its scans, the egress probe and the gate integrity check.
\* "none" is a nil pointer in the manifest.
Hardening ==
  [behavior : {"none", "clean", "findings", "tripped"}, error : BOOLEAN,
   probe : {"none", "clean", "violated"},
   gate : {"none", "unchecked", "clean", "modified"}]

NoHardening == [behavior |-> "none", error |-> FALSE, probe |-> "none", gate |-> "none"]

SecurityStates == {"GATE_TAMPERED", "EGRESS_UNVERIFIED", "QUARANTINED"}

\* The states a run with this evidence may end in. FAILED stands for all
\* that is neither a success nor a security stop: a failed agent or verification,
\* a rejection, a failure of the infrastructure, a blocked agent and a
\* cancellation, which overwrites the state the run had reached. A boundary that
\* is violated, or that could not be measured, stops the run before the agent; a
\* modified gate and a tripped scan stop it after.
Verdicts(h) ==
  {"FAILED"} \cup
  IF h.probe = "violated" THEN {"EGRESS_UNVERIFIED"}
  ELSE IF h.gate = "modified" THEN {"GATE_TAMPERED"}
  ELSE IF h.behavior = "tripped" THEN {"QUARANTINED"}
  ELSE IF h.probe = "none" /\ h.gate = "none" THEN {"EGRESS_UNVERIFIED"}
  ELSE IF h.gate = "none" THEN {}
  ELSE {"SUCCEEDED"}

\* What the workflow can leave: a violated boundary comes before the rest, and
\* the gates are checked or the check has failed (CheckGateIntegrity).
Recordable(h) ==
  /\ h.probe = "violated" => h.behavior = "none" /\ h.gate = "none" /\ ~h.error
  /\ h.gate /= "unchecked"

\* CleanupResult: nothing was created; destroyed and the inventory read back;
\* the activity gave up. What it counted is lost with its error.
Cleanups ==
  { [attempted |-> FALSE, outcome |-> "SKIPPED", verified |-> FALSE, remaining |-> 0],
    [attempted |-> TRUE, outcome |-> "SUCCESS", verified |-> TRUE, remaining |-> 0],
    [attempted |-> TRUE, outcome |-> "ERROR", verified |-> FALSE, remaining |-> 0] }

\* The zero value, which a live run has.
NoCleanup == [attempted |-> FALSE, outcome |-> "", verified |-> FALSE, remaining |-> 0]

-----------------------------------------------------------------------------
\* summary.go; a HardeningSummary without evidence has every field zero.
summarizeHardening(h) ==
  [measured          |-> h.behavior /= "none" \/ h.probe /= "none",
   behavior_measured |-> h.behavior /= "none",
   egress_measured   |-> h.probe /= "none",
   tripped           |-> h.behavior = "tripped",
   findings          |-> IF h.behavior \in {"findings", "tripped"} THEN 1 ELSE 0,
   egress_violations |-> IF h.probe = "violated" THEN 1 ELSE 0,
   gate_checked      |-> h.gate \in {"clean", "modified"},
   gate_modified     |-> h.gate = "modified"]

Label(t, l) == [tone |-> t, label |-> l]

(* Mutant: the gate check is taken for granted. *)
securityMetaAssumesGate(s, state) ==
  IF state \in SecurityStates THEN Label("danger", state)
  ELSE IF ~s.measured THEN Label("muted", "Not measured")
  ELSE IF ~s.behavior_measured /\ ~s.tripped THEN Label("warning", "Behavior not measured")
  ELSE IF s.tripped THEN Label("danger", "Tripped")
  ELSE IF s.egress_violations > 0 THEN Label("danger", "Egress violations")
  ELSE IF s.findings > 0 THEN Label("warning", "Findings")
  ELSE IF s.gate_modified THEN Label("security", "Gate modified")
  ELSE Label("success", "Clean")

\* The label of a run in the runs table and at the head of its security card.
securityMeta(s, state) ==
  IF state \in SecurityStates THEN Label("danger", state)
  ELSE IF ~s.measured THEN Label("muted", "Not measured")
  ELSE IF ~s.behavior_measured /\ ~s.tripped THEN Label("warning", "Behavior not measured")
  ELSE IF s.tripped THEN Label("danger", "Tripped")
  ELSE IF s.egress_violations > 0 THEN Label("danger", "Egress violations")
  ELSE IF s.findings > 0 THEN Label("warning", "Findings")
  ELSE IF s.gate_modified THEN Label("security", "Gate modified")
  ELSE IF ~s.gate_checked THEN Label("warning", "Gate not checked")
  ELSE Label("success", "Clean")

\* The badges of the security card's sections; a section without evidence is
\* not drawn.
ProbeSection(h) ==
  CASE h.probe = "none"     -> {}
    [] h.probe = "violated" -> {"danger"}
    [] OTHER                -> {"success"}

BehaviorSection(h) ==
  IF h.behavior = "none" /\ ~h.error THEN {}
  ELSE IF h.behavior = "none" THEN {"warning"}
  ELSE IF h.behavior = "tripped" THEN {"danger"}
  ELSE IF h.behavior = "findings" THEN {"warning"}
  ELSE {"success"}

GateSection(h) ==
  CASE h.gate = "none"      -> {}
    [] h.gate = "unchecked" -> {"muted"}
    [] h.gate = "modified"  -> {"danger"}
    [] OTHER                -> {"success"}

SecurityCard(h) == ProbeSection(h) \cup BehaviorSection(h) \cup GateSection(h)

\* The cleanup column of the runs table and the summary card of the run.
cleanupMeta(c) ==
  IF c.outcome = "" THEN Label("muted", "Not reported")
  ELSE IF c.outcome = "SUCCESS" /\ c.verified THEN Label("success", "Verified")
  ELSE IF c.outcome = "SUCCESS" THEN Label("warning", "Unverified")
  ELSE IF c.outcome = "SKIPPED" THEN Label("warning", "Skipped")
  ELSE Label("danger", c.outcome)

\* cleanupTone of lib/format.js, and the pill that uses it.
cleanupTone(c) ==
  IF c.outcome = "" THEN "muted"
  ELSE IF c.outcome = "SUCCESS" /\ c.verified THEN "success"
  ELSE IF c.outcome = "SKIPPED" THEN "warning"
  ELSE "danger"

CleanupPill(c) ==
  CASE c.outcome = ""        -> "muted"
    [] c.outcome = "SUCCESS" -> IF c.verified THEN "success" ELSE "warning"
    [] c.outcome = "SKIPPED" -> "warning"
    [] OTHER                 -> cleanupTone(c)

\* buildCleanupAggregate: does the operations page count the run, and as what?
CleanupCounts(c) ==
  IF ~c.attempted THEN "none"
  ELSE IF c.verified /\ c.remaining = 0 THEN "verified"
  ELSE "failed"

\* The review column of the runs table and the badge of the run's header.
reviewMeta(outcome, state, configured) ==
  IF outcome = "approved" THEN "Approved"
  ELSE IF outcome = "rejected" THEN "Rejected"
  ELSE IF outcome = "timeout" THEN "Review timed out"
  ELSE IF state = "PAUSED" THEN "Awaiting review"
  ELSE IF configured THEN "Configured"
  ELSE "Not required"

\* runActions of summary.go.
runActions(state) ==
  {"describe", "logs"}
    \cup (IF state \in {"REQUESTED", "RUNNING", "PAUSED"} THEN {"cancel"} ELSE {})
    \cup (IF state = "PAUSED" THEN {"approve", "reject"} ELSE {})
=============================================================================
