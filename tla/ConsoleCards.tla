---------------------------- MODULE ConsoleCards ----------------------------
(***************************************************************************)
(* What the runs table and the cards of the run page make of the answer to *)
(* GET /runs/{id}: components/runs and ui/status-pill.jsx.  An operator is *)
(* a tone, or a record of tones and of what is drawn at all.               *)
(***************************************************************************)
EXTENDS ConsoleEvidence

\* runStateTone of lib/format.js. "fallen" is red, and grey for BLOCKED and
\* CANCELLED.
runStateTone(state) ==
  CASE state = "SUCCEEDED"               -> "success"
    [] state \in {"RUNNING", "REQUESTED"} -> "info"
    [] state = "PAUSED"                  -> "warning"
    [] state \in SecurityStates          -> "security"
    [] OTHER                             -> "fallen"

\* The pill of a run, in the table, in the header and in the first summary card.
StatusPill(state) == Label(runStateTone(state), state)

SecurityLabel(d) == securityMeta(summarizeHardening(d.hardening), d.state)

\* The shield beside the label, in the table and on the security card.
SecurityIndicator(d) ==
  LET tone == SecurityLabel(d).tone
  IN  CASE tone = "muted"   -> "off"
        [] tone = "success" -> "check"
        [] OTHER            -> "alert"

\* One row of the runs table.
RunRow(d) ==
  [status   |-> StatusPill(d.state),
   cleanup  |-> cleanupMeta(d.cleanup),
   security |-> SecurityLabel(d),
   shield   |-> SecurityIndicator(d)]

\* The header of the page: the review badge (review_configured and
\* review_outcome are empty for a live run) and the download of the patch.
RunHeader(d) ==
  [status   |-> StatusPill(d.state),
   live     |-> d.kind = "live",
   review   |-> d.state = "PAUSED",
   download |-> d.patch]

-----------------------------------------------------------------------------
\* The conditions the manifest of a finished run holds of its hardening and of
\* its cleanup. The gates are checked after the agent's output is scanned, and
\* the scan is judged only if they are as they were. A probe that could not
\* decide is Unknown, and is not told from a clean one here; neither is a gate
\* check that failed while the monitor was off told from no check at all.
Conditions(d) ==
  LET h == d.hardening
      audited == h.behavior /= "none" \/ h.gate /= "none"
      judged == h.behavior /= "none" /\ h.gate \notin {"none", "modified"}
  IN  [c \in {"CleanupVerified", "EgressVerified", "GateIntegrity", "BehaviorScanned"} |->
         CASE c = "CleanupVerified" -> IF d.cleanup.verified THEN "True" ELSE "False"
           [] c = "EgressVerified"  -> [none |-> "Unknown", clean |-> "True", violated |-> "False"][h.probe]
           [] c = "GateIntegrity"   -> IF ~audited THEN "Unknown"
                                       ELSE IF h.gate = "clean" THEN "True"
                                       ELSE IF h.gate = "unchecked" THEN "Unknown"
                                       ELSE "False"
           [] OTHER                 -> IF ~judged THEN "Unknown"
                                       ELSE IF h.behavior = "tripped" THEN "False"
                                       ELSE "True"]

\* statusMeta of run-conditions.jsx.
statusMeta(status) ==
  CASE status = "True"  -> "success"
    [] status = "False" -> "danger"
    [] OTHER            -> "muted"

ConditionsCard(d) == [c \in DOMAIN Conditions(d) |-> statusMeta(Conditions(d)[c])]

\* The badge of the verification card: the file, and nothing but the file.
VerificationCard(d) ==
  CASE d.gates = "unavailable" -> "warning"
    [] d.gates = "passed"      -> "success"
    [] OTHER                   -> "danger"

\* The summary cards: the icon takes its tone from utils.js, the pill beside it
\* from status-pill.jsx, and the count of remaining sandboxes needs an outcome.
RunSummaryCards(d) ==
  [factory   |-> runStateTone(d.state),
   pill      |-> StatusPill(d.state),
   cleanup   |-> cleanupMeta(d.cleanup).tone,
   cleaned   |-> CleanupPill(d.cleanup),
   remaining |-> d.cleanup.outcome /= "",
   gates     |-> d.gates /= "unavailable"]

\* The badge and the budget row of the metadata card go by the manifest.
RunMetadataCard(d) ==
  [unrecorded |-> d.kind = "live" \/ d.hardening = NoHardening,
   budget     |-> d.kind /= "live"]

\* The warnings the server sends along, above all cards (RunNotices). That of the
\* gates needs an outcome of the verification, which every run has from its start
\* (SKIPPED, workflow.go:175) to its manifest.
Warnings(d) ==
  (IF d.kind = "live" THEN {"No durable manifest"} ELSE {})
    \cup (IF d.gates = "unavailable" THEN {"No verification result"} ELSE {})
    \cup (IF d.kind = "final" /\ d.hardening = NoHardening THEN {"No hardening evidence"} ELSE {})
=============================================================================
