-------------------------- MODULE ConsoleOperations --------------------------
(***************************************************************************)
(* The operations page, pages/operations.jsx: the cleanup evidence of the  *)
(* recorded runs beside the live sandbox inventory.  Its other cards show  *)
(* the configuration and hold no state.                                    *)
(***************************************************************************)
EXTENDS ConsoleServer, ConsoleWorkspace

VARIABLES ops,      \* data of useApi, or what stands for none
          opsError  \* its last answer was an error

opsPage == <<ops, opsError>>

NoOps == [kind |-> "none"]

-----------------------------------------------------------------------------
OpsInit == ops = NoOps /\ opsError = FALSE

\* The page starts with nothing, and keeps nothing.
OpenOps == ops' = NoOps /\ opsError' = FALSE

\* Every 30 s with auto-refresh on; without it when the page is mounted or
\* refreshed and when the switch is turned.
PollOps ==
  /\ open /= Expired /\ inventory /= Expired
  /\ ops' = Operations
  /\ opsError' = FALSE
  /\ UNCHANGED <<server, autoRefresh>>

\* "showing the last successful snapshot"
PollOpsFails ==
  /\ faults < MaxFaults
  /\ faults' = faults + 1
  /\ opsError' = TRUE
  /\ UNCHANGED <<ops, factory, caches, autoRefresh>>

(***************************************************************************)
(* What is shown                                                           *)
(***************************************************************************)
OpsView ==
  IF ops = NoOps THEN IF opsError THEN "error" ELSE "skeleton" ELSE "page"

Counted(kind) == {r \in DOMAIN ops.counts : ops.counts[r] = kind}

\* The badge of the cleanup card and the empty text of its table.
CleanupBadge ==
  IF Counted("failed") /= {} THEN "failed"
  ELSE IF Counted("failed") \cup Counted("verified") = {} THEN "No sandbox runs"
  ELSE "All verified"

\* The flags of the inventory: withheld without attribution, and no rows at
\* all when the inventory could not be read.
FlagsWith(flag) ==
  IF OpsView = "page" /\ ops.available /\ ops.attribution
    THEN {r \in DOMAIN ops.sandboxes : ops.sandboxes[r] = flag}
    ELSE {}

ShownLeaked == FlagsWith("leaked")
ShownActive == FlagsWith("active")

-----------------------------------------------------------------------------
\* No sandbox a run still needs is called leaked, whatever the ages of the
\* caches behind the page: an operator who removes what it flags stops no run
\* (buildLiveSandboxes: "report it as unclassified instead of encouraging
\* cleanup of a live run").
NoLiveRunIsCalledLeaked ==
  \A r \in ShownLeaked : stage[r] \in {"recorded", "closed"}

\* What the label of the table does not look at: "measured" is set by a scan or a
\* probe alone (summary.go:127-136), so a gate check that found a modified gate
\* is no evidence to securityMeta when neither of them is recorded and the run
\* ended as FAILED, by a cancellation during the alert (workflow.go:204-208).
GateGoesUnseen(d) ==
  /\ d.hardening.gate = "modified" /\ ~summarizeHardening(d.hardening).measured
  /\ d.state \notin SecurityStates

\* The screens agree about a recorded run ("The list and the detail screen must
\* agree about status language", utils.js:3): the tone of the cleanup label is
\* that of the pill beside it, the operations page counts as failed what they
\* paint red and as verified what they paint green, and a red section of the
\* security card comes with a red condition, a run that is not green and an
\* alert in the table, but for a modified gate that goes unseen: there the table
\* says "Not measured" beside a red gate section.
ScreensAgree ==
  \A r \in Runs : Recorded(r) =>
    LET d == RecordedDetail(r)
        cards == RunSummaryCards(d)
        conditions == ConditionsCard(d)
    IN /\ cards.cleanup = cards.cleaned
       /\ CleanupCounts(d.cleanup) = "failed" <=> cards.cleanup = "danger"
       /\ CleanupCounts(d.cleanup) = "verified" <=> conditions["CleanupVerified"] = "success"
       /\ "danger" \in SecurityCard(d.hardening) =>
            /\ \E c \in DOMAIN conditions : c /= "CleanupVerified" /\ conditions[c] = "danger"
            /\ RunRow(d).status.tone /= "success"
            /\ RunRow(d).shield = IF GateGoesUnseen(d) THEN "off" ELSE "alert"

\* A run that the table shows as succeeded is whole on its page: the patch can
\* be downloaded, the gates are green, the cleanup is verified, and no
\* condition, no section and no warning speaks against it.
GreenRunIsWhole ==
  \A r \in Runs : Recorded(r) /\ RunRow(RecordedDetail(r)).status.tone = "success" =>
    LET d == RecordedDetail(r)
    IN /\ RunHeader(d).download
       /\ VerificationCard(d) = "success"
       /\ RunRow(d).cleanup.tone = "success"
       /\ \A c \in DOMAIN ConditionsCard(d) : ConditionsCard(d)[c] /= "danger"
       /\ "danger" \notin SecurityCard(d.hardening)
       /\ Warnings(d) = {}

\* "The run has a durable manifest with a verified cleanup, yet the sandbox is
\* still listed. That is a leak" (catalog.go:401-402): what is flagged when the
\* page is drawn exists at that moment.
LeakedSandboxExists ==
  [][ops' = Operations /\ UNCHANGED server =>
       \A r \in ShownLeaked' : r \in boxes]_<<server, ops, opsError>>
=============================================================================
