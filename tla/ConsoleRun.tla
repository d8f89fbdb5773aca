----------------------------- MODULE ConsoleRun -----------------------------
(***************************************************************************)
(* The run detail page: pages/run-detail.jsx with the cards of             *)
(* components/runs.  The page asks for the detail of one run over and      *)
(* over; its patch viewer makes a request of its own for every setting of  *)
(* patchAvailable, refreshNonce and patchNonce.                            *)
(*                                                                         *)
(* A poll and its answer are one step: ConsoleFeed shows what useApi makes *)
(* of answers that take their time.  Downloads and the preview dialog are  *)
(* part of ConsoleSession and ConsoleShell.                                *)
(***************************************************************************)
EXTENDS ConsoleServer, ConsoleWorkspace

CONSTANTS MaxNonce  \* bound on the presses of Retry and Refresh

ASSUME RunAssumption == MaxNonce \in Nat

VARIABLES
  shown,    \* the run whose page is open, or "none"
  detail,   \* data of useApi
  trouble,  \* error of useApi
  nonces,   \* presses of Retry and Refresh
  effect,   \* number of the patch effect that runs
  patch,    \* the patch state and the effect that set it
  fetches   \* patch requests on the way, by the effect that sent them

runPage == <<shown, detail, trouble, nonces, effect, patch, fetches>>

NoData == [kind |-> "none"]
Patch(phase, of) == [phase |-> phase, of |-> of]

\* patchAvailable
Available(d) == d.kind \in {"live", "final"} /\ d.patch

-----------------------------------------------------------------------------
(***************************************************************************)
(* What is shown                                                           *)
(***************************************************************************)
RunView ==
  IF detail /= NoData THEN "page"
  ELSE IF trouble = "none" THEN "skeleton"
  ELSE IF trouble = "not found" THEN "not found"
  ELSE "error"

\* A banner tells a live run from a recorded one.
RunBanner == IF detail.kind = "live" THEN "live" ELSE "none"

CommandsCard(d) == d.actions

PatchCard ==
  IF ~Available(detail) THEN "No patch recorded" ELSE patch.phase

(***************************************************************************)
(* The patch effect                                                        *)
(***************************************************************************)
\* The cleanup of the effect cancels its request; the next one asks anew.
PatchEffect(available) ==
  /\ effect' = effect + 1
  /\ patch' = Patch(IF available THEN "loading" ELSE "idle", effect + 1)
  /\ fetches' = IF available THEN fetches \cup {effect + 1} ELSE fetches

\* It runs when what it depends on has changed.
PatchEffectOf(d, nonceChanged) ==
  IF nonceChanged \/ Available(d) /= Available(detail)
    THEN PatchEffect(Available(d))
    ELSE UNCHANGED <<effect, patch, fetches>>

\* The answer of a cancelled request is dropped.
PatchArrives(n) ==
  /\ n \in fetches
  /\ fetches' = fetches \ {n}
  /\ \E answered \in BOOLEAN :
       /\ answered \/ faults < MaxFaults
       /\ faults' = IF answered THEN faults ELSE faults + 1
       /\ patch' = IF n /= effect THEN patch
                   ELSE Patch(IF PatchIsServed(shown, answered) THEN "text" ELSE "error", n)
  /\ UNCHANGED <<shown, detail, trouble, nonces, effect, factory, caches, autoRefresh>>

(***************************************************************************)
(* The page                                                                *)
(***************************************************************************)
RunInit ==
  /\ shown = "none" /\ detail = NoData /\ trouble = "none"
  /\ nonces = 0 /\ effect = 0 /\ patch = Patch("idle", 0) /\ fetches = {}

\* Every run has a page of its own: nothing is kept from the last one.
OpenRun(r) ==
  /\ shown' = r
  /\ detail' = NoData /\ trouble' = "none"
  /\ effect' = 1 /\ patch' = Patch("idle", 1) /\ fetches' = {}
  /\ UNCHANGED nonces

LeaveRun ==
  /\ shown' = "none"
  /\ detail' = NoData /\ trouble' = "none"
  /\ effect' = 0 /\ patch' = Patch("idle", 0) /\ fetches' = {}
  /\ UNCHANGED nonces

\* An error leaves the data alone. pressed: a nonce of the effect has changed.
Answer(a, pressed) ==
  /\ IF a = NotFound
       THEN /\ trouble' = "not found"
            /\ UNCHANGED detail
       ELSE /\ trouble' = "none"
            /\ detail' = a
  /\ PatchEffectOf(detail', pressed)
  /\ UNCHANGED <<shown, factory, caches>>

\* With auto-refresh on the page asks every 10 s while its last answer was that of
\* a live run and every 60 s otherwise, and once more when that changes. With it
\* off the page asks when it is mounted or refreshed and when the switch is turned.
\* How long it waits is left open: the run may have moved on by any number of
\* steps before the page asks again.
PollRun ==
  /\ shown /= "none"
  /\ \E answered \in BOOLEAN :
       /\ answered \/ faults < MaxFaults
       /\ faults' = IF answered THEN faults ELSE faults + 1
       /\ Answer(RunDetail(shown, answered), FALSE)
  /\ UNCHANGED <<nonces, autoRefresh>>

\* The request itself fails.
PollRunFails ==
  /\ shown /= "none"
  /\ faults < MaxFaults
  /\ faults' = faults + 1
  /\ trouble' = "failed"
  /\ UNCHANGED <<shown, detail, nonces, effect, patch, fetches, factory, caches, autoRefresh>>

\* The workspace's refresh asks for the detail and for the patch.
Refresh ==
  /\ shown /= "none" /\ nonces < MaxNonce
  /\ nonces' = nonces + 1
  /\ Answer(RunDetail(shown, TRUE), TRUE)
  /\ UNCHANGED <<faults, autoRefresh>>

RetryPatch ==
  /\ shown /= "none" /\ RunView = "page"
  /\ PatchCard = "error"
  /\ nonces < MaxNonce
  /\ nonces' = nonces + 1
  /\ PatchEffectOf(detail, TRUE)
  /\ UNCHANGED <<shown, detail, trouble, faults, factory, caches, autoRefresh>>

RunNext ==
  \/ PollRun \/ PollRunFails \/ Refresh \/ RetryPatch
  \/ \E n \in fetches : PatchArrives(n)

-----------------------------------------------------------------------------
RunTypeOK ==
  /\ shown \in Runs \cup {"none"}
  /\ detail.kind \in {"none", "live", "final"}
  /\ trouble \in {"none", "not found", "failed"}
  /\ patch.phase \in {"idle", "loading", "text", "error"}
  /\ patch.of \in 0 .. effect
  /\ \A n \in fetches : n \in 1 .. effect

\* What the patch viewer shows comes from the effect that runs: the answer to
\* an earlier press of Refresh or Retry cannot replace it (run-detail.jsx, the
\* cancelled flag), and a patch is only in the viewer while the detail has one.
PatchIsOfThisView ==
  /\ patch.of = effect
  /\ patch.phase = "idle" <=> ~Available(detail)
  /\ patch.phase = "loading" => effect \in fetches

\* A green security label stands over evidence: the behavior scan and the gate
\* check have run and are green, and no section of the card is red or amber
\* (securityMeta of utils.js against the sections of run-security.jsx).
CleanIsBackedUp ==
  detail /= NoData /\ SecurityLabel(detail).tone = "success" =>
    /\ BehaviorSection(detail.hardening) = {"success"}
    /\ GateSection(detail.hardening) = {"success"}
    /\ SecurityCard(detail.hardening) \cap {"danger", "warning"} = {}

\* While the workflow's status is all there is, no card reports a cleanup, a
\* count of sandboxes, a budget or a clean scan, and the page says that it is
\* live (run-notices.jsx: "Nothing is fabricated while waiting"); a decision is
\* offered exactly when the header and the review column say one is awaited.
NothingFabricated ==
  detail.kind = "live" =>
    /\ RunBanner = "live" /\ RunHeader(detail).live
    /\ cleanupMeta(detail.cleanup).label = "Not reported"
    /\ ~RunSummaryCards(detail).remaining /\ ~RunMetadataCard(detail).budget
    /\ RunRow(detail).shield /= "check"
    /\ "approve" \in CommandsCard(detail) <=> RunHeader(detail).review
    /\ RunHeader(detail).review
         <=> reviewMeta("", detail.state, FALSE) = "Awaiting review"

\* "Warnings are not cosmetic: they explain when a section is missing"
\* (run-notices.jsx:7-8): a card that has nothing to show has its warning above,
\* and so has a manifest that is not there.
MissingIsExplained ==
  detail /= NoData =>
    /\ ~RunSummaryCards(detail).gates => "No verification result" \in Warnings(detail)
    /\ SecurityCard(detail.hardening) = {} /\ RunMetadataCard(detail).unrecorded
         => Warnings(detail) \cap {"No hardening evidence", "No durable manifest"} /= {}

\* "missing evidence is reported as missing, never as a clean or zero result"
\* (components/runs/utils.js:5-6): a clean label needs every control measured
\* and every scan finished, and a count of remaining sandboxes needs one.
MissingIsMissing ==
  detail.kind = "final" =>
    /\ SecurityLabel(detail).label = "Clean" =>
         detail.hardening.probe /= "none" /\ ~detail.hardening.error
    /\ detail.cleanup.outcome = "ERROR" /\ shown \in boxes => detail.cleanup.remaining > 0
=============================================================================
