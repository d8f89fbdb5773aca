---------------------------- MODULE ConsoleChange ----------------------------
(***************************************************************************)
(* One change on the change page (pages/change-detail.jsx with the cards   *)
(* of components/flows/change-detail) and in the review queue              *)
(* (handleReviews and queue-item.jsx), while its runs proceed.  Both are   *)
(* drawn from the evidence index and from the cached list of open          *)
(* workflows, each of its own age; the factory writes the manifest of a    *)
(* run, folds it into the change and closes the workflow one after the     *)
(* other, and the evidence of a run that is over may be removed by hand    *)
(* (the retention command leaves recorded runs alone).                     *)
(*                                                                         *)
(* Runs are numbered in the order they start.  What a run is to the other  *)
(* pages is in ConsoleServer, the record of the change in ChangeStore.     *)
(***************************************************************************)
EXTENDS Naturals, FiniteSets, FiniteSetsExt

CONSTANT MaxRuns  \* bound on the runs of the change

ASSUME ChangeAssumption == MaxRuns \in Nat \ {0}

VARIABLES
  work,     \* how far each run is
  human,    \* the decision and the verdict of a run that has its manifest
  kept,     \* runs whose evidence is in the store
  record,   \* changes/<id>.json
  known,    \* what the evidence index knows: the record and the runs
  gates,    \* the cached list of open workflows: the paused ones
  answer,   \* data of useApi on the change page
  problem   \* its error

changePage == <<work, human, kept, record, known, gates, answer, problem>>

Activations == 1 .. MaxRuns
NoRecord == [status |-> "none", acts |-> {}, last |-> 0]
NoDetail == [record |-> NoRecord]
\* "failed" stands for a rejected run as well: the change stays open.
Outcomes == {"none", "approved", "succeeded", "failed"}

ChangeInit ==
  /\ work = [r \in Activations |-> "absent"]
  /\ human = [r \in Activations |-> "none"]
  /\ kept = {}
  /\ record = NoRecord
  /\ known = [record |-> NoRecord, runs |-> {}]
  /\ gates = [available |-> FALSE, paused |-> {}]
  /\ answer = NoDetail /\ problem = "none"

(***************************************************************************)
(* The factory                                                             *)
(***************************************************************************)
BeginRun(r) ==
  /\ work[r] = "absent"
  /\ \A q \in 1 .. r - 1 : work[q] /= "absent"
  /\ work' = [work EXCEPT ![r] = "running"]
  /\ UNCHANGED <<human, kept, record, known, gates, answer, problem>>

PauseRun(r) ==
  /\ work[r] = "running"
  /\ work' = [work EXCEPT ![r] = "paused"]
  /\ UNCHANGED <<human, kept, record, known, gates, answer, problem>>

\* Only a run that paused can have been approved.
WriteManifest(r, o) ==
  /\ work[r] \in {"running", "paused"}
  /\ o = "approved" => work[r] = "paused"
  /\ work' = [work EXCEPT ![r] = "recorded"]
  /\ human' = [human EXCEPT ![r] = o]
  /\ kept' = kept \cup {r}
  /\ UNCHANGED <<record, known, gates, answer, problem>>

\* RecordRun with deriveChangeStatus; an attempt that was given up may land late.
FoldRun(r) ==
  /\ work[r] \in {"recorded", "closed"} /\ r \notin record.acts
  /\ record' =
       [status |-> IF record.status \in {"DONE", "ABANDONED"} THEN record.status
                   ELSE IF human[r] = "approved" THEN "DONE"
                   ELSE IF human[r] = "succeeded" THEN "IN_REVIEW"
                   ELSE "OPEN",
        acts   |-> record.acts \cup {r},
        last   |-> r]
  /\ work' = [work EXCEPT ![r] = IF @ = "recorded" THEN "folded" ELSE @]
  /\ UNCHANGED <<human, kept, known, gates, answer, problem>>

\* The workflow closes, also when RecordChange has failed.
CloseRun(r) ==
  /\ work[r] \in {"recorded", "folded"}
  /\ work' = [work EXCEPT ![r] = "closed"]
  /\ UNCHANGED <<human, kept, record, known, gates, answer, problem>>

PruneRun(r) ==
  /\ work[r] = "closed" /\ r \in kept
  /\ kept' = kept \ {r}
  /\ UNCHANGED <<work, human, record, known, gates, answer, problem>>

AbandonChange ==
  /\ record.status \in {"OPEN", "IN_REVIEW", "DONE"}
  /\ record' = [record EXCEPT !.status = "ABANDONED"]
  /\ UNCHANGED <<work, human, kept, known, gates, answer, problem>>

(***************************************************************************)
(* The caches                                                              *)
(***************************************************************************)
ReadEvidence ==
  /\ known' = [record |-> record, runs |-> kept]
  /\ UNCHANGED <<work, human, kept, record, gates, answer, problem>>

\* A workflow whose status query fails is listed as UNKNOWN, not as PAUSED.
ReadOpenRuns ==
  /\ \E answering \in SUBSET {r \in Activations : work[r] = "paused"} :
       gates' = [available |-> TRUE, paused |-> answering]
  /\ UNCHANGED <<work, human, kept, record, known, answer, problem>>

ReadOpenRunsFails ==
  /\ gates' = [available |-> FALSE, paused |-> {}]
  /\ UNCHANGED <<work, human, kept, record, known, answer, problem>>

(***************************************************************************)
(* The answers.  0 stands for no run.                                      *)
(***************************************************************************)
\* The open runs are sorted by their start; the first paused one is offered.
ReviewContext(R) ==
  [pending    |-> R.status = "IN_REVIEW" \/ gates.paused /= {},
   actionable |-> gates.paused /= {},
   command    |-> IF gates.paused = {} THEN 0 ELSE Min(gates.paused)]

\* handleChangeDetail, for a record that the index knows.
ChangeDetail ==
  [record |-> known.record, runs |-> known.runs, review |-> ReviewContext(known.record)]

(* Mutant: an item stands for every paused run of its change. *)
ReviewItemsByChange ==
  LET R == known.record
      mine == R.last \in gates.paused
  IN IF R.status = "IN_REVIEW"
       THEN {[kind |-> IF mine THEN "paused_run" ELSE "in_review", run |-> R.last,
              actionable |-> mine, command |-> IF mine THEN R.last ELSE 0]}
       ELSE {[kind |-> "paused_run", run |-> r, actionable |-> TRUE, command |-> r] :
               r \in gates.paused}

\* handleReviews: a change in review takes its last run out of the paused ones;
\* each of the others is an item of its own.
ReviewItems ==
  LET R == known.record
      mine == R.last \in gates.paused
      inReview ==
        IF R.status = "IN_REVIEW"
          THEN {[kind |-> IF mine THEN "paused_run" ELSE "in_review", run |-> R.last,
                 actionable |-> mine, command |-> IF mine THEN R.last ELSE 0]}
          ELSE {}
  IN inReview \cup
     {[kind |-> "paused_run", run |-> r, actionable |-> TRUE, command |-> r] :
        r \in gates.paused \ {i.run : i \in inReview}}

(***************************************************************************)
(* What is shown                                                           *)
(***************************************************************************)
\* The early returns of ChangeDetailPage: not found wins over loaded data.
ChangeView ==
  IF problem = "not found" THEN "not found"
  ELSE IF answer = NoDetail /\ problem = "failed" THEN "error"
  ELSE IF answer = NoDetail THEN "skeleton"
  ELSE "page"

\* latest, the run of the Latest run button.
LatestRun(a) == IF a.runs = {} THEN 0 ELSE Max(a.runs)

\* warningNotes, with the warning of the server.
WarningNotes(a) == IF a.runs = {} THEN {"No retained run evidence"} ELSE {}

\* ReviewPanel: commands, or the statement that there is no gate.
ReviewPanel(v) ==
  [badge    |-> IF v.pending THEN "Decision pending" ELSE "No decision pending",
   refersTo |-> IF v.pending THEN "cli" ELSE "commands below",
   commands |-> IF v.actionable THEN {v.command} ELSE {},
   gate     |-> v.actionable]

\* ReviewQueueItem, with reviewKindMeta.
ReviewQueueItem(i) ==
  [badge    |-> IF i.kind = "paused_run" THEN "Paused run" ELSE "In review",
   commands |-> IF i.actionable THEN {i.command} ELSE {},
   gate     |-> i.actionable]

(* Mutant: a change with evidence has no gap. *)
missingOfEmptyOnly(a) == IF a.runs = {} THEN a.record.acts ELSE {}

\* missingActivationRuns.
missingActivationRuns(a) == a.record.acts \ a.runs

\* ActivationTable: a row for every run, with its activationReason, and a
\* footer that names the activations without evidence.
ActivationTable(a) ==
  [rows   |-> [r \in a.runs |-> IF r \in a.record.acts THEN "reason" ELSE "Not in lineage"],
   footer |-> missingActivationRuns(a)]

(***************************************************************************)
(* The page                                                                *)
(***************************************************************************)
PollChange ==
  /\ IF known.record = NoRecord
       THEN problem' = "not found" /\ UNCHANGED answer
       ELSE problem' = "none" /\ answer' = ChangeDetail
  /\ UNCHANGED <<work, human, kept, record, known, gates>>

PollChangeFails ==
  /\ problem' = "failed"
  /\ UNCHANGED <<work, human, kept, record, known, gates, answer>>

ChangeNext ==
  \/ \E r \in Activations :
       \/ BeginRun(r) \/ PauseRun(r) \/ FoldRun(r) \/ CloseRun(r) \/ PruneRun(r)
       \/ \E o \in Outcomes \ {"none"} : WriteManifest(r, o)
  \/ AbandonChange
  \/ ReadEvidence \/ ReadOpenRuns \/ ReadOpenRunsFails
  \/ PollChange \/ PollChangeFails

-----------------------------------------------------------------------------
ChangeTypeOK ==
  /\ work \in [Activations -> {"absent", "running", "paused", "recorded", "folded", "closed"}]
  /\ human \in [Activations -> Outcomes]
  /\ kept \subseteq Activations
  /\ record.acts \subseteq Activations /\ record.last \in Activations \cup {0}
  /\ gates.paused \subseteq Activations
  /\ ~gates.available => gates.paused = {}
  /\ problem \in {"none", "not found", "failed"}

QueueShown == {ReviewQueueItem(i) : i \in ReviewItems}

\* Every workflow that is known to wait for a decision is offered by exactly one
\* item of the queue, also when its change has an item of its own, and no screen
\* offers a command for a run that never got past its work (handlers.go,
\* handleReviews and handleChangeDetail; queue-item.jsx; review-panel.jsx).
EveryGateIsOffered ==
  /\ \A r \in gates.paused : Cardinality({i \in ReviewItems : i.command = r}) = 1
  /\ \A r \in UNION {q.commands : q \in QueueShown} : work[r] \notin {"absent", "running"}
  /\ ChangeView = "page" =>
       \A r \in ReviewPanel(answer.review).commands : work[r] \notin {"absent", "running"}

\* The change page and the review queue give one account of the change: a
\* decision is pending on the page iff the queue has an item, and the page has
\* commands iff an item has them, and then it is one of theirs.
PageAndQueueAgree ==
  known.record /= NoRecord =>
    LET panel == ReviewPanel(ReviewContext(known.record))
        offered == UNION {q.commands : q \in QueueShown}
    IN /\ panel.badge = "Decision pending" <=> ReviewItems /= {}
       /\ panel.commands \subseteq offered
       /\ panel.commands = {} <=> offered = {}

\* An activation that the page has named is named by every later answer, as a
\* row of the table or in the footer: "surfacing the gap keeps the screen honest
\* about pruned evidence" (flows/helpers.js:118-120). An empty table has its
\* warning.
Named(a) ==
  IF a = NoDetail THEN {}
  ELSE LET t == ActivationTable(a)
       IN {r \in DOMAIN t.rows : t.rows[r] = "reason"} \cup t.footer
LineageOnlyGrows == [][Named(answer) \subseteq Named(answer')]_changePage

\* "no live workflow is paused, so there is no gate to signal" (handlers.go, the
\* note of an item): an item without a gate means that no run of the change is
\* paused.
NoGateMeansNoGate ==
  \A i \in ReviewItems : ~ReviewQueueItem(i).gate => gates.available /\ gates.paused = {}

\* "The reference commands below remain the CLI entry points for a decision on
\* this change" (review-panel.jsx): there are commands below.
ReferenceCommandsAreBelow ==
  LET panel == ReviewPanel(ReviewContext(known.record))
  IN panel.refersTo = "commands below" => panel.commands /= {}

\* A run that waits for a decision is found from the queue and from the page of
\* its change, with the same command.
GateIsFound == ChangeTypeOK /\ EveryGateIsOffered /\ PageAndQueueAgree
=============================================================================
