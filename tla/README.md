# A TLA+ verification project for ESF

ESF is a software factory: a Go program that takes a task and a repository,
provisions a disposable microVM, lets an untrusted coding agent work in it,
verifies the result with deterministic gates, asks a human where that is
configured, destroys the microVM and keeps the evidence. This directory holds
TLA+ models of the parts that decide what a run's verdict means and what its
operator is told of it, the TLC runs that check them on small instances, and
TLAPS proofs of what matters most.

## 1. The system and its parts

| Part | Source | State it keeps | Operations | Hard behaviour |
| --- | --- | --- | --- | --- |
| Run workflow | `internal/factory/workflow.go` | `workflowState`: status, conditions, outcomes, cleanup | validate, create, prepare, lock down, run agent, audit, verify, review, clean up, finalize | cancellation and total timeout at any await; signals at any time; the verdict is assembled over 20 awaits |
| Activities | `internal/factory/activities*.go`, `behavior.go`, `hardening_evidence.go` | none between attempts; effects on sandboxes and evidence | one per workflow step | attempts are retried, lost, and outlive the workflow's wait |
| Sandbox provider | `internal/sandbox`, `internal/sandbox/cube` | live microVMs with ownership metadata | create, list, destroy, suspend, resume, execute | a create may take effect after its caller gave up |
| Operators' CLI | `cmd/factory` | none | run, status --watch, cancel, halt, review, resources | acts on a run whose state it does not look at |
| Changes | `internal/factory/change.go` | one JSON document per change, a lock file | record run, rework, close | concurrent writers, out-of-order completions |
| Resources and configuration | `internal/factory/config.go`, `resources.go`, `credential_policy.go` | files read at start | resolve workspace, egress, model, limits | pure resolution with precedence and clamping |
| Evidence store | `internal/factoryartifacts`, `internal/factory/audit.go` | files of a run, an append-only audit log | write (temp, sync, rename), append, read | crash between steps, concurrent appenders |
| Turn executor | `internal/turnexec`, `cmd/turn-executor` | durable records of turns, leases, permissions, events | submit, renew, cancel, answer permission, recover | a process that crashes and reopens; leases that expire while work finishes |
| Console server | `internal/console` | index of manifests, list of open workflows, sandbox inventory, throttle table | run detail, operations, review queue, changes, login throttle | answers joined from caches of three ages; concurrent refreshes, bounded tables |
| Notifications | `internal/notify` | none | deliver an alert with retries | bounded retry, timeouts |
| Threat monitor | `internal/threatmon` | compiled rules | scan text, rank findings | pure |
| Verification | `internal/verification` | profile | run gates in order, stop on failure | time-outs |
| Repositories | `internal/repository` | none | validate, clone, diff, collect a patch | shells in the sandbox |
| Agent harnesses | `internal/agentharness` | none | build a command line, parse output | text formats |
| Pi agent | `agents/pi/src` | an owner lock, session identity, journal, usage and terminal receipts | supervise an engine process, restart it once, stop on deadline or signal | crash during a shell call, deadline against exit, supervisor death between receipts |
| HTTP security, secrets, TOML | `internal/httpsecurity`, `secretfile`, `tomlx` | none | parse and check | pure I/O |
| Console: polling | `web/src/lib/hooks.js` | the question, the answer, a request number, a timer | ask, load, poll, abort | late answers, hidden tabs, a question that changes under its request |
| Console: session and shell | `web/src/lib/session.jsx`, `api.js`, `components/layout` | token, session, overlays, the scroll lock | sign in, verify, lose the session, open and close overlays | a 401 to an older token; two effects over one body style |
| Console: lists, palette, dispatch, changes | `web/src/pages`, `components/flows` | filters, cursors, highlight, form | filter, search, page, select, compose a command, decide a review | rows, results and catalogs that change under what was chosen from them |
| Console: run and operations pages | `web/src/pages/run-detail.jsx`, `operations.jsx`, `components/runs` | the last answer, the patch viewer | poll, load a patch, label evidence | part of the evidence missing; a verdict that is still to come |
| Console: overview, security, settings, charts | `web/src/pages`, `components` | none of their own | display | presentation |

How they interact: the CLI starts a Temporal workflow; the workflow awaits
activities, which drive the provider, the harness and the evidence store; an
operator cancels or signals the workflow through Temporal; `status --watch` and
the console query it; `RecordChange` folds the finished run into its change.

For each part, what makes it correct:

* Run workflow: a verdict has the grounds it claims; a security stop is not
  overwritten; a cancelled or overdue run says so; the manifest, once durable,
  stays; every run closes.
* Provider and activities: at most one microVM per run; "verified" means gone.
* Changes: no activation is lost or counted twice; a human's decision sticks.
* Turn executor: no sandbox escapes a restart; nothing runs twice; a decision is
  durable before the guest sees it; an execution that lost its owner, or was
  cancelled, publishes nothing; results are complete and final.
* Evidence store, audit trail: readers see whole files; acknowledged writes stay.
* Resolution: the narrower limit and the stricter policy win, in every order.
* Pi agent: no restart while a shell call or a stray process may still change
  the tree; usage is called complete only when no provider attempt was lost; one
  terminal receipt, written after the usage it stands on.
* Console server: a run that works is never called leaked, a leak is flagged in
  the end, every gate that waits is offered.
* Console web: what is shown answers the question that is asked; a session ends
  by its own token; a page is reached by a path back; a label claims no more
  than the evidence it is made of; whoever stays sees the verdict.

## 2. Modules

* `FactoryRun` models the run workflow, its activities, the provider's view of
  the run's microVMs, and the operators. `pc` names the activity the workflow
  awaits; each action is one activity's resolution together with everything the
  workflow does until its next await. The `CreateSandbox` activity has a process
  of its own (`createPhase`), because an attempt that is executing when the
  workflow is cancelled runs on. `DestroySandbox` is three steps (list, destroy,
  list again) because the provider may act in between. Attempts of one activity
  follow each other: the deadline of an attempt is the deadline of the context it
  passes to the provider, so a timed-out attempt has given up its call.
  `RunLifecycle` says what is left of a run without activities, attempts, provider
  and conditions (what it shows, the sandbox it holds, the review gate, the cleanup
  and the record, and in which order each may change), and `FactoryRun` implements
  it under the mapping `Lifecycle`.
* `StatusWatch` composes `FactoryRun` with a `status --watch` poller.
* `TurnExec` models the turn execution service. `rec` is the map of records in
  memory, `disk` the files; every `persist` is a choice between success, failure,
  and failure after the rename. `pc` is the runner goroutine of an execution,
  `ctx` its context, `lease` the time left on its lease. Handlers, the lease
  watcher and the polls hold `s.mu` for one step; `finish` holds it for three,
  because the deadline of the context passes without the lock. `Crash` forgets
  memory, `Open` and `Reconcile` are the restart, one record at a time.
  `TurnContract` says what an owner may rely on, in terms of the durable records,
  the starts of the harness and what the guest is told, and `TurnExec` implements
  it under the mapping `Contract`: the files are the records, memory is nothing.
* `ChangeStore` models one change document, the `RecordChange` attempts of the
  runs that belong to it and an operator who abandons it. An attempt is an actor
  of its own: `flock` and the disk do not watch the activity's context, so a
  timed-out attempt may land late. `ChangeLedger` says what is left of it without
  file, lock, copies and attempts (runs are folded into a ledger, one at a time,
  as it stands at that moment; a person may abandon it), and `ChangeStore`
  implements it under the mapping `Ledger`.
* `PiSupervisor` models invocations of the Pi agent over one session directory:
  `sup[s]` is the loop of `supervise`, `eng[s]` the engine process it awaits,
  `procs` the shells the engines started and what those left running, and
  `sup[s].base` the inventory of processes a launch takes before its first engine
  and accepts (`supervisor.mjs:42`): what an earlier launch on the session left
  running is in it, and may work beside the engines of this one. Processes of the
  VM that no engine started are left out. The files (`lock`, `identity`,
  `journal`, `receipts`) outlive every process; any process may die at any moment
  and any write may fail.
* `ConsoleFeed` models `useApi`: an effect run owns an abort controller, a number
  and at most one timer; `loads` holds the requests of this and of earlier runs.
  `LatestAnswer` says what a page may rely on (a question, the answer shown,
  waiting or failed), and `ConsoleFeed` implements it under the mapping `Latest`.
* `ConsoleSession` (token, verification, requests that carry it) and
  `ConsoleShell` (overlays, menus, keys, the scroll lock) are composed by
  `ConsoleApp`, where losing the session unmounts the shell, and which adds the
  operator's auto-refresh switch.
* `ConsoleLists`, `ConsolePalette`, `ConsoleDispatch` and `ConsoleChange` model
  the screens an operator works with; `ConsoleScreens` is their sum. They share
  no variable, so a behaviour of two of them is an interleaving of one of each,
  and the sum follows one at a time. A render and its effects are one step; what
  an effect sets is rendered in the next.
* `ConsoleEvidence` and `ConsoleCards` are the labels as operators: what the
  server summarises of a manifest and what each card makes of it. `ConsoleServer`
  models a factory cut down to what the console sees of it, and the three caches
  it is seen through; `ConsoleRun` and `ConsoleOperations` are the two pages over
  it, `ConsolePages` the router that mounts one of them. `ConsoleWorkspace`
  is the auto-refresh switch. An answer may come at any moment, since the operator
  may refresh at any moment; that one must come is assumed only while the switch is
  on or the page still is a skeleton. How long a page waits in between (10 s or 60 s
  on the run page, by its last answer) is left open, so every order of a poll and
  what it looks at is checked.
* The `MC` modules give TLC the sets that a configuration cannot write down, and
  the symmetries.
* `FactoryRunProofs` (the run, its record and its watcher), `TurnExecProofs`,
  `ChangeStoreProofs`, `PiSupervisorProofs`, `ConsoleFeedProofs`,
  `ConsoleAppProofs`, `ConsoleScreensProofs` and `ConsolePagesProofs` hold the
  theorems.

Where the code tests conditions one after the other the model has IF ... ELSE IF:
a CASE whose guards overlap would leave the choice open.

A definition whose comment starts with "Mutant:" is no part of a specification:
it is a plausible slip in the definition that follows it, with which the named
property must fail (`PROJECT.json`, "mutants").

## 3. Runs

| Run | Question | Bounds |
| --- | --- | --- |
| `factory_run` | what verdicts, manifests and sandboxes a run can have; does it keep the promises of `RunLifecycle`, also when its finalization is repeated | intake on; probe, monitor and review on or off, suspend with review (which alone asks about it); 2 create, 2 destroy, 2 finalize attempts; 1 signal |
| `status_watch` | does every run close with its sandbox accounted for, and which final states of its watcher cannot change | intake, alert, review and suspend on or off; single attempts; no signals |
| `turn_exec` | sandboxes, replay, permissions, cancellation, lease, results; does it keep `TurnContract`; does every accepted execution end | 1 execution, 2 contents of one permission request, asked for ever, 1 lease tick, 1 crash, any number of orderly restarts, all faults but the late create |
| `turn_capacity` | is a slot free only when its runner is done | 2 executions, 1 slot, failing writes and late creates |
| `change_store` | activations exact; is the store the ledger it should be | 2 runs, 2 attempts each, an operator abandoning at any time |
| `pi_supervisor` | who owns the session, when an engine starts again, what receipts claim, does a launch end | 2 launches with 2 requests, 1 restart each |
| `console_feed` | is what is shown the latest answer to the present question, and does it catch up | 2 questions, 3 effect runs, 2 changes of the evidence, 1 failure |
| `console_app` | which answer ends a session, who gives the scroll lock back | 2 tokens, 2 reads and 1 download under way, 1 rotation, 1 failure, the run screen and one other; auto-refresh on or off, switched at any time |
| `console_screens` | cursors, search, highlight, offers, gates | lists of up to 3 rows in pages of 1 or 2; 2 queries with answers of up to 2 entries; 4 configurations; changes of up to 2 runs |
| `console_pages` | what a label proves, whatever page it is on and when it was loaded; what reaches an operator who stays | 1 run with 4 kinds of evidence, 1 failing answer, 1 retry; auto-refresh on or off, switched at any time |

Each bound is the smallest at which the case in question happens: a second
attempt is a retry after a lost response (a second finalization of `factory_run`
is one that is repeated although the first may have been written; the other runs
of `FactoryRun` have single attempts, which ask nothing about retries), a second
content of one permission request is a replaced request, a second run of a change is a race and an inversion of order, two executions and one slot
are competition for capacity; a second launch finds the lock, the identity and
the receipts of the first; a second question makes the first one's answer late; a
second token makes a rejection one of an older session; three rows in pages of one
give a page in the middle, from which rows can vanish on either side. The code
treats a third of each exactly like the second. Runs of the operations page do not
interact with each other, so one run is enough there. The four
kinds of evidence are a run without findings, one whose gates could not be checked,
one stopped at its boundary, and one with a modified gate that neither a probe nor
a scan measured; the other kinds, scans with findings among them, are left to the
theorems about the labels (section 5), which hold for all of them.

Several of the properties a run names are conjunctions of named parts, each with
its own comment in the module (`CompletionIsDeserved`, `SessionIsExclusive`,
`PagerKeepsItsPlace`, ...): TLC checks every part.

The two remaining runs are expected violations: each states what a document or a
comment says, and TLC finds a behaviour of the code that contradicts it.

| Run | What it shows |
| --- | --- |
| `cancel_in_review` | a run cancelled in the review wait can succeed. The run is configured with a review and may be cancelled nowhere else |
| `clean_label` | a run whose egress was never probed and whose patch scan failed is labelled "Clean"; and (the second half of `MissingIsMissing`) a cleanup that ended in an error counts 0 remaining sandboxes while one exists |

A cancellation is also missed in a second way, which `cancel_in_review` leaves out
and `FactoryRun` has: a collection of artifacts that the cancellation interrupts is
counted as failed collection (`workflow.go:666`, `1084`), nothing is awaited after
it, and the run ends as INFRASTRUCTURE_FAILED. `CancelIsRecognized` is stated of
runs whose evidence is complete.

The modules state more claims that TLC refutes in the same way. They have no run
of their own: to see the counterexample, put the property in the configuration
named here.

| Property | Configuration | What the code does |
| --- | --- | --- |
| `TotalTimeoutIsEnforced` | `FactoryRunCancel` | a run overdue in the review wait can succeed (the cause is that of `cancel_in_review`) |
| `CancelledMeansCancelled` | `FactoryRunCancel` | an error text with "canceled", as of a stopping worker, makes a run CANCELLED |
| `DecisionFollowsEvidence` | `FactoryRunCancel` | a decision sent before the evidence existed closes the gate |
| `RejectionKeepsResult` | `FactoryRunCancel` | a rejection replaces the gates' result (`docs/operator-guide.md:143`) |
| `VerifiedMeansEmpty` | `FactoryRun` | a create that is executing when its run is cancelled leaves a microVM behind a verified cleanup (`docs/FACTORY.md:37`): `WorkSandboxGone` speaks only of creates the run has recorded |
| `ScannedMeansPatchScanned` | `FactoryRun` | a failed patch scan is reported as clean (`workflow.go:790`) |
| `FinalStateIsFinal` | `StatusWatch` | the watcher prints a final state that the audit or the cleanup then replaces |
| `WatchReturnsAfterRun` | `StatusWatch` | the watcher of a rejected (blocked, quarantined, ...) run polls for ever |
| `CompletedHasCheckpoint` | `TurnExec` | a timeout inside `finish` leaves a completed turn without checkpoint |
| `CheckpointIsReadable` | `TurnExec` | a failed result names a checkpoint that was not stored |
| `TerminalHasResult` | `TurnExec` | a failed last write leaves a terminal turn whose result answers "active" |
| `RestartFailsOnlyActive` | `TurnExec` | a restart turns timed-out and cancelled turns into failed ones |
| `LiveSandboxIsRecoverable` | `TurnExec` with `Faults <- LateFaults` | a create that lands after the reconciliation escapes every restart |
| `LastRunIsMostRecent` | `ChangeStore` | the change follows the run recorded last, not the latest run |
| `PageScrolls` | `ConsoleApp` | an overlay opened over the evidence preview and closed after it leaves the page locked |
| `RejectionEndsSession` | `ConsoleApp` | a 401 to a patch download shows a toast and the session stays (`api.js:4`) |
| `RangeLabelIsOrdered` | `ConsoleScreens` | a page past the end is labelled with a range that ends before it starts |
| `InReviewAreElsewhere` | `ConsoleScreens` | "none of them fall on this page" of changes that are on no page: they are listed as paused runs |
| `OfferIsAccepted` | `ConsoleScreens` | the dispatch page offers commands the factory refuses (`dispatch.jsx:197`): it compares URL texts where the factory compares paths, takes an empty allowlist for permission, and knows neither the models' scopes nor retired names |
| `NoGateMeansNoGate` | `ConsoleScreens` | "no live workflow is paused" is said while a rework run is paused, or while the live data is unavailable |
| `ReferenceCommandsAreBelow` | `ConsoleScreens` | "the reference commands below" are not there when no decision is pending |
| `LeakedSandboxExists` | `ConsolePages` | a sandbox that is gone is flagged as leaked (`catalog.go:401`): the inventory may be 20 s old, the list of open runs and the index are younger |

Modelling met further divergences that no property states, because they are
about wording or layout: a live run shows agent and verification as "Skipped"
while they run (`run-notices.jsx:54`); a filter fetches one page at the old offset
(`runs.jsx:48`, `changes.jsx:76` after a failed load); a search is lost when its
chip is cleared and the same text typed again within 300 ms; a page past the end
says that nothing was recorded; a hidden tab goes on polling, 4 s later
each time (`hooks.js:4` says that it does not); "\ No newline" rows shift line numbers in the patch
viewer; the palette shows the previous query's results while it loads, and Enter
during the skeleton opens a page shortcut that is not drawn; the dispatch form
draws the first option where the command names a retired one, and unchecking the
review pause does not turn review off; "still executing" is said of a closed run
that is not indexed; a live page shows SUCCEEDED before a cleanup that fails it; a
skipped cleanup is painted as a warning (`workflow.go:1122` calls it a success); a
404 replaces the change page's data but not the run page's.

One more was found by a proof. `ScreensAgree` once said that a red section of the
security card comes with an alert in the evidence table ("The list and the detail
screen must agree about status language", `utils.js:3`). The prover could not
close the case of a gate check that found a modified gate while neither a scan
nor a probe is recorded, as when both features are off, and whose run a
cancellation during the alert made FAILED (`workflow.go:204`): `measured` is set
by a scan or a probe only (`summary.go:127`), so the table says "Not measured"
(`utils.js:100`) beside a red gate section. No run had that evidence. It is now
one of the kinds `console_pages` enumerates, and `ScreensAgree` names the
case (`GateGoesUnseen`) and says what the table then shows.

## 4. Fairness

`FactoryRun!Fairness`: Temporal drives a started workflow, fires its timers and
bounds the attempts of its activities, so every step of the workflow and of the
activities it awaits is weakly fair; operators and the provider's late effects
are not. `StatusWatch` adds that the watcher keeps polling, which its loop does.
`TurnExec!TurnFairness`: a runnable goroutine runs (weak fairness of the runner);
`Execute` returns, because both the command and the context have a timeout; and
the `select` between the finished command and the ticker chooses at random among
ready cases, so it takes the result if that stays ready (strong fairness of
`LoopEnds`, which a poll in progress disables). Renewals, answers, crashes and
restarts are never assumed.
`PiSupervisor!Fairness`: the event loop of a live supervisor runs, its deadline
timer fires, and so does the timer that kills an engine after the grace period;
engines, shells and providers may hang for ever.
`ConsoleFeed`: a fetch settles (the browser ends it at the latest with an error)
and timers fire; the operator may never touch anything. `CatchesUp` is claimed
only of a screen that in the end stays open with auto-refresh on.
`ConsoleApp`: requests and verifications settle, and while auto-refresh is on the
screens poll (`shell.jsx:57-60`; every screen has the same switch). With it off
nothing need ever be sent, so that a rejected token is claimed to end its session
only as long as the switch stays on; an operator who turns it off keeps the screens
of a rejected token until the next load.
`ConsolePages`: a page loads when it is opened, refreshed or switched, polls while
auto-refresh is on (`run-detail.jsx:94`, `operations.jsx:355`) and gets answers,
and a cache that is too old is refreshed by the request that finds it so. That a
gate, a verdict or a leak is told is claimed of an operator who stays with
auto-refresh on; that a page leaves its skeleton, and its patch viewer comes to
rest, with it on or off. The factory and the operator may stop anywhere. Since
failures are bounded there, "an operator who stays" is one whose requests do not
fail for ever.

## 5. Proofs

The theorems hold for every value of the constants that the named assumptions
admit. These say that a bound is a number, that a value the code uses for
"nothing" is no name, and

* in `FactoryRun` that the features are features of the code
  (`FeaturesAssumption`; any subset), in `TurnExec` that the faults are the
  modelled ones (`FaultsAssumption`);
* in `PiSupervisor` that finitely many invocations exist and that `supervise()`
  restarts an engine at most once, as it does;
* in `ConsoleDispatch` (`DispatchAssumption`) the shape a catalog has once
  `factory.toml` is loaded: a prefix is a non-empty URL, names are not empty. The
  code checks all of it except that the name of a scope is not empty; for a scope
  named by the empty string, which TOML can express, nothing is claimed.

Each module proves, action by action, that a step keeps an inductive invariant;
variables that a step leaves alone are dispatched by frame lemmas.

### The run: `FactoryRunProofs`

* `TypeCorrect` and `OneSandbox` rest on `Inv1`, which adds to the types what the
  phases of `CreateSandbox` imply (`CreateInv`: a retry never reaches the
  provider, so what exists plus what is pending is at most one) and the order of
  the workflow (`OrderInv`: what has been decided when `pc` has a given value).
* `WorkSandboxIsGone`, `AgentIsBounded`, `SuccessEarned`, `VerdictIsAudited`,
  `TamperShows` and `ManifestStays` rest on `Inv2`, the conjunction of
  `BoundaryInv` (how far the lockdown has come at each `pc`), `GateInv` (what the
  audit found and what conditions say of it), `SuccessInv` (the grounds of
  SUCCEEDED exist from the step that sets it on) and `ManifestInv` (the manifest
  repeats the verdict it was written from). None of the properties is inductive
  alone: each speaks of the end of a run and follows from what every earlier step
  left behind.
* `RecordAgrees` rests on `Inv3`: `OnPath` says which conditions are met when a
  step is awaited, `AtVerdict` which of them a success has when it is decided
  and what cleanup adds, `RecordInv` that the manifest repeats them.
* `WatcherIsRight` (over `WatchSpec`, the run and its watcher) needs `WordInv`: the
  states the watcher takes for final are set by a verdict only, and from then on
  `pc` is in the steps that leave the state alone.
* `SecurityStopStays` needs `StopInv`: a run in a security stop is at an alert, the
  collection after a violated boundary or an end step, and the error it is about
  to return is "canceled" only if it was cancelled. So no later error or result
  replaces the stop: only a cancellation, which makes it CANCELLED, and the total
  timeout, which makes it INFRASTRUCTURE_FAILED, may (`workflow.go:204-213`).
* `RunImplementsLifecycle` needs `LifeInv` beside `Inv2`: `ShownAt` says what a run
  shows at each step it awaits, so that a verdict is one of those that fit it, and
  `Boxed` that the acknowledged sandbox is there at every step from its creation
  to the verdict, whatever the provider settles late. A step of `run()` maps to a
  stutter, to a word (`Pause`, `Trouble`), to a closed gate or to a verdict; a
  destroy that takes effect to `Release`; a finalize attempt, acknowledged or not,
  to `Write`. That a durable manifest stays (`ManifestStays`) and names the last
  verdict is part of what the refinement says.

### Turns: `TurnExecProofs`

One invariant, `Inv`, carries six of the seven theorems. `Sound(e)` holds of every
execution, and nearly every step touches one execution only, so that a step is
shown for that one and the others follow from a frame lemma.

* `Phase`, `Known` and `Reopened` relate the runner, the record in memory and
  the record on disk: what runs is unfinished on disk; an ID without a record is
  untouched; Open has every unfinished record still to reconcile. From these and
  `Started` follows `TurnIsNeverReplayed`.
* `Approved` puts what the guest was told into the record on disk, and, as long
  as the context lives, every decision in memory too: after a failed write the
  context is dead, so nothing is told from memory alone (`ToldIsDurable`).
* `Cleaned`, `CancelKept` and `LapseKept` carry a cleanup, a cancellation and a
  lapsed lease through every phase of finishing to the record
  (`CompletedIsDeserved`).
* `Recoverable` is `SandboxesAreRecoverable`. It assumes that no create answers
  late: with a late create the provider may bring a sandbox to life after its
  record is settled, and Open has nothing to act on. The run `turn_exec`, which
  checks the property, leaves late creates to `turn_capacity` for that reason.
* `Slots` bounds the runners (`SlotsAreBounded`).
* `SettledIsFinal` uses `Durable`, the part of `Sound` that outlives the
  process, to see that a crash and Open leave a settled record as it was. The run
  checks this as the guard of `GiveUp` in `TurnContract`.
* `TurnImplementsContract`: every step of the service is one of `TurnContract` or
  a stutter. A write that reaches the disk is an `Accept`, a `Note`, a `Settle` or
  a `GiveUp`; a refused one is nothing, whatever memory says meanwhile. It needs
  `ContractInv` beside `Inv`: `Draft` (the disk has the record of memory or an
  earlier one, and says "running" before anything runs), `Ran` (who completes or
  has work to publish has started the harness) and `Once` (an operation has one
  decision, in memory and on disk). Since a record in memory may be several
  writes ahead of its file, one `Note` may catch up with several answers; that
  none of them is ever taken back or changed is part of `Note` and of `Settle`.

### Changes, sessions: `ChangeStoreProofs`, `PiSupervisorProofs`

* `ChangeIsExact` and `ClosedChangeStaysClosed` rest on `Exclusive` (who has
  loaded the document holds its lock, and the document still is what was loaded:
  the save overwrites nothing it has not seen) and `Settled` (activations and
  attempts are of finished runs).
* `StoreImplementsLedger`: every step of the store is one entry of `ChangeLedger`
  or a stutter. The entry is the save, whole or not at all: by `Exclusive` what it
  writes is computed from the document as it stands, and by `Settled` from a run
  that has ended. `LedgerInv` adds that an operator who has loaded a document has
  loaded one that exists. A save that overwrote an entry it has not seen would be a
  step that no action of the ledger allows; that is what happens when the lock is
  left out, and TLC shows it on the instance.
* `SessionHasOneEngine` rests on `Owned` (who has begun and not given the lock
  back owns it, dead or alive), `Quiet` (what runs of this launch was started by
  its present attempt), `Based` (from the inventory on, the processes of other
  launches are those it found, and none of them is its own) and `Named` (a session
  that was entered is the one of this request). It does not say that an engine has
  the tree alone: strays of earlier launches may be in the inventory, and are
  accepted.
* `ReceiptsClaimNoMore` needs in addition `Ahead` and `Grounded` (how far engine
  and supervisor can be, given the journal), `Counted` (a provider attempt that
  escaped the ledger is remembered or about to be: the knowledge passes from the
  engine through its message to the memory of the supervisor and to `usage.json`)
  and `Files` (the receipts agree with the journal).

### The console: `ConsoleFeedProofs`, `ConsoleAppProofs`, `ConsoleScreensProofs`, `ConsolePagesProofs`

* `FeedIsTyped`, `FeedHasOneChain`, `FeedIsCurrent` and
  `FeedImplementsLatestAnswer`: a load counts if it belongs to the present effect
  run and was not aborted. `Own`: a load that counts asks the present question;
  `Alone`: at most one counts, and none beside a timer; `Fresh`: what is shown,
  and what a counting load has read, are no newer than the evidence and no older
  than what they replace; `Alive`: a polling screen has a timer or a load that
  counts. `SettledIsCurrent` is not inductive without `Own`, and the refinement
  needs `Fresh`: that an answer never goes back in time holds only because an
  effect run has one load at a time and reads it after the last one was shown.
  The refinement maps each action to `Ask`, `Withdraw`, `Answer`, `Fail` or a
  stutter.
* `ScreensAreBehindTheLogin` and `SessionEndsByItsOwnToken` rest on `Verifying` (a
  verification is under way exactly while the tab is loading) and `Reading` (a
  read that is under way carries the token of the present session). The second is
  the safety half of `SessionEndsByItsToken`; the other half is liveness. A switch
  of auto-refresh sends reads again with the token of the session
  (`ReloadKeepsInv`).
* `PageIsLockedUnderACover` rests on `Cell`: the style of the body and what each
  effect saved of it, while at most one of them covers the page.
* `GatesAreFound` and `LineageGrows` rest on `ChangeInv`. `Waited` and
  `Commanded`: a run that reached its gate never goes back, so that a cached list
  of any age names no run that has not been there; `Behind`: the page is behind
  the index and the index behind the record. That the command is one run although
  several may wait is the least element of a set of naturals.
* `FormIsSound` rests on `DispatchInv` and on lemmas that compare, for any
  catalog, the form's reading of a request with the factory's: the form matches a
  repository by the text of a prefix, the factory by the parts of its path.
* `ListKeepsItsPlace` and `ListIsTruthful` rest on `ListsInv`. `Answered`: what is
  shown is a page of some queue cut for the question it answers; `Current`: at
  rest that is the present question; `SearchFollows`: the box, its timer and the
  query; `Placed`: while the cursor belongs to the present question its history is
  the path of page starts 0, limit, 2 * limit, ... that leads to it (on the runs
  screen, and after a crossing, only what the property then claims).

* `PaletteIsTruthful` rests on `PaletteInv`: the highlight is inside the list after
  every step that may shrink it, and the box, its timer and the two feeds are in
  step (`QueryIsSettled`, `QueryIsAnswered`). The list is what a filter leaves of a
  sequence; the model says so with the positions that are kept and their ranks
  (`EntriesAt`, `Nth`), so that "each entry once" and "only what matches" are facts
  about finite sets of positions and need no induction over sequences.
* `LabelsStandOnEvidence` and `ViewsDoNotContradict` rest on `Inv` of
  `ConsolePagesProofs`. `Judged`: a run that is over was cleaned up, and a success
  has its gates; `Kept`: a manifest repeats the verdict and the cleanup and has
  evidence that admits the verdict; `Known`: what is indexed, or was called
  leaked, is recorded. The caches need no ages: each holds what was true at some
  moment, and what the labels claim of a recorded run cannot change any more.
  `Viewer`: the patch viewer is idle exactly while the page has no patch, and
  loads exactly while the request of its present effect is under way.

`ChangeInv`, `DispatchInv`, `ListsInv`, `PaletteInv`, `LedgerInv`, `LifeInv` and
`ContractInv` were checked by TLC on instances of their runs before they were
proved.

### Only model-checked

* Liveness, which the prover does not do under fairness: `RunEndsAccountedFor`,
  `TurnEnds`, `SupervisorEnds`, `CatchesUp`, `OperatorIsTold`, and that a
  rejected token is noticed (in `SessionEndsByItsToken`).

Every safety property that a passing run checks is stated by a theorem.

## 6. What is left out

In `FactoryRun`: preview URLs, budgets and alert texts; the branch of the gate
check whose report is unchecked without an error, which no activity result
reaches; retries of activities that repeat without effect, folded into one
outcome. In `TurnExec`: requests that are refused change nothing and are not
actions; error texts; events and their numbers; blobs other than the checkpoint
of the execution; profiles, whose validation happens before the service opens;
one poll reads either a permission or output.
The run has one request ID, so that a request beside an undecided one, and the
limit of 1000 decisions, are in the module and not in the run: both end in the
same permission error as a replaced request. In `ChangeStore`: `OpenChange` and
`AppendActivation`, which nothing calls; cost totals. `PROJECT.json` lists the
components that are not modelled, with reasons.

In `PiSupervisor`: the texts of prompts and events, the contents of the journal
beyond whose it is and how far it came. In the console modules: texts (except
the labels a property is about), layout, focus order inside a dialog, sorting and
columns; the ages of the server's caches (a cache is filled at any time and used
until it is too old); the index follows finished writes only. Each screen is
modelled over its own answer: that answers belong to the question asked is what
`ConsoleFeed` shows once for all of them. `ConsolePages` refreshes the live caches
while the operations page, which reads them, is open. The overview, security and
settings pages, charts and primitives keep no state of their own.

Hazards the code has and no property covers yet: the total timeout against each
await, buffered review signals and the recognition of a cancellation by its text
(`workflow.go:320`, `998`, `1331`; stated, refuted, and without a run); runs of a
change that finish out of order (`change.go:396`, likewise); a halt that lists and
cancels page by page while runs start (`control.go:172`); a crash between staging,
rename and sync of an artifact (`store.go:171`); an orphan that is replaced
between check and removal (`retention.go:106`); the full failure table of the
throttle (`throttle.go:114`); overlapping refreshes of the index (`index.go:82`); a
cached error that is served like a success (`live.go:145`).

## 7. Plan

1. `FactoryRun`, `StatusWatch`, `TurnExec`, `ChangeStore`: done.
2. `PiSupervisor`, and the console from the caches of its server to its screens,
   with `LatestAnswer` and its refinement: done.
3. The safety properties of the run, turns, changes, sessions and the console as
   theorems, and `ChangeLedger` with its refinement: done.
4. `RunLifecycle` and its refinement by `FactoryRun`, `TurnContract` and its
   refinement by `TurnExec`: done.
5. `EvidenceStore` (staging, rename, directory sync, crash; retention against
   writers; the append-only audit trail and its torn last line).
6. `ConsoleThrottle`, and the coalesced refreshes inside the server's caches.
7. `Halt`: a filtered, paged halt over a set of runs that start and close.
8. `Resolve`: resource resolution, turn policies and manifest validation as
   operators against a reference definition; `EgressProbe` and `Verification`
   likewise; `CubeProvider`: the provider's client with suspend and resume.
