----------------------------- MODULE StatusWatch -----------------------------
(***************************************************************************)
(* `factory status <run-id> --watch` beside the run it watches             *)
(* (cmd/factory/main.go): a poll of the status query every two seconds,    *)
(* until the state it reads is one that isTerminalRunState knows.          *)
(***************************************************************************)
EXTENDS FactoryRun

VARIABLES
  watching,  \* the command has not returned
  finalState \* what it printed as "final state", or "" if nothing yet

watchVars == <<watching, finalState>>
allVars == <<vars, watchVars>>

TerminalRunStates ==
  {"AGENT_FAILED", "VERIFICATION_FAILED", "SUCCEEDED", "CANCELLED",
   "INFRASTRUCTURE_FAILED", "INVALID_REQUEST"}

isTerminalRunState(s) == s \in TerminalRunStates

WatchInit == Init /\ watching = TRUE /\ finalState = ""

\* A poll that reads a terminal state prints it and returns; any other poll
\* changes nothing.  A closed workflow still answers the query.
WatchReturns ==
  /\ watching
  /\ isTerminalRunState(state)
  /\ watching' = FALSE
  /\ finalState' = state
  /\ UNCHANGED vars

\* The query fails while no worker is there to answer it.
WatchLosesQuery ==
  /\ watching
  /\ watching' = FALSE
  /\ UNCHANGED <<vars, finalState>>

RunStep == Next /\ UNCHANGED watchVars

WatchNext == RunStep \/ WatchReturns \/ WatchLosesQuery

WatchSpec == WatchInit /\ [][WatchNext]_allVars

\* The ticker goes on; the run advances as in FairSpec.
WatchFairSpec ==
  /\ WatchSpec
  /\ WF_allVars(WatchReturns)
  /\ WF_allVars(RunBody /\ UNCHANGED watchVars)
  /\ WF_allVars(RunEnd /\ UNCHANGED watchVars)
  /\ WF_allVars(CreateActivity /\ UNCHANGED watchVars)

-----------------------------------------------------------------------------
\* Three of the states the watcher calls final are: a run it reported as
\* cancelled, invalid or failing its gates is recorded as exactly that, although
\* the report was made before cleanup and finalization had run.
FinalWordHolds ==
  (finalState \in {"CANCELLED", "INVALID_REQUEST", "VERIFICATION_FAILED"}
     /\ manifest.result # "NONE") => manifest.result = finalState

\* main.go:518: "watchRunStatus streams condition transitions until the workflow
\* closes".  A final state it prints is the one the run closes with.
FinalStateIsFinal ==
  (finalState # "" /\ manifest.result # "NONE") => manifest.result = finalState

\* main.go:475: "stream condition transitions until the run finishes".
WatchReturnsAfterRun == Closed ~> ~watching
=============================================================================
