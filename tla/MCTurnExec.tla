----------------------------- MODULE MCTurnExec -----------------------------
(* Instances of TurnExec for TLC. *)
EXTENDS TurnExec, TLC

(* One permission request whose contents the guest may replace. *)
ReplacedOperation == {[id |-> "p1", dig |-> "a"], [id |-> "p1", dig |-> "b"]}
NoOperations == {}

AllButLate == {"persist", "create_lost", "provider"}
LateFaults == {"persist", "create_late"}

ExecutionSymmetry == Permutations(Executions)
=============================================================================
