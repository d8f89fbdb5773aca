---------------------------- MODULE TurnContract ----------------------------
(***************************************************************************)
(* What an accepted execution promises its owner (internal/turnexec),      *)
(* without the memory, the runner, the provider, the context and the       *)
(* process behind it: a durable record that moves one way and keeps every  *)
(* answer, a harness that starts once and behind the record, answers that  *)
(* reach the guest only from the record, and an end that fits what was     *)
(* asked.  TurnExec implements this specification.                         *)
(***************************************************************************)
EXTENDS Naturals

CONSTANTS Executions, Operations

VARIABLES record,    \* the durable record of every execution
          begun,     \* how often its harness was started
          told,      \* the decision its guest has been given
          cancelled, \* its owner cancelled it while it was active
          lapsed     \* its lease ran out before its end was fixed

contractVars == <<record, begun, told, cancelled, lapsed>>

Answers == [op : Operations, dec : {"allow", "deny"}]
Ends    == {"completed", "failed", "timed_out", "cancelled"}

\* A record that says nothing of an end.
Unended(s, D) ==
  [state |-> s, checkpoint |-> FALSE, decisions |-> D,
   result |-> [status |-> "none", checkpoint |-> FALSE, verified |-> FALSE]]

Blank    == Unended("none", {})
Accepted == Unended("queued", {})

active(e) == record[e].state \in {"queued", "running"}

\* An operation is decided once.
DecidedOnce(D) == \A a, b \in D : a.op.id = b.op.id => a = b

\* What an execution's decisions may have become: none is taken back or changed.
More(e) == {D \in SUBSET Answers : record[e].decisions \subseteq D /\ DecidedOnce(D)}

ContractInit ==
  /\ record    = [e \in Executions |-> Blank]
  /\ begun     = [e \in Executions |-> 0]
  /\ told      = [e \in Executions |-> [op |-> [id |-> "none", dig |-> "none"],
                                        dec |-> "none"]]
  /\ cancelled = [e \in Executions |-> FALSE]
  /\ lapsed    = [e \in Executions |-> FALSE]

\* Accepted, or accepted again after an answer that never came.
Accept(e) ==
  /\ record[e] \in {Blank, Accepted}
  /\ begun[e] = 0 /\ ~cancelled[e] /\ ~lapsed[e]
  /\ record' = [record EXCEPT ![e] = Accepted]
  /\ UNCHANGED <<begun, told, cancelled, lapsed>>

\* The record of an active execution catches up: it may be running by now, and
\* decisions come on top of the ones there are.  It may have been cancelled.
Note(e) ==
  /\ active(e)
  /\ \E D \in More(e), s \in {"queued", "running"} :
       /\ record[e].state = "running" => s = "running"
       /\ record' = [record EXCEPT ![e] = Unended(s, D)]
  /\ cancelled' \in {cancelled, [cancelled EXCEPT ![e] = TRUE]}
  /\ UNCHANGED <<begun, told, lapsed>>

\* Leases run out.
Lapse ==
  /\ \A e \in Executions : lapsed'[e] /= lapsed[e] => lapsed'[e] /\ active(e)
  /\ lapsed' \in [Executions -> BOOLEAN]
  /\ UNCHANGED <<record, begun, told, cancelled>>

\* The harness starts behind a record that says so.
Begin(e) ==
  /\ record[e].state = "running"
  /\ begun[e] = 0
  /\ begun' = [begun EXCEPT ![e] = 1]
  /\ UNCHANGED <<record, told, cancelled, lapsed>>

\* The guest is given a decision from the record.
Tell(e, a) ==
  /\ record[e].state = "running" /\ begun[e] = 1
  /\ a \in record[e].decisions
  /\ told' = [told EXCEPT ![e] = a]
  /\ UNCHANGED <<record, begun, cancelled, lapsed>>

\* The one end.  A completed turn ran, left nothing behind and was not cancelled;
\* only work whose owner was there to the end is published.
Settle(e) ==
  /\ active(e)
  /\ \E D \in More(e), s \in Ends, published, clean \in BOOLEAN :
       /\ s = "completed" => begun[e] = 1 /\ clean /\ ~cancelled[e]
       /\ published => begun[e] = 1 /\ ~cancelled[e] /\ ~lapsed[e]
       /\ record' = [record EXCEPT ![e] =
            [state |-> s, checkpoint |-> published, decisions |-> D,
             result |-> [status |-> s, checkpoint |-> published, verified |-> clean]]]
  /\ UNCHANGED <<begun, told, cancelled, lapsed>>

\* A restart fails what was active, and an end whose cleanup was left open; it
\* never runs anything again.
GiveUp(e, clean) ==
  /\ record[e] /= Blank
  /\ active(e) \/ ~record[e].result.verified
  /\ record' = [record EXCEPT ![e] =
       [state |-> "failed", checkpoint |-> record[e].checkpoint,
        decisions |-> record[e].decisions,
        result |-> [status |-> "failed", checkpoint |-> FALSE, verified |-> clean]]]
  /\ UNCHANGED <<begun, told, cancelled, lapsed>>

ContractNext ==
  \/ \E e \in Executions :
       \/ Accept(e) \/ Note(e) \/ Begin(e) \/ Settle(e)
       \/ \E a \in Answers : Tell(e, a)
       \/ \E clean \in BOOLEAN : GiveUp(e, clean)
  \/ Lapse

ContractSpec == ContractInit /\ [][ContractNext]_contractVars
=============================================================================
