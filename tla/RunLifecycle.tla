---------------------------- MODULE RunLifecycle ----------------------------
(***************************************************************************)
(* What a run of the factory promises those who watch it and those who     *)
(* read its record (internal/factory/workflow.go), without the activities, *)
(* their attempts, the provider and the conditions: a run works, with one  *)
(* sandbox that it does not give back before its verdict; what it shows    *)
(* moves one way; its verdict is one that fits what it showed; and the     *)
(* record, once there, says what the run and its cleanup came to.          *)
(* FactoryRun implements this specification.                               *)
(***************************************************************************)
VARIABLES phase,   \* "working", "cleaning", "writing", "recorded", "closed", "failed"
          word,    \* the state that a status query answers
          box,     \* the sandbox the run works in: "none", "held", "gone"
          answer,  \* what closed the review gate, "" before
          cleaned, \* what the cleanup came to, "none" before
          record   \* what is durable of it

lifecycleVars == <<phase, word, box, answer, cleaned, record>>

Answers     == {"approved", "rejected", "timeout"}
Stops       == {"EGRESS_UNVERIFIED", "GATE_TAMPERED", "QUARANTINED", "BLOCKED"}
Interrupted == {"CANCELLED", "INFRASTRUCTURE_FAILED"}
Unrecorded  == [result |-> "NONE", cleanup |-> "none", review |-> ""]

\* The verdicts of a run that shows w.
Endings(w) ==
  Interrupted \cup
    CASE w = "RUNNING" -> {"INVALID_REQUEST", "AGENT_FAILED", "BLOCKED",
                           "VERIFICATION_FAILED", "SUCCEEDED"}
      [] w = "PAUSED"  -> {"VERIFICATION_FAILED", "REJECTED", "SUCCEEDED"}
      [] OTHER         -> {w}

LifecycleInit ==
  /\ phase = "working" /\ word = "RUNNING"
  /\ box = "none" /\ answer = "" /\ cleaned = "none"
  /\ record = Unrecorded

\* The one sandbox of the run, before anything else is shown.
Acquire ==
  /\ phase = "working" /\ word = "RUNNING" /\ box = "none"
  /\ box' = "held"
  /\ UNCHANGED <<phase, word, answer, cleaned, record>>

\* Something is wrong: it shows before the verdict, and the audit may still find
\* worse of an agent that failed.
Trouble(s) ==
  /\ phase = "working" /\ box = "held"
  /\ \/ word = "RUNNING" /\ s \in Stops \cup {"AGENT_FAILED", "INFRASTRUCTURE_FAILED"}
     \/ word = "AGENT_FAILED" /\ s \in {"GATE_TAMPERED", "QUARANTINED"}
  /\ word' = s
  /\ UNCHANGED <<phase, box, answer, cleaned, record>>

Pause ==
  /\ phase = "working" /\ box = "held" /\ word = "RUNNING"
  /\ word' = "PAUSED"
  /\ UNCHANGED <<phase, box, answer, cleaned, record>>

\* The gate closes once.
Closes(a) == word = "PAUSED" /\ answer = "" /\ a \in Answers /\ answer' = a

CloseGate(a) ==
  /\ phase = "working"
  /\ Closes(a)
  /\ UNCHANGED <<phase, word, box, cleaned, record>>

\* The verdict.  One about the work needs the sandbox it was done in; after a
\* pause it needs the gate closed, and it is SUCCEEDED only without a rejection.
Decide(s) ==
  /\ phase = "working" /\ s \in Endings(word)
  /\ UNCHANGED answer \/ \E a \in Answers : Closes(a)
  /\ s \notin Interrupted \cup {"INVALID_REQUEST"} => box = "held"
  /\ s = "INVALID_REQUEST" => box = "none"
  /\ word = "PAUSED" /\ s \notin Interrupted => answer' /= ""
  /\ s = "SUCCEEDED" => answer' /= "rejected"
  /\ s = "REJECTED" => answer' = "rejected"
  /\ word' = s
  /\ phase' = "cleaning"
  /\ UNCHANGED <<box, cleaned, record>>

Release ==
  /\ phase = "cleaning" /\ box = "held"
  /\ box' = "gone"
  /\ UNCHANGED <<phase, word, answer, cleaned, record>>

\* Only a success is taken back, and it is whenever its cleanup is not verified.
Clean(c) ==
  /\ phase = "cleaning"
  /\ c = "verified" => box /= "held"
  /\ c = "skipped" => box = "none"
  /\ \/ word' = word /\ (word = "SUCCEEDED" => c = "verified")
     \/ word = "SUCCEEDED" /\ word' = "INFRASTRUCTURE_FAILED"
  /\ cleaned' = c
  /\ phase' = "writing"
  /\ UNCHANGED <<box, answer, record>>

\* The write is tried until it is known to have succeeded, or given up.
Write(p) ==
  /\ phase = "writing"
  /\ phase' = p
  /\ \/ record' = [result |-> word, cleanup |-> cleaned, review |-> answer]
     \/ UNCHANGED record /\ p /= "recorded"
  /\ UNCHANGED <<word, box, answer, cleaned>>

Close ==
  /\ phase = "recorded" /\ phase' = "closed"
  /\ UNCHANGED <<word, box, answer, cleaned, record>>

LifecycleNext ==
  \/ Acquire \/ Pause \/ Release \/ Close
  \/ \E s \in Stops \cup {"AGENT_FAILED", "INFRASTRUCTURE_FAILED"} : Trouble(s)
  \/ \E a \in Answers : CloseGate(a)
  \/ \E s \in Endings(word) : Decide(s)
  \/ \E c \in {"verified", "error", "skipped"} : Clean(c)
  \/ \E p \in {"writing", "recorded", "failed"} : Write(p)

LifecycleSpec == LifecycleInit /\ [][LifecycleNext]_lifecycleVars
=============================================================================
