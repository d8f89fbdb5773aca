----------------------------- MODULE ChangeStore -----------------------------
(***************************************************************************)
(* One durable change and the runs that are activations of it              *)
(* (internal/factory/change.go).  Every finished run folds its manifest    *)
(* into the change by the RecordChange activity, which Temporal retries:   *)
(* an attempt that timed out, blocked on the flock or slow on the disk, is *)
(* not stopped and may land after the attempts and the runs that followed  *)
(* it.  An operator may abandon the change at any time.  Each is a         *)
(* read-modify-write of one JSON document under an exclusive flock that    *)
(* dies with its process.                                                  *)
(***************************************************************************)
EXTENDS Naturals, Sequences, SequencesExt, FiniteSets

CONSTANTS
  Runs,        \* runs submitted with --change for this change
  MaxAttempts  \* 3: RecordChange's MaximumAttempts

ASSUME AttemptsAssumption == MaxAttempts \in Nat \ {0}

VARIABLES
  started,   \* the runs in the order they were started
  manifest,  \* run.json of each run, as far as RecordRun reads it
  change,    \* changes/<id>.json
  holder,    \* who holds <id>.lock
  phase,     \* what each actor is doing
  copy,      \* the change as an actor loaded it
  dispatched,\* RecordChange attempts dispatched, per run
  acked      \* the workflow saw the activity succeed

vars == <<started, manifest, change, holder, phase, copy, dispatched, acked>>

Attempts == Runs \X (1..MaxAttempts)
Operator == <<"operator", 0>>
Actors == Attempts \cup {Operator}
Nobody == <<"nobody", 0>>

ChangeStatuses == {"OPEN", "IN_REVIEW", "DONE", "ABANDONED"}
HumanResults == {"", "approved", "rejected", "timeout"}
FactoryResults == {"SUCCEEDED", "REJECTED", "FAILED"}
Manifests == [result : FactoryResults, human : HumanResults]
NoManifest == [result |-> "none", human |-> ""]
NoRun == "none"
NoChange == [status |-> "none", acts |-> <<>>, last |-> NoRun]
Documents == [status : ChangeStatuses \cup {"none"}, acts : Seq(Runs),
              last : Runs \cup {NoRun}]

Finished(r) == manifest[r] # NoManifest

-----------------------------------------------------------------------------
Init ==
  /\ started = <<>>
  /\ manifest = [r \in Runs |-> NoManifest]
  /\ change = NoChange
  /\ holder = Nobody
  /\ phase = [a \in Actors |-> "idle"]
  /\ copy = [a \in Actors |-> NoChange]
  /\ dispatched = [r \in Runs |-> 0]
  /\ acked = [r \in Runs |-> FALSE]

StartRun(r) ==
  /\ r \notin ToSet(started)
  /\ started' = Append(started, r)
  /\ UNCHANGED <<manifest, change, holder, phase, copy, dispatched, acked>>

(* The run's manifest becomes durable.  A rejected run is REJECTED, unless *)
(* it failed afterwards, in its cleanup for instance, as an approved may.  *)
FinishRun(r, m) ==
  /\ r \in ToSet(started) /\ ~Finished(r)
  /\ m.result = "REJECTED" => m.human = "rejected"
  /\ m.human = "rejected" => m.result # "SUCCEEDED"
  /\ manifest' = [manifest EXCEPT ![r] = m]
  /\ UNCHANGED <<started, change, holder, phase, copy, dispatched, acked>>

(* The next attempt: the first one, or a retry because the previous one    *)
(* failed or did not report in time, wherever it is now.                   *)
Dispatch(r) ==
  /\ Finished(r) /\ ~acked[r]
  /\ dispatched[r] < MaxAttempts
  /\ dispatched' = [dispatched EXCEPT ![r] = @ + 1]
  /\ phase' = [phase EXCEPT ![<<r, dispatched[r] + 1>>] = "waiting"]
  /\ UNCHANGED <<started, manifest, change, holder, copy, acked>>

OperatorAbandons ==
  /\ phase[Operator] = "idle"
  /\ phase' = [phase EXCEPT ![Operator] = "waiting"]
  /\ UNCHANGED <<started, manifest, change, holder, copy, dispatched, acked>>

-----------------------------------------------------------------------------
(* Mutant: reads without waiting for the lock. *)
LoadUnlocked(a) ==
  /\ phase[a] = "waiting"
  /\ holder' = a
  /\ copy' = [copy EXCEPT ![a] = change]
  /\ phase' = [phase EXCEPT ![a] = "loaded"]
  /\ UNCHANGED <<started, manifest, change, dispatched, acked>>

(* lockChange and Load; abandoning a change that does not exist fails. *)
LockAndLoad(a) ==
  /\ phase[a] = "waiting" /\ holder = Nobody
  /\ IF a = Operator /\ change = NoChange
     THEN /\ phase' = [phase EXCEPT ![a] = "idle"]
          /\ UNCHANGED <<holder, copy>>
     ELSE /\ phase' = [phase EXCEPT ![a] = "loaded"]
          /\ holder' = a
          /\ copy' = [copy EXCEPT ![a] = change]
  /\ UNCHANGED <<started, manifest, change, dispatched, acked>>

deriveChangeStatus(c, m) ==
  IF c.status \in {"DONE", "ABANDONED"} THEN c.status
  ELSE IF m.human = "approved" THEN "DONE"
  ELSE IF m.human = "rejected" THEN "OPEN"
  ELSE IF m.result = "SUCCEEDED" THEN "IN_REVIEW"
  ELSE "OPEN"

(* Mutant: appends on every call. *)
RecordAppends(c, r) ==
  [status |-> deriveChangeStatus(c, manifest[r]),
   acts   |-> Append(c.acts, r),
   last   |-> r]

(* Idempotent by run ID: a known activation is kept where it is. *)
RecordRun(c, r) ==
  [status |-> deriveChangeStatus(c, manifest[r]),
   acts   |-> IF r \in ToSet(c.acts) THEN c.acts ELSE Append(c.acts, r),
   last   |-> r]

Abandon(c) == [c EXCEPT !.status = "ABANDONED"]

(* save: it may fail before the rename or after it.  An attempt's success  *)
(* counts only if it is the latest one; a late completion is discarded.    *)
Save(a) ==
  /\ phase[a] = "loaded"
  /\ LET new == IF a = Operator THEN Abandon(copy[a]) ELSE RecordRun(copy[a], a[1]) IN
     \/ /\ change' = new
        /\ acked' \in IF a # Operator /\ a[2] = dispatched[a[1]]
                      THEN {acked, [acked EXCEPT ![a[1]] = TRUE]} ELSE {acked}
     \/ UNCHANGED <<change, acked>>
  /\ holder' = IF holder = a THEN Nobody ELSE holder
  /\ phase' = [phase EXCEPT ![a] = IF a = Operator THEN "idle" ELSE "done"]
  /\ copy' = [copy EXCEPT ![a] = NoChange]
  /\ UNCHANGED <<started, manifest, dispatched>>

(* The process dies; the kernel drops its lock. *)
Die(a) ==
  /\ phase[a] \in {"waiting", "loaded"}
  /\ phase' = [phase EXCEPT ![a] = IF a = Operator THEN "idle" ELSE "done"]
  /\ copy' = [copy EXCEPT ![a] = NoChange]
  /\ holder' = IF holder = a THEN Nobody ELSE holder
  /\ UNCHANGED <<started, manifest, change, dispatched, acked>>

-----------------------------------------------------------------------------
Next ==
  \/ \E r \in Runs :
       \/ StartRun(r) \/ Dispatch(r)
       \/ \E m \in Manifests : FinishRun(r, m)
  \/ OperatorAbandons
  \/ \E a \in Actors : LockAndLoad(a) \/ Save(a) \/ Die(a)

Spec == Init /\ [][Next]_vars

-----------------------------------------------------------------------------
(* Properties *)

TypeOK ==
  /\ started \in Seq(Runs)
  /\ manifest \in [Runs -> Manifests \cup {NoManifest}]
  /\ holder \in Actors \cup {Nobody}
  /\ phase \in [Actors -> {"idle", "waiting", "loaded", "done"}]
  /\ change \in Documents
  /\ copy \in [Actors -> Documents]
  /\ dispatched \in [Runs -> 0..MaxAttempts]
  /\ acked \in [Runs -> BOOLEAN]

(* A run whose RecordChange succeeded is an activation of the change, and  *)
(* no run is two activations, whatever attempts and runs overlapped        *)
(* (change.go, "loses activations when two completions read the same old   *)
(* record" and "a duplicated activation must not inflate cost").           *)
ActivationsAreExact ==
  /\ \A r \in Runs : acked[r] => r \in ToSet(change.acts)
  /\ IsInjective(change.acts)

(* Once an approved run is an activation the change is closed, however     *)
(* late the attempts of other runs land.                                   *)
ApprovalCloses ==
  \A r \in ToSet(change.acts) :
    manifest[r].human = "approved" => change.status \in {"DONE", "ABANDONED"}

(* The document of a change is a well-formed account of its runs: none is  *)
(* missing or counted twice, and an approval is in it.                     *)
RecordIsExact == TypeOK /\ ActivationsAreExact /\ ApprovalCloses

(* LastRunID is the most recent activation (change.go, field LastRunID):   *)
(* no activation of the change was started after it.                       *)
LastRunIsMostRecent ==
  \A i, j \in DOMAIN started :
    change.last = started[i] /\ started[j] \in ToSet(change.acts) => j <= i

(* A human's decision to close the change is never undone by a run, and a  *)
(* recorded activation never disappears (deriveChangeStatus).              *)
ClosedStaysClosed ==
  [][/\ change.status = "DONE" => change'.status \in {"DONE", "ABANDONED"}
     /\ change.status = "ABANDONED" => change'.status = "ABANDONED"
     /\ ToSet(change.acts) \subseteq ToSet(change'.acts)]_vars

Ledger == INSTANCE ChangeLedger WITH
  outcome <- manifest,
  ledger <- [status |-> change.status, runs |-> ToSet(change.acts), last |-> change.last],
  acknowledged <- {r \in Runs : acked[r]}

(* The read-modify-write of the document is atomic: every write folds one  *)
(* finished run into the change as it stands at that moment, or abandons   *)
(* it, although attempts of several runs and an operator overlap, retry    *)
(* and die.  A closed change stays closed, no activation is lost, and a    *)
(* run is told that it is in the change only by the write that put it in.  *)
ImplementsLedger == Ledger!LedgerSpec
=============================================================================
