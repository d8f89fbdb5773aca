---------------------------- MODULE ChangeLedger ----------------------------
(***************************************************************************)
(* What a durable change promises (internal/factory/change.go), without    *)
(* the file, its lock, the copies that are read and written back, and the  *)
(* attempts of the activity: a ledger to which finished runs are folded,   *)
(* one at a time, as it stands at that moment, and which a person may      *)
(* abandon.  ChangeStore implements this specification.                    *)
(***************************************************************************)
CONSTANT Runs

VARIABLES outcome,      \* what each run ended with
          ledger,       \* [status, runs, last] of the change
          acknowledged  \* the runs that were told they are in it

ledgerVars == <<outcome, ledger, acknowledged>>

Pending == [result |-> "none", human |-> ""]
Outcomes == [result : {"SUCCEEDED", "REJECTED", "FAILED"},
             human  : {"", "approved", "rejected", "timeout"}]
Absent == [status |-> "none", runs |-> {}, last |-> "none"]
Closed == {"DONE", "ABANDONED"}

\* The status a run leaves a change in that is in the given one.
StatusAfter(status, o) ==
  IF status \in Closed THEN status
  ELSE CASE o.human = "approved" -> "DONE"
         [] o.human \in {"", "timeout"} /\ o.result = "SUCCEEDED" -> "IN_REVIEW"
         [] OTHER -> "OPEN"

LedgerInit ==
  /\ outcome = [r \in Runs |-> Pending]
  /\ ledger = Absent
  /\ acknowledged = {}

\* A run ends, once.
Finish(r, o) ==
  /\ outcome[r] = Pending
  /\ outcome' = [outcome EXCEPT ![r] = o]
  /\ UNCHANGED <<ledger, acknowledged>>

\* A run that has ended is folded in, perhaps not for the first time, and is told
\* so or not.
Fold(r) ==
  /\ outcome[r] /= Pending
  /\ ledger' = [status |-> StatusAfter(ledger.status, outcome[r]),
                runs   |-> ledger.runs \cup {r},
                last   |-> r]
  /\ acknowledged' \in {acknowledged, acknowledged \cup {r}}
  /\ UNCHANGED outcome

Abandon ==
  /\ ledger /= Absent
  /\ ledger' = [ledger EXCEPT !.status = "ABANDONED"]
  /\ UNCHANGED <<outcome, acknowledged>>

LedgerNext ==
  \/ \E r \in Runs : Fold(r) \/ \E o \in Outcomes : Finish(r, o)
  \/ Abandon

LedgerSpec == LedgerInit /\ [][LedgerNext]_ledgerVars
=============================================================================
