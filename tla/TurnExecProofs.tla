--------------------------- MODULE TurnExecProofs ---------------------------
(***************************************************************************)
(* Theorems about the turn execution service (TurnExec), for any number of *)
(* executions, any capacity, lease, operations and number of crashes, and  *)
(* any of the faults unless a theorem says otherwise.                      *)
(*                                                                         *)
(* The invariant (Inv) says, for one execution at a time, what the         *)
(* runner's position, the record in memory, the record on disk, the        *)
(* context, the lease and the provider's sandbox know of each other.  With *)
(* ContractInv beside it, every step is one of TurnContract or none.       *)
(***************************************************************************)
EXTENDS TurnExec, FiniteSetTheorems, TLAPS

Locked == {"finish_lease", "finish_publish"}
Finishing == {"finish"} \cup Locked

Running(e) == pc[e] \notin {"none", "done"}
Runners == {e \in Executions : Running(e)}

(* Nothing has happened to the execution yet. *)
Fresh(e) ==
  /\ starts[e] = 0 /\ box[e] = "none" /\ told[e] = NoDecision
  /\ ~cancelSeen[e] /\ ~lapsed[e]

(* A runner belongs to a serving process and to an active record, and the  *)
(* record on disk is unfinished as long as it runs.                        *)
Phase(e) ==
  /\ pc[e] # "none" => Serving
  /\ Serving => (rec[e].state \in {"queued", "running"} <=> Running(e))
  /\ Running(e) => /\ disk[e].state \in {"queued", "running"}
                   /\ ~rec[e].checkpoint /\ ~disk[e].checkpoint
  /\ pc[e] \in Locked => terminal(final[e])

(* An ID without a record is untouched, so that accepting it once more     *)
(* repeats nothing; a refused write may have left the queued record.       *)
Known(e) ==
  /\ mode # "down" /\ rec[e].state = "none" =>
       /\ Fresh(e) /\ rec[e] = NoRecord
       /\ disk[e] \in {NoRecord, [NoRecord EXCEPT !.state = "queued"]}
  /\ disk[e].state = "none" => Fresh(e) /\ disk[e] = NoRecord
  /\ mode = "down" => rec[e] = NoRecord

(* Open has the disk's records in memory and has every unfinished one      *)
(* still to reconcile.                                                     *)
Reopened(e) ==
  mode = "opening" =>
    /\ rec[e] = disk[e]
    /\ e \in todo => NeedsCleanup(disk[e])
    /\ disk[e].state \in {"queued", "running"} => e \in todo

(* The harness starts behind the record, and at one step only. *)
Started(e) ==
  /\ starts[e] \in {0, 1}
  /\ pc[e] \in {"creating", "identify", "stage"} => starts[e] = 0

(* A verified cleanup is a sandbox that is gone, except for a create that  *)
(* the provider still works off, and then the turn has failed.             *)
Cleaned(e) ==
  /\ box[e] = "pending" => "create_late" \in Faults
  /\ pc[e] \in {"identify", "stage", "execute", "drain", "collect", "destroy"}
       => box[e] # "pending"
  /\ pc[e] = "cleanup_identity" => failure[e]
  /\ pc[e] \in Finishing /\ verified[e]
       => box[e] = "none" \/ (failure[e] /\ "create_late" \in Faults)
  /\ pc[e] \in Locked /\ final[e] = "completed" => ~failure[e]
  /\ pc[e] = "finish_publish" /\ final[e] = "completed" => verified[e]
  /\ disk[e].state = "completed" => disk[e].result.verified /\ box[e] = "none"

Recoverable(e) ==
  "create_late" \notin Faults /\ box[e] = "live" => NeedsCleanup(disk[e])

(* What the guest was told is durable; while the context lives, every      *)
(* decision in memory is.                                                  *)
Approved(e) ==
  /\ told[e] # NoDecision =>
       /\ told[e] \in disk[e].decisions
       /\ mode # "down" => told[e] \in rec[e].decisions
  /\ Running(e) /\ ctx[e] = "live" => rec[e].decisions \subseteq disk[e].decisions

CancelKept(e) ==
  cancelSeen[e] =>
    /\ rec[e].state # "completed" /\ disk[e].state # "completed"
    /\ ~rec[e].checkpoint /\ ~disk[e].checkpoint
    /\ Running(e) => ctx[e] # "live"
    /\ pc[e] \in Locked => final[e] # "completed"

LapseKept(e) ==
  lapsed[e] =>
    /\ ~rec[e].checkpoint /\ ~disk[e].checkpoint
    /\ Running(e) /\ pc[e] # "finish_publish" => lease[e] = 0
    /\ pc[e] = "finish_publish" => leaseExpired[e]

Sound(e) ==
  /\ Phase(e) /\ Known(e) /\ Reopened(e) /\ Started(e) /\ Cleaned(e)
  /\ Recoverable(e) /\ Approved(e) /\ CancelKept(e) /\ LapseKept(e)

Slots == IsFiniteSet(Runners) /\ Cardinality(Runners) <= MaxActive

Inv == TypeOK /\ (\A e \in Executions : Sound(e)) /\ Slots

-----------------------------------------------------------------------------
(* One execution at a time *)

(* The step leaves execution e alone ... *)
Same(e) ==
  /\ rec'[e] = rec[e] /\ disk'[e] = disk[e] /\ pc'[e] = pc[e]
  /\ ctx'[e] = ctx[e] /\ lease'[e] = lease[e] /\ failure'[e] = failure[e]
  /\ verified'[e] = verified[e] /\ leaseExpired'[e] = leaseExpired[e]
  /\ final'[e] = final[e] /\ box'[e] = box[e] /\ starts'[e] = starts[e]
  /\ told'[e] = told[e] /\ lapsed'[e] = lapsed[e]
  /\ cancelSeen'[e] = cancelSeen[e] /\ (e \in todo' <=> e \in todo)

(* ... or all but d. *)
Only(d) == \A e \in Executions \ {d} : Same(e)

(* What has to be shown of a step of execution e. *)
Kept(e) ==
  /\ TypeOK' /\ Only(e) /\ mode' = mode
  /\ Sound(e)'
  /\ Running(e)' => Running(e)

(* An execution that a step leaves alone stays sound. *)
LEMMA Frame ==
  ASSUME NEW e \in Executions, Sound(e), Same(e), mode' = mode
  PROVE  Sound(e)'
<1>1. Running(e)' <=> Running(e)
  BY Zenon DEF Running, Same
<1>2. Fresh(e)' <=> Fresh(e)
  BY Zenon DEF Fresh, Same
<1>3. NeedsCleanup(disk[e])' <=> NeedsCleanup(disk[e])
  BY Zenon DEF NeedsCleanup, cleanupUnverified, terminal, Same
<1>4. Serving' <=> Serving
  BY Zenon DEF Serving
<1>5. Phase(e)' /\ Known(e)' /\ Reopened(e)' /\ Started(e)' /\ Cleaned(e)'
  BY <1>1, <1>2, <1>3, <1>4 DEF Sound, Phase, Known, Reopened, Started, Cleaned,
     Same, terminal
<1>6. Recoverable(e)' /\ Approved(e)' /\ CancelKept(e)' /\ LapseKept(e)'
  BY <1>1, <1>3 DEF Sound, Recoverable, Approved, CancelKept, LapseKept, Same
<1> QED BY <1>5, <1>6 DEF Sound

(* No new runner, no slot taken. *)
LEMMA NoSlotTaken ==
  ASSUME Slots, \A e \in Executions : Running(e)' => Running(e)
  PROVE  Slots'
<1>1. Runners' \subseteq Runners
  BY DEF Runners
<1>2. IsFiniteSet(Runners') /\ Cardinality(Runners') <= Cardinality(Runners)
  BY <1>1, FS_Subset DEF Slots
<1>3. Cardinality(Runners) \in Nat /\ Cardinality(Runners') \in Nat
  BY <1>2, FS_CardinalityType DEF Slots
<1> QED BY <1>2, <1>3, TurnBounds DEF Slots

(* A step of one execution keeps the invariant. *)
LEMMA OneMoves ==
  ASSUME Inv, NEW e \in Executions, Kept(e)
  PROVE  Inv'
<1>1. \A d \in Executions : Sound(d)'
  BY Frame DEF Inv, Kept, Only
<1>2. \A d \in Executions : Running(d)' => Running(d)
  BY Zenon DEF Kept, Only, Same, Running
<1>3. Slots'
  BY <1>2, NoSlotTaken DEF Inv
<1> QED BY <1>1, <1>3 DEF Inv, Kept

(* persist(): the record written, or the one before. *)
LEMMA Written ==
  ASSUME NEW e \in Executions, NEW r \in Records, NEW w,
         disk \in [Executions -> Records], disk' = Persisted(e, r, w)
  PROVE  /\ disk' \in [Executions -> Records]
         /\ disk'[e] = r \/ disk'[e] = disk[e]
         /\ w = "ok" => disk'[e] = r
         /\ \A d \in Executions \ {e} : disk'[d] = disk[d]
  BY DEF Persisted

(* Cancelling a context ends it, and no other. *)
LEMMA CancelledContext ==
  ASSUME NEW e \in Executions, ctx \in [Executions -> {"live", "cancelled", "deadline"}]
  PROVE  /\ Cancelled(e) \in [Executions -> {"live", "cancelled", "deadline"}]
         /\ Cancelled(e)[e] # "live"
         /\ \A d \in Executions \ {e} : Cancelled(e)[d] = ctx[d]
  BY DEF Cancelled

-----------------------------------------------------------------------------
(* Time *)

(* The profile's timeout only takes the context's life. *)
LEMMA DeadlineKeeps ==
  ASSUME Inv, NEW e \in Executions, Deadline(e)
  PROVE  Kept(e)
<1> USE DEF procVars, runVars, boxVars, guestVars, histVars
<1>1. TypeOK' /\ Only(e) /\ mode' = mode
  BY DEF Inv, TypeOK, Only, Same, Deadline
<1>2. Sound(e)'
  BY <1>1 DEF Inv, TypeOK, Deadline, Sound, Phase, Known, Reopened, Started,
     Cleaned, Recoverable, Approved, CancelKept, LapseKept, Running, Fresh,
     NeedsCleanup, cleanupUnverified, terminal, Serving, Finishing, Locked
<1> QED BY <1>1, <1>2 DEF Kept, Running, Deadline

(* So does the lease watcher. *)
LEMMA LeaseWatchKeeps ==
  ASSUME Inv, NEW e \in Executions, LeaseWatch(e)
  PROVE  Kept(e)
<1> USE DEF procVars, runVars, boxVars, guestVars, histVars
<1>1. TypeOK' /\ Only(e) /\ mode' = mode
  BY DEF Inv, TypeOK, Only, Same, LeaseWatch, Cancelled
<1>2. Sound(e)'
  BY <1>1 DEF Inv, TypeOK, LeaseWatch, Cancelled, Sound, Phase, Known,
     Reopened, Started, Cleaned, Recoverable, Approved, CancelKept,
     LapseKept, Running, Fresh, NeedsCleanup, cleanupUnverified, terminal,
     Serving, Finishing, Locked
<1> QED BY <1>1, <1>2 DEF Kept, Running, LeaseWatch, Cancelled

-----------------------------------------------------------------------------
(* The runner *)

(* Create leaves a live sandbox, or a failure to be cleaned up. *)
LEMMA CreateSandboxKeeps ==
  ASSUME Inv, NEW e \in Executions, CreateSandbox(e)
  PROVE  Kept(e)
<1> USE DEF procVars, runVars, boxVars, guestVars, histVars
<1>1. PICK b \in BoxStates, q \in {"identify", "cleanup_identity"}, f \in BOOLEAN :
        /\ box' = [box EXCEPT ![e] = b] /\ pc' = [pc EXCEPT ![e] = q]
        /\ failure' = [failure EXCEPT ![e] = f]
        /\ q = "identify" => b = "live"
        /\ q = "cleanup_identity" => f
        /\ b = "pending" => "create_late" \in Faults
  <2>1. failure = [failure EXCEPT ![e] = failure[e]] /\ failure[e] \in BOOLEAN
    BY DEF Inv, TypeOK
  <2> QED BY <2>1 DEF CreateSandbox, BoxStates
<1>2. pc[e] = "creating"
  BY DEF CreateSandbox
<1>3. q \in Steps
  BY DEF Steps
<1>4. TypeOK' /\ Only(e) /\ mode' = mode
  BY <1>1, <1>3 DEF Inv, TypeOK, Only, Same, CreateSandbox
<1>5. Sound(e)'
  BY <1>1, <1>2, <1>4 DEF Inv, TypeOK, BoxStates, CreateSandbox, Sound,
     Phase, Known, Reopened, Started, Cleaned, Recoverable, Approved,
     CancelKept, LapseKept, Running, Fresh, NeedsCleanup, cleanupUnverified,
     terminal, Serving, Finishing, Locked
<1> QED BY <1>2, <1>4, <1>5 DEF Kept, Running

(* A late create settles on a turn that has already failed. *)
LEMMA ProviderSettlesKeeps ==
  ASSUME Inv, NEW e \in Executions, ProviderSettles(e)
  PROVE  Kept(e)
<1> USE DEF procVars, runVars, boxVars, guestVars, histVars
<1>1. TypeOK' /\ Only(e) /\ mode' = mode
  BY DEF Inv, TypeOK, Only, Same, ProviderSettles, BoxStates
<1>2. Sound(e)'
  BY <1>1 DEF Inv, TypeOK, ProviderSettles, BoxStates, Sound, Phase, Known,
     Reopened, Started, Cleaned, Recoverable, Approved, CancelKept,
     LapseKept, Running, Fresh, NeedsCleanup, cleanupUnverified, terminal,
     Serving, Finishing, Locked
<1> QED BY <1>1, <1>2 DEF Kept, Running, ProviderSettles, BoxStates

(* A verified cleanup after a failed create: gone, or still pending. *)
LEMMA cleanupIdentityKeeps ==
  ASSUME Inv, NEW e \in Executions, cleanupIdentity(e)
  PROVE  Kept(e)
<1> USE DEF procVars, runVars, boxVars, guestVars, histVars
<1>1. PICK gone, ok \in Outcomes :
        /\ box' = [box EXCEPT ![e] = AfterDestroy(e, gone)]
        /\ verified' = [verified EXCEPT ![e] = SeenGone(e, gone, ok)]
  BY DEF cleanupIdentity
<1>2. AfterDestroy(e, gone) = box[e] \/ (box[e] = "live" /\ AfterDestroy(e, gone) = "none")
  BY DEF AfterDestroy
<1>3. SeenGone(e, gone, ok) \in BOOLEAN
  BY DEF SeenGone, Outcomes
<1>4. SeenGone(e, gone, ok) => AfterDestroy(e, gone) # "live"
  BY Zenon DEF SeenGone
<1>5. PICK v \in BOOLEAN, b \in BoxStates :
        /\ box' = [box EXCEPT ![e] = b] /\ verified' = [verified EXCEPT ![e] = v]
        /\ b = box[e] \/ (box[e] = "live" /\ b = "none")
        /\ v => b # "live"
  BY <1>1, <1>2, <1>3, <1>4 DEF BoxStates, Inv, TypeOK
<1>6. TypeOK' /\ Only(e) /\ mode' = mode
  BY <1>5 DEF Inv, TypeOK, Only, Same, Steps, cleanupIdentity
<1>7. box'[e] = b /\ verified'[e] = v /\ pc'[e] = "finish" /\ disk'[e] = disk[e]
        /\ failure'[e] = failure[e]
  BY <1>5 DEF Inv, TypeOK, cleanupIdentity
<1>8. Cleaned(e)'
  BY <1>5, <1>7 DEF Inv, Sound, Cleaned, Phase, Running, BoxStates,
     cleanupIdentity, Finishing, Locked
<1>9. Sound(e)'
  BY <1>5, <1>6, <1>7, <1>8 DEF Inv, TypeOK, BoxStates, cleanupIdentity,
     Sound, Phase, Known, Reopened, Started, Recoverable, Approved,
     CancelKept, LapseKept, Running, Fresh, NeedsCleanup, cleanupUnverified,
     terminal, Serving, Finishing, Locked
<1> QED BY <1>6, <1>9 DEF Kept, Running, cleanupIdentity

(* The harness is started from here only, for the first time. *)
LEMMA StageKeeps ==
  ASSUME Inv, NEW e \in Executions, Stage(e)
  PROVE  Kept(e)
<1> USE DEF procVars, runVars, boxVars, guestVars, histVars
<1>1. pc[e] = "stage" /\ starts[e] = 0
  BY DEF Inv, Sound, Started, Stage
<1>2. PICK q \in {"execute", "destroy"}, n \in {0, 1}, f \in BOOLEAN :
        /\ pc' = [pc EXCEPT ![e] = q] /\ starts' = [starts EXCEPT ![e] = n]
        /\ failure' = [failure EXCEPT ![e] = f]
  <2>1. failure = [failure EXCEPT ![e] = failure[e]] /\ failure[e] \in BOOLEAN
    BY DEF Inv, TypeOK
  <2>2. starts = [starts EXCEPT ![e] = 0]
    BY <1>1 DEF Inv, TypeOK
  <2>3. CASE starts' = [starts EXCEPT ![e] = @ + 1] /\ failure' = failure
             /\ pc' = [pc EXCEPT ![e] = "execute"]
    <3>1. starts' = [starts EXCEPT ![e] = 1]
      BY <1>1, <2>3
    <3> QED BY <2>1, <2>3, <3>1
  <2>4. CASE starts' = starts /\ failure' = [failure EXCEPT ![e] = TRUE]
             /\ pc' = [pc EXCEPT ![e] = "destroy"]
    BY <2>2, <2>4
  <2> QED BY <2>3, <2>4 DEF Stage
<1>3. q \in Steps /\ n \in Nat
  BY DEF Steps
<1>4. TypeOK' /\ Only(e) /\ mode' = mode
  BY <1>2, <1>3 DEF Inv, TypeOK, Only, Same, Stage
<1>5. Sound(e)'
  BY <1>1, <1>2, <1>4 DEF Inv, TypeOK, Stage, Sound, Phase, Known, Reopened,
     Started, Cleaned, Recoverable, Approved, CancelKept, LapseKept,
     Running, Fresh, NeedsCleanup, cleanupUnverified, terminal, Serving,
     Finishing, Locked
<1> QED BY <1>1, <1>4, <1>5 DEF Kept, Running

(* The command's exit is the runner's own affair. *)
LEMMA ExecuteReturnsKeeps ==
  ASSUME Inv, NEW e \in Executions, ExecuteReturns(e)
  PROVE  Kept(e)
<1> USE DEF procVars, runVars, boxVars, guestVars, histVars
<1>1. TypeOK' /\ Only(e) /\ mode' = mode
  BY DEF Inv, TypeOK, Only, Same, ExecuteReturns, Exits
<1>2. Sound(e)'
  BY <1>1 DEF Inv, TypeOK, ExecuteReturns, Exits, Sound, Phase, Known,
     Reopened, Started, Cleaned, Recoverable, Approved, CancelKept,
     LapseKept, Running, Fresh, NeedsCleanup, cleanupUnverified, terminal,
     Serving, Finishing, Locked
<1> QED BY <1>1, <1>2 DEF Kept, Running, ExecuteReturns, Exits

(* The loop ends. *)
LEMMA LoopEndsKeeps ==
  ASSUME Inv, NEW e \in Executions, LoopEnds(e)
  PROVE  Kept(e)
<1> USE DEF procVars, runVars, boxVars, guestVars, histVars
<1>1. TypeOK' /\ Only(e) /\ mode' = mode
  BY DEF Inv, TypeOK, Only, Same, LoopEnds, Steps
<1>2. Sound(e)'
  BY <1>1 DEF Inv, TypeOK, LoopEnds, Steps, Sound, Phase, Known, Reopened,
     Started, Cleaned, Recoverable, Approved, CancelKept, LapseKept,
     Running, Fresh, NeedsCleanup, cleanupUnverified, terminal, Serving,
     Finishing, Locked
<1> QED BY <1>1, <1>2 DEF Kept, Running, LoopEnds, Steps

(* The last poll reads nothing. *)
LEMMA PollNothingKeeps ==
  ASSUME Inv, NEW e \in Executions, PollNothing(e)
  PROVE  Kept(e)
<1> USE DEF procVars, runVars, boxVars, guestVars, histVars
<1>1. TypeOK' /\ Only(e) /\ mode' = mode
  BY DEF Inv, TypeOK, Only, Same, PollNothing, Steps, AfterPoll
<1>2. Sound(e)'
  BY <1>1 DEF Inv, TypeOK, PollNothing, Steps, AfterPoll, Sound, Phase,
     Known, Reopened, Started, Cleaned, Recoverable, Approved, CancelKept,
     LapseKept, Running, Fresh, NeedsCleanup, cleanupUnverified, terminal,
     Serving, Finishing, Locked
<1> QED BY <1>1, <1>2 DEF Kept, Running, PollNothing, Steps, AfterPoll

(* A failing poll ends the context. *)
LEMMA PollFailsKeeps ==
  ASSUME Inv, NEW e \in Executions, PollFails(e)
  PROVE  Kept(e)
<1> USE DEF procVars, runVars, boxVars, guestVars, histVars
<1>1. TypeOK' /\ Only(e) /\ mode' = mode
  BY DEF Inv, TypeOK, Only, Same, PollFails, Steps, AfterPoll, Polling,
     Cancelled
<1>2. Sound(e)'
  BY <1>1 DEF Inv, TypeOK, PollFails, Steps, AfterPoll, Polling, Cancelled,
     Sound, Phase, Known, Reopened, Started, Cleaned, Recoverable, Approved,
     CancelKept, LapseKept, Running, Fresh, NeedsCleanup, cleanupUnverified,
     terminal, Serving, Finishing, Locked
<1> QED BY <1>1, <1>2 DEF Kept, Running, PollFails, Steps, AfterPoll, Polling,
   Cancelled

(* The request file is read; no record is touched. *)
LEMMA PollReadKeeps ==
  ASSUME Inv, NEW e \in Executions, PollRead(e)
  PROVE  Kept(e)
<1> USE DEF procVars, runVars, boxVars, guestVars, histVars
<1>1. TypeOK' /\ Only(e) /\ mode' = mode
  BY DEF Inv, TypeOK, Only, Same, PollRead, Polling
<1>2. Sound(e)'
  BY <1>1 DEF Inv, TypeOK, PollRead, Polling, Sound, Phase, Known, Reopened,
     Started, Cleaned, Recoverable, Approved, CancelKept, LapseKept,
     Running, Fresh, NeedsCleanup, cleanupUnverified, terminal, Serving,
     Finishing, Locked
<1> QED BY <1>1, <1>2 DEF Kept, Running, PollRead, Polling

(* A checkpoint is collected, or the turn has failed. *)
LEMMA CollectKeeps ==
  ASSUME Inv, NEW e \in Executions, Collect(e)
  PROVE  Kept(e)
<1> USE DEF procVars, runVars, boxVars, guestVars, histVars
<1>1. pc[e] = "collect" /\ pc' = [pc EXCEPT ![e] = "destroy"] /\ "destroy" \in Steps
  BY DEF Collect, Steps
<1>2. PICK c \in BOOLEAN, f \in BOOLEAN :
        /\ checkpoint' = [checkpoint EXCEPT ![e] = c]
        /\ failure' = [failure EXCEPT ![e] = f]
  <2>1. checkpoint = [checkpoint EXCEPT ![e] = checkpoint[e]] /\ checkpoint[e] \in BOOLEAN
    BY DEF Inv, TypeOK
  <2>2. failure[e] \in BOOLEAN
    BY DEF Inv, TypeOK
  <2>3. PICK bad \in BOOLEAN : bad = (failure[e] \/ exit[e] \in {"error", "limit"})
    OBVIOUS
  <2>4. CASE \E ok \in BOOLEAN : /\ checkpoint' = [checkpoint EXCEPT ![e] = ok]
                                 /\ failure' = [failure EXCEPT ![e] = ~ok]
    <3>1. PICK ok \in BOOLEAN : /\ checkpoint' = [checkpoint EXCEPT ![e] = ok]
                                /\ failure' = [failure EXCEPT ![e] = ~ok]
      BY <2>4
    <3>2. (~ok) \in BOOLEAN
      OBVIOUS
    <3> QED BY <3>1, <3>2
  <2>5. CASE failure' = [failure EXCEPT ![e] = bad] /\ checkpoint' = checkpoint
    BY <2>1, <2>5
  <2> QED BY <2>3, <2>4, <2>5, Zenon DEF Collect
<1>3. TypeOK' /\ Only(e) /\ mode' = mode
  BY <1>1, <1>2 DEF Inv, TypeOK, Only, Same, Collect
<1>4. Sound(e)'
  BY <1>1, <1>2, <1>3 DEF Inv, TypeOK, Collect, Sound, Phase, Known,
     Reopened, Started, Cleaned, Recoverable, Approved, CancelKept,
     LapseKept, Running, Fresh, NeedsCleanup, cleanupUnverified, terminal,
     Serving, Finishing, Locked
<1> QED BY <1>1, <1>3, <1>4 DEF Kept, Running

(* Past identify nothing is pending: verified means gone. *)
LEMMA DestroySandboxKeeps ==
  ASSUME Inv, NEW e \in Executions, DestroySandbox(e)
  PROVE  Kept(e)
<1> USE DEF procVars, runVars, boxVars, guestVars, histVars
<1>1. PICK gone, ok \in Outcomes :
        /\ box' = [box EXCEPT ![e] = AfterDestroy(e, gone)]
        /\ verified' = [verified EXCEPT ![e] = SeenGone(e, gone, ok)]
  BY DEF DestroySandbox
<1>2. AfterDestroy(e, gone) = box[e] \/ (box[e] = "live" /\ AfterDestroy(e, gone) = "none")
  BY DEF AfterDestroy
<1>3. SeenGone(e, gone, ok) \in BOOLEAN
  BY DEF SeenGone, Outcomes
<1>4. SeenGone(e, gone, ok) => AfterDestroy(e, gone) # "live"
  BY Zenon DEF SeenGone
<1>5. PICK v \in BOOLEAN, b \in BoxStates :
        /\ box' = [box EXCEPT ![e] = b] /\ verified' = [verified EXCEPT ![e] = v]
        /\ b = box[e] \/ (box[e] = "live" /\ b = "none")
        /\ v => b # "live"
  BY <1>1, <1>2, <1>3, <1>4 DEF BoxStates, Inv, TypeOK
<1>6. TypeOK' /\ Only(e) /\ mode' = mode
  BY <1>5 DEF Inv, TypeOK, Only, Same, Steps, DestroySandbox
<1>7. box'[e] = b /\ verified'[e] = v /\ pc'[e] = "finish" /\ disk'[e] = disk[e]
        /\ failure'[e] = failure[e]
  BY <1>5 DEF Inv, TypeOK, DestroySandbox
<1>8. Cleaned(e)'
  BY <1>5, <1>7 DEF Inv, Sound, Cleaned, Phase, Running, BoxStates,
     DestroySandbox, Finishing, Locked
<1>9. Sound(e)'
  BY <1>5, <1>6, <1>7, <1>8 DEF Inv, TypeOK, BoxStates, DestroySandbox,
     Sound, Phase, Known, Reopened, Started, Recoverable, Approved,
     CancelKept, LapseKept, Running, Fresh, NeedsCleanup, cleanupUnverified,
     terminal, Serving, Finishing, Locked
<1> QED BY <1>6, <1>9 DEF Kept, Running, DestroySandbox

(* A cancelled turn is never a completed one here: the lock keeps cancel *)
(* out until the verdict is taken.                                       *)
LEMMA FinishStateKeeps ==
  ASSUME Inv, NEW e \in Executions, FinishState(e)
  PROVE  Kept(e)
<1> USE DEF procVars, runVars, boxVars, guestVars, histVars
<1>1. TypeOK' /\ Only(e) /\ mode' = mode
  BY DEF Inv, TypeOK, Only, Same, FinishState, Steps, TurnStates
<1>2. Sound(e)'
  BY <1>1 DEF Inv, TypeOK, FinishState, Steps, TurnStates, Sound, Phase,
     Known, Reopened, Started, Cleaned, Recoverable, Approved, CancelKept,
     LapseKept, Running, Fresh, NeedsCleanup, cleanupUnverified, terminal,
     Serving, Finishing, Locked
<1> QED BY <1>1, <1>2 DEF Kept, Running, FinishState, Steps, TurnStates

(* A lapsed lease is seen here at the latest. *)
LEMMA FinishLeaseKeeps ==
  ASSUME Inv, NEW e \in Executions, FinishLease(e)
  PROVE  Kept(e)
<1> USE DEF procVars, runVars, boxVars, guestVars, histVars
<1>1. TypeOK' /\ Only(e) /\ mode' = mode
  BY DEF Inv, TypeOK, Only, Same, FinishLease, Steps, TurnStates
<1>2. Sound(e)'
  BY <1>1 DEF Inv, TypeOK, FinishLease, Steps, TurnStates, Sound, Phase,
     Known, Reopened, Started, Cleaned, Recoverable, Approved, CancelKept,
     LapseKept, Running, Fresh, NeedsCleanup, cleanupUnverified, terminal,
     Serving, Finishing, Locked
<1> QED BY <1>1, <1>2 DEF Kept, Running, FinishLease, Steps, TurnStates

(* The guest writes only its own file. *)
LEMMA GuestAsksKeeps ==
  ASSUME Inv, NEW e \in Executions, NEW op \in Operations, GuestAsks(e, op)
  PROVE  Kept(e)
<1> USE DEF procVars, runVars, boxVars, guestVars, histVars
<1>1. TypeOK' /\ Only(e) /\ mode' = mode
  BY DEF Inv, TypeOK, Only, Same, GuestAsks
<1>2. Sound(e)'
  BY <1>1 DEF Inv, TypeOK, GuestAsks, Sound, Phase, Known, Reopened,
     Started, Cleaned, Recoverable, Approved, CancelKept, LapseKept,
     Running, Fresh, NeedsCleanup, cleanupUnverified, terminal, Serving,
     Finishing, Locked
<1> QED BY <1>1, <1>2 DEF Kept, Running, GuestAsks

-----------------------------------------------------------------------------
(* Requests of the owner, and polls that persist *)

(* An active record of a serving process has a runner. *)
LEMMA ActiveRuns ==
  ASSUME Inv, NEW e \in Executions, Serving, e \in Active
  PROVE  Running(e)
  BY DEF Inv, Sound, Phase, Active

(* cancel ends the context before anything else can happen. *)
LEMMA cancelKeeps ==
  ASSUME Inv, NEW e \in Executions, cancel(e)
  PROVE  Kept(e)
<1> USE DEF procVars, runVars, boxVars, guestVars, histVars
<1>1. rec[e] \in Records /\ rec' = rec /\ disk \in [Executions -> Records]
  BY DEF Inv, TypeOK, cancel
<1>2. Running(e) /\ pc[e] \notin Locked
  BY ActiveRuns DEF cancel, Unlocked, Locked
<1>3. PICK w \in Writes : /\ disk' = Persisted(e, rec[e], w)
                          /\ ctx' = Cancelled(e)
  BY DEF cancel
<1>4. /\ disk' \in [Executions -> Records]
      /\ disk'[e] = rec[e] \/ disk'[e] = disk[e]
      /\ w = "ok" => disk'[e] = rec[e]
      /\ \A d \in Executions \ {e} : disk'[d] = disk[d]
  BY <1>1, <1>3, Written
<1>5. /\ ctx' \in [Executions -> {"live", "cancelled", "deadline"}]
      /\ ctx'[e] = ctx[e] \/ ctx'[e] # "live"
      /\ \A d \in Executions \ {e} : ctx'[d] = ctx[d]
  BY <1>3, CancelledContext DEF Inv, TypeOK
<1>6. ctx'[e] # "live"
  BY <1>3, CancelledContext DEF Inv, TypeOK
<1>7. TypeOK' /\ Only(e) /\ mode' = mode
  BY <1>4, <1>5 DEF cancel, Inv, TypeOK, Only, Same
<1>8. Sound(e)'
  BY <1>2, <1>4, <1>5, <1>6, <1>7 DEF Inv, TypeOK, cancel, Sound, Phase,
     Known, Reopened, Started, Cleaned, Recoverable, Approved, CancelKept,
     LapseKept, Running, Fresh, NeedsCleanup, cleanupUnverified, terminal,
     Serving, Finishing, Locked
<1> QED BY <1>2, <1>7, <1>8 DEF Kept

(* renew cannot revive a lease that ran out. *)
LEMMA renewKeeps ==
  ASSUME Inv, NEW e \in Executions, renew(e)
  PROVE  Kept(e)
<1> USE DEF procVars, runVars, boxVars, guestVars, histVars
<1>1. rec[e] \in Records /\ rec' = rec /\ disk \in [Executions -> Records]
  BY DEF Inv, TypeOK, renew
<1>2. Running(e) /\ pc[e] \notin Locked
  BY ActiveRuns DEF renew, Unlocked, Locked
<1>3. PICK w \in Writes : /\ disk' = Persisted(e, rec[e], w)
                          /\ ctx' = IF w = "ok" THEN ctx ELSE Cancelled(e)
  BY DEF renew
<1>4. /\ disk' \in [Executions -> Records]
      /\ disk'[e] = rec[e] \/ disk'[e] = disk[e]
      /\ w = "ok" => disk'[e] = rec[e]
      /\ \A d \in Executions \ {e} : disk'[d] = disk[d]
  BY <1>1, <1>3, Written
<1>5. /\ ctx' \in [Executions -> {"live", "cancelled", "deadline"}]
      /\ ctx'[e] = ctx[e] \/ ctx'[e] # "live"
      /\ \A d \in Executions \ {e} : ctx'[d] = ctx[d]
  BY <1>3, CancelledContext DEF Inv, TypeOK
<1>6. TypeOK' /\ Only(e) /\ mode' = mode
  BY <1>4, <1>5, TurnBounds DEF renew, Inv, TypeOK, Only, Same
<1>7. Sound(e)'
  BY <1>2, <1>4, <1>5, <1>6 DEF Inv, TypeOK, renew, Sound, Phase, Known,
     Reopened, Started, Cleaned, Recoverable, Approved, CancelKept,
     LapseKept, Running, Fresh, NeedsCleanup, cleanupUnverified, terminal,
     Serving, Finishing, Locked
<1> QED BY <1>2, <1>6, <1>7 DEF Kept

(* An event persists the record as it is. *)
LEMMA PollOutputKeeps ==
  ASSUME Inv, NEW e \in Executions, PollOutput(e)
  PROVE  Kept(e)
<1> USE DEF procVars, runVars, boxVars, guestVars, histVars
<1>1. rec[e] \in Records /\ rec' = rec /\ disk \in [Executions -> Records]
  BY DEF Inv, TypeOK, PollOutput
<1>2. pc[e] \in {"execute", "drain"} /\ ctx[e] = "live"
  BY DEF PollOutput, Polling
<1>3. PICK w \in Writes :
        /\ disk' = Persisted(e, rec[e], w)
        /\ failure' = [failure EXCEPT ![e] = failure[e] \/ w # "ok"]
        /\ ctx' = IF w = "ok" THEN ctx ELSE Cancelled(e)
  BY DEF PollOutput
<1>4. /\ disk' \in [Executions -> Records]
      /\ disk'[e] = rec[e] \/ disk'[e] = disk[e]
      /\ \A d \in Executions \ {e} : disk'[d] = disk[d]
  BY <1>1, <1>3, Written
<1>5. /\ ctx' \in [Executions -> {"live", "cancelled", "deadline"}]
      /\ \A d \in Executions \ {e} : ctx'[d] = ctx[d]
  BY <1>3, CancelledContext DEF Inv, TypeOK
<1>6. PICK f \in BOOLEAN : failure' = [failure EXCEPT ![e] = f]
  BY <1>3
<1>7. PICK q \in Steps : /\ pc' = [pc EXCEPT ![e] = q]
                         /\ q \in {"execute", "collect"}
  BY <1>2 DEF PollOutput, AfterPoll, Steps
<1>8. TypeOK' /\ Only(e) /\ mode' = mode
  BY <1>4, <1>5, <1>6, <1>7 DEF PollOutput, Inv, TypeOK, Only, Same
<1>9. Sound(e)'
  BY <1>1, <1>2, <1>4, <1>5, <1>6, <1>7, <1>8 DEF Inv, TypeOK, PollOutput,
     Sound, Phase, Known, Reopened, Started, Cleaned, Recoverable, Approved,
     CancelKept, LapseKept, Running, Fresh, NeedsCleanup, cleanupUnverified,
     terminal, Serving, Finishing, Locked
<1> QED BY <1>2, <1>8, <1>9 DEF Kept, Running

(* A decision that was not persisted ends the context. *)
LEMMA answerPermissionKeeps ==
  ASSUME Inv, NEW e \in Executions, NEW op \in Operations,
         NEW dec \in {"allow", "deny"}, answerPermission(e, op, dec)
  PROVE  Kept(e)
<1> USE DEF procVars, runVars, boxVars, guestVars, histVars
<1>1. PICK y \in Records : y = rec[e]
  BY DEF Inv, TypeOK
<1> DEFINE a == [op |-> op, dec |-> dec]
           r == [y EXCEPT !.decisions = @ \cup {a}]
<1>2. /\ r \in Records /\ r.state = y.state /\ r.checkpoint = y.checkpoint
      /\ r.decisions = y.decisions \cup {a}
  <2>1. a \in Decisions
    BY DEF Decisions
  <2> HIDE DEF a
  <2> QED BY <2>1 DEF Records
<1>3. /\ rec' = [rec EXCEPT ![e] = r]
      /\ \E w \in Writes : /\ disk' = Persisted(e, r, w)
                            /\ ctx' = IF w = "ok" THEN ctx ELSE Cancelled(e)
  BY <1>1, Zenon DEF answerPermission
<1> HIDE DEF r
<1>4. Running(e) /\ pc[e] \notin Locked
  BY ActiveRuns DEF answerPermission, Unlocked, Locked
<1>5. PICK w \in Writes : /\ disk' = Persisted(e, r, w)
                          /\ ctx' = IF w = "ok" THEN ctx ELSE Cancelled(e)
  BY <1>3
<1>6. /\ disk' \in [Executions -> Records]
      /\ disk'[e] = r \/ disk'[e] = disk[e]
      /\ w = "ok" => disk'[e] = r
      /\ \A d \in Executions \ {e} : disk'[d] = disk[d]
  BY <1>2, <1>5, Written DEF Inv, TypeOK
<1>7. /\ ctx' \in [Executions -> {"live", "cancelled", "deadline"}]
      /\ ctx'[e] = ctx[e] \/ ctx'[e] # "live"
      /\ w # "ok" => ctx'[e] # "live"
      /\ \A d \in Executions \ {e} : ctx'[d] = ctx[d]
  BY <1>5, CancelledContext DEF Inv, TypeOK
<1>8. UNCHANGED <<procVars, blob, pc, lease, runVars, boxVars, guestVars, histVars>>
  BY DEF answerPermission
<1>9. rec'[e] = r /\ rec' \in [Executions -> Records]
      /\ \A d \in Executions \ {e} : rec'[d] = rec[d]
  BY <1>2, <1>3 DEF Inv, TypeOK
<1>10. TypeOK' /\ Only(e) /\ mode' = mode
  BY <1>6, <1>7, <1>8, <1>9 DEF Inv, TypeOK, Only, Same
<1>11. Sound(e)'
  BY <1>1, <1>2, <1>4, <1>6, <1>7, <1>8, <1>9 DEF Inv, TypeOK, Sound, Phase,
     Known, Reopened, Started, Cleaned, Recoverable, Approved, CancelKept,
     LapseKept, Running, Fresh, NeedsCleanup, cleanupUnverified, terminal,
     Serving, Finishing, Locked
<1> QED BY <1>4, <1>10, <1>11 DEF Kept

(* The identity is recorded; nothing has started yet. *)
LEMMA RecordSandboxKeeps ==
  ASSUME Inv, NEW e \in Executions, RecordSandbox(e)
  PROVE  Kept(e)
<1> USE DEF procVars, runVars, boxVars, guestVars, histVars
<1>1. PICK y \in Records : y = rec[e]
  BY DEF Inv, TypeOK
<1> DEFINE r == [y EXCEPT !.state = "running", !.sandbox = TRUE]
<1>2. /\ r \in Records /\ r.state = "running" /\ r.checkpoint = y.checkpoint
      /\ r.decisions = y.decisions
  BY DEF Records, TurnStates
<1>3. /\ rec' = [rec EXCEPT ![e] = r]
      /\ \E w \in Writes :
           /\ disk' = Persisted(e, r, w)
           /\ failure' = [failure EXCEPT ![e] = w # "ok"]
           /\ pc' = [pc EXCEPT ![e] = IF w = "ok" THEN "stage" ELSE "destroy"]
  BY <1>1, Zenon DEF RecordSandbox
<1> HIDE DEF r
<1>4. PICK w \in Writes :
        /\ disk' = Persisted(e, r, w)
        /\ failure' = [failure EXCEPT ![e] = w # "ok"]
        /\ pc' = [pc EXCEPT ![e] = IF w = "ok" THEN "stage" ELSE "destroy"]
  BY <1>3
<1>5. /\ disk' \in [Executions -> Records]
      /\ disk'[e] = r \/ disk'[e] = disk[e]
      /\ \A d \in Executions \ {e} : disk'[d] = disk[d]
  BY <1>2, <1>4, Written DEF Inv, TypeOK
<1>6. PICK f \in BOOLEAN : failure' = [failure EXCEPT ![e] = f]
  BY <1>4
<1>7. PICK q \in Steps : pc' = [pc EXCEPT ![e] = q] /\ q \in {"stage", "destroy"}
  BY <1>4 DEF Steps
<1>8. pc[e] = "identify"
  BY DEF RecordSandbox
<1>9. /\ UNCHANGED <<procVars, blob, ctx, lease, exit, checkpoint, verified>>
      /\ UNCHANGED <<leaseExpired, final, seen, boxVars, guestVars, histVars>>
  BY DEF RecordSandbox
<1>10. rec'[e] = r /\ pc'[e] = q /\ rec' \in [Executions -> Records]
       /\ \A d \in Executions \ {e} : rec'[d] = rec[d]
  BY <1>2, <1>3, <1>7 DEF Inv, TypeOK
<1>11. TypeOK' /\ Only(e) /\ mode' = mode
  BY <1>5, <1>6, <1>7, <1>9, <1>10 DEF Inv, TypeOK, Only, Same
<1>12. Sound(e)'
  BY <1>1, <1>2, <1>5, <1>7, <1>8, <1>9, <1>10 DEF Inv, TypeOK, Sound,
     Phase, Known, Reopened, Started, Cleaned, Recoverable, Approved,
     CancelKept, LapseKept, Running, Fresh, NeedsCleanup, cleanupUnverified,
     terminal, Serving, Finishing, Locked
<1> QED BY <1>8, <1>11, <1>12 DEF Kept, Running

(* pollPermission leaves the decisions alone, and tells the guest only one *)
(* of them, while the context lives.                                       *)
LEMMA pollPermissionKeeps ==
  ASSUME Inv, NEW e \in Executions, pollPermission(e)
  PROVE  Kept(e)
<1> USE DEF procVars, runVars, boxVars, guestVars, histVars
<1>1. PICK y \in Records : y = rec[e]
  BY DEF Inv, TypeOK
<1>2. pc[e] \in {"execute", "drain"} /\ Serving
  BY DEF pollPermission, Polling, Inv, Sound, Phase
<1>3. PICK q \in Steps : pc' = [pc EXCEPT ![e] = q] /\ q \in {"execute", "collect"}
  BY <1>2 DEF pollPermission, AfterPoll, Steps
<1> DEFINE Quiet == /\ failure' \in [Executions -> BOOLEAN]
                    /\ \A d \in Executions \ {e} : failure'[d] = failure[d]
                    /\ ctx' \in [Executions -> {"live", "cancelled", "deadline"}]
                    /\ ctx'[e] = ctx[e] \/ ctx'[e] # "live"
                    /\ \A d \in Executions \ {e} : ctx'[d] = ctx[d]
<1>4. PermissionError(e) => Quiet
  <2>1. PermissionError(e) => failure' = [failure EXCEPT ![e] = TRUE] /\ ctx' = Cancelled(e)
    BY DEF PermissionError
  <2> QED BY <2>1, CancelledContext DEF Inv, TypeOK
<1>5. UNCHANGED <<failure, ctx>> => Quiet
  BY DEF Inv, TypeOK
<1> HIDE DEF Quiet
<1>6. /\ Quiet
      /\ \/ told' = told
         \/ \E d \in y.decisions : told' = [told EXCEPT ![e] = d] /\ ctx[e] = "live"
      /\ \E r \in Records :
           /\ r.state = y.state /\ r.checkpoint = y.checkpoint
           /\ r.decisions = y.decisions
           /\ rec' = [rec EXCEPT ![e] = r]
           /\ disk' \in [Executions -> Records]
           /\ disk'[e] = r \/ disk'[e] = disk[e]
           /\ \A d \in Executions \ {e} : disk'[d] = disk[d]
  <2>0. rec' = rec /\ disk' = disk =>
        \E r \in Records :
           /\ r.state = y.state /\ r.checkpoint = y.checkpoint
           /\ r.decisions = y.decisions
           /\ rec' = [rec EXCEPT ![e] = r]
           /\ disk' \in [Executions -> Records]
           /\ disk'[e] = r \/ disk'[e] = disk[e]
           /\ \A d \in Executions \ {e} : disk'[d] = disk[d]
    <3>1. rec = [rec EXCEPT ![e] = y]
      BY <1>1 DEF Inv, TypeOK
    <3> QED BY <3>1 DEF Inv, TypeOK
  <2>1. CASE Deliver(e)
    <3>1. rec' = rec /\ disk' = disk
      BY <2>1 DEF Deliver
    <3>2. Quiet
      BY <2>1, <1>4, <1>5 DEF Deliver
    <3>3. \/ told' = told
          \/ \E d \in y.decisions : told' = [told EXCEPT ![e] = d] /\ ctx[e] = "live"
      BY <1>1, <2>1 DEF Deliver, Decided
    <3> QED BY <2>0, <3>1, <3>2, <3>3
  <2>2. CASE StillPending(e)
    <3>1. rec' = rec /\ disk' = disk /\ told' = told
      BY <2>2 DEF StillPending
    <3>2. Quiet
      BY <2>2, <1>4, <1>5 DEF StillPending
    <3> QED BY <2>0, <3>1, <3>2
  <2>3. CASE Register(e)
    <3>1. told' = told
      BY <2>3 DEF Register
    <3>2. CASE PermissionError(e) /\ UNCHANGED <<rec, disk>>
      BY <1>4, <2>0, <3>1, <3>2
    <3>3. CASE LET r == [rec[e] EXCEPT !.pending = seen[e]] IN
               /\ rec' = [rec EXCEPT ![e] = r]
               /\ \E w \in Writes :
                    /\ disk' = Persisted(e, r, w)
                    /\ IF w = "ok" THEN UNCHANGED <<failure, ctx>>
                                   ELSE PermissionError(e)
      <4> DEFINE r == [y EXCEPT !.pending = seen[e]]
      <4>1. /\ r \in Records /\ r.state = y.state /\ r.checkpoint = y.checkpoint
            /\ r.decisions = y.decisions
        BY DEF Records, Inv, TypeOK
      <4>2. /\ rec' = [rec EXCEPT ![e] = r]
            /\ \E w \in Writes :
                 /\ disk' = Persisted(e, r, w)
                 /\ IF w = "ok" THEN UNCHANGED <<failure, ctx>>
                                ELSE PermissionError(e)
        BY <1>1, <3>3, Zenon
      <4> HIDE DEF r
      <4>3. PICK w \in Writes : /\ disk' = Persisted(e, r, w)
                                /\ IF w = "ok" THEN UNCHANGED <<failure, ctx>>
                                               ELSE PermissionError(e)
        BY <4>2
      <4>4. /\ disk' \in [Executions -> Records]
            /\ disk'[e] = r \/ disk'[e] = disk[e]
            /\ \A d \in Executions \ {e} : disk'[d] = disk[d]
        BY <4>1, <4>3, Written DEF Inv, TypeOK
      <4>5. Quiet
        BY <4>3, <1>4, <1>5
      <4> QED BY <3>1, <4>1, <4>2, <4>4, <4>5
    <3> QED BY <2>3, <3>2, <3>3, Zenon DEF Register
  <2> QED BY <2>1, <2>2, <2>3 DEF pollPermission
<1>7. PICK r \in Records :
           /\ r.state = y.state /\ r.checkpoint = y.checkpoint
           /\ r.decisions = y.decisions
           /\ rec' = [rec EXCEPT ![e] = r]
           /\ disk' \in [Executions -> Records]
           /\ disk'[e] = r \/ disk'[e] = disk[e]
           /\ \A d \in Executions \ {e} : disk'[d] = disk[d]
  BY <1>6
<1>8. /\ told' \in [Executions -> Decisions \cup {NoDecision}]
      /\ \A d \in Executions \ {e} : told'[d] = told[d]
      /\ told'[e] = told[e] \/ (told'[e] \in y.decisions /\ ctx[e] = "live")
  <2>1. y.decisions \subseteq Decisions
    BY DEF Records
  <2> QED BY <1>6, <2>1 DEF Inv, TypeOK
<1>9. seen' = [seen EXCEPT ![e] = None] /\ mode' = mode
  BY DEF pollPermission
<1>10. TypeOK' /\ Only(e)
  BY <1>3, <1>6, <1>7, <1>8, <1>9 DEF pollPermission, Inv, TypeOK, Only,
     Same, Quiet
<1>11. rec'[e] = r /\ pc'[e] = q
  BY <1>3, <1>7 DEF Inv, TypeOK
<1>12. ctx'[e] = ctx[e] \/ ctx'[e] # "live"
  BY <1>6 DEF Quiet
<1>13. Sound(e)'
  BY <1>1, <1>2, <1>3, <1>7, <1>8, <1>9, <1>10, <1>11, <1>12 DEF Inv,
     TypeOK, pollPermission, Sound, Phase, Known, Reopened, Started,
     Cleaned, Recoverable, Approved, CancelKept, LapseKept, Running, Fresh,
     NeedsCleanup, cleanupUnverified, terminal, Serving, Finishing, Locked
<1> QED BY <1>2, <1>9, <1>10, <1>13 DEF Kept, Running

-----------------------------------------------------------------------------
(* finish publishes *)

(* finish gives record y the end that its locals come to. *)
EndsWith(e, y, p, v) ==
  \E w \in Writes, s \in TurnStates, b \in BOOLEAN :
    LET r == [y EXCEPT !.state = s, !.checkpoint = p,
                !.result = [status |-> s, checkpoint |-> p, verified |-> v]]
    IN /\ s \in {final[e], "failed"}
       /\ blob' = [blob EXCEPT ![e] = b]
       /\ disk' = Persisted(e, r, w)
       /\ rec' = [rec EXCEPT ![e] =
            IF w = "ok" THEN r
            ELSE [r EXCEPT !.state = "failed", !.result = NoResult]]

(* What the three looks of finish come to is one such end. *)
LEMMA PublishedEnd ==
  ASSUME Inv, NEW e \in Executions, FinishPublish(e),
         NEW y \in Records, y = rec[e], NEW v \in BOOLEAN, v = verified[e],
         NEW p \in BOOLEAN, p <=> (checkpoint[e] /\ ctx[e] = "live" /\ ~leaseExpired[e])
  PROVE  EndsWith(e, y, p, v)
<1> DEFINE put == checkpoint[e] /\ ctx[e] = "live" /\ ~leaseExpired[e]
<1>1. \E pw \in (IF put THEN Writes ELSE {"ok"}), w \in Writes :
        LET s == IF pw = "ok" THEN final[e] ELSE "failed"
            r == [rec[e] EXCEPT !.state = s, !.checkpoint = put,
                    !.result = [status |-> s, checkpoint |-> put,
                                verified |-> verified[e]]]
        IN /\ blob' = [blob EXCEPT ![e] = blob[e] \/ (put /\ pw # "lost")]
           /\ disk' = Persisted(e, r, w)
           /\ rec' = [rec EXCEPT ![e] =
                IF w = "ok" THEN r
                ELSE [r EXCEPT !.state = "failed", !.result = NoResult]]
  BY Zenon DEF FinishPublish
<1>2. p = put
  OBVIOUS
<1> HIDE DEF put
<1>3. PICK pw \in (IF put THEN Writes ELSE {"ok"}), w \in Writes :
        LET s == IF pw = "ok" THEN final[e] ELSE "failed"
            r == [rec[e] EXCEPT !.state = s, !.checkpoint = put,
                    !.result = [status |-> s, checkpoint |-> put,
                                verified |-> verified[e]]]
        IN /\ blob' = [blob EXCEPT ![e] = blob[e] \/ (put /\ pw # "lost")]
           /\ disk' = Persisted(e, r, w)
           /\ rec' = [rec EXCEPT ![e] =
                IF w = "ok" THEN r
                ELSE [r EXCEPT !.state = "failed", !.result = NoResult]]
  BY <1>1
<1>4. final[e] \in TurnStates /\ "failed" \in TurnStates
  BY DEF FinishPublish, Inv, TypeOK, Sound, Phase, Locked, terminal, TurnStates
<1>5. PICK s \in TurnStates : /\ s = IF pw = "ok" THEN final[e] ELSE "failed"
                              /\ s \in {final[e], "failed"}
  BY <1>4
<1>6. PICK b \in BOOLEAN : b = (blob[e] \/ (put /\ pw # "lost"))
  OBVIOUS
<1> QED BY <1>2, <1>3, <1>5, <1>6, Zenon DEF EndsWith

(* The record takes its end; a refused write leaves an unfinished one on *)
(* disk, for the next Open.                                              *)
LEMMA FinishPublishKeeps ==
  ASSUME Inv, NEW e \in Executions, FinishPublish(e)
  PROVE  Kept(e)
<1> USE DEF procVars, runVars, boxVars, guestVars, histVars
<1>1. PICK y \in Records : y = rec[e]
  BY DEF Inv, TypeOK
<1> DEFINE p == checkpoint[e] /\ ctx[e] = "live" /\ ~leaseExpired[e]
<1>2. PICK v \in BOOLEAN : v = verified[e]
  BY DEF Inv, TypeOK
<1>3. p \in BOOLEAN
  OBVIOUS
<1>4. p <=> (checkpoint[e] /\ ctx[e] = "live" /\ ~leaseExpired[e])
  OBVIOUS
<1>5. /\ cancelSeen[e] => ~p
      /\ lapsed[e] => ~p
  BY DEF Inv, Sound, CancelKept, LapseKept, Running, FinishPublish
<1> HIDE DEF p
<1>6. pc[e] = "finish_publish" /\ pc' = [pc EXCEPT ![e] = "done"] /\ "done" \in Steps
  BY DEF FinishPublish, Steps
<1>7. PICK w \in Writes, s \in TurnStates, b \in BOOLEAN :
        LET r == [y EXCEPT !.state = s, !.checkpoint = p,
                    !.result = [status |-> s, checkpoint |-> p, verified |-> v]]
        IN /\ s \in {final[e], "failed"}
           /\ blob' = [blob EXCEPT ![e] = b]
           /\ disk' = Persisted(e, r, w)
           /\ rec' = [rec EXCEPT ![e] =
                IF w = "ok" THEN r
                ELSE [r EXCEPT !.state = "failed", !.result = NoResult]]
  <2>1. EndsWith(e, y, p, v)
    BY <1>1, <1>2, <1>3, <1>4, PublishedEnd
  <2> QED BY <2>1, Zenon DEF EndsWith
<1> DEFINE r == [y EXCEPT !.state = s, !.checkpoint = p,
                   !.result = [status |-> s, checkpoint |-> p, verified |-> v]]
           q == [r EXCEPT !.state = "failed", !.result = NoResult]
<1>8. /\ r \in Records /\ r.state = s /\ r.checkpoint = p
      /\ r.decisions = y.decisions /\ r.result.verified = v
  <2>1. [status |-> s, checkpoint |-> p, verified |-> v] \in TurnResults
    BY <1>3 DEF TurnResults
  <2> QED BY <1>3, <2>1 DEF Records
<1>9. /\ q \in Records /\ q.state = "failed" /\ q.checkpoint = p
      /\ q.decisions = y.decisions
  <2>1. NoResult \in TurnResults
    BY DEF NoResult, TurnResults
  <2> HIDE DEF r
  <2> QED BY <1>8, <2>1 DEF Records, TurnStates
<1>10. /\ disk' = Persisted(e, r, w)
       /\ rec' = [rec EXCEPT ![e] = IF w = "ok" THEN r ELSE q]
  BY <1>7, Zenon
<1> HIDE DEF r, q
<1>11. /\ disk' \in [Executions -> Records]
       /\ disk'[e] = r \/ disk'[e] = disk[e]
       /\ \A d \in Executions \ {e} : disk'[d] = disk[d]
  BY <1>8, <1>10, Written DEF Inv, TypeOK
<1>12. /\ rec' \in [Executions -> Records]
       /\ rec'[e] = r \/ rec'[e] = q
       /\ \A d \in Executions \ {e} : rec'[d] = rec[d]
  BY <1>8, <1>9, <1>10 DEF Inv, TypeOK
<1>13. UNCHANGED <<procVars, ctx, lease, runVars, boxVars, guestVars, histVars>>
  BY DEF FinishPublish
<1>14. blob' \in [Executions -> BOOLEAN]
  BY <1>7 DEF Inv, TypeOK
<1>15. TypeOK' /\ Only(e) /\ mode' = mode
  <2>1. pc' \in [Executions -> Steps]
        /\ \A d \in Executions \ {e} : pc'[d] = pc[d]
    BY <1>6 DEF Inv, TypeOK
  <2>2. TypeOK'
    BY <2>1, <1>11, <1>12, <1>13, <1>14 DEF Inv, TypeOK
  <2>3. Only(e) /\ mode' = mode
    BY <2>1, <1>11, <1>12, <1>13 DEF Only, Same
  <2> QED BY <2>2, <2>3
<1>16. s # "none" /\ s \notin {"queued", "running"}
  BY <1>6, <1>7 DEF Inv, Sound, Phase, Locked, terminal
<1>17. /\ s = "completed" => v /\ box[e] = "none"
       /\ v /\ "create_late" \notin Faults => box[e] = "none"
  BY <1>2, <1>6, <1>7 DEF Inv, Sound, Cleaned, Finishing, Locked
<1>18. cancelSeen[e] => s # "completed"
  BY <1>6, <1>7 DEF Inv, Sound, CancelKept, Running, Locked
<1>19. s \in {final[e], "failed"} /\ pc'[e] = "done"
  BY <1>6, <1>7 DEF Inv, TypeOK
<1>20. Serving /\ disk[e].state \in {"queued", "running"} /\ disk[e].state # "none"
       /\ ~disk[e].checkpoint
  BY <1>6 DEF Inv, Sound, Phase, Running
<1>21. Sound(e)'
  BY <1>1, <1>3, <1>5, <1>8, <1>9, <1>11, <1>12, <1>13, <1>16, <1>17, <1>18,
     <1>19, <1>20 DEF Inv, TypeOK, Sound, Phase, Known, Reopened, Started,
     Cleaned, Recoverable, Approved, CancelKept, LapseKept, Running, Fresh,
     NeedsCleanup, cleanupUnverified, terminal, Serving, Finishing, Locked
<1> QED BY <1>6, <1>15, <1>21 DEF Kept, Running

-----------------------------------------------------------------------------
(* A submission takes a slot *)

(* A refused write of a submission may leave the queued record; an accepted *)
(* one starts from an untouched ID and a free slot.                         *)
LEMMA submitKeeps ==
  ASSUME Inv, NEW e \in Executions, submit(e)
  PROVE  Inv'
<1> USE DEF procVars, runVars, boxVars, guestVars, histVars
<1> DEFINE r == [NoRecord EXCEPT !.state = "queued"]
<1>1. /\ r \in Records /\ r.state = "queued" /\ ~r.checkpoint
      /\ r.decisions = {}
  BY DEF NoRecord, Records, TurnStates, TurnResults, NoResult
<1>2. PICK w \in Writes :
        /\ disk' = Persisted(e, r, w)
        /\ IF w = "ok"
           THEN /\ rec' = [rec EXCEPT ![e] = r]
                /\ pc' = [pc EXCEPT ![e] = "creating"]
                /\ ctx' = [ctx EXCEPT ![e] = "live"]
                /\ lease' = [lease EXCEPT ![e] = LeaseTicks]
           ELSE UNCHANGED <<rec, pc, ctx, lease>>
  BY Zenon DEF submit
<1>3. UNCHANGED <<procVars, blob, runVars, boxVars, guestVars, histVars>>
  BY DEF submit
<1>4. /\ mode = "up" /\ rec[e].state = "none" /\ Cardinality(Active) < MaxActive
      /\ rec[e] = NoRecord /\ disk[e] \in {NoRecord, r} /\ Fresh(e) /\ ~Running(e)
  BY DEF submit, Inv, Sound, Phase, Known, Serving
<1>5. /\ disk' \in [Executions -> Records]
      /\ disk'[e] = r \/ disk'[e] = disk[e]
      /\ w = "ok" => disk'[e] = r
      /\ \A d \in Executions \ {e} : disk'[d] = disk[d]
  BY <1>1, <1>2, Written DEF Inv, TypeOK
<1>6. NoRecord.state = "none" /\ ~NoRecord.checkpoint /\ NoRecord.decisions = {}
  BY DEF NoRecord
<1>7. r = [NoRecord EXCEPT !.state = "queued"]
  OBVIOUS
<1> HIDE DEF r
<1>8. CASE w = "ok"
  <2>1. /\ rec' = [rec EXCEPT ![e] = r] /\ pc' = [pc EXCEPT ![e] = "creating"]
        /\ ctx' = [ctx EXCEPT ![e] = "live"]
        /\ lease' = [lease EXCEPT ![e] = LeaseTicks]
    BY <1>2, <1>8
  <2>2. "creating" \in Steps /\ LeaseTicks \in 0..LeaseTicks
    BY TurnBounds DEF Steps
  <2>3. TypeOK' /\ Only(e) /\ mode' = mode
    BY <1>1, <1>3, <1>5, <2>1, <2>2 DEF Inv, TypeOK, Only, Same
  <2>4. rec'[e] = r /\ pc'[e] = "creating" /\ disk'[e] = r
    BY <1>5, <1>8, <2>1 DEF Inv, TypeOK
  <2>5. Sound(e)'
    BY <1>1, <1>3, <1>4, <2>4 DEF Inv, TypeOK, Sound, Phase, Known,
       Reopened, Started, Cleaned, Recoverable, Approved, CancelKept,
       LapseKept, Running, Fresh, NeedsCleanup, cleanupUnverified,
       terminal, Serving, Finishing, Locked
  <2>6. \A d \in Executions : Sound(d)'
    BY <2>3, <2>5, Frame DEF Inv, Only
  <2>7. Active = Runners
    BY <1>4 DEF Inv, Sound, Phase, Serving, Active, Runners
  <2>8. Runners' = Runners \cup {e} /\ e \notin Runners
    BY <1>4, <2>3, <2>4 DEF Runners, Running, Only, Same
  <2>9. /\ IsFiniteSet(Runners')
        /\ Cardinality(Runners') = Cardinality(Runners) + 1
    BY <2>8, FS_AddElement DEF Inv, Slots
  <2>10. Cardinality(Runners) \in Nat
    BY FS_CardinalityType DEF Inv, Slots
  <2>11. Slots'
    BY <1>4, <2>7, <2>9, <2>10, TurnBounds DEF Slots
  <2> QED BY <2>3, <2>6, <2>11 DEF Inv
<1>9. CASE w # "ok"
  <2>1. UNCHANGED <<rec, pc, ctx, lease>>
    BY <1>2, <1>9
  <2>2. TypeOK' /\ Only(e) /\ mode' = mode
    BY <1>3, <1>5, <2>1 DEF Inv, TypeOK, Only, Same
  <2>3. disk'[e] \in {NoRecord, r}
    BY <1>4, <1>5
  <2>4. Sound(e)'
    BY <1>1, <1>3, <1>4, <1>6, <1>7, <2>1, <2>3 DEF Inv, TypeOK, Sound,
       Phase, Known, Reopened, Started, Cleaned, Recoverable, Approved,
       CancelKept, LapseKept, Running, Fresh, NeedsCleanup,
       cleanupUnverified, terminal, Serving, Finishing, Locked
  <2>5. Running(e)' => Running(e)
    BY <2>1 DEF Running
  <2> QED BY <2>2, <2>4, <2>5, OneMoves DEF Kept
<1> QED BY <1>8, <1>9

-----------------------------------------------------------------------------
(* The process: time, crashes and restarts *)

(* Time can only bring a lease to its end. *)
LEMMA TickKeeps ==
  ASSUME Inv, Tick
  PROVE  Inv'
<1> USE DEF procVars, runVars, boxVars, guestVars, histVars
<1>1. /\ lease' \in [Executions -> 0..LeaseTicks]
      /\ \A e \in Executions : lease[e] = 0 => lease'[e] = 0
  BY TurnBounds DEF Tick, Inv, TypeOK
<1>2. /\ lapsed' \in [Executions -> BOOLEAN]
      /\ \A e \in Executions : lapsed'[e] =>
           \/ lapsed[e]
           \/ lease'[e] = 0 /\ pc[e] \notin {"none", "finish_publish", "done"}
  BY DEF Tick, Inv, TypeOK
<1>3. /\ UNCHANGED <<procVars, rec, disk, blob, pc, ctx, runVars, boxVars>>
      /\ UNCHANGED <<guestVars, cancelSeen>>
  BY DEF Tick
<1>4. TypeOK'
  BY <1>1, <1>2, <1>3 DEF Inv, TypeOK
<1>5. ASSUME NEW e \in Executions PROVE Sound(e)'
  BY <1>1, <1>2, <1>3 DEF Inv, TypeOK, Sound, Phase, Known, Reopened,
     Started, Cleaned, Recoverable, Approved, CancelKept, LapseKept,
     Running, Fresh, NeedsCleanup, cleanupUnverified, terminal, Serving,
     Finishing, Locked
<1>6. Slots'
  BY <1>3 DEF Inv, Slots, Runners, Running
<1> QED BY <1>4, <1>5, <1>6 DEF Inv

(* What of an execution outlives the process. *)
Durable(e) ==
  /\ disk[e].state = "none" => Fresh(e) /\ disk[e] = NoRecord
  /\ starts[e] \in {0, 1}
  /\ box[e] = "pending" => "create_late" \in Faults
  /\ disk[e].state = "completed" => disk[e].result.verified /\ box[e] = "none"
  /\ Recoverable(e)
  /\ told[e] # NoDecision => told[e] \in disk[e].decisions
  /\ cancelSeen[e] => disk[e].state # "completed" /\ ~disk[e].checkpoint
  /\ lapsed[e] => ~disk[e].checkpoint

(* The durable part of the invariant. *)
LEMMA SoundIsDurable ==
  ASSUME NEW e \in Executions, Sound(e)
  PROVE  Durable(e)
  BY DEF Durable, Sound, Known, Started, Cleaned, Approved, CancelKept,
     LapseKept

(* A process that goes leaves what is durable, and nothing else. *)
LEMMA ForgetKeeps ==
  ASSUME Inv, Forget,
         disk' \in [Executions -> Records], box' \in [Executions -> BoxStates],
         crashes' \in 0..MaxCrashes,
         UNCHANGED <<blob, lease, starts, guestVars, histVars>>,
         \A e \in Executions : Durable(e)'
  PROVE  Inv'
<1> USE DEF guestVars, histVars
<1>1. NoRecord \in Records /\ "none" \in Steps /\ "none" \in Exits
      /\ NoRecord.state = "none" /\ ~NoRecord.checkpoint
  BY DEF NoRecord, Records, TurnResults, NoResult, Steps, Exits
<1>2. TypeOK'
  BY <1>1 DEF Inv, TypeOK, Forget
<1>3. ASSUME NEW e \in Executions PROVE Sound(e)'
  <2>1. Durable(e)'
    OBVIOUS
  <2>2. mode' = "down" /\ rec'[e] = NoRecord /\ pc'[e] = "none"
    BY DEF Forget
  <2> QED
    BY <1>1, <2>1, <2>2 DEF Durable, Sound, Phase, Known, Reopened,
       Started, Cleaned, Approved, CancelKept, LapseKept, Running,
       Serving, Finishing, Locked
<1>4. \A e \in Executions : Running(e)' => Running(e)
  BY DEF Forget, Running
<1> QED BY <1>2, <1>3, <1>4, NoSlotTaken DEF Inv

(* A create in flight at the crash belongs to an unfinished record. *)
LEMMA CrashKeeps ==
  ASSUME Inv, Crash
  PROVE  Inv'
<1> USE DEF guestVars, histVars
<1>1. PICK late \in SUBSET {e \in Executions : pc[e] = "creating"},
           b \in {"live"} \cup (IF "create_late" \in Faults THEN {"pending"} ELSE {}) :
        box' = [e \in Executions |-> IF e \in late THEN b ELSE box[e]]
  BY DEF Crash
<1>2. b \in BoxStates /\ (b = "pending" => "create_late" \in Faults)
  BY DEF BoxStates
<1>3. box' \in [Executions -> BoxStates]
  BY <1>1, <1>2 DEF Inv, TypeOK
<1>4. /\ Forget /\ disk' = disk /\ starts' = starts /\ told' = told /\ lapsed' = lapsed
      /\ cancelSeen' = cancelSeen
      /\ UNCHANGED <<blob, lease, starts, guestVars, histVars>>
  BY DEF Crash
<1>5. crashes' \in 0..MaxCrashes
  BY TurnBounds DEF Crash, Inv, TypeOK
<1>6. ASSUME NEW e \in Executions PROVE Durable(e)'
  <2>1. Durable(e) /\ Sound(e)
    BY SoundIsDurable DEF Inv
  <2>2. CASE e \in late
    <3>1. disk[e].state \in {"queued", "running"}
      BY <1>1, <2>1, <2>2 DEF Sound, Phase, Running
    <3>2. NeedsCleanup(disk[e])
      BY <3>1 DEF NeedsCleanup, terminal
    <3>3. box'[e] = b
      BY <1>1, <2>2
    <3> QED BY <1>2, <1>4, <2>1, <3>1, <3>2, <3>3 DEF Durable, Recoverable
  <2>3. CASE e \notin late
    <3>1. box'[e] = box[e]
      BY <1>1, <2>3
    <3> QED BY <1>4, <2>1, <3>1 DEF Durable, Recoverable, Fresh
  <2> QED BY <2>2, <2>3
<1>7. disk' \in [Executions -> Records]
  BY <1>4 DEF Inv, TypeOK
<1> QED BY <1>3, <1>4, <1>5, <1>6, <1>7, ForgetKeeps

(* An orderly exit changes nothing durable. *)
LEMMA ExitProcessKeeps ==
  ASSUME Inv, ExitProcess
  PROVE  Inv'
<1> USE DEF boxVars, guestVars, histVars
<1>1. /\ Forget /\ disk' = disk /\ box' = box /\ crashes' = crashes
      /\ UNCHANGED <<blob, lease, starts, guestVars, histVars>>
  BY DEF ExitProcess
<1>2. \A e \in Executions : Durable(e)'
  BY <1>1, SoundIsDurable DEF Inv, Durable, Recoverable, Fresh
<1>3. /\ disk' \in [Executions -> Records] /\ box' \in [Executions -> BoxStates]
      /\ crashes' \in 0..MaxCrashes
  BY <1>1 DEF Inv, TypeOK
<1> QED BY <1>1, <1>2, <1>3, ForgetKeeps

(* Close ends contexts. *)
LEMMA CloseKeeps ==
  ASSUME Inv, Close
  PROVE  Inv'
<1> USE DEF runVars, boxVars, guestVars, histVars
<1>1. /\ ctx' \in [Executions -> {"live", "cancelled", "deadline"}]
      /\ \A e \in Executions : ctx'[e] = ctx[e] \/ ctx'[e] # "live"
  BY DEF Close, Inv, TypeOK
<1>2. /\ mode = "up" /\ mode' = "closing"
      /\ UNCHANGED <<todo, crashes, rec, disk, blob, pc, lease, runVars, boxVars>>
      /\ UNCHANGED <<guestVars, histVars>>
  BY DEF Close
<1>3. TypeOK'
  BY <1>1, <1>2 DEF Inv, TypeOK
<1>4. ASSUME NEW e \in Executions PROVE Sound(e)'
  BY <1>1, <1>2 DEF Inv, TypeOK, Sound, Phase, Known, Reopened, Started,
     Cleaned, Recoverable, Approved, CancelKept, LapseKept, Running, Fresh,
     NeedsCleanup, cleanupUnverified, terminal, Serving, Finishing, Locked
<1>5. Slots'
  BY <1>2 DEF Inv, Slots, Runners, Running
<1> QED BY <1>3, <1>4, <1>5 DEF Inv

(* Open loads the records; it only takes sandboxes away. *)
LEMMA OpenKeeps ==
  ASSUME Inv, Open
  PROVE  Inv'
<1> USE DEF runVars, guestVars, histVars
<1> DEFINE stale == {e \in Executions : NeedsCleanup(disk[e])}
<1>1. PICK gone \in SUBSET {e \in stale : box[e] = "live"} :
        box' = [e \in Executions |-> IF e \in gone THEN "none" ELSE box[e]]
  BY DEF Open
<1>2. /\ mode = "down"
      /\ \/ mode' = "opening" /\ rec' = disk /\ todo' = stale
         \/ UNCHANGED <<mode, rec, todo>>
  BY DEF Open
<1>3. /\ UNCHANGED <<crashes, disk, blob, pc, ctx, lease, runVars, starts>>
      /\ UNCHANGED <<guestVars, histVars>>
  BY DEF Open
<1>4. /\ box' \in [Executions -> BoxStates]
      /\ \A e \in Executions : box'[e] = box[e] \/ box'[e] = "none"
  BY <1>1 DEF Inv, TypeOK, BoxStates
<1>5. stale \subseteq Executions
  OBVIOUS
<1>6. TypeOK'
  BY <1>2, <1>3, <1>4, <1>5 DEF Inv, TypeOK
<1>7. ASSUME NEW e \in Executions PROVE Sound(e)'
  <2>1. pc'[e] = "none" /\ disk'[e] = disk[e]
    BY <1>2, <1>3 DEF Inv, Sound, Phase, Serving
  <2>2. e \in stale <=> NeedsCleanup(disk[e])
    OBVIOUS
  <2>3. \/ mode' = "opening" /\ rec'[e] = disk[e] /\ (e \in todo' <=> e \in stale)
        \/ mode' = "down" /\ rec'[e] = rec[e]
    BY <1>2
  <2> HIDE DEF stale
  <2> QED
    BY <1>2, <1>3, <1>4, <2>1, <2>2, <2>3 DEF Inv, TypeOK, Sound, Phase,
       Known, Reopened, Started, Cleaned, Recoverable, Approved,
       CancelKept, LapseKept, Running, Fresh, NeedsCleanup,
       cleanupUnverified, terminal, Serving, Finishing, Locked
<1>8. Slots'
  BY <1>3 DEF Inv, Slots, Runners, Running
<1> QED BY <1>6, <1>7, <1>8 DEF Inv

(* With nothing left to reconcile no record is active. *)
LEMMA OpenedKeeps ==
  ASSUME Inv, Opened
  PROVE  Inv'
<1> USE DEF runVars, boxVars, guestVars, histVars
<1>1. /\ mode = "opening" /\ todo = {} /\ mode' = "up"
      /\ UNCHANGED <<todo, crashes, rec, disk, blob, pc, ctx, lease, runVars>>
      /\ UNCHANGED <<boxVars, guestVars, histVars>>
  BY DEF Opened
<1>2. TypeOK'
  BY <1>1 DEF Inv, TypeOK
<1>3. ASSUME NEW e \in Executions PROVE Sound(e)'
  BY <1>1 DEF Inv, TypeOK, Sound, Phase, Known, Reopened, Started, Cleaned,
     Recoverable, Approved, CancelKept, LapseKept, Running, Fresh,
     NeedsCleanup, cleanupUnverified, terminal, Serving, Finishing, Locked
<1>4. Slots'
  BY <1>1 DEF Inv, Slots, Runners, Running
<1> QED BY <1>2, <1>3, <1>4 DEF Inv

(* A reconciled record has failed, is verified only when its sandbox is *)
(* gone, and what the guest was told stays in it.                       *)
LEMMA ReconcileKeeps ==
  ASSUME Inv, NEW e \in Executions, Reconcile(e)
  PROVE  Inv'
<1> USE DEF runVars, guestVars, histVars
<1>1. PICK gone, ok \in Outcomes :
        /\ box' = [box EXCEPT ![e] = AfterDestroy(e, gone)]
        /\ \/ \E w \in Writes :
                LET r == [rec[e] EXCEPT !.state = "failed",
                            !.result = [status |-> "failed", checkpoint |-> FALSE,
                                        verified |-> SeenGone(e, gone, ok)]]
                IN /\ disk' = Persisted(e, r, w)
                   /\ IF w = "ok"
                      THEN /\ rec' = [rec EXCEPT ![e] = r]
                           /\ todo' = todo \ {e}
                           /\ UNCHANGED <<mode, pc, ctx, runVars>>
                      ELSE Forget
           \/ ~ok /\ rec[e].sandbox /\ Forget /\ UNCHANGED disk
  BY Zenon DEF Reconcile
<1>2. /\ mode = "opening" /\ e \in todo /\ crashes' = crashes
      /\ UNCHANGED <<blob, lease, starts, guestVars, histVars>>
  BY DEF Reconcile
<1>3. /\ AfterDestroy(e, gone) = box[e] \/ AfterDestroy(e, gone) = "none"
      /\ SeenGone(e, gone, ok) => AfterDestroy(e, gone) # "live"
  BY DEF AfterDestroy, SeenGone
<1>4. SeenGone(e, gone, ok) \in BOOLEAN
  BY DEF SeenGone, Outcomes
<1>5. PICK v \in BOOLEAN : v = SeenGone(e, gone, ok)
  BY <1>4
<1>6. PICK b \in BoxStates :
        /\ b = AfterDestroy(e, gone)
        /\ b = box[e] \/ b = "none"
        /\ v => b # "live"
  BY <1>3, <1>5 DEF Inv, TypeOK, BoxStates
<1>7. /\ box' \in [Executions -> BoxStates] /\ box'[e] = b
      /\ \A d \in Executions \ {e} : box'[d] = box[d]
  BY <1>1, <1>6 DEF Inv, TypeOK
<1>8. PICK y \in Records : /\ y = rec[e] /\ y = disk[e]
                           /\ NeedsCleanup(y) /\ y.state # "none"
  BY <1>2 DEF Inv, TypeOK, Sound, Reopened, NeedsCleanup
<1> DEFINE r == [y EXCEPT !.state = "failed",
                   !.result = [status |-> "failed", checkpoint |-> FALSE,
                               verified |-> v]]
<1>9. /\ r \in Records /\ r.state = "failed" /\ r.checkpoint = y.checkpoint
      /\ r.decisions = y.decisions /\ r.result.verified = v
  <2>1. [status |-> "failed", checkpoint |-> FALSE, verified |-> v] \in TurnResults
    BY DEF TurnResults, TurnStates
  <2> QED BY <2>1 DEF Records, TurnStates
<1>10. \/ \E w \in Writes :
             /\ disk' = Persisted(e, r, w)
             /\ IF w = "ok" THEN /\ rec' = [rec EXCEPT ![e] = r]
                                 /\ todo' = todo \ {e}
                                 /\ UNCHANGED <<mode, pc, ctx, runVars>>
                            ELSE Forget
       \/ Forget /\ UNCHANGED disk
  BY <1>1, <1>5, <1>8, Zenon
<1> HIDE DEF r
<1>11. Durable(e) /\ Sound(e) /\ pc[e] = "none"
  BY <1>2, SoundIsDurable DEF Inv, Sound, Phase, Serving
<1>12. ASSUME disk' \in [Executions -> Records],
              disk'[e] = r \/ disk'[e] = disk[e],
              \A d \in Executions \ {e} : disk'[d] = disk[d],
              NEW d \in Executions
       PROVE  Durable(d)'
  <2>1. CASE d = e
    BY <1>2, <1>6, <1>7, <1>8, <1>9, <1>11, <1>12, <2>1
       DEF Durable, Recoverable, Fresh, NeedsCleanup, cleanupUnverified, terminal
  <2>2. CASE d # e
    <3>1. Durable(d) /\ disk'[d] = disk[d] /\ box'[d] = box[d]
      BY <1>7, <1>12, <2>2, SoundIsDurable DEF Inv
    <3> QED BY <1>2, <3>1 DEF Durable, Recoverable, Fresh
  <2> QED BY <2>1, <2>2
<1>13. crashes' \in 0..MaxCrashes
  BY <1>2 DEF Inv, TypeOK
<1>14. CASE Forget /\ UNCHANGED disk
  <2>1. /\ disk' \in [Executions -> Records] /\ disk'[e] = disk[e]
        /\ \A d \in Executions \ {e} : disk'[d] = disk[d]
    BY <1>14 DEF Inv, TypeOK
  <2>2. \A d \in Executions : Durable(d)'
    BY <1>12, <2>1
  <2> QED BY <1>2, <1>7, <1>13, <1>14, <2>1, <2>2, ForgetKeeps
<1>15. CASE \E w \in Writes :
              /\ disk' = Persisted(e, r, w)
              /\ IF w = "ok" THEN /\ rec' = [rec EXCEPT ![e] = r]
                                  /\ todo' = todo \ {e}
                                  /\ UNCHANGED <<mode, pc, ctx, runVars>>
                             ELSE Forget
  <2>1. PICK w \in Writes :
          /\ disk' = Persisted(e, r, w)
          /\ IF w = "ok" THEN /\ rec' = [rec EXCEPT ![e] = r]
                              /\ todo' = todo \ {e}
                              /\ UNCHANGED <<mode, pc, ctx, runVars>>
                         ELSE Forget
    BY <1>15
  <2>2. /\ disk' \in [Executions -> Records]
        /\ disk'[e] = r \/ disk'[e] = disk[e]
        /\ w = "ok" => disk'[e] = r
        /\ \A d \in Executions \ {e} : disk'[d] = disk[d]
    BY <1>9, <2>1, Written DEF Inv, TypeOK
  <2>3. \A d \in Executions : Durable(d)'
    BY <1>12, <2>2
  <2>4. CASE w # "ok"
    <3>1. Forget
      BY <2>1, <2>4
    <3> QED BY <1>2, <1>7, <1>13, <2>2, <2>3, <3>1, ForgetKeeps
  <2>5. CASE w = "ok"
    <3>1. /\ rec' = [rec EXCEPT ![e] = r] /\ todo' = todo \ {e}
          /\ UNCHANGED <<mode, pc, ctx, runVars>> /\ disk'[e] = r
      BY <2>1, <2>2, <2>5
    <3>2. /\ rec' \in [Executions -> Records] /\ rec'[e] = r
          /\ \A d \in Executions \ {e} : rec'[d] = rec[d]
      BY <1>9, <3>1 DEF Inv, TypeOK
    <3>3. TypeOK' /\ Only(e) /\ mode' = mode
      BY <1>2, <1>7, <2>2, <3>1, <3>2 DEF Inv, TypeOK, Only, Same
    <3>4. Durable(e)'
      BY <2>3
    <3>5. Sound(e)'
      BY <1>2, <1>7, <1>8, <1>9, <1>11, <3>1, <3>2, <3>4 DEF Durable,
         Sound, Phase, Known, Reopened, Started, Cleaned, Approved,
         CancelKept, LapseKept, Running, Serving, Finishing, Locked
    <3> QED BY <1>11, <3>1, <3>3, <3>5, OneMoves DEF Kept, Running
  <2> QED BY <2>4, <2>5
<1> QED BY <1>10, <1>14, <1>15

-----------------------------------------------------------------------------
(* The theorems *)

(* The service starts sound. *)
LEMMA InitIsSound == Init => Inv
<1> SUFFICES ASSUME Init PROVE Inv
  OBVIOUS
<1>1. NoRecord \in Records /\ "none" \in Steps /\ "none" \in Exits
      /\ "none" \in BoxStates /\ 0 \in 0..LeaseTicks /\ 0 \in 0..MaxCrashes
  BY TurnBounds DEF NoRecord, Records, TurnResults, NoResult, Steps, Exits, BoxStates
<1>2. NoRecord.state = "none" /\ ~NoRecord.checkpoint /\ NoRecord.decisions = {}
  BY DEF NoRecord
<1>3. TypeOK
  BY <1>1 DEF Init, TypeOK
<1>4. \A e \in Executions : Sound(e)
  BY <1>2 DEF Init, Sound, Phase, Known, Reopened, Started, Cleaned,
     Recoverable, Approved, CancelKept, LapseKept, Running, Fresh,
     NeedsCleanup, cleanupUnverified, terminal, Serving, Finishing, Locked
<1>5. Runners = {}
  BY DEF Init, Runners, Running
<1>6. Slots
  BY <1>5, FS_EmptySet, TurnBounds DEF Slots
<1> QED BY <1>3, <1>4, <1>6 DEF Inv

(* Standing still keeps it so. *)
LEMMA StutterIsSound ==
  ASSUME Inv, UNCHANGED vars
  PROVE  Inv'
<1> USE DEF vars, procVars, runVars, boxVars, guestVars, histVars
<1>1. TypeOK'
  BY DEF Inv, TypeOK
<1>2. \A e \in Executions : Sound(e)'
  BY Frame DEF Inv, Same
<1>3. Slots'
  BY DEF Inv, Slots, Runners, Running
<1> QED BY <1>1, <1>2, <1>3 DEF Inv

(* Every step keeps the invariant. *)
LEMMA NextIsSound ==
  ASSUME Inv, Next
  PROVE  Inv'
<1>1. ASSUME NEW e \in Executions, Owner(e)
      PROVE  Inv'
  <2>1. CASE submit(e)
    BY <2>1, submitKeeps
  <2>2. CASE cancel(e)
    BY <2>2, cancelKeeps, OneMoves
  <2>3. CASE renew(e)
    BY <2>3, renewKeeps, OneMoves
  <2>4. ASSUME NEW op \in Operations, NEW dec \in {"allow", "deny"},
               answerPermission(e, op, dec)
        PROVE  Inv'
    BY <2>4, answerPermissionKeeps, OneMoves
  <2> QED BY <1>1, <2>1, <2>2, <2>3, <2>4 DEF Owner
<1>2. ASSUME NEW e \in Executions, Runner(e)
      PROVE  Inv'
  <2>1. CASE CreateSandbox(e) \/ cleanupIdentity(e) \/ RecordSandbox(e) \/ Stage(e)
    BY <2>1, CreateSandboxKeeps, cleanupIdentityKeeps, RecordSandboxKeeps, StageKeeps,
       OneMoves
  <2>2. CASE ExecuteReturns(e) \/ pollPermission(e) \/ PollNothing(e)
    BY <2>2, ExecuteReturnsKeeps, pollPermissionKeeps, PollNothingKeeps, OneMoves
  <2>3. CASE Collect(e) \/ DestroySandbox(e)
    BY <2>3, CollectKeeps, DestroySandboxKeeps, OneMoves
  <2>4. CASE finish(e)
    BY <2>4, FinishStateKeeps, FinishLeaseKeeps, FinishPublishKeeps, OneMoves DEF finish
  <2> QED BY <1>2, <2>1, <2>2, <2>3, <2>4 DEF Runner
<1>3. ASSUME NEW e \in Executions,
             \/ LoopEnds(e) \/ PollFails(e) \/ PollOutput(e) \/ PollRead(e)
             \/ Deadline(e) \/ LeaseWatch(e) \/ ProviderSettles(e)
      PROVE  Inv'
  BY <1>3, LoopEndsKeeps, PollFailsKeeps, PollOutputKeeps, PollReadKeeps,
     DeadlineKeeps, LeaseWatchKeeps, ProviderSettlesKeeps, OneMoves
<1>4. ASSUME NEW e \in Executions, Reconcile(e)
      PROVE  Inv'
  BY <1>4, ReconcileKeeps
<1>5. ASSUME NEW e \in Executions, NEW op \in Operations, GuestAsks(e, op)
      PROVE  Inv'
  BY <1>5, GuestAsksKeeps, OneMoves
<1>6. CASE Tick \/ Crash \/ Close \/ ExitProcess \/ Open \/ Opened
  BY <1>6, TickKeeps, CrashKeeps, CloseKeeps, ExitProcessKeeps, OpenKeeps, OpenedKeeps
<1> QED BY <1>1, <1>2, <1>3, <1>4, <1>5, <1>6 DEF Next

(* The invariant of the turn execution service. *)
LEMMA TurnInvariant == Spec => []Inv
<1>1. Inv /\ [Next]_vars => Inv'
  BY NextIsSound, StutterIsSound
<1> QED BY <1>1, InitIsSound, PTL DEF Spec

(* However submissions are repeated, writes are lost and the process       *)
(* crashes and restarts, an execution ID starts the harness at most once.  *)
(* It rests on Known: an ID without a record in memory is untouched.       *)
THEOREM TurnIsNeverReplayed == Spec => []NeverReplayed
<1>1. Inv => NeverReplayed
  BY DEF Inv, Sound, Started, NeverReplayed
<1> QED BY <1>1, TurnInvariant, PTL

(* submit's count of the active records bounds the runners: a slot is free *)
(* only when no runner holds it.                                           *)
THEOREM SlotsAreBounded == Spec => []CapacityHolds
<1>1. Inv => CapacityHolds
  BY DEF Inv, Slots, Runners, Running, CapacityHolds
<1> QED BY <1>1, TurnInvariant, PTL

(* What the guest is told to be allowed is a decision on disk: the runner  *)
(* delivers only while the context lives, and a decision whose write       *)
(* failed has ended the context.                                           *)
THEOREM ToldIsDurable == Spec => []ApprovalIsDurable
<1>1. Inv => ApprovalIsDurable
  BY DEF Inv, Sound, Approved, ApprovalIsDurable, NoDecision
<1> QED BY <1>1, TurnInvariant, PTL

(* A turn that was cancelled, or whose lease ran out before finish looked, *)
(* publishes nothing, and a completed one has no sandbox left, although    *)
(* finish looks at the context three times and the provider may create     *)
(* late.                                                                   *)
THEOREM CompletedIsDeserved == Spec => []CompletionIsDeserved
<1>1. Inv => CompletionIsDeserved
  BY DEF Inv, Sound, CancelKept, LapseKept, Cleaned, CompletionIsDeserved,
         CancelledNeverCompletes, LapsedPublishesNothing, CompletedIsClean
<1> QED BY <1>1, TurnInvariant, PTL

(* With a provider that creates nothing after it has answered, every live  *)
(* sandbox has a durable record on which the next Open acts.               *)
THEOREM SandboxesAreRecoverable ==
  ASSUME "create_late" \notin Faults
  PROVE  Spec => []LiveSandboxIsRecoverable
<1>1. Inv => LiveSandboxIsRecoverable
  BY DEF Inv, Sound, Recoverable, LiveSandboxIsRecoverable
<1> QED BY <1>1, TurnInvariant, PTL

(* A settled record: finished, with its cleanup verified. *)
SettledStays ==
  \A e \in Executions :
    terminal(disk[e].state) /\ disk[e].result.verified => disk'[e] = disk[e]

(* A write reaches one record, and that one is not settled. *)
LEMMA OneIsWritten ==
  ASSUME Inv, NEW e \in Executions,
         Running(e) \/ (mode = "up" /\ rec[e].state = "none") \/ NeedsCleanup(disk[e]),
         disk' = disk \/ \E r, w : disk' = Persisted(e, r, w)
  PROVE  SettledStays
<1>1. \A d \in Executions \ {e} : disk'[d] = disk[d]
  BY DEF Persisted, Inv, TypeOK
<1>2. ~(terminal(disk[e].state) /\ disk[e].result.verified)
  <2>1. CASE Running(e)
    BY <2>1 DEF Inv, Sound, Phase, terminal
  <2>2. CASE mode = "up" /\ rec[e].state = "none"
    <3>1. disk[e].state \in {"none", "queued"}
      BY <2>2 DEF Inv, Sound, Known, NoRecord
    <3> QED BY <3>1 DEF terminal
  <2>3. CASE NeedsCleanup(disk[e])
    BY <2>3 DEF NeedsCleanup, cleanupUnverified
  <2> QED BY <2>1, <2>2, <2>3
<1> QED BY <1>1, <1>2 DEF SettledStays

(* Requests. *)
LEMMA OwnerKeepsSettled ==
  ASSUME Inv, NEW e \in Executions, Owner(e)
  PROVE  SettledStays
<1>1. CASE submit(e)
  BY <1>1, OneIsWritten DEF submit
<1>2. CASE cancel(e)
  BY <1>2, ActiveRuns, OneIsWritten DEF cancel
<1>3. CASE renew(e)
  BY <1>3, ActiveRuns, OneIsWritten DEF renew
<1>4. ASSUME NEW op \in Operations, NEW dec \in {"allow", "deny"},
             answerPermission(e, op, dec)
      PROVE  SettledStays
  BY <1>4, ActiveRuns, OneIsWritten DEF answerPermission
<1> QED BY <1>1, <1>2, <1>3, <1>4 DEF Owner

(* Runners. *)
LEMMA RunnerKeepsSettled ==
  ASSUME Inv, NEW e \in Executions, Runner(e) \/ PollOutput(e)
  PROVE  SettledStays
<1>1. CASE CreateSandbox(e) \/ cleanupIdentity(e) \/ Stage(e) \/ ExecuteReturns(e)
  BY <1>1 DEF SettledStays, CreateSandbox, cleanupIdentity, Stage, ExecuteReturns
<1>2. CASE PollNothing(e) \/ Collect(e) \/ DestroySandbox(e)
  BY <1>2 DEF SettledStays, PollNothing, Collect, DestroySandbox
<1>3. CASE FinishState(e) \/ FinishLease(e)
  BY <1>3 DEF SettledStays, FinishState, FinishLease
<1>4. CASE RecordSandbox(e)
  <2>1. Running(e)
    BY <1>4 DEF RecordSandbox, Running
  <2>2. \E r, w : disk' = Persisted(e, r, w)
    BY <1>4 DEF RecordSandbox
  <2> QED BY <2>1, <2>2, OneIsWritten
<1>5. CASE PollOutput(e)
  <2>1. Running(e)
    BY <1>5 DEF PollOutput, Polling, Running
  <2>2. \E r, w : disk' = Persisted(e, r, w)
    BY <1>5 DEF PollOutput
  <2> QED BY <2>1, <2>2, OneIsWritten
<1>6. CASE pollPermission(e)
  <2>1. Running(e)
    BY <1>6 DEF pollPermission, Polling, Running
  <2>2. disk' = disk \/ \E r, w : disk' = Persisted(e, r, w)
    BY <1>6 DEF pollPermission, Deliver, StillPending, Register
  <2> QED BY <2>1, <2>2, OneIsWritten
<1>7. CASE FinishPublish(e)
  <2>1. Running(e)
    BY <1>7 DEF FinishPublish, Running
  <2>2. \E r, w : disk' = Persisted(e, r, w)
    BY <1>7, Zenon DEF FinishPublish
  <2> QED BY <2>1, <2>2, OneIsWritten
<1> QED BY <1>1, <1>2, <1>3, <1>4, <1>5, <1>6, <1>7 DEF Runner, finish

(* All steps. *)
LEMMA NextKeepsSettled ==
  ASSUME Inv, Next
  PROVE  SettledStays
<1>1. ASSUME NEW e \in Executions, Reconcile(e)
      PROVE  SettledStays
  <2>1. NeedsCleanup(disk[e])
    BY <1>1 DEF Reconcile, Inv, Sound, Reopened
  <2>2. disk' = disk \/ \E r, w : disk' = Persisted(e, r, w)
    BY <1>1, Zenon DEF Reconcile
  <2> QED BY <2>1, <2>2, OneIsWritten
<1>2. ASSUME NEW e \in Executions,
             \/ LoopEnds(e) \/ PollFails(e) \/ PollRead(e)
             \/ Deadline(e) \/ LeaseWatch(e) \/ ProviderSettles(e)
      PROVE  SettledStays
  BY <1>2 DEF SettledStays, LoopEnds, PollFails, PollRead, Deadline, LeaseWatch,
     ProviderSettles
<1>3. ASSUME NEW e \in Executions, NEW op \in Operations, GuestAsks(e, op)
      PROVE  SettledStays
  BY <1>3 DEF SettledStays, GuestAsks
<1>4. CASE Tick \/ Crash \/ Close \/ ExitProcess \/ Open \/ Opened
  BY <1>4 DEF SettledStays, Tick, Crash, Close, ExitProcess, Open, Opened
<1> QED BY <1>1, <1>2, <1>3, <1>4, OwnerKeepsSettled, RunnerKeepsSettled DEF Next

(* Nobody writes over a settled record: requests and runners only write    *)
(* the record of an execution that has a runner, a submission only one     *)
(* that is not there, and a restart only one whose cleanup is open.        *)
THEOREM SettledIsFinal == Spec => VerifiedResultIsFinal
<1>1. Inv /\ [Next]_vars => [SettledStays]_vars
  BY NextKeepsSettled
<1>2. [SettledStays]_vars =>
        [\A e \in Executions :
           terminal(disk[e].state) /\ disk[e].result.verified => disk'[e] = disk[e]]_vars
  BY DEF SettledStays
<1> QED BY <1>1, <1>2, TurnInvariant, PTL DEF Spec, VerifiedResultIsFinal

-----------------------------------------------------------------------------
(* The contract *)

(* Before its end a record says nothing of one; what is on disk is the     *)
(* record in memory, perhaps an earlier one; and nothing is started, asked *)
(* or collected before the record says that the turn runs.                 *)
Draft(e) ==
  /\ rec[e].state \in {"none", "queued", "running"} =>
       rec[e].result = NoResult /\ ~rec[e].checkpoint
  /\ disk[e].state \in {"none", "queued", "running"} =>
       disk[e].result = NoResult /\ ~disk[e].checkpoint
  /\ Running(e) => /\ disk[e].decisions \subseteq rec[e].decisions
                   /\ disk[e].state = "running" => rec[e].state = "running"
  /\ pc[e] \in {"stage", "execute", "drain", "collect"} => disk[e].state = "running"

(* Only a turn whose harness was started can complete or have work. *)
Ran(e) ==
  /\ pc[e] \in {"execute", "drain", "collect"} => starts[e] = 1
  /\ pc[e] \in {"destroy", "finish"} => failure[e] \/ starts[e] = 1
  /\ pc[e] \in Locked /\ final[e] = "completed" => starts[e] = 1
  /\ checkpoint[e] => starts[e] = 1

(* An operation is decided once. *)
Once(e) ==
  Contract!DecidedOnce(rec[e].decisions) /\ Contract!DecidedOnce(disk[e].decisions)

(* What the contract needs to know beyond Inv. *)
ContractInv == \A e \in Executions : Draft(e) /\ Ran(e) /\ Once(e)

(* The step is one of the contract's, or none of its business. *)
Promise == [Contract!ContractNext]_Contract!contractVars

(* The step moves no execution but e, and leaves e behind its record. *)
Apart(e) ==
  /\ \A d \in Executions \ {e} : Same(d) /\ checkpoint'[d] = checkpoint[d]
  /\ Draft(e)' /\ Ran(e)' /\ Once(e)'

(* Such a step keeps the invariant. *)
LEMMA ApartKeeps ==
  ASSUME ContractInv, NEW e \in Executions, Apart(e)
  PROVE  ContractInv'
<1> SUFFICES ASSUME NEW d \in Executions, d # e PROVE Draft(d)' /\ Ran(d)' /\ Once(d)'
  BY DEF ContractInv, Apart
<1> QED
  BY DEF ContractInv, Apart, Same, Draft, Ran, Once, Running, Locked

(* A step that leaves the records and what the guest knows alone is none   *)
(* of the contract's.                                                      *)
LEMMA Silent ==
  ASSUME UNCHANGED <<disk, starts, told, cancelSeen, lapsed>>
  PROVE  Promise
  BY DEF Promise, Contract!contractVars, Standing

(* A write of an active record. *)
LEMMA NoteStep ==
  ASSUME Inv, ContractInv, NEW e \in Executions, Running(e),
         NEW r \in Records, NEW w, disk' = Persisted(e, r, w),
         r.state \in {"queued", "running"}, rec[e].state = "running" => r.state = "running",
         rec[e].decisions \subseteq r.decisions, Contract!DecidedOnce(r.decisions),
         r.result = NoResult, ~r.checkpoint,
         cancelSeen' \in {cancelSeen, [cancelSeen EXCEPT ![e] = TRUE]},
         UNCHANGED <<starts, told, lapsed>>
  PROVE  Promise
<1>1. disk \in [Executions -> Records] /\ disk[e] \in Records
  BY DEF Inv, TypeOK
<1>2. /\ disk[e].state \in {"queued", "running"}
      /\ disk[e].state = "running" => rec[e].state = "running"
      /\ disk[e].decisions \subseteq rec[e].decisions
      /\ disk[e].result = NoResult /\ ~disk[e].checkpoint
      /\ Contract!DecidedOnce(disk[e].decisions)
  BY DEF Inv, Sound, Phase, ContractInv, Draft, Once
<1>3. /\ disk'[e] = r \/ disk'[e] = disk[e]
      /\ \A d \in Executions \ {e} : disk'[d] = disk[d]
  BY <1>1, Written
<1>4. PICK y \in Records : y = disk'[e] /\ y \in {r, disk[e]}
  BY <1>1, <1>3
<1>5. /\ y.state \in {"queued", "running"}
      /\ disk[e].state = "running" => y.state = "running"
      /\ disk[e].decisions \subseteq y.decisions /\ Contract!DecidedOnce(y.decisions)
      /\ y.result = disk[e].result /\ y.checkpoint = disk[e].checkpoint
  <2>1. CASE y = r
    BY <1>1, <1>2, <2>1 DEF Records
  <2>2. CASE y = disk[e]
    BY <1>2, <2>2
  <2> QED BY <1>4, <2>1, <2>2
<1>6. y.decisions \in SUBSET Contract!Answers
  BY <1>4 DEF Records, Decisions, Contract!Answers
<1> DEFINE record == [x \in Executions |-> Standing(x)]
<1>7. record[e].state = disk[e].state /\ record[e].decisions = disk[e].decisions
  BY DEF Standing
<1>8. y.decisions \in Contract!More(e)
  BY <1>5, <1>6, <1>7 DEF Contract!More
<1>9. Standing(e)' = Contract!Unended(y.state, y.decisions)
  <2>1. y.checkpoint = FALSE /\ y.result = NoResult
    BY <1>2, <1>4, <1>5 DEF Records
  <2> QED BY <1>4, <2>1 DEF Standing, Contract!Unended, NoResult
<1>10. \A x \in Executions \ {e} : Standing(x)' = Standing(x)
  BY <1>3 DEF Standing
<1>11. [x \in Executions |-> Standing(x)]' =
         [record EXCEPT ![e] = Contract!Unended(y.state, y.decisions)]
  BY <1>9, <1>10
<1>12. record[e].state \in {"queued", "running"} /\ (record[e].state = "running" => y.state = "running")
  <2> HIDE DEF record
  <2> QED BY <1>2, <1>5, <1>7
<1>13. Contract!Note(e)
  <2>1. Contract!active(e)
    BY <1>12, Zenon DEF Contract!active
  <2>2. cancelSeen' \in {cancelSeen, [cancelSeen EXCEPT ![e] = TRUE]}
        /\ UNCHANGED <<starts, told, lapsed>>
    OBVIOUS
  <2>3. y.state \in {"queued", "running"}
    BY <1>5
  <2> QED BY <1>8, <1>11, <1>12, <2>1, <2>2, <2>3, Zenon DEF Contract!Note
<1> QED BY <1>13 DEF Promise, Contract!ContractNext

(* A step that touches no record. *)
LEMMA QuietKeeps ==
  ASSUME Inv, ContractInv, NEW e \in Executions, Kept(e), UNCHANGED <<rec, disk>>,
         \A d \in Executions \ {e} : checkpoint'[d] = checkpoint[d],
         Ran(e)',
         pc'[e] \in {"stage", "execute", "drain", "collect"} =>
           pc[e] \in {"stage", "execute", "drain", "collect"}
  PROVE  ContractInv'
<1>1. Draft(e)' /\ Once(e)'
  BY DEF ContractInv, Draft, Once, Kept, Running
<1>2. Apart(e)
  BY <1>1 DEF Apart, Kept, Only
<1> QED BY <1>2, ApartKeeps

(* Time, the context, the provider and the guest. *)
LEMMA WorldKeepsContract ==
  ASSUME Inv, ContractInv, NEW e \in Executions,
         \/ Deadline(e) \/ LeaseWatch(e) \/ ProviderSettles(e) \/ PollRead(e)
         \/ \E op \in Operations : GuestAsks(e, op)
  PROVE  ContractInv' /\ Promise
<1> USE DEF procVars, runVars, boxVars, guestVars, histVars
<1>1. Kept(e)
  BY DeadlineKeeps, LeaseWatchKeeps, ProviderSettlesKeeps, PollReadKeeps, GuestAsksKeeps
<1>2. /\ UNCHANGED <<rec, disk, pc, failure, final, checkpoint>>
      /\ UNCHANGED <<starts, told, cancelSeen, lapsed>>
  BY DEF Deadline, LeaseWatch, ProviderSettles, PollRead, GuestAsks
<1>3. Ran(e)'
  BY <1>2 DEF ContractInv, Ran
<1> QED BY <1>1, <1>2, <1>3, QuietKeeps, Silent

(* The steps of the runner that touch no record and start nothing. *)
LEMMA RunnerKeepsContract ==
  ASSUME Inv, ContractInv, NEW e \in Executions,
         \/ CreateSandbox(e) \/ cleanupIdentity(e) \/ ExecuteReturns(e) \/ LoopEnds(e)
         \/ PollNothing(e) \/ PollFails(e) \/ Collect(e) \/ DestroySandbox(e)
         \/ FinishState(e) \/ FinishLease(e)
  PROVE  ContractInv' /\ Promise
<1> USE DEF procVars, runVars, boxVars, guestVars, histVars
<1>1. Kept(e)
  BY CreateSandboxKeeps, cleanupIdentityKeeps, ExecuteReturnsKeeps, LoopEndsKeeps,
     PollNothingKeeps, PollFailsKeeps, CollectKeeps, DestroySandboxKeeps,
     FinishStateKeeps, FinishLeaseKeeps
<1>2. UNCHANGED <<rec, disk, starts, told, cancelSeen, lapsed>>
  BY DEF CreateSandbox, cleanupIdentity, ExecuteReturns, LoopEnds, PollNothing,
     PollFails, Collect, DestroySandbox, FinishState, FinishLease
<1>3. /\ Ran(e) /\ Cleaned(e) /\ pc \in [Executions -> Steps]
      /\ failure \in [Executions -> BOOLEAN] /\ checkpoint \in [Executions -> BOOLEAN]
      /\ final \in [Executions -> TurnStates \cup {"none"}]
  BY DEF ContractInv, Inv, TypeOK, Sound
<1>4. /\ \A d \in Executions \ {e} : checkpoint'[d] = checkpoint[d]
      /\ checkpoint'[e] # checkpoint[e] => pc[e] = "collect"
  BY <1>3 DEF CreateSandbox, cleanupIdentity, ExecuteReturns, LoopEnds, PollNothing,
     PollFails, Collect, DestroySandbox, FinishState, FinishLease
<1>5. pc'[e] \in {"stage", "execute", "drain", "collect"} =>
        pc[e] \in {"stage", "execute", "drain", "collect"}
  BY <1>3 DEF CreateSandbox, cleanupIdentity, ExecuteReturns, LoopEnds, PollNothing,
     PollFails, Collect, DestroySandbox, FinishState, FinishLease, AfterPoll
<1>6. Ran(e)'
  <2>1. CASE CreateSandbox(e)
    BY <1>2, <1>3, <2>1 DEF CreateSandbox, Ran, Locked
  <2>2. CASE cleanupIdentity(e) \/ DestroySandbox(e)
    BY <1>2, <1>3, <2>2 DEF cleanupIdentity, DestroySandbox, Ran, Cleaned, Locked
  <2>3. CASE ExecuteReturns(e) \/ LoopEnds(e) \/ PollNothing(e) \/ PollFails(e)
    BY <1>2, <1>3, <2>3 DEF ExecuteReturns, LoopEnds, PollNothing, PollFails, AfterPoll,
       Polling, Ran, Locked
  <2>4. CASE Collect(e)
    BY <1>2, <1>3, <2>4 DEF Collect, Ran, Locked
  <2>5. CASE FinishState(e)
    BY <1>2, <1>3, <2>5 DEF FinishState, Ran, Locked
  <2>6. CASE FinishLease(e)
    BY <1>2, <1>3, <2>6 DEF FinishLease, Ran, Locked
  <2> QED BY <2>1, <2>2, <2>3, <2>4, <2>5, <2>6
<1> QED BY <1>1, <1>2, <1>4, <1>5, <1>6, QuietKeeps, Silent

(* The harness starts, behind a record that says so. *)
LEMMA StageKeepsContract ==
  ASSUME Inv, ContractInv, NEW e \in Executions, Stage(e)
  PROVE  ContractInv' /\ Promise
<1> USE DEF procVars, runVars, boxVars, guestVars, histVars
<1>1. Kept(e) /\ starts[e] = 0 /\ pc[e] = "stage" /\ disk[e].state = "running"
  BY StageKeeps DEF Stage, Inv, Sound, Started, ContractInv, Draft
<1>2. UNCHANGED <<rec, disk, told, cancelSeen, lapsed, checkpoint>>
  BY DEF Stage
<1>3. Ran(e) /\ pc \in [Executions -> Steps] /\ failure \in [Executions -> BOOLEAN]
      /\ starts \in [Executions -> Nat]
  BY DEF ContractInv, Inv, TypeOK
<1>4. \/ /\ pc' = [pc EXCEPT ![e] = "execute"] /\ starts' = [starts EXCEPT ![e] = 1]
         /\ failure' = failure
      \/ /\ pc' = [pc EXCEPT ![e] = "destroy"] /\ starts' = starts
         /\ failure' = [failure EXCEPT ![e] = TRUE]
  BY <1>1, <1>3 DEF Stage
<1>5. Ran(e)'
  BY <1>1, <1>2, <1>3, <1>4 DEF Ran, Locked
<1>6. ContractInv'
  BY <1>1, <1>2, <1>5, QuietKeeps
<1>7. CASE starts' = starts
  BY <1>2, <1>6, <1>7, Silent
<1>8. CASE starts' = [starts EXCEPT ![e] = 1]
  <2>1. [x \in Executions |-> Standing(x)][e].state = "running"
    BY <1>1 DEF Standing
  <2>2. [x \in Executions |-> Standing(x)]' = [x \in Executions |-> Standing(x)]
    BY <1>2 DEF Standing
  <2>3. Contract!Begin(e)
    BY <1>1, <1>2, <1>8, <2>1, <2>2, Zenon DEF Contract!Begin
  <2> QED BY <1>6, <2>3 DEF Promise, Contract!ContractNext
<1> QED BY <1>4, <1>7, <1>8

(* A write of an active record leaves the contract's invariant. *)
LEMMA WriteKeeps ==
  ASSUME Inv, ContractInv, NEW e \in Executions, Kept(e), Running(e),
         NEW r \in Records, NEW w, disk' = Persisted(e, r, w), rec'[e] = r,
         r.state \in {"queued", "running"}, rec[e].state = "running" => r.state = "running",
         rec[e].decisions \subseteq r.decisions, Contract!DecidedOnce(r.decisions),
         r.result = NoResult, ~r.checkpoint,
         checkpoint' = checkpoint, Ran(e)',
         pc'[e] \in {"stage", "execute", "drain", "collect"} =>
           disk[e].state = "running" \/ (w = "ok" /\ r.state = "running")
  PROVE  ContractInv'
<1>1. disk \in [Executions -> Records]
  BY DEF Inv, TypeOK
<1>2. /\ disk'[e] = r \/ disk'[e] = disk[e]
      /\ w = "ok" => disk'[e] = r
  BY <1>1, Written
<1>3. Draft(e) /\ Once(e)
  BY DEF ContractInv
<1>4. Draft(e)'
  BY <1>2, <1>3 DEF Draft, Running
<1>5. Once(e)'
  BY <1>2, <1>3 DEF Once
<1>6. Apart(e)
  BY <1>4, <1>5 DEF Apart, Kept, Only
<1> QED BY <1>6, ApartKeeps

(* Requests and events that write the record as it is. *)
LEMMA PersistKeepsContract ==
  ASSUME Inv, ContractInv, NEW e \in Executions,
         cancel(e) \/ renew(e) \/ PollOutput(e)
  PROVE  ContractInv' /\ Promise
<1> USE DEF procVars, runVars, boxVars, guestVars, histVars
<1>1. Kept(e)
  BY cancelKeeps, renewKeeps, PollOutputKeeps
<1>2. Running(e)
  BY ActiveRuns DEF cancel, renew, PollOutput, Polling, Running
<1>3. /\ rec' = rec /\ rec[e] \in Records /\ checkpoint' = checkpoint
      /\ cancelSeen' \in {cancelSeen, [cancelSeen EXCEPT ![e] = TRUE]}
      /\ UNCHANGED <<starts, told, lapsed, final>>
  BY DEF cancel, renew, PollOutput, Inv, TypeOK
<1>4. \E w : disk' = Persisted(e, rec[e], w)
  BY Zenon DEF cancel, renew, PollOutput
<1>5. /\ rec[e].state \in {"queued", "running"} /\ rec[e].result = NoResult
      /\ ~rec[e].checkpoint /\ Contract!DecidedOnce(rec[e].decisions)
      /\ Draft(e) /\ Ran(e)
  BY <1>2 DEF Inv, Sound, Phase, Serving, Running, ContractInv, Draft, Once
<1>6. /\ pc'[e] = pc[e] \/ (pc[e] \in {"execute", "drain"} /\ pc'[e] = "collect")
      /\ pc'[e] \in {"destroy", "finish"} => failure'[e] = failure[e]
  BY DEF cancel, renew, PollOutput, Polling, AfterPoll, Inv, TypeOK
<1>7. Ran(e)'
  BY <1>3, <1>5, <1>6 DEF Ran, Locked
<1>8. pc'[e] \in {"stage", "execute", "drain", "collect"} => disk[e].state = "running"
  BY <1>5, <1>6 DEF Draft
<1>9. ContractInv'
  BY <1>1, <1>2, <1>3, <1>4, <1>5, <1>7, <1>8, WriteKeeps
<1>10. Promise
  BY <1>2, <1>3, <1>4, <1>5, NoteStep
<1> QED BY <1>9, <1>10

(* An answer comes on top of the answers there are, for an operation that  *)
(* has none.                                                               *)
LEMMA AnswerKeepsContract ==
  ASSUME Inv, ContractInv, NEW e \in Executions, NEW op \in Operations,
         NEW dec \in {"allow", "deny"}, answerPermission(e, op, dec)
  PROVE  ContractInv' /\ Promise
<1> USE DEF procVars, runVars, boxVars, guestVars, histVars
<1>1. PICK y \in Records : y = rec[e]
  BY DEF Inv, TypeOK
<1> DEFINE a == [op |-> op, dec |-> dec]
           r == [y EXCEPT !.decisions = @ \cup {a}]
<1>2. /\ r \in Records /\ r.state = y.state /\ r.checkpoint = y.checkpoint
      /\ r.decisions = y.decisions \cup {a} /\ r.result = y.result
  <2>1. a \in Decisions
    BY DEF Decisions
  <2> HIDE DEF a
  <2> QED BY <2>1 DEF Records
<1>3. rec' = [rec EXCEPT ![e] = r] /\ \E w : disk' = Persisted(e, r, w)
  BY <1>1, Zenon DEF answerPermission
<1>4. a.op.id = op.id
  OBVIOUS
<1>5. \A d \in y.decisions : d.op.id # op.id
  BY <1>1 DEF answerPermission, Decided
<1> HIDE DEF r, a
<1>6. Kept(e) /\ Running(e)
  BY answerPermissionKeeps, ActiveRuns DEF answerPermission
<1>7. UNCHANGED <<pc, failure, final, checkpoint, starts, told, cancelSeen, lapsed>>
  BY DEF answerPermission
<1>8. /\ y.state \in {"queued", "running"} /\ y.result = NoResult /\ ~y.checkpoint
      /\ Contract!DecidedOnce(y.decisions) /\ Draft(e) /\ Ran(e)
  BY <1>1, <1>6 DEF Inv, Sound, Phase, Serving, Running, ContractInv, Draft, Once
<1>9. Contract!DecidedOnce(r.decisions)
  BY <1>2, <1>4, <1>5, <1>8 DEF Contract!DecidedOnce
<1>10. rec'[e] = r
  BY <1>3 DEF Inv, TypeOK
<1>11. Ran(e)'
  BY <1>7, <1>8 DEF Ran
<1>12. pc'[e] \in {"stage", "execute", "drain", "collect"} => disk[e].state = "running"
  BY <1>7, <1>8 DEF Draft
<1>13. rec[e].decisions \subseteq r.decisions
  BY <1>1, <1>2
<1>14. ContractInv'
  BY <1>1, <1>2, <1>3, <1>6, <1>7, <1>8, <1>9, <1>10, <1>11, <1>12, <1>13, WriteKeeps
<1>15. Promise
  BY <1>1, <1>2, <1>3, <1>6, <1>7, <1>8, <1>9, <1>13, NoteStep
<1> QED BY <1>14, <1>15

(* The record runs from here on, if its write is known to be there. *)
LEMMA RecordSandboxKeepsContract ==
  ASSUME Inv, ContractInv, NEW e \in Executions, RecordSandbox(e)
  PROVE  ContractInv' /\ Promise
<1> USE DEF procVars, runVars, boxVars, guestVars, histVars
<1>1. PICK y \in Records : y = rec[e]
  BY DEF Inv, TypeOK
<1> DEFINE r == [y EXCEPT !.state = "running", !.sandbox = TRUE]
<1>2. /\ r \in Records /\ r.state = "running" /\ r.checkpoint = y.checkpoint
      /\ r.decisions = y.decisions /\ r.result = y.result
  BY DEF Records, TurnStates
<1>3. rec' = [rec EXCEPT ![e] = r]
      /\ \E w \in Writes :
           /\ disk' = Persisted(e, r, w)
           /\ failure' = [failure EXCEPT ![e] = w # "ok"]
           /\ pc' = [pc EXCEPT ![e] = IF w = "ok" THEN "stage" ELSE "destroy"]
  BY <1>1, Zenon DEF RecordSandbox
<1> HIDE DEF r
<1>4. PICK w :
        /\ disk' = Persisted(e, r, w)
        /\ failure' = [failure EXCEPT ![e] = w # "ok"]
        /\ pc' = [pc EXCEPT ![e] = IF w = "ok" THEN "stage" ELSE "destroy"]
  BY <1>3
<1>5. Kept(e) /\ Running(e)
  BY RecordSandboxKeeps DEF RecordSandbox, Running
<1>6. UNCHANGED <<final, checkpoint, starts, told, cancelSeen, lapsed>>
  BY DEF RecordSandbox
<1>7. /\ y.result = NoResult /\ ~y.checkpoint
      /\ Contract!DecidedOnce(y.decisions) /\ Ran(e)
  BY <1>1, <1>5 DEF Inv, Sound, Phase, Serving, Running, ContractInv, Draft, Once
<1>8. /\ pc'[e] = IF w = "ok" THEN "stage" ELSE "destroy"
      /\ failure'[e] = (w # "ok") /\ rec'[e] = r
  BY <1>3, <1>4 DEF Inv, TypeOK
<1>9. Ran(e)'
  BY <1>6, <1>7, <1>8 DEF Ran, Locked
<1>10. rec[e].decisions \subseteq r.decisions
  BY <1>1, <1>2
<1>11. ContractInv'
  BY <1>1, <1>2, <1>4, <1>5, <1>6, <1>7, <1>8, <1>9, <1>10, WriteKeeps
<1>12. Promise
  BY <1>1, <1>2, <1>4, <1>5, <1>6, <1>7, <1>10, NoteStep
<1> QED BY <1>11, <1>12

(* What a poll leaves alone, and where it leaves the runner. *)
LEMMA PollFrame ==
  ASSUME Inv, ContractInv, NEW e \in Executions, pollPermission(e)
  PROVE  /\ Kept(e) /\ Running(e) /\ pc[e] \in {"execute", "drain"}
         /\ disk[e].state = "running" /\ starts[e] = 1 /\ Ran(e)'
         /\ UNCHANGED <<checkpoint, starts, cancelSeen, lapsed>>
         /\ rec[e] \in Records /\ rec[e].state \in {"queued", "running"}
         /\ rec[e].result = NoResult /\ ~rec[e].checkpoint
         /\ Contract!DecidedOnce(rec[e].decisions)
<1> USE DEF procVars, runVars, boxVars, guestVars, histVars
<1>1. Kept(e) /\ Running(e) /\ pc[e] \in {"execute", "drain"}
  BY pollPermissionKeeps DEF pollPermission, Polling, Running
<1>2. UNCHANGED <<final, checkpoint, starts, cancelSeen, lapsed>>
  BY DEF pollPermission
<1>3. Draft(e) /\ Ran(e) /\ Once(e)
  BY DEF ContractInv
<1>4. disk[e].state = "running" /\ starts[e] = 1
  BY <1>1, <1>3 DEF Draft, Ran
<1>5. Ran(e)'
  BY <1>2, <1>4 DEF Ran
<1>6. rec[e] \in Records /\ rec[e].state \in {"queued", "running"}
  BY <1>1 DEF Inv, TypeOK, Sound, Phase, Serving, Running
<1> QED BY <1>1, <1>2, <1>3, <1>4, <1>5, <1>6 DEF Draft, Once

(* The guest is told a decision of the record, and only while every        *)
(* decision in memory is on disk too.                                      *)
LEMMA DeliverKeepsContract ==
  ASSUME Inv, ContractInv, NEW e \in Executions, pollPermission(e), Deliver(e)
  PROVE  ContractInv' /\ Promise
<1> USE DEF procVars, runVars, boxVars, guestVars, histVars
<1>1. UNCHANGED <<rec, disk>>
  BY DEF Deliver
<1>2. ContractInv'
  BY <1>1, PollFrame, QuietKeeps
<1>3. PICK d \in Decided(rec[e], seen[e].id) :
        \/ ctx[e] = "live" /\ told' = [told EXCEPT ![e] = d]
        \/ told' = told
  BY DEF Deliver
<1>4. CASE told' = told
  BY <1>1, <1>2, <1>4, PollFrame, Silent
<1>5. CASE ctx[e] = "live" /\ told' = [told EXCEPT ![e] = d]
  <2>1. d \in disk[e].decisions
    BY <1>3, <1>5, PollFrame DEF Decided, Inv, Sound, Approved
  <2>2. d \in Contract!Answers
    BY <2>1 DEF Inv, TypeOK, Records, Decisions, Contract!Answers
  <2>3. /\ [x \in Executions |-> Standing(x)][e].state = "running"
        /\ d \in [x \in Executions |-> Standing(x)][e].decisions
    BY <2>1, PollFrame DEF Standing
  <2>4. [x \in Executions |-> Standing(x)]' = [x \in Executions |-> Standing(x)]
    BY <1>1 DEF Standing
  <2>5. starts[e] = 1 /\ UNCHANGED <<starts, cancelSeen, lapsed>>
    BY PollFrame
  <2>6. Contract!Tell(e, d)
    BY <1>5, <2>3, <2>4, <2>5, Zenon DEF Contract!Tell
  <2> QED BY <1>2, <2>2, <2>6 DEF Promise, Contract!ContractNext
<1> QED BY <1>3, <1>4, <1>5

(* A poll tells, does nothing, or writes a new pending operation.          *)
LEMMA pollPermissionKeepsContract ==
  ASSUME Inv, ContractInv, NEW e \in Executions, pollPermission(e)
  PROVE  ContractInv' /\ Promise
<1>1. CASE Deliver(e)
  BY <1>1, DeliverKeepsContract
<1>2. CASE rec' = rec /\ disk' = disk /\ told' = told
  BY <1>2, PollFrame, QuietKeeps, Silent
<1>3. CASE Register(e) /\ ~(rec' = rec /\ disk' = disk)
  <2>1. PICK y \in Records, op \in Operations \cup {None} : y = rec[e] /\ op = seen[e]
    BY DEF Inv, TypeOK
  <2> DEFINE r == [y EXCEPT !.pending = op]
  <2>2. /\ r \in Records /\ r.state = y.state /\ r.checkpoint = y.checkpoint
        /\ r.decisions = y.decisions /\ r.result = y.result
    BY DEF Records
  <2>3. /\ rec' = [rec EXCEPT ![e] = r]
        /\ \E w : disk' = Persisted(e, r, w)
        /\ told' = told
    BY <1>3, <2>1, Zenon DEF Register
  <2> HIDE DEF r
  <2>4. rec'[e] = r
    BY <2>3 DEF Inv, TypeOK
  <2>5. ContractInv'
    BY <2>1, <2>2, <2>3, <2>4, PollFrame, WriteKeeps
  <2>6. Promise
    BY <2>1, <2>2, <2>3, PollFrame, NoteStep
  <2> QED BY <2>5, <2>6
<1>4. Deliver(e) \/ StillPending(e) \/ Register(e)
  BY DEF pollPermission
<1>5. StillPending(e) => rec' = rec /\ disk' = disk /\ told' = told
  BY DEF StillPending
<1>6. Register(e) => told' = told
  BY DEF Register
<1> QED BY <1>1, <1>2, <1>3, <1>4, <1>5, <1>6

(* Time takes leases of active executions only. *)
LEMMA TickKeepsContract ==
  ASSUME Inv, ContractInv, Tick
  PROVE  ContractInv' /\ Promise
<1> USE DEF procVars, runVars, boxVars, guestVars, histVars
<1>1. UNCHANGED <<rec, disk, pc, failure, final, checkpoint, starts, told, cancelSeen>>
  BY DEF Tick
<1>2. ContractInv'
  BY <1>1 DEF ContractInv, Draft, Ran, Once, Running
<1>3. lapsed' \in [Executions -> BOOLEAN]
  BY DEF Tick, Inv, TypeOK
<1>4. ASSUME NEW e \in Executions, lapsed'[e] # lapsed[e]
      PROVE  lapsed'[e] /\ disk[e].state \in {"queued", "running"}
  BY <1>4 DEF Tick, Inv, TypeOK, Sound, Phase, Running
<1>5. \A e \in Executions : [x \in Executions |-> Standing(x)][e].state = disk[e].state
  BY DEF Standing
<1>6. [x \in Executions |-> Standing(x)]' = [x \in Executions |-> Standing(x)]
  BY <1>1 DEF Standing
<1>7. Contract!Lapse
  BY <1>1, <1>3, <1>4, <1>5, <1>6, Zenon DEF Contract!Lapse, Contract!active
<1> QED BY <1>2, <1>7 DEF Promise, Contract!ContractNext

(* A process that goes leaves the records as they are. *)
LEMMA ForgetKeepsContract ==
  ASSUME ContractInv, Forget, starts' = starts,
         \A e \in Executions : disk'[e].state \in {"none", "queued", "running"} =>
           disk'[e].result = NoResult /\ ~disk'[e].checkpoint,
         \A e \in Executions : Contract!DecidedOnce(disk'[e].decisions)
  PROVE  ContractInv'
<1>1. NoRecord.state = "none" /\ NoRecord.result = NoResult /\ ~NoRecord.checkpoint
      /\ NoRecord.decisions = {}
  BY DEF NoRecord
<1>2. Contract!DecidedOnce({})
  BY DEF Contract!DecidedOnce
<1> SUFFICES ASSUME NEW e \in Executions PROVE Draft(e)' /\ Ran(e)' /\ Once(e)'
  BY DEF ContractInv
<1>3. rec'[e] = NoRecord /\ pc'[e] = "none" /\ checkpoint'[e] = FALSE
  BY DEF Forget
<1> QED BY <1>1, <1>2, <1>3 DEF Draft, Ran, Once, Running, Locked

(* So do a crash, an exit, a stop and a start. *)
LEMMA ProcessKeepsContract ==
  ASSUME Inv, ContractInv, Crash \/ ExitProcess \/ Close \/ Open \/ Opened
  PROVE  ContractInv' /\ Promise
<1> USE DEF boxVars, guestVars, histVars
<1>1. UNCHANGED <<disk, starts, told, cancelSeen, lapsed>>
  BY DEF Crash, ExitProcess, Close, Open, Opened
<1>2. CASE Crash \/ ExitProcess
  <2>1. Forget
    BY <1>2 DEF Crash, ExitProcess
  <2>2. ContractInv'
    BY <1>1, <2>1, ForgetKeepsContract DEF ContractInv, Draft, Once
  <2> QED BY <1>1, <2>2, Silent
<1>3. CASE Close \/ Open \/ Opened
  <2>1. UNCHANGED <<pc, failure, final, checkpoint>>
    BY <1>3 DEF Close, Open, Opened, runVars
  <2>2. \/ rec' = rec
        \/ rec' = disk /\ \A e \in Executions : ~Running(e)
    BY <1>3 DEF Close, Open, Opened, Inv, Sound, Phase, Serving, Running
  <2>3. ASSUME NEW e \in Executions PROVE Draft(e)' /\ Ran(e)' /\ Once(e)'
    <3>1. Draft(e) /\ Ran(e) /\ Once(e)
      BY DEF ContractInv
    <3>2. Ran(e)'
      BY <1>1, <2>1, <3>1 DEF Ran
    <3>3. rec'[e] = rec[e] \/ (rec'[e] = disk[e] /\ ~Running(e))
      BY <2>2
    <3> QED BY <1>1, <2>1, <3>1, <3>2, <3>3 DEF Draft, Once, Running
  <2>4. ContractInv'
    BY <2>3 DEF ContractInv
  <2> QED BY <1>1, <2>4, Silent
<1> QED BY <1>2, <1>3

(* The one end, and one that fits. *)
LEMMA FinishPublishKeepsContract ==
  ASSUME Inv, ContractInv, NEW e \in Executions, FinishPublish(e)
  PROVE  ContractInv' /\ Promise
<1> USE DEF procVars, runVars, boxVars, guestVars, histVars
<1>0. PICK y \in Records, v \in BOOLEAN, p \in BOOLEAN :
        /\ y = rec[e] /\ v = verified[e]
        /\ p <=> (checkpoint[e] /\ ctx[e] = "live" /\ ~leaseExpired[e])
  <2>1. rec[e] \in Records /\ verified[e] \in BOOLEAN
    BY DEF Inv, TypeOK
  <2>2. (checkpoint[e] /\ ctx[e] = "live" /\ ~leaseExpired[e]) \in BOOLEAN
    OBVIOUS
  <2> QED BY <2>1, <2>2, Zenon
<1>1. PICK w \in Writes, s \in TurnStates, b \in BOOLEAN :
        LET r == [y EXCEPT !.state = s, !.checkpoint = p,
                    !.result = [status |-> s, checkpoint |-> p, verified |-> v]]
        IN /\ s \in {final[e], "failed"}
           /\ blob' = [blob EXCEPT ![e] = b]
           /\ disk' = Persisted(e, r, w)
           /\ rec' = [rec EXCEPT ![e] =
                IF w = "ok" THEN r
                ELSE [r EXCEPT !.state = "failed", !.result = NoResult]]
  <2>1. EndsWith(e, y, p, v)
    BY <1>0, PublishedEnd
  <2> QED BY <2>1, Zenon DEF EndsWith
<1> DEFINE r == [y EXCEPT !.state = s, !.checkpoint = p,
                   !.result = [status |-> s, checkpoint |-> p, verified |-> v]]
           q == [r EXCEPT !.state = "failed", !.result = NoResult]
<1>2. /\ y = rec[e] /\ v = verified[e] /\ s \in {final[e], "failed"}
      /\ p <=> (checkpoint[e] /\ ctx[e] = "live" /\ ~leaseExpired[e])
      /\ disk' = Persisted(e, r, w) /\ rec'[e] \in {r, q}
  BY <1>0, <1>1 DEF Inv, TypeOK
<1>3. /\ r \in Records /\ r.state = s /\ r.checkpoint = p /\ r.decisions = y.decisions
      /\ r.result = [status |-> s, checkpoint |-> p, verified |-> v]
  <2>1. [status |-> s, checkpoint |-> p, verified |-> v] \in TurnResults
    BY DEF TurnResults
  <2> QED BY <2>1 DEF Records
<1>4. q.state = "failed" /\ q.decisions = y.decisions
  <2> HIDE DEF r
  <2> QED BY <1>3 DEF Records
<1> HIDE DEF r, q
<1>5. /\ pc[e] = "finish_publish" /\ pc' = [pc EXCEPT ![e] = "done"]
      /\ UNCHANGED <<final, failure, checkpoint, starts, told, cancelSeen, lapsed>>
  BY DEF FinishPublish
<1>6. Kept(e) /\ Running(e) /\ pc'[e] = "done"
  BY <1>5, FinishPublishKeeps DEF Running, Inv, TypeOK
<1>7. /\ disk \in [Executions -> Records] /\ disk[e].state \in {"queued", "running"}
      /\ disk[e].decisions \subseteq y.decisions
      /\ Contract!DecidedOnce(y.decisions) /\ Contract!DecidedOnce(disk[e].decisions)
      /\ Draft(e) /\ Ran(e)
  BY <1>2, <1>6 DEF Inv, TypeOK, Sound, Phase, ContractInv, Draft, Once
<1>8. /\ disk'[e] = r \/ disk'[e] = disk[e]
      /\ \A d \in Executions \ {e} : disk'[d] = disk[d]
  BY <1>2, <1>3, <1>7, Written
<1>9. s \in Contract!Ends
  BY <1>2, <1>5 DEF Inv, Sound, Phase, Locked, terminal, TurnStates, Contract!Ends
<1>10. ContractInv'
  <2>1. s \notin {"none", "queued", "running"}
    BY <1>9 DEF Contract!Ends
  <2>2. Draft(e)'
    BY <1>2, <1>3, <1>4, <1>6, <1>7, <1>8, <2>1 DEF Draft, Running
  <2>3. Ran(e)'
    BY <1>5, <1>6, <1>7 DEF Ran, Locked
  <2>4. Once(e)'
    BY <1>2, <1>3, <1>4, <1>7, <1>8 DEF Once
  <2>5. Apart(e)
    BY <1>5, <1>6, <2>2, <2>3, <2>4 DEF Apart, Kept, Only
  <2> QED BY <2>5, ApartKeeps
<1>11. CASE disk'[e] = disk[e]
  <2>1. disk' = disk
    BY <1>6, <1>7, <1>8, <1>11 DEF Kept, TypeOK
  <2> QED BY <1>5, <1>10, <2>1, Silent
<1>12. CASE disk'[e] = r
  <2> DEFINE record == [x \in Executions |-> Standing(x)]
  <2>1. record[e].state = disk[e].state /\ record[e].decisions = disk[e].decisions
    BY DEF Standing
  <2>2. y.decisions \in Contract!More(e)
    BY <1>7, <2>1 DEF Contract!More, Records, Decisions, Contract!Answers
  <2>3. Contract!active(e)
    BY <1>7, <2>1 DEF Contract!active
  <2>4. s = "completed" => starts[e] = 1 /\ v /\ ~cancelSeen[e]
    BY <1>2, <1>5, <1>7 DEF Inv, Sound, Cleaned, CancelKept, Ran, Locked
  <2>5. p => starts[e] = 1 /\ ~cancelSeen[e] /\ ~lapsed[e]
    BY <1>2, <1>5, <1>6, <1>7 DEF Inv, Sound, CancelKept, LapseKept, Ran
  <2>6. Standing(e)' =
          [state |-> s, checkpoint |-> p, decisions |-> y.decisions,
           result |-> [status |-> s, checkpoint |-> p, verified |-> v]]
    BY <1>3, <1>12 DEF Standing
  <2>7. \A x \in Executions \ {e} : Standing(x)' = Standing(x)
    BY <1>8 DEF Standing
  <2>8. record' = [record EXCEPT ![e] =
          [state |-> s, checkpoint |-> p, decisions |-> y.decisions,
           result |-> [status |-> s, checkpoint |-> p, verified |-> v]]]
    BY <2>6, <2>7
  <2>9. Contract!Settle(e)
    BY <1>5, <1>9, <2>2, <2>3, <2>4, <2>5, <2>8, Zenon DEF Contract!Settle
  <2> QED BY <1>10, <2>9 DEF Promise, Contract!ContractNext
<1> QED BY <1>8, <1>11, <1>12

(* An ID is accepted again only if nothing has come of it. *)
LEMMA submitKeepsContract ==
  ASSUME Inv, ContractInv, NEW e \in Executions, submit(e)
  PROVE  ContractInv' /\ Promise
<1> USE DEF procVars, runVars, boxVars, guestVars, histVars
<1> DEFINE r == [NoRecord EXCEPT !.state = "queued"]
<1>1. /\ NoRecord.state = "none" /\ NoRecord.checkpoint = FALSE
      /\ NoRecord.decisions = {} /\ NoRecord.result = NoResult
      /\ r \in Records /\ r.state = "queued" /\ r.checkpoint = FALSE
      /\ r.decisions = {} /\ r.result = NoResult
  BY DEF NoRecord, Records, TurnStates, TurnResults, NoResult
<1>2. PICK w \in Writes :
        /\ disk' = Persisted(e, r, w)
        /\ IF w = "ok"
           THEN /\ rec' = [rec EXCEPT ![e] = r]
                /\ pc' = [pc EXCEPT ![e] = "creating"]
                /\ ctx' = [ctx EXCEPT ![e] = "live"]
                /\ lease' = [lease EXCEPT ![e] = LeaseTicks]
           ELSE UNCHANGED <<rec, pc, ctx, lease>>
  BY Zenon DEF submit
<1>3. UNCHANGED <<procVars, blob, runVars, boxVars, guestVars, histVars>>
  BY DEF submit
<1>4. disk[e] \in {NoRecord, r} /\ Fresh(e) /\ ~Running(e) /\ rec[e] = NoRecord
  BY DEF submit, Inv, Sound, Phase, Known, Serving
<1> HIDE DEF r
<1>5. disk \in [Executions -> Records] /\ disk' = Persisted(e, r, w)
  BY <1>2 DEF Inv, TypeOK
<1>6. /\ disk'[e] = r \/ disk'[e] = disk[e]
      /\ w = "ok" => disk'[e] = r
      /\ \A d \in Executions \ {e} : disk'[d] = disk[d]
  BY <1>1, <1>5, Written
<1>7. Contract!DecidedOnce({})
  BY DEF Contract!DecidedOnce
<1>8. Ran(e) /\ starts[e] = 0
  BY <1>4 DEF ContractInv, Fresh
<1>9. ContractInv'
  <2>1. /\ rec'[e] \in {NoRecord, r} /\ (pc'[e] = pc[e] \/ pc'[e] = "creating")
        /\ pc'[e] = "creating" => rec'[e] = r /\ disk'[e] = r
    <3>1. CASE w = "ok"
      BY <1>2, <1>6, <3>1 DEF Inv, TypeOK
    <3>2. CASE w # "ok"
      BY <1>2, <1>4, <3>2 DEF Running, Inv, TypeOK
    <3> QED BY <3>1, <3>2
  <2>2. Draft(e)'
    BY <1>1, <1>4, <1>6, <2>1 DEF Draft, Running
  <2>3. Ran(e)'
    BY <1>3, <1>4, <1>8, <2>1 DEF Ran, Locked, Running
  <2>4. Once(e)'
    BY <1>1, <1>4, <1>6, <1>7, <2>1 DEF Once
  <2>5. ASSUME NEW d \in Executions \ {e} PROVE Same(d) /\ checkpoint'[d] = checkpoint[d]
    BY <1>2, <1>3, <1>6 DEF Same, Inv, TypeOK
  <2>6. Apart(e)
    BY <2>2, <2>3, <2>4, <2>5 DEF Apart
  <2> QED BY <2>6, ApartKeeps
<1>10. CASE disk'[e] = disk[e]
  <2>1. disk' = disk
    BY <1>5, <1>10 DEF Persisted
  <2> QED BY <1>3, <1>9, <2>1, Silent
<1>11. CASE disk'[e] = r
  <2> DEFINE record == [x \in Executions |-> Standing(x)]
  <2>1. Standing(e) \in {Contract!Blank, Contract!Accepted}
    BY <1>1, <1>4 DEF Standing, Contract!Blank, Contract!Accepted, Contract!Unended,
       NoResult
  <2>2. Standing(e)' = Contract!Accepted
    BY <1>1, <1>11 DEF Standing, Contract!Accepted, Contract!Unended, NoResult
  <2>3. \A x \in Executions \ {e} : Standing(x)' = Standing(x)
    BY <1>6 DEF Standing
  <2>4. record' = [record EXCEPT ![e] = Contract!Accepted]
    BY <2>2, <2>3
  <2>5. record[e] \in {Contract!Blank, Contract!Accepted}
    BY <2>1
  <2>6. starts[e] = 0 /\ ~cancelSeen[e] /\ ~lapsed[e]
        /\ UNCHANGED <<starts, told, cancelSeen, lapsed>>
    BY <1>3, <1>4 DEF Fresh
  <2>7. Contract!Accept(e)
    BY <2>4, <2>5, <2>6, Zenon DEF Contract!Accept
  <2> QED BY <1>9, <2>7 DEF Promise, Contract!ContractNext
<1> QED BY <1>6, <1>10, <1>11

(* A restart fails what was active or not cleaned up, keeps the answers,   *)
(* and runs nothing.                                                       *)
LEMMA ReconcileKeepsContract ==
  ASSUME Inv, ContractInv, NEW e \in Executions, Reconcile(e)
  PROVE  ContractInv' /\ Promise
<1> USE DEF runVars, guestVars, histVars
<1>1. PICK gone, ok \in Outcomes :
        /\ box' = [box EXCEPT ![e] = AfterDestroy(e, gone)]
        /\ \/ \E w \in Writes :
                LET r == [rec[e] EXCEPT !.state = "failed",
                            !.result = [status |-> "failed", checkpoint |-> FALSE,
                                        verified |-> SeenGone(e, gone, ok)]]
                IN /\ disk' = Persisted(e, r, w)
                   /\ IF w = "ok"
                      THEN /\ rec' = [rec EXCEPT ![e] = r]
                           /\ todo' = todo \ {e}
                           /\ UNCHANGED <<mode, pc, ctx, runVars>>
                      ELSE Forget
           \/ ~ok /\ rec[e].sandbox /\ Forget /\ UNCHANGED disk
  BY Zenon DEF Reconcile
<1>2. /\ mode = "opening" /\ e \in todo /\ UNCHANGED <<lease, starts, told>>
      /\ UNCHANGED <<cancelSeen, lapsed>>
  BY DEF Reconcile
<1>3. PICK v \in BOOLEAN : v = SeenGone(e, gone, ok)
  BY DEF SeenGone, Outcomes
<1>4. PICK y \in Records : /\ y = rec[e] /\ y = disk[e]
                           /\ NeedsCleanup(y) /\ y.state # "none"
  BY <1>2 DEF Inv, TypeOK, Sound, Reopened, NeedsCleanup
<1> DEFINE r == [y EXCEPT !.state = "failed",
                   !.result = [status |-> "failed", checkpoint |-> FALSE,
                               verified |-> v]]
<1>5. /\ r \in Records /\ r.state = "failed" /\ r.checkpoint = y.checkpoint
      /\ r.decisions = y.decisions
      /\ r.result = [status |-> "failed", checkpoint |-> FALSE, verified |-> v]
  <2>1. [status |-> "failed", checkpoint |-> FALSE, verified |-> v] \in TurnResults
    BY DEF TurnResults, TurnStates
  <2> QED BY <2>1 DEF Records, TurnStates
<1>6. \/ \E w \in Writes :
            /\ disk' = Persisted(e, r, w)
            /\ IF w = "ok" THEN /\ rec' = [rec EXCEPT ![e] = r]
                                /\ todo' = todo \ {e}
                                /\ UNCHANGED <<mode, pc, ctx, runVars>>
                           ELSE Forget
      \/ Forget /\ UNCHANGED disk
  BY <1>1, <1>3, <1>4, Zenon
<1> HIDE DEF r
<1>7. /\ disk'[e] = r \/ disk'[e] = disk[e]
      /\ \A d \in Executions \ {e} : disk'[d] = disk[d]
  BY <1>5, <1>6, Written DEF Inv, TypeOK
<1>8. Draft(e) /\ Ran(e) /\ Once(e) /\ pc[e] = "none"
  BY <1>2 DEF ContractInv, Inv, Sound, Phase, Serving
<1>9. ContractInv'
  <2>1. CASE Forget
    <3>1. ASSUME NEW d \in Executions
          PROVE  /\ disk'[d].state \in {"none", "queued", "running"} =>
                      disk'[d].result = NoResult /\ ~disk'[d].checkpoint
                 /\ Contract!DecidedOnce(disk'[d].decisions)
      <4>1. Draft(d) /\ Once(d)
        BY DEF ContractInv
      <4> QED BY <1>4, <1>5, <1>7, <1>8, <4>1 DEF Draft, Once
    <3> QED BY <1>2, <2>1, <3>1, ForgetKeepsContract
  <2>2. CASE /\ rec' = [rec EXCEPT ![e] = r] /\ todo' = todo \ {e}
             /\ UNCHANGED <<mode, pc, ctx, runVars>>
    <3>1. /\ rec'[e] = r
          /\ \A d \in Executions \ {e} : rec'[d] = rec[d] /\ box'[d] = box[d]
      BY <1>1, <2>2 DEF Inv, TypeOK
    <3>2. Draft(e)' /\ Once(e)'
      BY <1>4, <1>5, <1>7, <1>8, <2>2, <3>1 DEF Draft, Once, Running
    <3>3. Ran(e)'
      BY <1>2, <1>8, <2>2 DEF Ran
    <3>4. ASSUME NEW d \in Executions \ {e} PROVE Same(d) /\ checkpoint'[d] = checkpoint[d]
      BY <1>2, <1>7, <2>2, <3>1 DEF Same
    <3>5. Apart(e)
      BY <3>2, <3>3, <3>4 DEF Apart
    <3> QED BY <3>5, ApartKeeps
  <2> QED BY <1>6, <2>1, <2>2
<1>10. CASE disk'[e] = disk[e]
  <2>1. disk' = disk
    BY <1>6, <1>7, <1>10 DEF Persisted, Inv, TypeOK
  <2> QED BY <1>2, <1>9, <2>1, Silent
<1>11. CASE disk'[e] = r
  <2> DEFINE record == [x \in Executions |-> Standing(x)]
             failed == [state |-> "failed", checkpoint |-> record[e].checkpoint,
                        decisions |-> record[e].decisions,
                        result |-> [status |-> "failed", checkpoint |-> FALSE,
                                    verified |-> v]]
  <2>1. /\ record[e].state = y.state /\ record[e].checkpoint = y.checkpoint
        /\ record[e].decisions = y.decisions /\ record[e].result = y.result
    BY <1>4 DEF Standing
  <2>2. record[e] # Contract!Blank
    BY <1>4, <2>1 DEF Contract!Blank, Contract!Unended
  <2>3. Contract!active(e) \/ ~record[e].result.verified
    BY <1>4, <2>1 DEF Contract!active, NeedsCleanup, cleanupUnverified, terminal
  <2>4. Standing(e)' = failed
    BY <1>4, <1>5, <1>11, <2>1 DEF Standing
  <2>5. \A x \in Executions \ {e} : Standing(x)' = Standing(x)
    BY <1>7 DEF Standing
  <2>6. record' = [record EXCEPT ![e] = failed]
    <3> HIDE DEF failed
    <3> QED BY <2>4, <2>5
  <2>7. UNCHANGED <<starts, told, cancelSeen, lapsed>>
    BY <1>2
  <2>8. Contract!GiveUp(e, v)
    BY <2>2, <2>3, <2>6, <2>7, Zenon DEF Contract!GiveUp
  <2> QED BY <1>9, <2>8 DEF Promise, Contract!ContractNext
<1> QED BY <1>7, <1>10, <1>11

(* Nothing has been decided, written or started at first. *)
LEMMA InitContract == Init => ContractInv /\ Contract!ContractInit
<1> SUFFICES ASSUME Init PROVE ContractInv /\ Contract!ContractInit
  OBVIOUS
<1>1. Contract!DecidedOnce({})
  BY DEF Contract!DecidedOnce
<1>2. ContractInv
  BY <1>1 DEF Init, ContractInv, Draft, Ran, Once, Running, Locked, NoRecord
<1>3. \A e \in Executions : Standing(e) = Contract!Blank
  BY DEF Init, Standing, NoRecord, NoResult, Contract!Blank, Contract!Unended
<1>4. [x \in Executions |-> Standing(x)] = [x \in Executions |-> Contract!Blank]
  BY <1>3
<1>5. told = [e \in Executions |-> [op |-> [id |-> "none", dig |-> "none"], dec |-> "none"]]
  BY DEF Init, NoDecision, None
<1>6. Contract!ContractInit
  BY <1>4, <1>5 DEF Init, Contract!ContractInit
<1> QED BY <1>2, <1>6

(* Every step keeps the contract. *)
LEMMA NextKeepsContract ==
  ASSUME Inv, ContractInv, [Next]_vars
  PROVE  ContractInv' /\ Promise
<1>1. ASSUME NEW e \in Executions, Owner(e)
      PROVE  ContractInv' /\ Promise
  BY <1>1, submitKeepsContract, PersistKeepsContract, AnswerKeepsContract DEF Owner
<1>2. ASSUME NEW e \in Executions, Runner(e) \/ LoopEnds(e) \/ PollFails(e) \/ PollOutput(e)
      PROVE  ContractInv' /\ Promise
  BY <1>2, RunnerKeepsContract, RecordSandboxKeepsContract, StageKeepsContract,
     pollPermissionKeepsContract, FinishPublishKeepsContract, PersistKeepsContract
     DEF Runner, finish
<1>3. ASSUME NEW e \in Executions,
             \/ Deadline(e) \/ LeaseWatch(e) \/ ProviderSettles(e) \/ PollRead(e)
             \/ \E op \in Operations : GuestAsks(e, op)
      PROVE  ContractInv' /\ Promise
  BY <1>3, WorldKeepsContract
<1>4. ASSUME NEW e \in Executions, Reconcile(e)
      PROVE  ContractInv' /\ Promise
  BY <1>4, ReconcileKeepsContract
<1>5. CASE Tick \/ Crash \/ Close \/ ExitProcess \/ Open \/ Opened
  BY <1>5, TickKeepsContract, ProcessKeepsContract
<1>6. CASE UNCHANGED vars
  <2>1. ContractInv' /\ UNCHANGED <<disk, starts, told, cancelSeen, lapsed>>
    BY <1>6 DEF vars, procVars, runVars, boxVars, guestVars, histVars, ContractInv,
       Draft, Ran, Once, Running
  <2> QED BY <2>1, Silent
<1> QED BY <1>1, <1>2, <1>3, <1>4, <1>5, <1>6 DEF Next

(* The service, with its memory, its runners, its contexts and leases, the *)
(* provider, failing writes, crashes and restarts, does to its durable     *)
(* records and to the guest what TurnContract says and nothing else.       *)
THEOREM TurnImplementsContract == Spec => ImplementsContract
<1>1. Init => (Inv /\ ContractInv) /\ Contract!ContractInit
  BY InitIsSound, InitContract
<1>2. (Inv /\ ContractInv) /\ [Next]_vars => (Inv /\ ContractInv)' /\ Promise
  BY NextIsSound, StutterIsSound, NextKeepsContract
<1> QED
  BY <1>1, <1>2, PTL DEF Spec, ImplementsContract, Contract!ContractSpec, Promise
=============================================================================
