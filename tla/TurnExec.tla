------------------------------ MODULE TurnExec ------------------------------
(***************************************************************************)
(* The turn execution service (internal/turnexec): a private HTTP service  *)
(* that runs each accepted execution once, in a fresh microVM, on a        *)
(* goroutine of its own, under an ownership lease, and keeps one durable   *)
(* record per execution.                                                   *)
(*                                                                         *)
(* Interleaved here: the runner goroutine of every execution, the          *)
(* goroutine that waits for its command, its lease watcher, the owner's    *)
(* requests (submit, renew, cancel, answer a permission), the guest asking *)
(* for permissions, time, a provider that loses responses or answers late, *)
(* a disk that refuses a write, an orderly stop, crashes and restarts.     *)
(* s.mu guards the records; finish() holds it over several reads of a      *)
(* context that may expire meanwhile, so finish() is three steps.          *)
(***************************************************************************)
EXTENDS Naturals, FiniteSets

CONSTANTS
  Executions,     \* execution IDs the client may submit
  MaxActive,      \* 16: submit's capacity
  MaxPermissions, \* 1000: decisions kept per execution
  LeaseTicks,     \* s.lease in ticks of the model's clock
  Operations,     \* [id, dig]: operations the guest may ask permission for
  Faults,         \* what may go wrong around the service
  MaxCrashes      \* bound: crashes of the service process

ASSUME TurnBounds ==
  /\ MaxActive \in Nat \ {0}
  /\ MaxPermissions \in Nat
  /\ LeaseTicks \in Nat \ {0}
  /\ MaxCrashes \in Nat

ASSUME FaultsAssumption ==
  Faults \subseteq {"persist", "create_lost", "create_late", "provider"}

VARIABLES
  mode,       \* the process: "down", "opening", "up" or "closing"
  rec,        \* s.records
  disk,       \* executions/<id>.json
  blob,       \* blobs/<sha>.json holds the execution's checkpoint
  pc,         \* the runner goroutine
  ctx,        \* the execution's context
  lease,      \* ticks left before Status.LeaseExpiresAt
  exit,       \* what Execute returned
  failure,    \* run's failure # ""
  checkpoint, \* run collected a checkpoint manifest
  verified,   \* run saw the sandbox gone
  leaseExpired, \* finish's local
  final,      \* finish's local state
  seen,       \* the permission file as the current poll has read it
  box,        \* the provider: the sandbox carrying the execution's metadata
  starts,     \* how often the harness was started
  ask, told,  \* the guest's permission file and decision file
  todo,       \* Open: records still to reconcile
  crashes,
  lapsed,     \* history: the lease ran out before finish looked at it
  cancelSeen  \* history: the owner cancelled the active execution

runVars  == <<exit, failure, checkpoint, verified, leaseExpired, final, seen>>
boxVars  == <<box, starts>>
guestVars == <<ask, told>>
procVars == <<mode, todo, crashes>>
histVars == <<lapsed, cancelSeen>>

vars == <<procVars, rec, disk, blob, pc, ctx, lease, runVars, boxVars,
          guestVars, histVars>>

-----------------------------------------------------------------------------
(* Values *)

TurnStates == {"queued", "running", "completed", "failed", "timed_out",
               "cancelled"}

(* types.go terminal(); "none" stands for an ID without a record. *)
terminal(state) == state \notin {"none", "queued", "running"}

None == [id |-> "none", dig |-> "none"]

Decisions == [op : Operations, dec : {"allow", "deny"}]
NoDecision == [op |-> None, dec |-> "none"]

NoResult == [status |-> "none", checkpoint |-> FALSE, verified |-> FALSE]
TurnResults == [status : TurnStates \cup {"none"}, checkpoint : BOOLEAN,
                verified : BOOLEAN]

(* The persisted record: its state, Status.Checkpoint, SandboxID # "",     *)
(* PendingPermission, Decisions and Result.                                *)
NoRecord == [state |-> "none", checkpoint |-> FALSE, sandbox |-> FALSE,
             pending |-> None, decisions |-> {}, result |-> NoResult]
Records == [state : TurnStates \cup {"none"}, checkpoint : BOOLEAN,
            sandbox : BOOLEAN, pending : Operations \cup {None},
            decisions : SUBSET Decisions, result : TurnResults]

Steps == {"none", "creating", "cleanup_identity", "identify", "stage",
          "execute", "drain", "collect", "destroy", "finish",
          "finish_lease", "finish_publish", "done"}

BoxStates == {"none", "pending", "live"}
Exits == {"none", "zero", "nonzero", "timed_out", "limit", "error"}

-----------------------------------------------------------------------------
(* Helpers *)

Serving == mode \in {"up", "closing"}

(* s.mu: handlers, the watcher and polls take and release it in one step;  *)
(* finish keeps it from its first read to its persist.                     *)
Unlocked == \A e \in Executions : pc[e] \notin {"finish_lease", "finish_publish"}

(* Mutant: counts the executions that have a sandbox. *)
ActiveRunning == {e \in Executions : rec[e].state = "running"}

Active == {e \in Executions : rec[e].state \in {"queued", "running"}}

(* persist/atomicWrite: it succeeds, fails with the old file in place, or  *)
(* fails after the rename (closing or syncing the directory).              *)
Writes == {"ok"} \cup (IF "persist" \in Faults THEN {"lost", "unsynced"} ELSE {})

Persisted(e, r, w) == IF w = "lost" THEN disk ELSE [disk EXCEPT ![e] = r]

Cancelled(e) == IF ctx[e] = "live" THEN [ctx EXCEPT ![e] = "cancelled"] ELSE ctx

(* What Destroy followed by List may leave and report: the sandbox may     *)
(* survive, and either call may fail although the sandbox is gone.         *)
Outcomes == IF "provider" \in Faults THEN BOOLEAN ELSE {TRUE}
AfterDestroy(e, gone) == IF box[e] = "live" /\ gone THEN "none" ELSE box[e]
SeenGone(e, gone, ok) == ok /\ AfterDestroy(e, gone) # "live"

(* service.go cleanupUnverified *)
cleanupUnverified(r) == ~r.result.verified

(* Mutant: a restart reconciles every record. *)
NeedsCleanupAlways(r) == r.state # "none"

NeedsCleanup(r) == r.state # "none" /\ (~terminal(r.state) \/ cleanupUnverified(r))

Decided(r, id) == {d \in r.decisions : d.op.id = id}

-----------------------------------------------------------------------------
Init ==
  /\ mode = "up" /\ todo = {} /\ crashes = 0
  /\ rec = [e \in Executions |-> NoRecord]
  /\ disk = [e \in Executions |-> NoRecord]
  /\ blob = [e \in Executions |-> FALSE]
  /\ pc = [e \in Executions |-> "none"]
  /\ ctx = [e \in Executions |-> "live"]
  /\ lease = [e \in Executions |-> 0]
  /\ exit = [e \in Executions |-> "none"]
  /\ failure = [e \in Executions |-> FALSE]
  /\ checkpoint = [e \in Executions |-> FALSE]
  /\ verified = [e \in Executions |-> FALSE]
  /\ leaseExpired = [e \in Executions |-> FALSE]
  /\ final = [e \in Executions |-> "none"]
  /\ seen = [e \in Executions |-> None]
  /\ box = [e \in Executions |-> "none"]
  /\ starts = [e \in Executions |-> 0]
  /\ ask = [e \in Executions |-> None]
  /\ told = [e \in Executions |-> NoDecision]
  /\ lapsed = [e \in Executions |-> FALSE]
  /\ cancelSeen = [e \in Executions |-> FALSE]

-----------------------------------------------------------------------------
(* Requests of the owner.  A repeated submit of a known ID, a conflict, a  *)
(* full service and a stopping service change nothing.                     *)

submit(e) ==
  /\ mode = "up" /\ Unlocked
  /\ rec[e].state = "none"
  /\ Cardinality(Active) < MaxActive
  /\ \E w \in Writes :
       LET r == [NoRecord EXCEPT !.state = "queued"] IN
       /\ disk' = Persisted(e, r, w)
       /\ IF w = "ok"
          THEN /\ rec' = [rec EXCEPT ![e] = r]
               /\ pc' = [pc EXCEPT ![e] = "creating"]
               /\ ctx' = [ctx EXCEPT ![e] = "live"]
               /\ lease' = [lease EXCEPT ![e] = LeaseTicks]
          ELSE UNCHANGED <<rec, pc, ctx, lease>>
  /\ UNCHANGED <<procVars, blob, runVars, boxVars, guestVars, histVars>>

(* Mutant: notes the cancellation and leaves the context alone. *)
CancelOnlyNotes(e) ==
  /\ Serving /\ Unlocked /\ e \in Active
  /\ \E w \in Writes : disk' = Persisted(e, rec[e], w)
  /\ cancelSeen' = [cancelSeen EXCEPT ![e] = TRUE]
  /\ UNCHANGED <<procVars, rec, blob, pc, ctx, lease, runVars, boxVars, guestVars,
                 lapsed>>

cancel(e) ==
  /\ Serving /\ Unlocked /\ e \in Active
  /\ ctx' = Cancelled(e)
  /\ \E w \in Writes : disk' = Persisted(e, rec[e], w)
  /\ cancelSeen' = [cancelSeen EXCEPT ![e] = TRUE]
  /\ UNCHANGED <<procVars, rec, blob, pc, lease, runVars, boxVars, guestVars,
                 lapsed>>

renew(e) ==
  /\ Serving /\ Unlocked /\ e \in Active
  /\ lease[e] > 0
  /\ lease' = [lease EXCEPT ![e] = LeaseTicks]
  /\ \E w \in Writes :
       /\ disk' = Persisted(e, rec[e], w)
       /\ ctx' = IF w = "ok" THEN ctx ELSE Cancelled(e)
  /\ UNCHANGED <<procVars, rec, blob, pc, runVars, boxVars, guestVars, histVars>>

(* Mutant: a decision that could not be persisted stands. *)
AnswerStands(e, op, dec) ==
  /\ Serving /\ Unlocked /\ e \in Active
  /\ Decided(rec[e], op.id) = {}
  /\ lease[e] > 0
  /\ rec[e].pending = op
  /\ rec' = [rec EXCEPT ![e].decisions = @ \cup {[op |-> op, dec |-> dec]}]
  /\ \E w \in Writes : disk' = Persisted(e, rec'[e], w)
  /\ UNCHANGED <<procVars, blob, pc, ctx, lease, runVars, boxVars, guestVars,
                 histVars>>

(* The owner answers an operation it was shown; anything but the exact     *)
(* pending one is stale, and a second answer to a decided one is a no-op.  *)
answerPermission(e, op, dec) ==
  /\ Serving /\ Unlocked /\ e \in Active
  /\ Decided(rec[e], op.id) = {}
  /\ lease[e] > 0
  /\ rec[e].pending = op
  /\ LET r == [rec[e] EXCEPT !.decisions = @ \cup {[op |-> op, dec |-> dec]}] IN
     /\ rec' = [rec EXCEPT ![e] = r]
     /\ \E w \in Writes :
          /\ disk' = Persisted(e, r, w)
          /\ ctx' = IF w = "ok" THEN ctx ELSE Cancelled(e)
  /\ UNCHANGED <<procVars, blob, pc, lease, runVars, boxVars, guestVars, histVars>>

-----------------------------------------------------------------------------
(* Time *)

Tick ==
  /\ \E e \in Executions : lease[e] > 0
  /\ lease' = [e \in Executions |-> IF lease[e] > 0 THEN lease[e] - 1 ELSE 0]
  /\ lapsed' = [e \in Executions |->
                  lapsed[e] \/ /\ lease'[e] = 0
                               /\ pc[e] \notin {"none", "finish_publish", "done"}]
  /\ UNCHANGED <<procVars, rec, disk, blob, pc, ctx, runVars, boxVars, guestVars,
                 cancelSeen>>

(* The profile's timeout on the execution's context; no lock is involved. *)
Deadline(e) ==
  /\ pc[e] \notin {"none", "done"}
  /\ ctx[e] = "live"
  /\ ctx' = [ctx EXCEPT ![e] = "deadline"]
  /\ UNCHANGED <<procVars, rec, disk, blob, pc, lease, runVars, boxVars,
                 guestVars, histVars>>

(* run's lease watcher, once a second. *)
LeaseWatch(e) ==
  /\ pc[e] \notin {"none", "done"} /\ Unlocked
  /\ lease[e] = 0
  /\ ctx[e] = "live"
  /\ ctx' = Cancelled(e)
  /\ UNCHANGED <<procVars, rec, disk, blob, pc, lease, runVars, boxVars,
                 guestVars, histVars>>

-----------------------------------------------------------------------------
(* The runner *)

(* provider.Create: it returns a sandbox, or fails having created none, or *)
(* fails although one exists or is about to (a lost response).  With the   *)
(* context over it only fails.                                             *)
CreateSandbox(e) ==
  /\ pc[e] = "creating"
  /\ \/ /\ ctx[e] = "live"
        /\ box' = [box EXCEPT ![e] = "live"]
        /\ pc' = [pc EXCEPT ![e] = "identify"]
        /\ UNCHANGED failure
     \/ /\ \E b \in {"none"} \cup (IF "create_lost" \in Faults THEN {"live"} ELSE {})
                             \cup (IF "create_late" \in Faults THEN {"pending"} ELSE {}) :
             box' = [box EXCEPT ![e] = b]
        /\ pc' = [pc EXCEPT ![e] = "cleanup_identity"]
        /\ failure' = [failure EXCEPT ![e] = TRUE]
  /\ UNCHANGED <<procVars, rec, disk, blob, ctx, lease, exit, checkpoint, verified,
                 leaseExpired, final, seen, starts, guestVars, histVars>>

(* The control plane works off a create whose caller has gone. *)
ProviderSettles(e) ==
  /\ box[e] = "pending"
  /\ \E b \in {"none", "live"} : box' = [box EXCEPT ![e] = b]
  /\ UNCHANGED <<procVars, rec, disk, blob, pc, ctx, lease, runVars, starts,
                 guestVars, histVars>>

(* After a failed create: find the sandbox by its metadata and destroy it. *)
cleanupIdentity(e) ==
  /\ pc[e] = "cleanup_identity"
  /\ \E gone, ok \in Outcomes :
       /\ box' = [box EXCEPT ![e] = AfterDestroy(e, gone)]
       /\ verified' = [verified EXCEPT ![e] = SeenGone(e, gone, ok)]
  /\ pc' = [pc EXCEPT ![e] = "finish"]
  /\ UNCHANGED <<procVars, rec, disk, blob, ctx, lease, exit, failure, checkpoint,
                 leaseExpired, final, seen, starts, guestVars, histVars>>

(* The sandbox identity is durable before anything runs in the sandbox. *)
RecordSandbox(e) ==
  /\ pc[e] = "identify" /\ Unlocked
  /\ LET r == [rec[e] EXCEPT !.state = "running", !.sandbox = TRUE] IN
     /\ rec' = [rec EXCEPT ![e] = r]
     /\ \E w \in Writes :
          /\ disk' = Persisted(e, r, w)
          /\ failure' = [failure EXCEPT ![e] = w # "ok"]
          /\ pc' = [pc EXCEPT ![e] = IF w = "ok" THEN "stage" ELSE "destroy"]
  /\ UNCHANGED <<procVars, blob, ctx, lease, exit, checkpoint, verified,
                 leaseExpired, final, seen, boxVars, guestVars, histVars>>

(* Resource validation, harness staging, restore and the run's files: the  *)
(* first error ends it.  Then Execute is started on its own goroutine.     *)
Stage(e) ==
  /\ pc[e] = "stage"
  /\ \/ /\ ctx[e] = "live"
        /\ pc' = [pc EXCEPT ![e] = "execute"]
        /\ starts' = [starts EXCEPT ![e] = @ + 1]
        /\ UNCHANGED failure
     \/ /\ pc' = [pc EXCEPT ![e] = "destroy"]
        /\ failure' = [failure EXCEPT ![e] = TRUE]
        /\ UNCHANGED starts
  /\ UNCHANGED <<procVars, rec, disk, blob, ctx, lease, exit, checkpoint, verified,
                 leaseExpired, final, seen, box, guestVars, histVars>>

ExecuteReturns(e) ==
  /\ pc[e] = "execute" /\ exit[e] = "none"
  /\ \E x \in Exits \ {"none"} : exit' = [exit EXCEPT ![e] = x]
  /\ UNCHANGED <<procVars, rec, disk, blob, pc, ctx, lease, failure, checkpoint,
                 verified, leaseExpired, final, seen, boxVars, guestVars, histVars>>

(* Mutant: the loop listens only while the context lives. *)
LoopEndsLive(e) ==
  /\ pc[e] = "execute" /\ exit[e] # "none" /\ seen[e] = None /\ ctx[e] = "live"
  /\ pc' = [pc EXCEPT ![e] = "drain"]
  /\ UNCHANGED <<procVars, rec, disk, blob, ctx, lease, runVars, boxVars,
                 guestVars, histVars>>

(* The loop's select takes the result; one last poll follows. *)
LoopEnds(e) ==
  /\ pc[e] = "execute" /\ exit[e] # "none" /\ seen[e] = None
  /\ pc' = [pc EXCEPT ![e] = "drain"]
  /\ UNCHANGED <<procVars, rec, disk, blob, ctx, lease, runVars, boxVars,
                 guestVars, histVars>>

AfterPoll(e) ==
  pc' = [pc EXCEPT ![e] = IF pc[e] = "drain" THEN "collect" ELSE pc[e]]

Polling(e) == pc[e] \in {"execute", "drain"}

(* The last poll reads nothing: no file, or a context that is over. *)
PollNothing(e) ==
  /\ pc[e] = "drain" /\ seen[e] = None
  /\ AfterPoll(e)
  /\ UNCHANGED <<procVars, rec, disk, blob, ctx, lease, runVars, boxVars,
                 guestVars, histVars>>

(* An oversized or malformed request, or too much output. *)
PollFails(e) ==
  /\ Polling(e) /\ seen[e] = None /\ ctx[e] = "live"
  /\ failure' = [failure EXCEPT ![e] = TRUE]
  /\ ctx' = Cancelled(e)
  /\ AfterPoll(e)
  /\ UNCHANGED <<procVars, rec, disk, blob, lease, exit, checkpoint, verified,
                 leaseExpired, final, seen, boxVars, guestVars, histVars>>

(* New output becomes an event, and the record is persisted. *)
PollOutput(e) ==
  /\ Polling(e) /\ seen[e] = None /\ ctx[e] = "live" /\ Unlocked
  /\ \E w \in Writes :
       /\ disk' = Persisted(e, rec[e], w)
       /\ failure' = [failure EXCEPT ![e] = failure[e] \/ w # "ok"]
       /\ ctx' = IF w = "ok" THEN ctx ELSE Cancelled(e)
  /\ AfterPoll(e)
  /\ UNCHANGED <<procVars, rec, blob, lease, exit, checkpoint, verified,
                 leaseExpired, final, seen, boxVars, guestVars, histVars>>

(* pollPermission reads the guest's file before it takes the lock ... *)
PollRead(e) ==
  /\ Polling(e) /\ seen[e] = None /\ ctx[e] = "live"
  /\ ask[e] # None
  /\ seen' = [seen EXCEPT ![e] = ask[e]]
  /\ UNCHANGED <<procVars, rec, disk, blob, pc, ctx, lease, exit, failure,
                 checkpoint, verified, leaseExpired, final, boxVars, guestVars,
                 histVars>>

PermissionError(e) ==
  /\ failure' = [failure EXCEPT ![e] = TRUE]
  /\ ctx' = Cancelled(e)

(* ... a decided operation is delivered again, if the context still lets   *)
(* the decision file be written ...                                        *)
Deliver(e) ==
  \E d \in Decided(rec[e], seen[e].id) :
    /\ \/ /\ d.op = seen[e] /\ ctx[e] = "live"
          /\ told' = [told EXCEPT ![e] = d]
          /\ UNCHANGED <<failure, ctx>>
       \/ PermissionError(e) /\ UNCHANGED told
    /\ UNCHANGED <<rec, disk>>

(* ... the pending one is left alone unless its content changed ... *)
StillPending(e) ==
  /\ Decided(rec[e], seen[e].id) = {}
  /\ rec[e].pending.id = seen[e].id
  /\ IF rec[e].pending = seen[e] THEN UNCHANGED <<failure, ctx>>
                                 ELSE PermissionError(e)
  /\ UNCHANGED <<rec, disk, told>>

(* ... and a new one becomes pending when none is open and there is room. *)
Register(e) ==
  /\ Decided(rec[e], seen[e].id) = {}
  /\ rec[e].pending.id # seen[e].id
  /\ IF \/ rec[e].pending # None /\ Decided(rec[e], rec[e].pending.id) = {}
        \/ Cardinality(rec[e].decisions) >= MaxPermissions
     THEN PermissionError(e) /\ UNCHANGED <<rec, disk>>
     ELSE LET r == [rec[e] EXCEPT !.pending = seen[e]] IN
          /\ rec' = [rec EXCEPT ![e] = r]
          /\ \E w \in Writes :
               /\ disk' = Persisted(e, r, w)
               /\ IF w = "ok" THEN UNCHANGED <<failure, ctx>>
                              ELSE PermissionError(e)
  /\ UNCHANGED told

pollPermission(e) ==
  /\ Polling(e) /\ seen[e] # None /\ Unlocked
  /\ Deliver(e) \/ StillPending(e) \/ Register(e)
  /\ seen' = [seen EXCEPT ![e] = None]
  /\ AfterPoll(e)
  /\ UNCHANGED <<procVars, blob, lease, exit, checkpoint, verified, leaseExpired,
                 final, boxVars, ask, histVars>>

(* After the loop: an Execute error or the output limit is a failure; a    *)
(* checkpoint is collected only from a run that is still good.             *)
Collect(e) ==
  /\ pc[e] = "collect"
  /\ LET bad == failure[e] \/ exit[e] \in {"error", "limit"} IN
     \/ /\ ~bad /\ ctx[e] = "live"
        /\ \E ok \in BOOLEAN :
             /\ checkpoint' = [checkpoint EXCEPT ![e] = ok]
             /\ failure' = [failure EXCEPT ![e] = ~ok]
     \/ /\ bad \/ ctx[e] # "live"
        /\ failure' = [failure EXCEPT ![e] = bad]
        /\ UNCHANGED checkpoint
  /\ pc' = [pc EXCEPT ![e] = "destroy"]
  /\ UNCHANGED <<procVars, rec, disk, blob, ctx, lease, exit, verified,
                 leaseExpired, final, seen, boxVars, guestVars, histVars>>

(* Mutant: takes an accepted Destroy for a destroyed sandbox. *)
DestroyUnlisted(e) ==
  /\ pc[e] = "destroy"
  /\ \E gone, ok \in Outcomes :
       /\ box' = [box EXCEPT ![e] = AfterDestroy(e, gone)]
       /\ verified' = [verified EXCEPT ![e] = ok]
  /\ pc' = [pc EXCEPT ![e] = "finish"]
  /\ UNCHANGED <<procVars, rec, disk, blob, ctx, lease, exit, failure, checkpoint,
                 leaseExpired, final, seen, starts, guestVars, histVars>>

(* On a context of its own, so that a cancelled turn is cleaned up too. *)
DestroySandbox(e) ==
  /\ pc[e] = "destroy"
  /\ \E gone, ok \in Outcomes :
       /\ box' = [box EXCEPT ![e] = AfterDestroy(e, gone)]
       /\ verified' = [verified EXCEPT ![e] = SeenGone(e, gone, ok)]
  /\ pc' = [pc EXCEPT ![e] = "finish"]
  /\ UNCHANGED <<procVars, rec, disk, blob, ctx, lease, exit, failure, checkpoint,
                 leaseExpired, final, seen, starts, guestVars, histVars>>

-----------------------------------------------------------------------------
(* finish, with s.mu held throughout *)

(* The verdict of the exit and of a first look at the context. *)
FinishState(e) ==
  /\ pc[e] = "finish" /\ Unlocked
  /\ final' = [final EXCEPT ![e] =
       IF ctx[e] = "cancelled" THEN "cancelled"
       ELSE IF ctx[e] = "deadline" \/ exit[e] = "timed_out" THEN "timed_out"
       ELSE IF failure[e] \/ exit[e] \in {"nonzero", "limit"} THEN "failed"
       ELSE "completed"]
  /\ pc' = [pc EXCEPT ![e] = "finish_lease"]
  /\ UNCHANGED <<procVars, rec, disk, blob, ctx, lease, exit, failure, checkpoint,
                 verified, leaseExpired, seen, boxVars, guestVars, histVars>>

(* The lease and a second look at the context; then cleanup and the        *)
(* harness's own result can still turn a completed turn into a failed one. *)
FinishLease(e) ==
  /\ pc[e] = "finish_lease"
  /\ leaseExpired' = [leaseExpired EXCEPT ![e] = lease[e] = 0]
  /\ \E resultJSON \in BOOLEAN :
       LET s == IF lease[e] = 0 /\ ctx[e] = "live" THEN "cancelled" ELSE final[e]
       IN final' = [final EXCEPT ![e] =
            IF s = "completed" /\ ~(verified[e] /\ resultJSON) THEN "failed" ELSE s]
  /\ pc' = [pc EXCEPT ![e] = "finish_publish"]
  /\ UNCHANGED <<procVars, rec, disk, blob, ctx, lease, exit, failure, checkpoint,
                 verified, seen, boxVars, guestVars, histVars>>

(* A third look decides whether the checkpoint is put; putManifest returns *)
(* the digest also when the write failed, and the digest is what both the  *)
(* status and the result carry.                                            *)
FinishPublish(e) ==
  /\ pc[e] = "finish_publish"
  /\ LET put == checkpoint[e] /\ ctx[e] = "live" /\ ~leaseExpired[e] IN
     \E pw \in (IF put THEN Writes ELSE {"ok"}), w \in Writes :
       LET s == IF pw = "ok" THEN final[e] ELSE "failed"
           r == [rec[e] EXCEPT !.state = s, !.checkpoint = put,
                   !.result = [status |-> s, checkpoint |-> put,
                               verified |-> verified[e]]]
       IN /\ blob' = [blob EXCEPT ![e] = blob[e] \/ (put /\ pw # "lost")]
          /\ disk' = Persisted(e, r, w)
          /\ rec' = [rec EXCEPT ![e] =
               IF w = "ok" THEN r
               ELSE [r EXCEPT !.state = "failed", !.result = NoResult]]
  /\ pc' = [pc EXCEPT ![e] = "done"]
  /\ UNCHANGED <<procVars, ctx, lease, runVars, boxVars, guestVars, histVars>>

-----------------------------------------------------------------------------
(* The guest: its permission gate writes one request file, and code in the *)
(* sandbox can overwrite that file with any other request.                 *)

GuestAsks(e, op) ==
  /\ pc[e] = "execute" /\ box[e] = "live" /\ exit[e] = "none"
  /\ ask[e] # op
  /\ ask' = [ask EXCEPT ![e] = op]
  /\ UNCHANGED <<procVars, rec, disk, blob, pc, ctx, lease, runVars, boxVars, told,
                 histVars>>

-----------------------------------------------------------------------------
(* The process *)

(* Memory is gone: records, goroutines and their locals.  A create that    *)
(* was in flight may still take effect.                                    *)
Forget ==
  /\ mode' = "down" /\ todo' = {}
  /\ rec' = [e \in Executions |-> NoRecord]
  /\ pc' = [e \in Executions |-> "none"]
  /\ ctx' = [e \in Executions |-> "live"]
  /\ exit' = [e \in Executions |-> "none"]
  /\ failure' = [e \in Executions |-> FALSE]
  /\ checkpoint' = [e \in Executions |-> FALSE]
  /\ verified' = [e \in Executions |-> FALSE]
  /\ leaseExpired' = [e \in Executions |-> FALSE]
  /\ final' = [e \in Executions |-> "none"]
  /\ seen' = [e \in Executions |-> None]

Crash ==
  /\ mode # "down" /\ crashes < MaxCrashes
  /\ crashes' = crashes + 1
  /\ Forget
  /\ \E late \in SUBSET {e \in Executions : pc[e] = "creating"},
        b \in {"live"} \cup (IF "create_late" \in Faults THEN {"pending"} ELSE {}) :
       box' = [e \in Executions |-> IF e \in late THEN b ELSE box[e]]
  /\ UNCHANGED <<disk, blob, lease, starts, guestVars, histVars>>

(* Close cancels every execution, waits for the runners and exits. *)
Close ==
  /\ mode = "up" /\ Unlocked
  /\ mode' = "closing"
  /\ ctx' = [e \in Executions |->
               IF pc[e] \notin {"none", "done"} /\ ctx[e] = "live"
               THEN "cancelled" ELSE ctx[e]]
  /\ UNCHANGED <<todo, crashes, rec, disk, blob, pc, lease, runVars, boxVars,
                 guestVars, histVars>>

ExitProcess ==
  /\ mode = "closing"
  /\ \A e \in Executions : pc[e] \in {"none", "done"}
  /\ Forget
  /\ UNCHANGED <<crashes, disk, blob, lease, boxVars, guestVars, histVars>>

(* Open loads the records and destroys, by metadata, the sandboxes of      *)
(* those that are unfinished or whose cleanup was not verified; a provider *)
(* error, possibly after some were destroyed, ends it.                     *)
Open ==
  /\ mode = "down"
  /\ LET stale == {e \in Executions : NeedsCleanup(disk[e])} IN
     /\ \E gone \in SUBSET {e \in stale : box[e] = "live"} :
          /\ "provider" \notin Faults => gone = {e \in stale : box[e] = "live"}
          /\ box' = [e \in Executions |-> IF e \in gone THEN "none" ELSE box[e]]
     /\ \/ /\ mode' = "opening" /\ rec' = disk /\ todo' = stale
        \/ /\ "provider" \in Faults
           /\ \E e \in Executions : disk[e].state # "none"
           /\ UNCHANGED <<mode, rec, todo>>
  /\ UNCHANGED <<crashes, disk, blob, pc, ctx, lease, runVars, starts, guestVars,
                 histVars>>

(* Mutant: a restart runs the interrupted executions again. *)
ReconcileRequeues(e) ==
  /\ mode = "opening" /\ e \in todo
  /\ todo' = todo \ {e}
  /\ rec' = [rec EXCEPT ![e] = [NoRecord EXCEPT !.state = "queued"]]
  /\ disk' = [disk EXCEPT ![e] = rec'[e]]
  /\ pc' = [pc EXCEPT ![e] = "creating"]
  /\ UNCHANGED <<mode, crashes, blob, ctx, lease, runVars, boxVars, guestVars,
                 histVars>>

(* Each of those records is failed, never replayed, once its sandbox was   *)
(* destroyed; an error of the provider or of the disk ends Open.           *)
Reconcile(e) ==
  /\ mode = "opening" /\ e \in todo
  /\ \E gone, ok \in Outcomes :
       /\ box' = [box EXCEPT ![e] = AfterDestroy(e, gone)]
       /\ \/ \E w \in Writes :
               LET r == [rec[e] EXCEPT !.state = "failed",
                           !.result = [status |-> "failed", checkpoint |-> FALSE,
                                       verified |-> SeenGone(e, gone, ok)]]
               IN /\ disk' = Persisted(e, r, w)
                  /\ IF w = "ok"
                     THEN /\ rec' = [rec EXCEPT ![e] = r]
                          /\ todo' = todo \ {e}
                          /\ UNCHANGED <<mode, pc, ctx, runVars>>
                     ELSE Forget
          \/ ~ok /\ rec[e].sandbox /\ Forget /\ UNCHANGED disk
  /\ UNCHANGED <<crashes, blob, lease, starts, guestVars, histVars>>

Opened ==
  /\ mode = "opening" /\ todo = {}
  /\ mode' = "up"
  /\ UNCHANGED <<todo, crashes, rec, disk, blob, pc, ctx, lease, runVars, boxVars,
                 guestVars, histVars>>

-----------------------------------------------------------------------------
finish(e) == FinishState(e) \/ FinishLease(e) \/ FinishPublish(e)

(* Steps the runner takes by itself once its turn comes. *)
Runner(e) ==
  \/ CreateSandbox(e) \/ cleanupIdentity(e) \/ RecordSandbox(e) \/ Stage(e)
  \/ ExecuteReturns(e) \/ pollPermission(e) \/ PollNothing(e)
  \/ Collect(e) \/ DestroySandbox(e) \/ finish(e)

Owner(e) ==
  \/ submit(e) \/ cancel(e) \/ renew(e)
  \/ \E op \in Operations, dec \in {"allow", "deny"} : answerPermission(e, op, dec)

Next ==
  \/ \E e \in Executions :
       \/ Owner(e) \/ Runner(e) \/ LoopEnds(e)
       \/ PollFails(e) \/ PollOutput(e) \/ PollRead(e)
       \/ Deadline(e) \/ LeaseWatch(e) \/ ProviderSettles(e) \/ Reconcile(e)
       \/ \E op \in Operations : GuestAsks(e, op)
  \/ Tick \/ Crash \/ Close \/ ExitProcess \/ Open \/ Opened

Spec == Init /\ [][Next]_vars

(* A goroutine that can step does; Execute returns because its command and *)
(* its context have timeouts; and Go's select, between a finished command  *)
(* and the poll ticker, does not prefer the ticker for ever.               *)
TurnFairness ==
  \A e \in Executions : WF_vars(Runner(e)) /\ WF_vars(ExecuteReturns(e))
                        /\ SF_vars(LoopEnds(e))

FairSpec == Spec /\ TurnFairness

-----------------------------------------------------------------------------
(* Properties *)

TypeOK ==
  /\ mode \in {"down", "opening", "up", "closing"}
  /\ todo \subseteq Executions
  /\ crashes \in 0..MaxCrashes
  /\ rec \in [Executions -> Records] /\ disk \in [Executions -> Records]
  /\ pc \in [Executions -> Steps]
  /\ ctx \in [Executions -> {"live", "cancelled", "deadline"}]
  /\ lease \in [Executions -> 0..LeaseTicks]
  /\ exit \in [Executions -> Exits]
  /\ failure \in [Executions -> BOOLEAN] /\ checkpoint \in [Executions -> BOOLEAN]
  /\ verified \in [Executions -> BOOLEAN]
  /\ leaseExpired \in [Executions -> BOOLEAN]
  /\ blob \in [Executions -> BOOLEAN]
  /\ lapsed \in [Executions -> BOOLEAN] /\ cancelSeen \in [Executions -> BOOLEAN]
  /\ final \in [Executions -> TurnStates \cup {"none"}]
  /\ seen \in [Executions -> Operations \cup {None}]
  /\ box \in [Executions -> BoxStates]
  /\ starts \in [Executions -> Nat]
  /\ ask \in [Executions -> Operations \cup {None}]
  /\ told \in [Executions -> Decisions \cup {NoDecision}]

(* No sandbox is beyond reach: whatever crashed, timed out or was refused, *)
(* a live sandbox has a durable record that the next Open will act on      *)
(* (service.go, "Metadata also closes the create-to-persist crash window").*)
LiveSandboxIsRecoverable ==
  \A e \in Executions : box[e] = "live" => NeedsCleanup(disk[e])

(* An execution ID starts the harness at most once, across retries of the  *)
(* submission, failed writes, crashes and restarts ("never replayed").     *)
NeverReplayed == \A e \in Executions : starts[e] <= 1

(* The guest's gate opens for an operation only if the owner allowed that  *)
(* very operation and the decision is durable ("Approval is durable before *)
(* delivery"), although the request file is read before the lock is taken  *)
(* and a decision stands in memory before it is persisted.                 *)
ApprovalIsDurable ==
  \A e \in Executions :
    ask[e] # None /\ told[e] = [op |-> ask[e], dec |-> "allow"]
      => told[e] \in disk[e].decisions

(* An execution its owner cancelled while it was active never completes,   *)
(* and publishes no checkpoint, however far it had come.                   *)
CancelledNeverCompletes ==
  \A e \in Executions :
    cancelSeen[e] => /\ rec[e].state # "completed" /\ disk[e].state # "completed"
                     /\ ~rec[e].checkpoint /\ ~disk[e].checkpoint

(* An execution whose lease ran out before finish publishes no checkpoint, *)
(* whatever renewals arrive and even if the watcher has not fired yet.     *)
LapsedPublishesNothing ==
  \A e \in Executions :
    lapsed[e] => ~rec[e].checkpoint /\ ~disk[e].checkpoint

(* At most MaxActive runners exist: a slot is given back only by a runner  *)
(* that has nothing left to do.                                            *)
CapacityHolds ==
  Cardinality({e \in Executions : pc[e] \notin {"none", "done"}}) <= MaxActive

(* A completed turn was cleaned up: nothing of it is left at the provider. *)
CompletedIsClean ==
  \A e \in Executions : disk[e].state = "completed" =>
    disk[e].result.verified /\ box[e] # "live"

(* A turn is completed, and has its work published, only if nobody         *)
(* cancelled it, its owner was there to the end and its sandbox is gone;   *)
(* every record is well formed on the way.                                 *)
CompletionIsDeserved ==
  /\ TypeOK
  /\ CancelledNeverCompletes
  /\ LapsedPublishesNothing
  /\ CompletedIsClean

(* A durable result with verified cleanup is never rewritten, by a late    *)
(* request, by a runner or by a restart.                                   *)
VerifiedResultIsFinal ==
  [][\A e \in Executions :
       terminal(disk[e].state) /\ disk[e].result.verified => disk'[e] = disk[e]]_vars

(* What TurnContract knows of a record. *)
Standing(e) ==
  [state |-> disk[e].state, checkpoint |-> disk[e].checkpoint,
   decisions |-> disk[e].decisions, result |-> disk[e].result]

Contract == INSTANCE TurnContract
  WITH record <- [e \in Executions |-> Standing(e)],
       begun <- starts, cancelled <- cancelSeen

(* Every execution keeps the promises of TurnContract: whatever crashes,   *)
(* is retried or is refused by the disk, its record moves one way and      *)
(* keeps every answer, the harness starts once and behind it, the guest is *)
(* told only what it says, and its end fits what was asked (service.go).   *)
ImplementsContract == Contract!ContractSpec

(* Every accepted execution ends: its runner returns, or the process goes. *)
TurnEnds ==
  \A e \in Executions : pc[e] = "creating" ~> pc[e] \in {"done", "none"}

(* A checkpoint reference that a status or a result carries can be read    *)
(* ("Terminal results require checkpoint persistence").                    *)
CheckpointIsReadable ==
  \A e \in Executions : rec[e].checkpoint => blob[e]

(* A completed turn has its checkpoint ("Terminal results require          *)
(* checkpoint persistence and verified cleanup").                          *)
CompletedHasCheckpoint ==
  \A e \in Executions : rec[e].state = "completed" => rec[e].checkpoint

(* GET result answers 409 only while the execution is active.              *)
TerminalHasResult ==
  \A e \in Executions :
    mode = "up" /\ terminal(rec[e].state) => rec[e].result # NoResult

(* A restart fails the turns that were active; one that had already ended  *)
(* keeps its end.                                                          *)
RestartFailsOnlyActive ==
  [][\A e \in Executions :
       terminal(disk[e].state) => disk'[e].state = disk[e].state]_vars
=============================================================================
