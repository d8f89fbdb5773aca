-------------------------- MODULE ChangeStoreProofs --------------------------
(***************************************************************************)
(* Proofs about ChangeStore, for any set of runs and any number of         *)
(* attempts.                                                               *)
(*                                                                         *)
(* RecordIsExact is not inductive: a Save writes what its actor loaded, so *)
(* what carries it is that the flock makes the loaded copy the document    *)
(* itself (Exclusive), and that an attempt, hence an activation, exists    *)
(* only of a run whose manifest will not change any more (Settled).  For   *)
(* the same two reasons a Save is one step of ChangeLedger.                *)
(***************************************************************************)
EXTENDS ChangeStore, TLAPS

(* Whoever has loaded the document holds its lock, and the document is     *)
(* still what it loaded.                                                   *)
Exclusive == \A a \in Actors : phase[a] = "loaded" => holder = a /\ copy[a] = change

(* Attempts and activations are of finished runs.                          *)
Settled ==
  /\ \A a \in Attempts : phase[a] # "idle" => Finished(a[1])
  /\ \A r \in ToSet(change.acts) : Finished(r)

Inv == RecordIsExact /\ Exclusive /\ Settled

-----------------------------------------------------------------------------
(* The elements of a sequence to which one was appended.                   *)
LEMMA AppendAddsOne ==
  ASSUME NEW S, NEW q \in Seq(S), NEW e \in S
  PROVE  /\ Append(q, e) \in Seq(S)
         /\ ToSet(Append(q, e)) = ToSet(q) \cup {e}
         /\ e \notin ToSet(q) /\ IsInjective(q) => IsInjective(Append(q, e))
<1> DEFINE p == Append(q, e)
<1>1. /\ p \in Seq(S) /\ Len(q) \in Nat /\ DOMAIN q = 1..Len(q)
      /\ DOMAIN p = 1..(Len(q) + 1)
      /\ p[Len(q) + 1] = e
      /\ \A i \in 1..Len(q) : p[i] = q[i]
  OBVIOUS
<1> HIDE DEF p
<1>2. ToSet(p) = ToSet(q) \cup {e}
  BY <1>1 DEF ToSet
<1>3. ASSUME e \notin ToSet(q), IsInjective(q) PROVE IsInjective(p)
  BY <1>1, <1>3 DEF ToSet, IsInjective
<1> QED
  BY <1>1, <1>2, <1>3 DEF p

(* Folding a run into a document keeps it a document, adds exactly that    *)
(* run, reopens nothing that was closed, and closes on an approval.        *)
LEMMA RecordRunIsSound ==
  ASSUME NEW c \in Documents, NEW r \in Runs, IsInjective(c.acts)
  PROVE  /\ RecordRun(c, r) \in Documents
         /\ ToSet(RecordRun(c, r).acts) = ToSet(c.acts) \cup {r}
         /\ IsInjective(RecordRun(c, r).acts)
         /\ c.status \in {"DONE", "ABANDONED"} => RecordRun(c, r).status = c.status
         /\ manifest[r].human = "approved" => RecordRun(c, r).status \in {"DONE", "ABANDONED"}
<1>1. deriveChangeStatus(c, manifest[r]) \in ChangeStatuses
  BY DEF deriveChangeStatus, ChangeStatuses, Documents
<1>2. /\ Append(c.acts, r) \in Seq(Runs)
      /\ ToSet(Append(c.acts, r)) = ToSet(c.acts) \cup {r}
      /\ r \notin ToSet(c.acts) => IsInjective(Append(c.acts, r))
  BY AppendAddsOne DEF Documents
<1>3. /\ RecordRun(c, r) \in Documents
      /\ ToSet(RecordRun(c, r).acts) = ToSet(c.acts) \cup {r}
      /\ IsInjective(RecordRun(c, r).acts)
  BY <1>1, <1>2 DEF RecordRun, Documents
<1>4. RecordRun(c, r).status = deriveChangeStatus(c, manifest[r])
  BY DEF RecordRun
<1>5. c.status \in {"DONE", "ABANDONED"} => deriveChangeStatus(c, manifest[r]) = c.status
  BY DEF deriveChangeStatus
<1>6. manifest[r].human = "approved"
        => deriveChangeStatus(c, manifest[r]) \in {"DONE", "ABANDONED"}
  BY DEF deriveChangeStatus
<1> QED
  BY <1>3, <1>4, <1>5, <1>6

(* No attempt is the operator, and nobody is an actor.                     *)
LEMMA ActorsAreApart ==
  /\ Operator \notin Attempts /\ Nobody \notin Actors
  /\ \A a \in Attempts : a[1] \in Runs /\ a[2] \in 1..MaxAttempts
  /\ \A a \in Actors : a # Operator => a \in Attempts
<1>1. Operator \notin Attempts /\ Nobody \notin Attempts
  BY AttemptsAssumption DEF Operator, Nobody, Attempts
<1>2. Operator # Nobody
  BY DEF Operator, Nobody
<1> QED
  BY <1>1, <1>2 DEF Actors, Attempts

(* At first there is no run, no document and nobody at work.               *)
LEMMA InitInv == Init => Inv
<1> SUFFICES ASSUME Init PROVE Inv
  OBVIOUS
<1>1. NoChange \in Documents /\ NoManifest.human = "" /\ NoChange.acts = <<>>
  BY DEF NoChange, Documents, NoRun, NoManifest
<1>2. 0 \in 0..MaxAttempts
  BY AttemptsAssumption
<1>3. TypeOK
  <2>1. <<>> \in Seq(Runs)
    OBVIOUS
  <2> QED
    BY <1>1, <1>2, <2>1, Zenon DEF Init, TypeOK
<1>4. ToSet(change.acts) = {} /\ IsInjective(change.acts)
  <2>1. change.acts = <<>>
    BY <1>1 DEF Init
  <2>2. DOMAIN change.acts = {}
    BY <2>1
  <2> QED
    BY <2>2 DEF ToSet, IsInjective
<1>5. ActivationsAreExact /\ ApprovalCloses
  BY <1>4 DEF Init, ActivationsAreExact, ApprovalCloses
<1>6. Exclusive /\ Settled
  BY <1>4 DEF Init, Exclusive, Settled, Actors
<1> QED
  BY <1>3, <1>5, <1>6 DEF Inv, RecordIsExact

-----------------------------------------------------------------------------
(* Runs start and finish, and attempts and the operator begin to wait: the *)
(* document is not touched.  A run that finishes is of no attempt yet.     *)
LEMMA WaitingKeepsInv ==
  ASSUME Inv,
         \/ \E r \in Runs : StartRun(r) \/ Dispatch(r) \/ \E m \in Manifests : FinishRun(r, m)
         \/ OperatorAbandons
  PROVE  Inv'
<1> USE DEF Inv, RecordIsExact
<1>1. /\ UNCHANGED <<change, holder, copy, acked>>
      /\ \A a \in Actors : phase'[a] = "loaded" => phase[a] = "loaded"
  BY DEF StartRun, Dispatch, FinishRun, OperatorAbandons, TypeOK
<1>2. Exclusive' /\ ActivationsAreExact'
  BY <1>1 DEF Exclusive, ActivationsAreExact
<1>3. CASE \E r \in Runs : StartRun(r)
  <2>1. PICK r \in Runs : StartRun(r)
    BY <1>3
  <2>2. started' \in Seq(Runs) /\ UNCHANGED <<manifest, phase, dispatched>>
    BY <2>1 DEF StartRun, TypeOK
  <2> QED
    BY <1>1, <1>2, <2>2 DEF TypeOK, ApprovalCloses, Settled, Finished
<1>4. CASE \E r \in Runs : Dispatch(r)
  <2>1. PICK r \in Runs : Dispatch(r)
    BY <1>4
  <2> DEFINE b == <<r, dispatched[r] + 1>>
  <2>2. dispatched[r] + 1 \in 1..MaxAttempts /\ dispatched' \in [Runs -> 0..MaxAttempts]
    BY <2>1, AttemptsAssumption DEF Dispatch, TypeOK
  <2>3. b \in Attempts /\ b \in Actors /\ b[1] = r
    BY <2>2 DEF Attempts, Actors
  <2>4. /\ phase' = [phase EXCEPT ![b] = "waiting"]
        /\ UNCHANGED <<started, manifest>> /\ Finished(r)
    BY <2>1 DEF Dispatch
  <2> HIDE DEF b
  <2>5. TypeOK'
    BY <1>1, <2>2, <2>3, <2>4 DEF TypeOK
  <2>6. ApprovalCloses'
    BY <1>1, <2>4 DEF ApprovalCloses
  <2>7. Settled'
    BY <1>1, <2>3, <2>4 DEF Settled, Finished, TypeOK, Actors
  <2> QED
    BY <1>2, <2>5, <2>6, <2>7
<1>5. CASE \E r \in Runs, m \in Manifests : FinishRun(r, m)
  <2>1. PICK r \in Runs, m \in Manifests : FinishRun(r, m)
    BY <1>5
  <2>2. /\ manifest' = [manifest EXCEPT ![r] = m] /\ ~Finished(r)
        /\ UNCHANGED <<started, phase, dispatched>>
    BY <2>1 DEF FinishRun
  <2>3. m # NoManifest
    <3>1. m.result \in FactoryResults /\ NoManifest.result = "none"
      BY DEF Manifests, NoManifest
    <3> QED
      BY <3>1 DEF FactoryResults
  <2>4. TypeOK'
    BY <1>1, <2>2 DEF TypeOK
  <2>5. \A q \in Runs : Finished(q) => manifest'[q] = manifest[q] /\ Finished(q)'
    BY <2>2, <2>3 DEF Finished, TypeOK
  <2>6. \A q \in ToSet(change.acts) : q \in Runs
    BY DEF TypeOK, Documents, ToSet
  <2>7. ApprovalCloses'
    BY <1>1, <2>5, <2>6 DEF ApprovalCloses, Settled
  <2>8. Settled'
    BY <1>1, <2>2, <2>5, <2>6, ActorsAreApart DEF Settled
  <2> QED
    BY <1>2, <2>4, <2>7, <2>8
<1>6. CASE OperatorAbandons
  <2>1. /\ phase' = [phase EXCEPT ![Operator] = "waiting"]
        /\ UNCHANGED <<started, manifest, dispatched>>
    BY <1>6 DEF OperatorAbandons
  <2>2. TypeOK'
    BY <1>1, <2>1 DEF TypeOK
  <2>3. Settled' /\ ApprovalCloses'
    BY <1>1, <2>1, ActorsAreApart DEF Settled, Finished, ApprovalCloses, TypeOK, Actors
  <2> QED
    BY <1>2, <2>2, <2>3
<1> QED
  BY <1>3, <1>4, <1>5, <1>6

(* Loading is taking the lock: nobody else has a loaded copy.              *)
LEMMA LockAndLoadKeepsInv ==
  ASSUME Inv, NEW a \in Actors, LockAndLoad(a)
  PROVE  Inv'
<1> USE DEF Inv, RecordIsExact
<1>1. \A b \in Actors : phase[b] # "loaded"
  BY ActorsAreApart DEF LockAndLoad, Exclusive
<1>2. UNCHANGED <<started, manifest, change, dispatched, acked>> /\ phase[a] = "waiting"
  BY DEF LockAndLoad
<1>3. \A b \in Actors : b # a => phase'[b] = phase[b] /\ copy'[b] = copy[b]
  BY DEF LockAndLoad, TypeOK
<1>4. \/ phase'[a] = "idle"
      \/ phase'[a] = "loaded" /\ holder' = a /\ copy'[a] = change
  BY DEF LockAndLoad, TypeOK
<1>5. TypeOK'
  BY <1>2 DEF LockAndLoad, TypeOK
<1>6. Exclusive'
  BY <1>1, <1>2, <1>3, <1>4 DEF Exclusive
<1>7. ActivationsAreExact' /\ ApprovalCloses'
  BY <1>2 DEF ActivationsAreExact, ApprovalCloses
<1>8. Settled'
  BY <1>2, <1>3, <1>4 DEF Settled, Finished, Actors
<1> QED
  BY <1>5, <1>6, <1>7, <1>8

(* An actor that lets go, having written or not, leaves no copy behind; if *)
(* the document changed it was that actor who had it loaded.               *)
LEMMA LetGoKeepsExclusive ==
  ASSUME TypeOK, Exclusive, NEW a \in Actors,
         change' = change \/ phase[a] = "loaded",
         phase' = [phase EXCEPT ![a] = IF a = Operator THEN "idle" ELSE "done"],
         copy' = [copy EXCEPT ![a] = NoChange],
         holder' = IF holder = a THEN Nobody ELSE holder
  PROVE  Exclusive'
<1>1. \A b \in Actors : phase'[b] = "loaded" => b # a /\ phase[b] = "loaded"
  BY DEF TypeOK
<1>2. \A b \in Actors : b # a => copy'[b] = copy[b]
  BY DEF TypeOK
<1> QED
  BY <1>1, <1>2 DEF Exclusive

(* What a Save leaves as the document, seen from the document before.      *)
LEMMA SaveIsSound ==
  ASSUME Inv, NEW a \in Actors, Save(a)
  PROVE  /\ change' \in Documents
         /\ IsInjective(change'.acts)
         /\ ToSet(change.acts) \subseteq ToSet(change'.acts)
         /\ \A r \in ToSet(change'.acts) \ ToSet(change.acts) :
              /\ r \in Runs /\ Finished(r)
              /\ manifest[r].human = "approved" => change'.status \in {"DONE", "ABANDONED"}
         /\ change.status = "DONE" => change'.status \in {"DONE", "ABANDONED"}
         /\ change.status = "ABANDONED" => change'.status = "ABANDONED"
         /\ \A r \in Runs : acked'[r] => acked[r] \/ r \in ToSet(change'.acts)
         /\ acked' \in [Runs -> BOOLEAN]
<1> USE DEF Inv, RecordIsExact
<1>1. change \in Documents /\ IsInjective(change.acts) /\ copy[a] = change
  BY DEF TypeOK, ActivationsAreExact, Save, Exclusive
<1>2. CASE UNCHANGED <<change, acked>>
  BY <1>1, <1>2 DEF TypeOK
<1>3. CASE a = Operator /\ change' = Abandon(copy[a]) /\ acked' = acked
  <2>1. change' \in Documents /\ change'.acts = change.acts /\ change'.status = "ABANDONED"
    BY <1>1, <1>3 DEF Abandon, Documents, ChangeStatuses
  <2> QED
    BY <1>1, <1>3, <2>1 DEF TypeOK
<1>4. CASE /\ a # Operator /\ change' = RecordRun(copy[a], a[1])
           /\ acked' \in {acked, [acked EXCEPT ![a[1]] = TRUE]}
  <2>1. a \in Attempts /\ a[1] \in Runs
    BY <1>4, ActorsAreApart
  <2>2. phase[a] # "idle"
    BY DEF Save
  <2>3. Finished(a[1])
    BY <2>1, <2>2 DEF Settled
  <2>4. /\ change' \in Documents
        /\ ToSet(change'.acts) = ToSet(change.acts) \cup {a[1]}
        /\ IsInjective(change'.acts)
        /\ change.status \in {"DONE", "ABANDONED"} => change'.status = change.status
        /\ manifest[a[1]].human = "approved" => change'.status \in {"DONE", "ABANDONED"}
    BY <1>1, <1>4, <2>1, RecordRunIsSound
  <2>5. /\ \A r \in Runs : acked'[r] => acked[r] \/ r = a[1]
        /\ acked' \in [Runs -> BOOLEAN]
    BY <1>4, <2>1 DEF TypeOK
  <2> QED
    BY <2>1, <2>3, <2>4, <2>5
<1> QED
  BY <1>2, <1>3, <1>4 DEF Save

LEMMA SaveKeepsInv ==
  ASSUME Inv, NEW a \in Actors, Save(a)
  PROVE  Inv'
<1> USE DEF Inv, RecordIsExact
<1>1. /\ phase[a] = "loaded"
      /\ phase' = [phase EXCEPT ![a] = IF a = Operator THEN "idle" ELSE "done"]
      /\ copy' = [copy EXCEPT ![a] = NoChange]
      /\ holder' = IF holder = a THEN Nobody ELSE holder
      /\ UNCHANGED <<started, manifest, dispatched>>
  BY DEF Save
<1>2. NoChange \in Documents
  BY DEF NoChange, Documents, NoRun
<1>3. TypeOK'
  BY <1>1, <1>2, SaveIsSound DEF TypeOK
<1>4. Exclusive'
  BY <1>1, LetGoKeepsExclusive
<1>5. ActivationsAreExact'
  BY SaveIsSound DEF ActivationsAreExact
<1>6. ApprovalCloses'
  <2>1. ASSUME NEW r \in ToSet(change'.acts), manifest[r].human = "approved"
        PROVE  change'.status \in {"DONE", "ABANDONED"}
    BY <2>1, SaveIsSound DEF ApprovalCloses
  <2> QED
    BY <1>1, <2>1 DEF ApprovalCloses
<1>7. Settled'
  BY <1>1, SaveIsSound DEF Settled, Finished, TypeOK, Actors
<1> QED
  BY <1>3, <1>4, <1>5, <1>6, <1>7

LEMMA DieKeepsInv ==
  ASSUME Inv, NEW a \in Actors, Die(a)
  PROVE  Inv'
<1> USE DEF Inv, RecordIsExact
<1>1. /\ phase[a] \in {"waiting", "loaded"}
      /\ phase' = [phase EXCEPT ![a] = IF a = Operator THEN "idle" ELSE "done"]
      /\ copy' = [copy EXCEPT ![a] = NoChange]
      /\ holder' = IF holder = a THEN Nobody ELSE holder
      /\ UNCHANGED <<started, manifest, change, dispatched, acked>>
  BY DEF Die
<1>2. NoChange \in Documents
  BY DEF NoChange, Documents, NoRun
<1>3. TypeOK'
  BY <1>1, <1>2 DEF TypeOK
<1>4. Exclusive'
  BY <1>1, LetGoKeepsExclusive
<1>5. ActivationsAreExact' /\ ApprovalCloses'
  BY <1>1 DEF ActivationsAreExact, ApprovalCloses
<1>6. Settled'
  BY <1>1 DEF Settled, Finished, TypeOK, Actors
<1> QED
  BY <1>3, <1>4, <1>5, <1>6

(* Every step keeps the invariant. *)
LEMMA NextInv == Inv /\ [Next]_vars => Inv'
<1> SUFFICES ASSUME Inv, [Next]_vars PROVE Inv'
  OBVIOUS
<1>1. CASE UNCHANGED vars
  BY <1>1 DEF vars, Inv, RecordIsExact, TypeOK, ActivationsAreExact, ApprovalCloses,
              Exclusive, Settled, Finished
<1>2. CASE Next
  BY <1>2, WaitingKeepsInv, LockAndLoadKeepsInv, SaveKeepsInv, DieKeepsInv DEF Next
<1> QED
  BY <1>1, <1>2

-----------------------------------------------------------------------------
(* The document of a change is an exact account of its runs in every       *)
(* reachable state: RecordRun's retries, in whatever order they land, lose *)
(* no acknowledged activation, duplicate none and keep every approval.     *)
THEOREM ChangeIsExact == Spec => []RecordIsExact
<1>1. Inv => RecordIsExact
  BY DEF Inv
<1> QED
  BY InitInv, NextInv, <1>1, PTL DEF Spec

(* No step reopens a change that was closed, turns an abandoned one into   *)
(* a done one, or drops an activation (deriveChangeStatus and Save).       *)
THEOREM ClosedChangeStaysClosed == Spec => ClosedStaysClosed
<1> DEFINE Keeps ==
      /\ change.status = "DONE" => change'.status \in {"DONE", "ABANDONED"}
      /\ change.status = "ABANDONED" => change'.status = "ABANDONED"
      /\ ToSet(change.acts) \subseteq ToSet(change'.acts)
<1>1. Inv /\ [Next]_vars => [Keeps]_vars
  <2> SUFFICES ASSUME Inv, Next PROVE Keeps
    OBVIOUS
  <2>1. CASE change' = change
    BY <2>1
  <2>2. CASE \E a \in Actors : Save(a)
    BY <2>2, SaveIsSound
  <2> QED
    BY <2>1, <2>2 DEF Next, StartRun, Dispatch, FinishRun, OperatorAbandons, LockAndLoad, Die
<1>2. Spec => [][Keeps]_vars
  BY InitInv, NextInv, <1>1, PTL DEF Spec
<1> QED
  BY <1>2 DEF ClosedStaysClosed

-----------------------------------------------------------------------------
(***************************************************************************)
(* The store implements the ledger.  What Inv lacks for it: an operator    *)
(* who has loaded the change has loaded one that exists.                   *)
(***************************************************************************)
Exists == change.status \in ChangeStatuses
LedgerInv == (change = NoChange \/ Exists) /\ (phase[Operator] = "loaded" => Exists)

(* The document a Save writes, as a step of the ledger.                    *)
Written(a) ==
  IF a = Operator THEN Abandon(change) ELSE RecordRun(change, a[1])

LEMMA SaveWrites ==
  ASSUME Inv, NEW a \in Actors, Save(a)
  PROVE  \/ UNCHANGED <<change, acked>>
         \/ /\ change' = Written(a)
            /\ acked' \in IF a # Operator THEN {acked, [acked EXCEPT ![a[1]] = TRUE]}
                          ELSE {acked}
<1>1. copy[a] = change
  BY DEF Inv, Save, Exclusive
<1> QED
  BY <1>1 DEF Save, Written

LEMMA InitLedgerInv == Init => LedgerInv
BY DEF Init, LedgerInv, Actors

LEMMA NextLedgerInv == Inv /\ LedgerInv /\ [Next]_vars => LedgerInv'
<1> SUFFICES ASSUME Inv, LedgerInv, [Next]_vars PROVE LedgerInv'
  OBVIOUS
<1>t. TypeOK
  BY DEF Inv, RecordIsExact
<1>o. Operator \in Actors
  BY DEF Actors
<1>1. ASSUME UNCHANGED change, phase'[Operator] = "loaded" => phase[Operator] = "loaded"
      PROVE  LedgerInv'
  BY <1>1 DEF LedgerInv, Exists
<1>2. CASE UNCHANGED vars
  BY <1>1, <1>2 DEF vars
<1>3. ASSUME NEW r \in Runs, StartRun(r) \/ \E m \in Manifests : FinishRun(r, m)
      PROVE  LedgerInv'
  BY <1>1, <1>3 DEF StartRun, FinishRun
<1>4. ASSUME NEW r \in Runs, Dispatch(r) PROVE LedgerInv'
  BY <1>1, <1>4, <1>t, <1>o DEF Dispatch, TypeOK
<1>5. CASE OperatorAbandons
  BY <1>1, <1>5, <1>t, <1>o DEF OperatorAbandons, TypeOK
<1>6. ASSUME NEW a \in Actors, LockAndLoad(a) PROVE LedgerInv'
  <2>1. CASE a = Operator /\ change # NoChange
    BY <1>6, <2>1 DEF LockAndLoad, LedgerInv, Exists
  <2>2. CASE ~ (a = Operator /\ change # NoChange)
    <3>1. phase'[Operator] = "loaded" => phase[Operator] = "loaded"
      BY <1>6, <1>t, <1>o, <2>2 DEF LockAndLoad, TypeOK
    <3> QED
      BY <1>1, <1>6, <3>1 DEF LockAndLoad
  <2> QED
    BY <2>1, <2>2
<1>7. ASSUME NEW a \in Actors, Save(a) PROVE LedgerInv'
  <2>1. phase'[Operator] = "loaded" => phase[Operator] = "loaded"
    BY <1>7, <1>t, <1>o DEF Save, TypeOK
  <2>2. CASE UNCHANGED change
    BY <1>1, <2>1, <2>2
  <2>3. CASE change' = Written(a)
    <3>1. change \in Documents
      BY <1>t DEF TypeOK
    <3>2. Exists'
      <4>1. deriveChangeStatus(change, manifest[a[1]]) \in ChangeStatuses
        BY <3>1 DEF deriveChangeStatus, ChangeStatuses, Documents
      <4> QED
        BY <2>3, <3>1, <4>1 DEF Written, Abandon, RecordRun, Exists, Documents, ChangeStatuses
    <3> QED
      BY <3>2 DEF LedgerInv
  <2> QED
    BY <1>7, <2>2, <2>3, SaveWrites
<1>8. ASSUME NEW a \in Actors, Die(a) PROVE LedgerInv'
  BY <1>1, <1>8, <1>t, <1>o DEF Die, TypeOK
<1> QED
  BY <1>2, <1>3, <1>4, <1>5, <1>6, <1>7, <1>8 DEF Next

(* A write of the document is a fold of its run, or an abandonment.        *)
LEMMA SaveIsAtomic ==
  ASSUME Inv, LedgerInv, NEW a \in Actors, Save(a)
  PROVE  Ledger!LedgerNext \/ UNCHANGED <<manifest, change, acked>>
<1> DEFINE seen == [status |-> change.status, runs |-> ToSet(change.acts), last |-> change.last]
           told == {r \in Runs : acked[r]}
<1>t. TypeOK /\ change \in Documents /\ IsInjective(change.acts)
  BY DEF Inv, RecordIsExact, TypeOK, ActivationsAreExact
<1>m. UNCHANGED manifest
  BY DEF Save
<1>1. CASE UNCHANGED <<change, acked>>
  BY <1>1, <1>m
<1>2. CASE a = Operator /\ change' = Written(a) /\ acked' = acked
  <2>1. Exists
    BY <1>2 DEF LedgerInv, Save
  <2>2. change'.status = "ABANDONED" /\ change'.acts = change.acts /\ change'.last = change.last
    BY <1>2, <1>t DEF Written, Abandon, Documents
  <2>3. seen' = [seen EXCEPT !.status = "ABANDONED"]
    BY <2>2
  <2>4. seen # Ledger!Absent
    BY <2>1 DEF Exists, ChangeStatuses, Ledger!Absent
  <2>5. Ledger!Abandon
    BY <1>2, <1>m, <2>3, <2>4 DEF Ledger!Abandon
  <2> QED
    BY <2>5 DEF Ledger!LedgerNext
<1>3. CASE /\ a # Operator /\ change' = Written(a)
           /\ acked' \in {acked, [acked EXCEPT ![a[1]] = TRUE]}
  <2> DEFINE r == a[1]
  <2>1. a \in Attempts /\ r \in Runs
    BY <1>3, ActorsAreApart
  <2>2. Finished(r)
    BY <2>1 DEF Inv, Settled, Save
  <2>3. change' = RecordRun(change, r)
    BY <1>3 DEF Written
  <2>4. ToSet(change'.acts) = ToSet(change.acts) \cup {r}
    BY <1>t, <2>1, <2>3, RecordRunIsSound
  <2>5. change'.last = r
    BY <2>3 DEF RecordRun
  <2>6. change'.status = Ledger!StatusAfter(change.status, manifest[r])
    <3>1. manifest[r] \in Manifests
      BY <1>t, <2>1, <2>2 DEF TypeOK, Finished
    <3>2. change'.status = deriveChangeStatus(change, manifest[r])
      BY <2>3 DEF RecordRun
    <3>3. manifest[r].human \in HumanResults
      BY <3>1 DEF Manifests
    <3> QED
      BY <3>2, <3>3 DEF deriveChangeStatus, Ledger!StatusAfter, Ledger!Closed, HumanResults
  <2>7. seen' = [status |-> Ledger!StatusAfter(seen.status, manifest[r]),
                 runs |-> seen.runs \cup {r}, last |-> r]
    BY <2>4, <2>5, <2>6
  <2>8. told' \in {told, told \cup {r}}
    <3>1. CASE acked' = acked
      BY <3>1
    <3>2. CASE acked' = [acked EXCEPT ![r] = TRUE]
      <4>1. \A q \in Runs : acked'[q] <=> acked[q] \/ q = r
        BY <1>t, <2>1, <3>2 DEF TypeOK
      <4>2. told' = told \cup {r}
        BY <2>1, <4>1
      <4> QED
        BY <4>2
    <3> QED
      BY <1>3, <3>1, <3>2
  <2>9. Ledger!Fold(r)
    BY <1>m, <2>2, <2>7, <2>8 DEF Ledger!Fold, Finished, Ledger!Pending, NoManifest
  <2> QED
    BY <2>1, <2>9 DEF Ledger!LedgerNext
<1> QED
  BY <1>1, <1>2, <1>3, SaveWrites

(* Every write of the document is one atomic step of the ledger: the lock, *)
(* the copies, the retries and the deaths are not visible in it, for any   *)
(* number of runs and attempts (RecordRun, lockChange and save of          *)
(* change.go).                                                             *)
THEOREM StoreImplementsLedger == Spec => ImplementsLedger
<1> DEFINE seen == [status |-> change.status, runs |-> ToSet(change.acts), last |-> change.last]
           told == {r \in Runs : acked[r]}
<1>1. Init => Ledger!LedgerInit
  <2> SUFFICES ASSUME Init PROVE Ledger!LedgerInit
    OBVIOUS
  <2>1. change = NoChange /\ NoChange.acts = <<>> /\ NoChange.status = "none"
        /\ NoChange.last = "none"
    BY DEF Init, NoChange, NoRun
  <2>2. ToSet(change.acts) = {}
    <3>1. DOMAIN change.acts = {}
      BY <2>1
    <3> QED
      BY <3>1 DEF ToSet
  <2>3. seen = Ledger!Absent
    BY <2>1, <2>2 DEF Ledger!Absent
  <2>4. told = {}
    BY DEF Init
  <2>5. manifest = [r \in Runs |-> Ledger!Pending]
    BY DEF Init, NoManifest, Ledger!Pending
  <2> QED
    BY <2>3, <2>4, <2>5 DEF Ledger!LedgerInit
<1>2. Inv /\ LedgerInv /\ [Next]_vars => [Ledger!LedgerNext]_<<manifest, seen, told>>
  <2> SUFFICES ASSUME Inv, LedgerInv, [Next]_vars
               PROVE  Ledger!LedgerNext \/ UNCHANGED <<manifest, seen, told>>
    OBVIOUS
  <2>1. ASSUME UNCHANGED <<manifest, change, acked>>
        PROVE  UNCHANGED <<manifest, seen, told>>
    BY <2>1
  <2>2. CASE UNCHANGED vars
    BY <2>1, <2>2 DEF vars
  <2>3. ASSUME NEW r \in Runs, NEW m \in Manifests, FinishRun(r, m)
        PROVE  Ledger!LedgerNext
    <3>1. manifest[r] = Ledger!Pending
      BY <2>3 DEF FinishRun, Finished, NoManifest, Ledger!Pending
    <3>2. m \in Ledger!Outcomes
      BY DEF Manifests, Ledger!Outcomes, FactoryResults, HumanResults
    <3>3. Ledger!Finish(r, m)
      BY <2>3, <3>1 DEF FinishRun, Ledger!Finish
    <3> QED
      BY <3>2, <3>3 DEF Ledger!LedgerNext
  <2>4. ASSUME NEW r \in Runs, StartRun(r) \/ Dispatch(r)
        PROVE  UNCHANGED <<manifest, change, acked>>
    BY <2>4 DEF StartRun, Dispatch
  <2>5. CASE OperatorAbandons
    BY <2>1, <2>5 DEF OperatorAbandons
  <2>6. ASSUME NEW a \in Actors, LockAndLoad(a) \/ Die(a)
        PROVE  UNCHANGED <<manifest, change, acked>>
    BY <2>6 DEF LockAndLoad, Die
  <2>7. ASSUME NEW a \in Actors, Save(a)
        PROVE  Ledger!LedgerNext \/ UNCHANGED <<manifest, seen, told>>
    BY <2>1, <2>7, SaveIsAtomic
  <2> QED
    BY <2>1, <2>2, <2>3, <2>4, <2>5, <2>6, <2>7 DEF Next
<1> QED
  BY InitInv, NextInv, InitLedgerInv, NextLedgerInv, <1>1, <1>2, PTL
  DEF Spec, ImplementsLedger, Ledger!LedgerSpec, Ledger!ledgerVars
=============================================================================
