------------------------- MODULE PiSupervisorProofs -------------------------
(***************************************************************************)
(* Proofs about PiSupervisor, for any number of invocations and requests.  *)
(*                                                                         *)
(* Neither property is inductive.  That a session has one engine rests on  *)
(* the lock, which outlives a supervisor that died and so keeps everyone   *)
(* away from the engine it left behind (Owned); that receipts are honest   *)
(* rests on a chain from the interrupted request to the receipt: channel,  *)
(* memory of the supervisor, usage.json, memory of the next one (Counted). *)
(***************************************************************************)
EXTENDS PiSupervisor, FiniteSetTheorems, TLAPS

Settled == journal.state \in {"done", "failed"}

InSession == {"usage", "check", "hash", "run", "reinspect"}

(* Who has begun and not given the lock back, dead or alive, owns it; an   *)
(* engine exists only under such a supervisor.                             *)
Owned(s) ==
  /\ sup[s].pc \notin {"idle", "end"} => lock = s /\ sup[s].req \in Requests
  /\ eng[s].pc # "none" => sup[s].pc \in {"run", "dead"}

(* What the engines of s have spawned and still runs.                      *)
Shells(s) == {p \in procs : p[1] = s}

(* Whatever runs of this invocation was started by its present attempt.    *)
Quiet(s) ==
  /\ sup[s].pc \in {"idle", "prepare", "usage", "check", "hash"} => Shells(s) = {}
  /\ sup[s].pc # "end" => \A p \in Shells(s) : p[2] = Attempt(s)

(* From the inventory until the last engine is gone, the processes of      *)
(* others are those of the inventory, which has none of s.                 *)
Watched(s) == sup[s].pc \in {"check", "hash", "run", "reinspect"} \/ eng[s].pc # "none"

Based ==
  \A s \in Supervisors :
    /\ \A p \in sup[s].base : p[1] # s
    /\ Watched(s) => \A p \in procs : p[1] # s => p \in sup[s].base

(* A session that was entered is the one of this request.                  *)
Named(s) ==
  sup[s].pc \in InSession \/ eng[s].pc # "none" => identity = sup[s].req /\ identity # "none"

(* How far an engine can be, given the journal, and what it has told.      *)
Ahead(s) ==
  /\ eng[s].pc \notin {"none", "dead", "boot", "failing"} => journal.state # "none"
  /\ Settled => eng[s].pc \in {"none", "dead", "boot", "settle", "failing"}
  /\ eng[s].msg = "terminal" => eng[s].pc \in {"settle", "dead"} /\ Settled
  /\ sup[s].pc = "run" /\ eng[s].pc \notin {"none", "dead", "settle"} => sup[s].terminal = "none"

(* What a supervisor remembers of the end is in the journal.               *)
Grounded(s) ==
  /\ sup[s].ledger => Settled
  /\ sup[s].terminal = "completed" => journal.state = "done"
  /\ sup[s].result = "completed" => journal.state = "done"
  /\ sup[s].pc = "write_terminal" => receipts.usage # "none"

(* An attempt that escaped the ledger is remembered, or is about to be:    *)
(* its report is under way, or the engine ends without a final message.    *)
Counted(s) ==
  unmetered /\ sup[s].pc \in {"check", "hash", "run", "reinspect", "write_usage"} =>
    \/ sup[s].uncertain
    \/ /\ sup[s].pc = "run" /\ eng[s].pc = "metering" /\ eng[s].msg = "usage-incomplete"
    \/ /\ sup[s].pc = "run" /\ eng[s].pc \in {"failing", "dead"}
       /\ eng[s].msg # "terminal" /\ sup[s].terminal = "none"

(* The files of the session directory agree with each other.               *)
Files ==
  /\ journal.state # "none" => journal.of = identity /\ identity # "none"
  /\ unmetered => journal.state # "none"
  /\ receipts.usage = "complete" => Settled /\ ~unmetered
  /\ receipts.terminal # "none" => receipts.usage # "none"
  /\ receipts.terminal = "completed" => journal.state = "done"

PerSession(s) ==
  Owned(s) /\ Quiet(s) /\ Named(s) /\ Ahead(s) /\ Grounded(s) /\ Counted(s)

Inv == TypeOK /\ Files /\ \A s \in Supervisors : PerSession(s)

-----------------------------------------------------------------------------
(* The names of the fresh states.                                          *)
LEMMA FreshIsTyped ==
  /\ Fresh \in SupType /\ Ended \in SupType /\ NoEngine \in EngType
  /\ Fresh.pc = "idle" /\ Ended.pc = "end"
  /\ ~Fresh.ledger /\ Fresh.terminal = "none" /\ Fresh.result = "none"
  /\ ~Ended.ledger /\ Ended.terminal = "none" /\ Ended.result = "none"
  /\ NoEngine.pc = "none" /\ NoEngine.msg = "none"
<1>1. 0 \in 0..MaxRestarts
  BY RestartsAssumption
<1>2. Fresh \in SupType /\ NoEngine \in EngType
  BY <1>1 DEF Fresh, NoEngine, SupType, EngType, SupPcs, EngPcs, Messages
<1>3. "end" \in SupPcs
  BY DEF SupPcs
<1>4. Ended \in SupType
  BY <1>2, <1>3 DEF Ended, SupType
<1>5. /\ Fresh.pc = "idle" /\ ~Fresh.ledger /\ Fresh.terminal = "none" /\ Fresh.result = "none"
      /\ NoEngine.pc = "none" /\ NoEngine.msg = "none"
  BY DEF Fresh, NoEngine
<1>6. /\ Ended.pc = "end" /\ ~Ended.ledger /\ Ended.terminal = "none" /\ Ended.result = "none"
  BY DEF Fresh, Ended
<1> QED
  BY <1>2, <1>4, <1>5, <1>6

(* A step of s leaves the sessions of the others as they are: while s owns *)
(* the lock nobody else is at work, and before that s has touched nothing. *)
LEMMA OthersAreUndisturbed ==
  ASSUME Inv, NEW s \in Supervisors, NEW t \in Supervisors, t # s,
         sup'[t] = sup[t], eng'[t] = eng[t], Shells(t)' = Shells(t),
         lock' = lock \/ lock \in {"none", s},
         identity' = identity \/ identity = "none",
         journal' = journal \/ eng[s].pc # "none",
         Settled => Settled',
         journal.state = "done" => journal'.state = "done",
         journal.state # "none" => journal'.state # "none",
         receipts.usage # "none" => receipts'.usage # "none",
         unmetered' => unmetered \/ eng[s].pc # "none"
  PROVE  PerSession(t)'
<1> USE DEF Inv, PerSession
<1>1. eng[s].pc # "none" => lock = s
  BY DEF Owned
<1>2. sup[t].pc \notin {"idle", "end"} => lock = t
  BY DEF Owned
<1>3. Owned(t)'
  BY <1>2, NobodyAssumption DEF Owned
<1>4. Quiet(t)'
  BY DEF Quiet, Attempt
<1>5. Named(t)'
  BY DEF Named
<1>6. Ahead(t)'
  BY <1>1, <1>2 DEF Ahead, Owned, Settled
<1>7. Grounded(t)'
  BY DEF Grounded
<1>8. Counted(t)'
  BY <1>1, <1>2 DEF Counted
<1> QED
  BY <1>3, <1>4, <1>5, <1>6, <1>7, <1>8

(* Nobody has begun.                                                       *)
LEMMA InitInv == Init => Inv
<1> SUFFICES ASSUME Init PROVE Inv
  OBVIOUS
<1>1. TypeOK
  <2>1. /\ [state |-> "none", of |-> "none", metered |-> FALSE]
             \in [state : {"none", "open", "done", "failed"}, of : Requests \cup {"none"},
                  metered : BOOLEAN]
        /\ [usage |-> "none", terminal |-> "none"]
             \in [usage : {"none", "complete", "incomplete"}, terminal : Statuses \cup {"none"}]
    OBVIOUS
  <2>2. sup \in [Supervisors -> SupType] /\ eng \in [Supervisors -> EngType]
    BY FreshIsTyped DEF Init
  <2> QED
    BY <2>1, <2>2, Zenon DEF Init, TypeOK
<1>2. Files
  BY DEF Init, Files
<1>3. ASSUME NEW s \in Supervisors PROVE PerSession(s)
  BY FreshIsTyped
     DEF Init, PerSession, Owned, Quiet, Named, Ahead, Grounded, Counted, InSession, Settled,
         Shells
<1> QED
  BY <1>1, <1>2, <1>3 DEF Inv

LEMMA InitBased == Init => Based
  BY DEF Init, Based, Watched, Fresh, NoEngine

-----------------------------------------------------------------------------
(* What break leaves of the variables y of supervise().                    *)
Left(y, st, u) ==
  [Fresh EXCEPT
     !.pc = "write_usage", !.req = y.req, !.restarts = y.restarts,
     !.result = st, !.ledger = y.ledger, !.uncertain = y.uncertain \/ u]

LEMMA LeftIsTyped ==
  ASSUME NEW y \in SupType, NEW st \in Statuses, NEW u \in BOOLEAN
  PROVE  /\ Left(y, st, u) \in SupType
         /\ Left(y, st, u).pc = "write_usage" /\ Left(y, st, u).req = y.req
         /\ Left(y, st, u).restarts = y.restarts /\ Left(y, st, u).result = st
         /\ Left(y, st, u).ledger = y.ledger /\ Left(y, st, u).terminal = "none"
         /\ Left(y, st, u).uncertain = (y.uncertain \/ u)
<1>1. "write_usage" \in SupPcs /\ Fresh \in SupType
  BY FreshIsTyped DEF SupPcs
<1>2. Left(y, st, u) \in SupType
  BY <1>1 DEF Left, SupType
<1>3. /\ Left(y, st, u).pc = "write_usage" /\ Left(y, st, u).req = y.req
      /\ Left(y, st, u).restarts = y.restarts /\ Left(y, st, u).result = st
      /\ Left(y, st, u).ledger = y.ledger /\ Left(y, st, u).terminal = "none"
  BY DEF Left, Fresh
<1>4. Left(y, st, u).uncertain = (y.uncertain \/ u)
  BY DEF Left, Fresh
<1> QED
  BY <1>2, <1>3, <1>4

(* What supervise() holds when it has left its loop.                       *)
LEMMA LeaveIsSound ==
  ASSUME TypeOK, NEW s \in Supervisors, PerSession(s),
         NEW st \in Statuses, NEW u \in BOOLEAN, Leave(s, st, u),
         sup[s].pc \in InSession,
         st = "completed" => journal.state = "done",
         unmetered => sup[s].uncertain \/ u,
         eng'[s].pc = "none" /\ eng'[s].msg # "terminal",
         UNCHANGED <<procs, lock, identity, journal, receipts, unmetered>>
  PROVE  /\ sup' \in [Supervisors -> SupType]
         /\ \A t \in Supervisors : t # s => sup'[t] = sup[t]
         /\ PerSession(s)'
<1> DEFINE x == Left(sup[s], st, u)
<1>1. sup[s] \in SupType
  BY DEF TypeOK
<1>2. x \in SupType
  BY <1>1, LeftIsTyped
<1>3. /\ x.pc = "write_usage" /\ x.req = sup[s].req /\ x.restarts = sup[s].restarts
      /\ x.result = st /\ x.ledger = sup[s].ledger /\ x.terminal = "none"
  BY <1>1, LeftIsTyped
<1>4. x.uncertain = (sup[s].uncertain \/ u)
  BY <1>1, LeftIsTyped
<1>5. sup' = [sup EXCEPT ![s] = x]
  BY DEF Leave, Left
<1> HIDE DEF x
<1>6. sup'[s] = x /\ sup' \in [Supervisors -> SupType] /\ \A t \in Supervisors : t # s => sup'[t] = sup[t]
  BY <1>2, <1>5 DEF TypeOK
<1>7. Owned(s)' /\ Quiet(s)' /\ Named(s)' /\ Ahead(s)'
  BY <1>3, <1>6 DEF PerSession, Owned, Quiet, Named, Ahead, InSession, Shells, Attempt, Settled
<1>8. Grounded(s)'
  BY <1>3, <1>6 DEF PerSession, Grounded, Settled
<1>9. Counted(s)'
  BY <1>3, <1>4, <1>6 DEF PerSession, Counted
<1> QED
  BY <1>6, <1>7, <1>8, <1>9 DEF PerSession

(* The session of an idle invocation is untouched; a refused launch ends.  *)
LEMMA LaunchKeepsInv ==
  ASSUME Inv, NEW s \in Supervisors, NEW r \in Requests, Launch(s, r)
  PROVE  Inv'
<1> DEFINE x == IF lock = "none" THEN [sup[s] EXCEPT !.req = r, !.pc = "prepare"] ELSE Ended
<1>1. /\ sup[s] \in SupType /\ sup[s].pc = "idle" /\ eng[s].pc = "none" /\ eng[s].msg # "terminal"
      /\ Shells(s) = {}
  BY DEF Inv, TypeOK, Launch, PerSession, Owned, Ahead, Quiet
<1>2. /\ x \in SupType
      /\ lock = "none" => x.pc = "prepare" /\ x.req = r
      /\ lock # "none" => x.pc = "end"
      /\ x.ledger => sup[s].ledger
      /\ x.terminal \in {"none", sup[s].terminal}
      /\ x.result \in {"none", sup[s].result}
  <2>1. CASE lock # "none"
    BY <2>1, FreshIsTyped
  <2>2. CASE lock = "none"
    <3>1. x = [sup[s] EXCEPT !.req = r, !.pc = "prepare"] /\ "prepare" \in SupPcs
      BY <2>2 DEF SupPcs
    <3> QED
      BY <1>1, <2>2, <3>1 DEF SupType
  <2> QED
    BY <2>1, <2>2
<1>3. /\ sup' = [sup EXCEPT ![s] = x] /\ lock' = IF lock = "none" THEN s ELSE lock
      /\ UNCHANGED <<eng, procs, identity, journal, receipts, unmetered>>
  BY DEF Launch
<1> HIDE DEF x
<1>4. sup'[s] = x /\ TypeOK' /\ \A t \in Supervisors : t # s => sup'[t] = sup[t]
  BY <1>2, <1>3 DEF Inv, TypeOK
<1>5. Files'
  BY <1>3 DEF Inv, Files, Settled
<1>6. PerSession(s)'
  BY <1>1, <1>2, <1>3, <1>4, NobodyAssumption
     DEF Inv, PerSession, Owned, Quiet, Named, Ahead, Grounded, Counted, InSession, Shells, Settled
<1>7. ASSUME NEW t \in Supervisors, t # s PROVE PerSession(t)'
  BY <1>3, <1>4, <1>7, OthersAreUndisturbed DEF Shells, Settled
<1> QED
  BY <1>4, <1>5, <1>6, <1>7 DEF Inv

(* The files of a new session are new; those of an old one are its own.    *)
LEMMA PrepareKeepsInv ==
  ASSUME Inv, NEW s \in Supervisors, Prepare(s)
  PROVE  Inv'
<1>1. /\ sup[s].pc = "prepare" /\ lock = s /\ eng[s].pc = "none" /\ Shells(s) = {}
      /\ sup[s].req \in Requests /\ sup[s].req # "none"
  BY NobodyAssumption DEF Inv, Prepare, PerSession, Owned, Quiet
<1>2. /\ identity' = sup[s].req /\ identity \in {"none", sup[s].req}
      /\ identity = "none" => journal.state = "none"
      /\ receipts'.usage = receipts.usage /\ receipts'.terminal = "none"
      /\ UNCHANGED <<eng, procs, lock, journal, unmetered>>
  BY <1>1 DEF Inv, TypeOK, Prepare, SessionIsUsable
<1>3. /\ sup' = [sup EXCEPT ![s].pc = "usage"]
      /\ receipts' = [receipts EXCEPT !.terminal = "none"]
  BY DEF Prepare
<1>4. sup[s] \in SupType /\ "usage" \in SupPcs
  BY DEF Inv, TypeOK, SupPcs
<1>5. sup'[s] = [sup[s] EXCEPT !.pc = "usage"] /\ \A t \in Supervisors : t # s => sup'[t] = sup[t]
  BY <1>3 DEF Inv, TypeOK
<1>6. TypeOK'
  <2>1. sup'[s] \in SupType
    BY <1>4, <1>5 DEF SupType
  <2>2. sup' \in [Supervisors -> SupType]
    BY <1>3, <2>1, <1>5 DEF Inv, TypeOK
  <2> QED
    BY <1>1, <1>2, <1>3, <2>2 DEF Inv, TypeOK
<1>7. Files'
  BY <1>1, <1>2 DEF Inv, Files, Settled
<1>8. PerSession(s)'
  BY <1>1, <1>2, <1>4, <1>5
     DEF Inv, PerSession, Owned, Quiet, Named, Ahead, Grounded, Counted, InSession, Shells, Settled,
         Attempt, SupType
<1>9. ASSUME NEW t \in Supervisors, t # s PROVE PerSession(t)'
  BY <1>2, <1>5, <1>9, OthersAreUndisturbed DEF Shells, Settled
<1> QED
  BY <1>6, <1>7, <1>8, <1>9 DEF Inv

-----------------------------------------------------------------------------
(* Steps that change only what one supervise() holds in memory.            *)
LEMMA MemoryStepKeepsInv ==
  ASSUME Inv, NEW s \in Supervisors, Local,
         sup' \in [Supervisors -> SupType],
         \A t \in Supervisors : t # s => sup'[t] = sup[t],
         PerSession(s)'
  PROVE  Inv'
<1>1. TypeOK' /\ Files'
  BY DEF Inv, Local, TypeOK, Files, Settled
<1>2. ASSUME NEW t \in Supervisors, t # s PROVE PerSession(t)'
  BY <1>2, OthersAreUndisturbed DEF Local, Shells, Settled
<1> QED
  BY <1>1, <1>2 DEF Inv

(* Outside of run and dead there is no engine.                             *)
LEMMA NoEngineOutsideRun ==
  ASSUME Inv, NEW s \in Supervisors, sup[s].pc \notin {"run", "dead"}
  PROVE  eng[s].pc = "none" /\ eng[s].msg # "terminal"
  BY DEF Inv, PerSession, Owned, Ahead

(* ReadUsage learns of every attempt that escaped an earlier invocation.   *)
LEMMA ReadUsageKeepsInv ==
  ASSUME Inv, NEW s \in Supervisors, ReadUsage(s)
  PROVE  Inv'
<1> DEFINE b == \/ receipts.usage = "incomplete"
                \/ receipts.usage = "none" /\ journal.state # "none"
           x == [sup[s] EXCEPT !.pc = "check", !.base = procs, !.uncertain = b]
<1>1. sup[s] \in SupType /\ sup[s].pc = "usage" /\ "check" \in SupPcs /\ b \in BOOLEAN
  BY DEF Inv, TypeOK, ReadUsage, SupPcs
<1>0. procs \in SUBSET Processes
  BY DEF Inv, TypeOK
<1>2. unmetered => b
  BY DEF Inv, Files, TypeOK
<1>3. sup' = [sup EXCEPT ![s] = x] /\ Local
  BY DEF ReadUsage
<1> HIDE DEF b
<1>4. /\ x \in SupType /\ x.pc = "check" /\ x.req = sup[s].req /\ x.restarts = sup[s].restarts
      /\ x.ledger = sup[s].ledger /\ x.terminal = sup[s].terminal /\ x.result = sup[s].result
      /\ x.uncertain = b
  BY <1>0, <1>1 DEF SupType
<1> HIDE DEF x
<1>5. /\ sup'[s] = x /\ sup' \in [Supervisors -> SupType]
      /\ \A t \in Supervisors : t # s => sup'[t] = sup[t]
  BY <1>3, <1>4 DEF Inv, TypeOK
<1>6. PerSession(s)'
  BY <1>1, <1>2, <1>3, <1>4, <1>5
     DEF Inv, PerSession, Owned, Quiet, Named, Ahead, Grounded, Counted, InSession, Shells, Settled,
         Attempt, Local
<1> QED
  BY <1>3, <1>5, <1>6, MemoryStepKeepsInv

(* A supervisor that leaves its loop without an engine.                    *)
LEMMA LeavingKeepsInv ==
  ASSUME Inv, NEW s \in Supervisors, NEW st \in Statuses \ {"completed"}, NEW u \in BOOLEAN,
         sup[s].pc \in InSession \ {"run"}, sup[s].pc = "usage" => u,
         Leave(s, st, u), Local
  PROVE  Inv'
<1>1. eng'[s].pc = "none" /\ eng'[s].msg # "terminal"
  BY NoEngineOutsideRun DEF InSession, Local
<1>2. unmetered => sup[s].uncertain \/ u
  BY DEF Inv, PerSession, Counted, InSession
<1>3. TypeOK /\ PerSession(s) /\ UNCHANGED <<procs, lock, identity, journal, receipts, unmetered>>
  BY DEF Inv, Local
<1>4. /\ sup' \in [Supervisors -> SupType] /\ PerSession(s)'
      /\ \A t \in Supervisors : t # s => sup'[t] = sup[t]
  BY <1>1, <1>2, <1>3, LeaveIsSound
<1> QED
  BY <1>4, MemoryStepKeepsInv

(* A supervisor that goes on, or back, to check or hash with nothing of    *)
(* its session running.                                                    *)
LEMMA GoingOnKeepsInv ==
  ASSUME Inv, NEW s \in Supervisors, NEW p \in {"check", "hash"}, NEW n \in 0..MaxRestarts,
         sup[s].pc \in {"check", "reinspect"}, Shells(s) = {},
         sup' = [sup EXCEPT ![s] = [sup[s] EXCEPT !.pc = p, !.restarts = n]], Local
  PROVE  Inv'
<1> DEFINE x == [sup[s] EXCEPT !.pc = p, !.restarts = n]
<1>1. sup[s] \in SupType /\ p \in SupPcs
  BY DEF Inv, TypeOK, SupPcs
<1>2. /\ x \in SupType /\ x.pc = p /\ x.req = sup[s].req
      /\ x.ledger = sup[s].ledger /\ x.terminal = sup[s].terminal /\ x.result = sup[s].result
      /\ x.uncertain = sup[s].uncertain
  BY <1>1 DEF SupType
<1>3. sup' = [sup EXCEPT ![s] = x]
  OBVIOUS
<1> HIDE DEF x
<1>4. /\ sup'[s] = x /\ sup' \in [Supervisors -> SupType]
      /\ \A t \in Supervisors : t # s => sup'[t] = sup[t]
  BY <1>2, <1>3 DEF Inv, TypeOK
<1>5. eng[s].pc = "none" /\ eng[s].msg # "terminal"
  BY NoEngineOutsideRun
<1>6. PerSession(s)'
  BY <1>2, <1>4, <1>5
     DEF Inv, PerSession, Owned, Quiet, Named, Ahead, Grounded, Counted, InSession, Shells, Settled,
         Attempt, Local
<1> QED
  BY <1>4, <1>6, MemoryStepKeepsInv

LEMMA CheckLoopKeepsInv ==
  ASSUME Inv, NEW s \in Supervisors, CheckLoop(s)
  PROVE  Inv'
<1>1. sup[s] \in SupType /\ sup[s].pc = "check" /\ Local
  BY DEF Inv, TypeOK, CheckLoop
<1>2. CASE sup[s].stopped # "none" /\ Leave(s, sup[s].stopped, FALSE)
  <2>1. sup[s].stopped \in Statuses \ {"completed"}
    BY <1>1, <1>2 DEF SupType, Statuses
  <2> QED
    BY <1>1, <1>2, <2>1, LeavingKeepsInv DEF InSession
<1>3. CASE sup' = [sup EXCEPT ![s].pc = "hash"]
  <2>1. /\ sup[s].restarts \in 0..MaxRestarts
        /\ [sup[s] EXCEPT !.pc = "hash"] = [sup[s] EXCEPT !.pc = "hash", !.restarts = sup[s].restarts]
    BY <1>1 DEF SupType
  <2>2. Shells(s) = {}
    BY <1>1 DEF Inv, PerSession, Quiet
  <2> QED
    BY <1>1, <1>3, <2>1, <2>2, GoingOnKeepsInv
<1> QED
  BY <1>2, <1>3 DEF CheckLoop

LEMMA ReinspectKeepsInv ==
  ASSUME Inv, Based, NEW s \in Supervisors, Reinspect(s)
  PROVE  Inv'
<1>1. sup[s] \in SupType /\ sup[s].pc = "reinspect" /\ Local
  BY DEF Inv, TypeOK, Reinspect
<1>2. CASE Leave(s, "failed", FALSE)
  <2>1. "failed" \in Statuses \ {"completed"}
    BY DEF Statuses
  <2> QED
    BY <1>1, <1>2, <2>1, LeavingKeepsInv DEF InSession
<1>3. CASE /\ Additional(s) = {} /\ sup[s].restarts < MaxRestarts
           /\ sup' = [sup EXCEPT ![s].pc = "check", ![s].restarts = @ + 1]
  <2>1. sup[s].restarts + 1 \in 0..MaxRestarts
    BY <1>1, <1>3, RestartsAssumption DEF SupType
  <2>2. sup' = [sup EXCEPT ![s] = [sup[s] EXCEPT !.pc = "check", !.restarts = sup[s].restarts + 1]]
    BY <1>3
  <2>3. Shells(s) = {}
    BY <1>3 DEF Based, Additional, Shells
  <2> QED
    BY <1>1, <2>1, <2>2, <2>3, GoingOnKeepsInv
<1> QED
  BY <1>2, <1>3 DEF Reinspect

LEMMA SuperviseThrowsKeepsInv ==
  ASSUME Inv, NEW s \in Supervisors, SuperviseThrows(s)
  PROVE  Inv'
<1> DEFINE st == IF sup[s].stopped = "none" THEN "failed" ELSE sup[s].stopped
<1>1. sup[s] \in SupType /\ sup[s].pc \in InSession \ {"run"} /\ Local /\ Leave(s, st, TRUE)
  BY DEF Inv, TypeOK, SuperviseThrows, InSession
<1>2. st \in Statuses \ {"completed"}
  BY <1>1 DEF SupType, Statuses
<1> QED
  BY <1>1, <1>2, LeavingKeepsInv

(* A deadline or a signal leaves the session as it is.                     *)
LEMMA StopKeepsInv ==
  ASSUME Inv, NEW s \in Supervisors, NEW reason \in {"timeout", "cancelled"}, Stop(s, reason)
  PROVE  Inv'
<1> DEFINE x == [sup[s] EXCEPT !.stopped = reason, !.killer = sup[s].pc = "run"]
<1>1. sup[s] \in SupType /\ (sup[s].pc = "run") \in BOOLEAN
  BY DEF Inv, TypeOK
<1>2. /\ x \in SupType /\ x.pc = sup[s].pc /\ x.req = sup[s].req /\ x.restarts = sup[s].restarts
      /\ x.ledger = sup[s].ledger /\ x.terminal = sup[s].terminal /\ x.result = sup[s].result
      /\ x.uncertain = sup[s].uncertain
  BY <1>1 DEF SupType
<1>3. sup' = [sup EXCEPT ![s] = x] /\ Local
  BY DEF Stop
<1> HIDE DEF x
<1>4. /\ sup'[s] = x /\ sup' \in [Supervisors -> SupType]
      /\ \A t \in Supervisors : t # s => sup'[t] = sup[t]
  BY <1>2, <1>3 DEF Inv, TypeOK
<1>5. PerSession(s)'
  BY <1>2, <1>3, <1>4
     DEF Inv, PerSession, Owned, Quiet, Named, Ahead, Grounded, Counted, InSession, Shells, Settled,
         Attempt, Local
<1> QED
  BY <1>3, <1>4, <1>5, MemoryStepKeepsInv

(* Beyond the loop a supervisor only moves on: to its second receipt once  *)
(* the first is there, or to the release.                                  *)
LEMMA ReceiptStepIsSound ==
  ASSUME Inv, NEW s \in Supervisors, NEW p \in {"write_terminal", "release"},
         sup[s].pc \in {"write_usage", "write_terminal"},
         p = "write_terminal" => receipts'.usage # "none",
         sup' = [sup EXCEPT ![s].pc = p],
         UNCHANGED <<eng, procs, lock, identity, journal, unmetered>>
  PROVE  /\ sup' \in [Supervisors -> SupType]
         /\ \A t \in Supervisors : t # s => sup'[t] = sup[t]
         /\ PerSession(s)'
<1> DEFINE x == [sup[s] EXCEPT !.pc = p]
<1>1. sup[s] \in SupType /\ p \in SupPcs
  BY DEF Inv, TypeOK, SupPcs
<1>2. /\ x \in SupType /\ x.pc = p /\ x.req = sup[s].req /\ x.restarts = sup[s].restarts
      /\ x.ledger = sup[s].ledger /\ x.terminal = sup[s].terminal /\ x.result = sup[s].result
  BY <1>1 DEF SupType
<1>3. sup' = [sup EXCEPT ![s] = x]
  OBVIOUS
<1> HIDE DEF x
<1>4. /\ sup'[s] = x /\ sup' \in [Supervisors -> SupType]
      /\ \A t \in Supervisors : t # s => sup'[t] = sup[t]
  BY <1>2, <1>3 DEF Inv, TypeOK
<1>5. eng[s].pc = "none" /\ eng[s].msg # "terminal"
  BY NoEngineOutsideRun
<1>6. PerSession(s)'
  BY <1>2, <1>4, <1>5
     DEF Inv, PerSession, Owned, Quiet, Named, Ahead, Grounded, Counted, InSession, Shells, Settled,
         Attempt
<1> QED
  BY <1>4, <1>6

LEMMA WriteFailsKeepsInv ==
  ASSUME Inv, NEW s \in Supervisors, WriteFails(s)
  PROVE  Inv'
<1>1. /\ sup[s].pc \in {"write_usage", "write_terminal"}
      /\ sup' = [sup EXCEPT ![s].pc = "release"] /\ Local
  BY DEF WriteFails
<1>2. UNCHANGED <<eng, procs, lock, identity, journal, unmetered>>
  BY <1>1 DEF Local
<1> QED
  BY <1>1, <1>2, ReceiptStepIsSound, MemoryStepKeepsInv

(* A receipt that calls the usage complete has nothing left to learn.      *)
LEMMA WriteUsageKeepsInv ==
  ASSUME Inv, NEW s \in Supervisors, WriteUsage(s)
  PROVE  Inv'
<1> DEFINE w == IF ~sup[s].uncertain /\ sup[s].ledger THEN "complete" ELSE "incomplete"
<1>1. /\ sup[s].pc = "write_usage" /\ sup' = [sup EXCEPT ![s].pc = "write_terminal"]
      /\ receipts' = [receipts EXCEPT !.usage = w]
      /\ UNCHANGED <<eng, procs, lock, identity, journal, unmetered>>
  BY DEF WriteUsage
<1>2. w = "complete" => Settled /\ ~unmetered
  BY <1>1 DEF Inv, PerSession, Grounded, Counted
<1>3. w \in {"complete", "incomplete"}
  OBVIOUS
<1> HIDE DEF w
<1>4. receipts'.usage = w /\ receipts'.terminal = receipts.terminal
  BY <1>1 DEF Inv, TypeOK
<1>5. /\ sup' \in [Supervisors -> SupType] /\ PerSession(s)'
      /\ \A t \in Supervisors : t # s => sup'[t] = sup[t]
  BY <1>1, <1>3, <1>4, ReceiptStepIsSound
<1>6. TypeOK'
  BY <1>1, <1>3, <1>5 DEF Inv, TypeOK
<1>7. Files'
  BY <1>1, <1>2, <1>3, <1>4 DEF Inv, Files, Settled
<1>8. ASSUME NEW t \in Supervisors, t # s PROVE PerSession(t)'
  BY <1>1, <1>3, <1>4, <1>5, <1>8, OthersAreUndisturbed DEF Shells, Settled
<1> QED
  BY <1>5, <1>6, <1>7, <1>8 DEF Inv

LEMMA WriteTerminalKeepsInv ==
  ASSUME Inv, NEW s \in Supervisors, WriteTerminal(s)
  PROVE  Inv'
<1>1. /\ sup[s].pc = "write_terminal" /\ sup' = [sup EXCEPT ![s].pc = "release"]
      /\ receipts' = [receipts EXCEPT !.terminal = sup[s].result]
      /\ UNCHANGED <<eng, procs, lock, identity, journal, unmetered>>
  BY DEF WriteTerminal
<1>2. /\ receipts.usage # "none"
      /\ sup[s].result = "completed" => journal.state = "done"
      /\ sup[s].result \in Statuses \cup {"none"}
  BY <1>1 DEF Inv, PerSession, Grounded, TypeOK, SupType
<1>3. receipts'.usage = receipts.usage /\ receipts'.terminal = sup[s].result
  BY <1>1 DEF Inv, TypeOK
<1>4. /\ sup' \in [Supervisors -> SupType] /\ PerSession(s)'
      /\ \A t \in Supervisors : t # s => sup'[t] = sup[t]
  BY <1>1, ReceiptStepIsSound
<1>5. TypeOK'
  BY <1>1, <1>2, <1>4 DEF Inv, TypeOK
<1>6. Files'
  BY <1>1, <1>2, <1>3 DEF Inv, Files, Settled
<1>7. ASSUME NEW t \in Supervisors, t # s PROVE PerSession(t)'
  BY <1>1, <1>3, <1>4, <1>7, OthersAreUndisturbed DEF Shells, Settled
<1> QED
  BY <1>4, <1>5, <1>6, <1>7 DEF Inv

(* The lock is given back by its owner, who has no engine.                 *)
LEMMA ReleaseKeepsInv ==
  ASSUME Inv, NEW s \in Supervisors, Release(s) \/ PrepareFails(s)
  PROVE  Inv'
<1>1. /\ sup[s].pc \in {"release", "prepare"} /\ sup' = [sup EXCEPT ![s] = Ended] /\ lock' = "none"
      /\ UNCHANGED <<eng, procs, identity, journal, receipts, unmetered>>
  BY DEF Release, PrepareFails
<1>2. lock = s /\ eng[s].pc = "none" /\ eng[s].msg # "terminal"
  BY <1>1, NoEngineOutsideRun DEF Inv, PerSession, Owned
<1>3. /\ sup'[s] = Ended /\ sup' \in [Supervisors -> SupType]
      /\ \A t \in Supervisors : t # s => sup'[t] = sup[t]
  BY <1>1, FreshIsTyped DEF Inv, TypeOK
<1>4. TypeOK' /\ Files'
  BY <1>1, <1>3 DEF Inv, TypeOK, Files, Settled
<1>5. PerSession(s)'
  BY <1>1, <1>2, <1>3, FreshIsTyped
     DEF Inv, PerSession, Owned, Quiet, Named, Ahead, Grounded, Counted, InSession, Shells, Settled,
         Attempt
<1>6. ASSUME NEW t \in Supervisors, t # s PROVE PerSession(t)'
  BY <1>1, <1>2, <1>3, <1>6, OthersAreUndisturbed DEF Shells, Settled
<1> QED
  BY <1>4, <1>5, <1>6 DEF Inv

(* A dead supervisor keeps its lock, and with it everybody out.            *)
LEMMA SupervisorDiesKeepsInv ==
  ASSUME Inv, NEW s \in Supervisors, SupervisorDies(s)
  PROVE  Inv'
<1> DEFINE x == [Fresh EXCEPT !.pc = "dead", !.req = sup[s].req, !.restarts = sup[s].restarts,
                              !.base = sup[s].base]
<1>1. /\ sup[s] \in SupType /\ Fresh \in SupType /\ "dead" \in SupPcs
      /\ sup[s].pc \notin {"idle", "end", "dead"}
  BY FreshIsTyped DEF Inv, TypeOK, SupervisorDies, SupPcs
<1>2. /\ x \in SupType /\ x.pc = "dead" /\ x.req = sup[s].req /\ x.restarts = sup[s].restarts
  BY <1>1 DEF SupType
<1>3. ~x.ledger /\ x.terminal = "none" /\ x.result = "none"
  BY DEF Fresh
<1>4. sup' = [sup EXCEPT ![s] = x] /\ Local
  BY DEF SupervisorDies
<1> HIDE DEF x
<1>5. /\ sup'[s] = x /\ sup' \in [Supervisors -> SupType]
      /\ \A t \in Supervisors : t # s => sup'[t] = sup[t]
  BY <1>2, <1>4 DEF Inv, TypeOK
<1>6. PerSession(s)'
  BY <1>1, <1>2, <1>3, <1>4, <1>5
     DEF Inv, PerSession, Owned, Quiet, Named, Ahead, Grounded, Counted, InSession, Shells, Settled,
         Attempt, Local
<1> QED
  BY <1>4, <1>5, <1>6, MemoryStepKeepsInv

-----------------------------------------------------------------------------
(* A new engine starts where nothing of the session is running.            *)
LEMMA SpawnKeepsInv ==
  ASSUME Inv, NEW s \in Supervisors, Spawn(s)
  PROVE  Inv'
<1>1. sup[s] \in SupType /\ sup[s].pc = "hash"
  BY DEF Inv, TypeOK, Spawn
<1>2. CASE sup[s].stopped # "none" /\ Leave(s, sup[s].stopped, FALSE) /\ UNCHANGED eng
  <2>1. sup[s].stopped \in Statuses \ {"completed"} /\ Local
    BY <1>1, <1>2 DEF SupType, Statuses, Spawn, Local
  <2> QED
    BY <1>1, <1>2, <2>1, LeavingKeepsInv DEF InSession
<1>3. CASE /\ sup' = [sup EXCEPT ![s].pc = "run", ![s].terminal = "none",
                                 ![s].fatal = FALSE, ![s].shell = FALSE]
           /\ eng' = [eng EXCEPT ![s] = [pc |-> "boot", msg |-> "none"]]
  <2> DEFINE x == [sup[s] EXCEPT !.pc = "run", !.terminal = "none", !.fatal = FALSE, !.shell = FALSE]
             y == [pc |-> "boot", msg |-> "none"]
  <2>1. "run" \in SupPcs /\ y \in EngType /\ y.pc = "boot" /\ y.msg = "none"
    BY DEF SupPcs, EngType, EngPcs, Messages
  <2>2. /\ x \in SupType /\ x.pc = "run" /\ x.req = sup[s].req /\ x.restarts = sup[s].restarts
        /\ x.ledger = sup[s].ledger /\ x.terminal = "none" /\ x.result = sup[s].result
        /\ x.uncertain = sup[s].uncertain
    BY <1>1, <2>1 DEF SupType
  <2>3. /\ sup' = [sup EXCEPT ![s] = x] /\ eng' = [eng EXCEPT ![s] = y]
        /\ UNCHANGED <<procs, lock, identity, journal, receipts, unmetered>>
    BY <1>3 DEF Spawn
  <2> HIDE DEF x, y
  <2>4. /\ sup'[s] = x /\ sup' \in [Supervisors -> SupType]
        /\ eng'[s] = y /\ eng' \in [Supervisors -> EngType]
        /\ \A t \in Supervisors : t # s => sup'[t] = sup[t] /\ eng'[t] = eng[t]
    BY <2>1, <2>2, <2>3 DEF Inv, TypeOK
  <2>5. TypeOK' /\ Files'
    BY <2>3, <2>4 DEF Inv, TypeOK, Files, Settled
  <2>6. PerSession(s)'
    BY <1>1, <2>1, <2>2, <2>3, <2>4
       DEF Inv, PerSession, Owned, Quiet, Named, Ahead, Grounded, Counted, InSession, Shells, Settled,
         Attempt
  <2>7. ASSUME NEW t \in Supervisors, t # s PROVE PerSession(t)'
    BY <2>3, <2>4, <2>7, OthersAreUndisturbed DEF Shells, Settled
  <2> QED
    BY <2>5, <2>6, <2>7 DEF Inv
<1> QED
  BY <1>2, <1>3 DEF Spawn

(* The variables y of supervise() with a message applied.                  *)
Applied(y, u, h, e, l, f) ==
  [y EXCEPT !.uncertain = u, !.shell = h, !.terminal = e, !.ledger = l, !.fatal = f]

(* A report is remembered before the engine goes on; a final message finds *)
(* its submission settled in the journal.                                  *)
LEMMA OnMessageKeepsInv ==
  ASSUME Inv, NEW s \in Supervisors, OnMessage(s)
  PROVE  Inv'
<1> DEFINE m == eng[s].msg
           After(u, h, e, l, f) ==
             /\ u = (sup[s].uncertain \/ m = "usage-incomplete")
             /\ h = IF m = "shell-start" THEN TRUE ELSE IF m = "shell-end" THEN FALSE ELSE sup[s].shell
             /\ e = IF m # "terminal" THEN sup[s].terminal
                    ELSE IF journal.state = "done" THEN "completed" ELSE "failed"
             /\ l = IF m = "terminal" THEN journal.metered ELSE sup[s].ledger
             /\ f = (sup[s].fatal \/ m = "fatal")
<1>1. sup[s] \in SupType /\ eng[s] \in EngType /\ sup[s].pc = "run" /\ m # "none"
  BY DEF Inv, TypeOK, OnMessage
<1>2. PICK u \in BOOLEAN, h \in BOOLEAN, e \in {"none", "completed", "failed"}, l \in BOOLEAN,
           f \in BOOLEAN : After(u, h, e, l, f)
  BY <1>1 DEF SupType, Inv, TypeOK
<1> DEFINE x == Applied(sup[s], u, h, e, l, f)
<1>3. /\ sup[s].uncertain => u
      /\ m = "usage-incomplete" => u
      /\ m # "terminal" => e = sup[s].terminal /\ l = sup[s].ledger
      /\ e = "completed" => sup[s].terminal = "completed" \/ journal.state = "done"
  BY <1>1, <1>2 DEF SupType
<1>4. sup' = [sup EXCEPT ![s] = x] /\ eng' = [eng EXCEPT ![s].msg = "none"]
      /\ UNCHANGED <<procs, lock, identity, journal, receipts, unmetered>>
  BY <1>2 DEF OnMessage, Applied
<1>5. /\ x \in SupType /\ x.pc = "run" /\ x.req = sup[s].req /\ x.restarts = sup[s].restarts
      /\ x.result = sup[s].result
      /\ x.uncertain = u /\ x.terminal = e /\ x.ledger = l
  <2> HIDE DEF After
  <2>1. u \in BOOLEAN /\ h \in BOOLEAN /\ l \in BOOLEAN /\ f \in BOOLEAN
    BY <1>2
  <2>2. PICK y \in SupType : y = sup[s]
    BY <1>1
  <2> DEFINE z == Applied(y, u, h, e, l, f)
  <2>3. z \in SupType
    BY Zenon DEF SupType, Applied
  <2>4. z.pc = y.pc /\ z.req = y.req /\ z.restarts = y.restarts /\ z.result = y.result
    BY DEF SupType, Applied
  <2>5. z.uncertain = u /\ z.terminal = e /\ z.ledger = l
    BY DEF SupType, Applied
  <2> QED
    BY <1>1, <2>2, <2>3, <2>4, <2>5, Zenon
<1> HIDE DEF x
<1>6. /\ sup'[s] = x /\ sup' \in [Supervisors -> SupType]
      /\ eng'[s].pc = eng[s].pc /\ eng'[s].msg = "none" /\ eng' \in [Supervisors -> EngType]
      /\ \A t \in Supervisors : t # s => sup'[t] = sup[t] /\ eng'[t] = eng[t]
  BY <1>1, <1>4, <1>5 DEF Inv, TypeOK, EngType
<1>7. TypeOK' /\ Files'
  BY <1>4, <1>6 DEF Inv, TypeOK, Files, Settled
<1>8. m = "terminal" => eng[s].pc \in {"settle", "dead"} /\ Settled
  BY DEF Inv, PerSession, Ahead
<1>9. Owned(s)' /\ Quiet(s)' /\ Named(s)'
  BY <1>1, <1>4, <1>5, <1>6
     DEF Inv, PerSession, Owned, Quiet, Named, InSession, Shells, Attempt
<1>10. Ahead(s)' /\ Grounded(s)'
  BY <1>1, <1>3, <1>4, <1>5, <1>6, <1>8 DEF Inv, PerSession, Ahead, Grounded, Settled
<1>11. Counted(s)'
  BY <1>1, <1>3, <1>4, <1>5, <1>6, <1>8 DEF Inv, PerSession, Counted
<1>12. ASSUME NEW t \in Supervisors, t # s PROVE PerSession(t)'
  BY <1>4, <1>6, <1>12, OthersAreUndisturbed DEF Shells, Settled
<1> QED
  BY <1>7, <1>9, <1>10, <1>11, <1>12 DEF Inv, PerSession

(* An engine that is gone without a final message leaves doubt.            *)
LEMMA OnExitKeepsInv ==
  ASSUME Inv, NEW s \in Supervisors, OnExit(s)
  PROVE  Inv'
<1>1. /\ sup[s] \in SupType /\ sup[s].pc = "run" /\ eng[s].pc = "dead" /\ ExitMeans(s)
      /\ eng' = [eng EXCEPT ![s] = NoEngine]
      /\ UNCHANGED <<procs, lock, identity, journal, receipts, unmetered>>
  BY DEF Inv, TypeOK, OnExit
<1>2. /\ eng'[s] = NoEngine /\ eng' \in [Supervisors -> EngType]
      /\ \A t \in Supervisors : t # s => eng'[t] = eng[t]
      /\ eng'[s].pc = "none" /\ eng'[s].msg # "terminal"
  BY <1>1, FreshIsTyped DEF Inv, TypeOK
<1>3. /\ sup' \in [Supervisors -> SupType] /\ PerSession(s)'
      /\ \A t \in Supervisors : t # s => sup'[t] = sup[t]
  <2>1. ASSUME NEW st \in Statuses, NEW u \in BOOLEAN, Leave(s, st, u),
               st = "completed" => journal.state = "done",
               ~u => sup[s].terminal # "none"
        PROVE  <1>3
    <3>1. unmetered => sup[s].uncertain \/ u
      BY <1>1, <2>1 DEF Inv, PerSession, Counted
    <3>2. TypeOK /\ PerSession(s) /\ sup[s].pc \in InSession
      BY <1>1 DEF Inv, InSession
    <3> QED
      BY <1>1, <1>2, <2>1, <3>1, <3>2, LeaveIsSound
  <2>2. CASE Leave(s, sup[s].stopped, TRUE) /\ sup[s].stopped # "none"
    <3>1. sup[s].stopped \in Statuses /\ sup[s].stopped # "completed"
      BY <1>1, <2>2 DEF SupType, Statuses
    <3> QED
      BY <2>1, <2>2, <3>1
  <2>3. CASE Leave(s, "failed", TRUE)
    BY <2>1, <2>3 DEF Statuses
  <2>4. CASE sup[s].terminal # "none" /\ Leave(s, sup[s].terminal, sup[s].terminal # "completed")
    <3>1. /\ sup[s].terminal \in Statuses /\ (sup[s].terminal # "completed") \in BOOLEAN
          /\ sup[s].terminal = "completed" => journal.state = "done"
      BY <1>1, <2>4 DEF SupType, Statuses, Inv, PerSession, Grounded
    <3> QED
      BY <2>1, <2>4, <3>1
  <2>5. CASE sup' = [sup EXCEPT ![s].pc = "reinspect", ![s].uncertain = TRUE]
    <3> DEFINE x == [sup[s] EXCEPT !.pc = "reinspect", !.uncertain = TRUE]
    <3>1. "reinspect" \in SupPcs
      BY DEF SupPcs
    <3>2. /\ x \in SupType /\ x.pc = "reinspect" /\ x.req = sup[s].req /\ x.restarts = sup[s].restarts
          /\ x.ledger = sup[s].ledger /\ x.terminal = sup[s].terminal /\ x.result = sup[s].result
          /\ x.uncertain = TRUE
      BY <1>1, <3>1 DEF SupType
    <3>3. sup' = [sup EXCEPT ![s] = x]
      BY <2>5
    <3> HIDE DEF x
    <3>4. /\ sup'[s] = x /\ sup' \in [Supervisors -> SupType]
          /\ \A t \in Supervisors : t # s => sup'[t] = sup[t]
      BY <3>2, <3>3 DEF Inv, TypeOK
    <3>5. PerSession(s)'
      BY <1>1, <1>2, <3>2, <3>4
         DEF Inv, PerSession, Owned, Quiet, Named, Ahead, Grounded, Counted, InSession, Shells, Settled,
         Attempt
    <3> QED
      BY <3>4, <3>5
  <2> QED
    BY <1>1, <2>2, <2>3, <2>4, <2>5 DEF ExitMeans
<1>4. TypeOK' /\ Files'
  BY <1>1, <1>2, <1>3 DEF Inv, TypeOK, Files, Settled
<1>5. ASSUME NEW t \in Supervisors, t # s PROVE PerSession(t)'
  BY <1>1, <1>2, <1>3, <1>5, OthersAreUndisturbed DEF Shells, Settled
<1> QED
  BY <1>3, <1>4, <1>5 DEF Inv

-----------------------------------------------------------------------------
(* What an engine does touches the channel, the journal and the processes  *)
(* of its own session.                                                     *)
LEMMA EngineStepKeepsInv ==
  ASSUME Inv, NEW s \in Supervisors, eng[s].pc # "none",
         NEW to \in EngPcs \ {"none"}, NEW m \in Messages \cup {"none"},
         eng' = [eng EXCEPT ![s] = [pc |-> to, msg |-> m]],
         UNCHANGED <<sup, lock, identity, receipts>>,
         procs' \subseteq Processes,
         \A t \in Supervisors : t # s => Shells(t)' = Shells(t),
         journal' \in [state : {"none", "open", "done", "failed"}, of : Requests \cup {"none"},
                       metered : BOOLEAN],
         unmetered' \in BOOLEAN,
         Settled => Settled',
         journal.state = "done" => journal'.state = "done",
         journal.state # "none" => journal'.state # "none",
         Files', Quiet(s)', Ahead(s)', Counted(s)'
  PROVE  Inv'
<1> DEFINE y == [pc |-> to, msg |-> m]
<1>1. y \in EngType /\ y.pc = to
  BY DEF EngType
<1>2. /\ eng'[s] = y /\ eng' \in [Supervisors -> EngType]
      /\ \A t \in Supervisors : t # s => eng'[t] = eng[t]
  BY <1>1 DEF Inv, TypeOK
<1> HIDE DEF y
<1>3. TypeOK'
  BY <1>2 DEF Inv, TypeOK
<1>4. Owned(s)' /\ Named(s)'
  BY <1>1, <1>2 DEF Inv, PerSession, Owned, Named
<1>5. Grounded(s)'
  BY DEF Inv, PerSession, Grounded
<1>6. ASSUME NEW t \in Supervisors, t # s PROVE PerSession(t)'
  BY <1>2, <1>6, OthersAreUndisturbed
<1> QED
  BY <1>3, <1>4, <1>5, <1>6 DEF Inv, PerSession

(* An engine owes its place to a supervisor that runs it, or died doing so.*)
LEMMA EngineHasASupervisor ==
  ASSUME Inv, NEW s \in Supervisors, eng[s].pc # "none"
  PROVE  /\ sup[s].pc \in {"run", "dead"}
         /\ sup[s] \in SupType /\ eng[s] \in EngType
         /\ eng[s].msg \in Messages \cup {"none"}
         /\ identity = sup[s].req /\ identity # "none" /\ identity \in Requests \cup {"none"}
  BY DEF Inv, TypeOK, EngType, PerSession, Owned, Named

(* An engine that ends while a request is out leaves it uncounted; no     *)
(* final message of it can follow.                                         *)
LEMMA EngineDeathKeepsInv ==
  ASSUME Inv, NEW s \in Supervisors, KillEngine(s) \/ EngineDies(s)
  PROVE  Inv'
<1>1. /\ eng[s].pc \notin {"none", "dead"}
      /\ eng' = [eng EXCEPT ![s].pc = "dead"]
      /\ unmetered' = (unmetered \/ eng[s].pc = "request")
      /\ UNCHANGED <<sup, procs, lock, identity, journal, receipts>>
  BY DEF KillEngine, EngineDies, EngineAlive
<1>2. /\ sup[s].pc \in {"run", "dead"} /\ eng[s] \in EngType
      /\ eng[s].msg \in Messages \cup {"none"}
  BY <1>1, EngineHasASupervisor
<1>3. [eng[s] EXCEPT !.pc = "dead"] = [pc |-> "dead", msg |-> eng[s].msg]
  BY <1>2 DEF EngType
<1>4. eng' = [eng EXCEPT ![s] = [pc |-> "dead", msg |-> eng[s].msg]]
  BY <1>1, <1>3
<1>5. eng'[s].pc = "dead" /\ eng'[s].msg = eng[s].msg /\ "dead" \in EngPcs \ {"none"}
  BY <1>4 DEF Inv, TypeOK, EngPcs
<1>6. Files'
  BY <1>1, <1>2 DEF Inv, PerSession, Files, Ahead, Settled
<1>7. Quiet(s)'
  BY <1>1 DEF Inv, PerSession, Quiet, Shells, Attempt
<1>8. Ahead(s)'
  BY <1>1, <1>5 DEF Inv, PerSession, Ahead, Settled
<1>9. Counted(s)'
  BY <1>1, <1>2, <1>5 DEF Inv, PerSession, Counted, Ahead
<1>10. unmetered' \in BOOLEAN
  BY <1>1 DEF Inv, TypeOK
<1>11. /\ procs' \subseteq Processes
       /\ journal' \in [state : {"none", "open", "done", "failed"}, of : Requests \cup {"none"},
                       metered : BOOLEAN]
       /\ \A t \in Supervisors : t # s => Shells(t)' = Shells(t)
  BY <1>1 DEF Inv, TypeOK, Shells
<1> QED
  BY <1>1, <1>2, <1>4, <1>5, <1>6, <1>7, <1>8, <1>9, <1>10, <1>11, EngineStepKeepsInv DEF Settled

(* The same for an engine that reports an error.                           *)
LEMMA EngineFailsKeepsInv ==
  ASSUME Inv, NEW s \in Supervisors, EngineFails(s)
  PROVE  Inv'
<1>1. /\ eng[s].pc \in {"boot", "turn", "request", "answered"} /\ eng[s].msg = "none"
      /\ eng' = [eng EXCEPT ![s] = [pc |-> "failing", msg |-> "fatal"]]
      /\ unmetered' = (unmetered \/ eng[s].pc = "request")
      /\ UNCHANGED <<sup, procs, lock, identity, journal, receipts>>
  BY DEF EngineFails
<1>2. sup[s].pc \in {"run", "dead"} /\ eng[s].pc # "none"
  BY <1>1, EngineHasASupervisor
<1>5. /\ eng'[s].pc = "failing" /\ eng'[s].msg = "fatal"
      /\ "failing" \in EngPcs \ {"none"} /\ "fatal" \in Messages \cup {"none"}
  BY <1>1 DEF Inv, TypeOK, EngPcs, Messages
<1>6. Files'
  BY <1>1, <1>2 DEF Inv, PerSession, Files, Ahead, Settled
<1>7. Quiet(s)'
  BY <1>1 DEF Inv, PerSession, Quiet, Shells, Attempt
<1>8. Ahead(s)'
  BY <1>1, <1>5 DEF Inv, PerSession, Ahead, Settled
<1>9. Counted(s)'
  BY <1>1, <1>2, <1>5 DEF Inv, PerSession, Counted, Ahead
<1>10. unmetered' \in BOOLEAN
  BY <1>1 DEF Inv, TypeOK
<1>11. /\ procs' \subseteq Processes
       /\ journal' \in [state : {"none", "open", "done", "failed"}, of : Requests \cup {"none"},
                       metered : BOOLEAN]
       /\ \A t \in Supervisors : t # s => Shells(t)' = Shells(t)
  BY <1>1 DEF Inv, TypeOK, Shells
<1> QED
  BY <1>1, <1>2, <1>5, <1>6, <1>7, <1>8, <1>9, <1>10, <1>11, EngineStepKeepsInv DEF Settled

(* A step of the engine that changes nothing on disk.                      *)
LEMMA EngineMoveKeepsInv ==
  ASSUME Inv, NEW s \in Supervisors, NEW from \in EngPcs \ {"none"},
         NEW to \in EngPcs \ {"none"}, NEW m \in Messages \cup {"none"},
         EngineStep(s, from, to, m), Ahead(s)', Counted(s)',
         UNCHANGED <<sup, procs, lock, identity, journal, receipts, unmetered>>
  PROVE  Inv'
<1>1. Files'
  BY DEF Inv, Files, Settled
<1>2. Quiet(s)'
  BY DEF Inv, PerSession, Quiet, Shells, Attempt
<1>3. /\ unmetered' \in BOOLEAN
      /\ procs' \subseteq Processes
      /\ journal' \in [state : {"none", "open", "done", "failed"}, of : Requests \cup {"none"},
                       metered : BOOLEAN]
      /\ \A t \in Supervisors : t # s => Shells(t)' = Shells(t)
  BY DEF Inv, TypeOK, Shells
<1>4. eng[s].pc # "none" /\ eng' = [eng EXCEPT ![s] = [pc |-> to, msg |-> m]]
  BY DEF EngineStep
<1> QED
  BY <1>1, <1>2, <1>3, <1>4, EngineStepKeepsInv DEF Settled

(* The turns of an engine, to the commit of its submission.               *)
LEMMA EngineMoves ==
  ASSUME Inv, NEW s \in Supervisors,
         SendRequest(s) \/ Metered(s) \/ ShellReleased(s) \/ EngineLeaves(s) \/ NextTurn(s)
  PROVE  Inv'
<1>1. ASSUME NEW from \in EngPcs \ {"none"}, NEW to \in EngPcs \ {"none", "settle", "metering", "failing"},
             NEW m \in {"none", "shell-start"},
             EngineStep(s, from, to, m),
             <<from, to>> \in {<<"turn", "request">>, <<"metering", "answered">>,
                              <<"shell_end", "turn">>, <<"settle", "dead">>,
                              <<"failing", "dead">>, <<"answered", "turn">>,
                              <<"answered", "shell_ask">>},
             UNCHANGED <<sup, procs, lock, identity, journal, receipts, unmetered>>
      PROVE  Inv'
  <2>1. /\ eng'[s].pc = to /\ eng'[s].msg = m /\ eng[s].pc = from /\ eng[s].msg = "none"
        /\ m \in Messages \cup {"none"}
    BY <1>1 DEF Inv, TypeOK, EngineStep, Messages
  <2>2. Ahead(s)'
    BY <1>1, <2>1 DEF Inv, PerSession, Ahead, Settled
  <2>3. Counted(s)'
    BY <1>1, <2>1 DEF Inv, PerSession, Counted
  <2> QED
    BY <1>1, <2>1, <2>2, <2>3, EngineMoveKeepsInv
<1>2. {"request", "answered", "turn", "dead", "shell_ask"} \subseteq EngPcs \ {"none", "settle", "metering", "failing"}
  BY DEF EngPcs
<1>3. {"turn", "metering", "shell_end", "settle", "failing", "answered"} \subseteq EngPcs \ {"none"}
  BY DEF EngPcs
<1>4. CASE SendRequest(s)
  BY <1>1, <1>2, <1>3, <1>4 DEF SendRequest
<1>5. CASE Metered(s)
  BY <1>1, <1>2, <1>3, <1>5 DEF Metered
<1>6. CASE ShellReleased(s)
  BY <1>1, <1>2, <1>3, <1>6 DEF ShellReleased
<1>7. CASE EngineLeaves(s)
  BY <1>1, <1>2, <1>3, <1>7 DEF EngineLeaves
<1>8. ASSUME EngineStep(s, "answered", "settle", "terminal"), NEW st \in {"done", "failed"},
             journal' = [journal EXCEPT !.state = st],
             UNCHANGED <<sup, procs, lock, identity, receipts, unmetered>>
      PROVE  Inv'
  <2>1. /\ journal.state \in {"none", "open", "done", "failed"}
        /\ journal' \in [state : {"none", "open", "done", "failed"}, of : Requests \cup {"none"},
                       metered : BOOLEAN]
        /\ journal'.state = st /\ journal'.of = journal.of
    BY <1>8 DEF Inv, TypeOK
  <2>2. /\ eng'[s].pc = "settle" /\ eng'[s].msg = "terminal"
        /\ eng[s].pc = "answered" /\ eng[s].msg = "none"
        /\ eng' = [eng EXCEPT ![s] = [pc |-> "settle", msg |-> "terminal"]]
        /\ "settle" \in EngPcs \ {"none"} /\ "terminal" \in Messages \cup {"none"}
    BY <1>8 DEF Inv, TypeOK, EngineStep, EngPcs, Messages
  <2>3. journal.state = "open"
    BY <2>1, <2>2 DEF Inv, PerSession, Ahead, Settled
  <2>4. Files' /\ Settled'
    BY <1>8, <2>1, <2>3 DEF Inv, Files, Settled
  <2>5. Quiet(s)'
    BY <1>8 DEF Inv, PerSession, Quiet, Shells, Attempt
  <2>6. Ahead(s)'
    BY <2>2, <2>4, <2>1, <1>8 DEF Ahead
  <2>7. Counted(s)'
    BY <1>8, <2>2 DEF Inv, PerSession, Counted
  <2>8. /\ unmetered' \in BOOLEAN
        /\ procs' \subseteq Processes
        /\ \A t \in Supervisors : t # s => Shells(t)' = Shells(t)
    BY <1>8 DEF Inv, TypeOK, Shells
  <2> QED
    BY <1>8, <2>1, <2>2, <2>3, <2>4, <2>5, <2>6, <2>7, <2>8, EngineStepKeepsInv
<1>9. CASE NextTurn(s)
  BY <1>1, <1>2, <1>3, <1>8, <1>9 DEF NextTurn
<1> QED
  BY <1>4, <1>5, <1>6, <1>7, <1>9

(* A session that is new gets its journal; one whose submission is         *)
(* committed is settled.                                                   *)
LEMMA OpenJournalKeepsInv ==
  ASSUME Inv, NEW s \in Supervisors, OpenJournal(s)
  PROVE  Inv'
<1>1. /\ eng[s].pc = "boot" /\ eng[s].msg = "none"
      /\ UNCHANGED <<sup, procs, lock, identity, receipts, unmetered>>
  BY DEF OpenJournal, EngineStep
<1>2. /\ identity = sup[s].req /\ identity # "none" /\ identity \in Requests \cup {"none"}
      /\ sup[s].pc \in {"run", "dead"}
  BY <1>1, EngineHasASupervisor
<1>3. /\ unmetered' \in BOOLEAN
      /\ procs' \subseteq Processes
      /\ \A t \in Supervisors : t # s => Shells(t)' = Shells(t)
  BY <1>1 DEF Inv, TypeOK, Shells
<1>4. Quiet(s)'
  BY <1>1 DEF Inv, PerSession, Quiet, Shells, Attempt
<1>5. /\ journal' \in [state : {"none", "open", "done", "failed"}, of : Requests \cup {"none"},
                       metered : BOOLEAN]
      /\ journal.state # "none" => journal' = journal
      /\ journal.state = "none" => journal'.state = "open" /\ journal'.of = identity
  BY <1>2 DEF Inv, TypeOK, OpenJournal
<1>6. Settled' <=> Settled
  BY <1>5 DEF Settled
<1>7. Files'
  BY <1>1, <1>2, <1>5, <1>6 DEF Inv, Files
<1>8. ASSUME NEW to \in {"settle", "turn"}, NEW m \in {"terminal", "none"},
             EngineStep(s, "boot", to, m), m = "terminal" => to = "settle",
             Settled <=> to = "settle"
      PROVE  Inv'
  <2>1. /\ eng'[s].pc = to /\ eng'[s].msg = m
        /\ eng' = [eng EXCEPT ![s] = [pc |-> to, msg |-> m]]
        /\ to \in EngPcs \ {"none"} /\ m \in Messages \cup {"none"}
    BY <1>8 DEF Inv, TypeOK, EngineStep, EngPcs, Messages
  <2>2. Ahead(s)'
    BY <1>1, <1>5, <1>6, <1>8, <2>1 DEF Inv, PerSession, Ahead
  <2>3. Counted(s)'
    BY <1>1, <1>2, <2>1 DEF Inv, PerSession, Counted
  <2> QED
    BY <1>1, <1>3, <1>4, <1>5, <1>6, <1>7, <2>1, <2>2, <2>3, EngineStepKeepsInv
<1> QED
  BY <1>8 DEF OpenJournal, Settled

(* An answer is metered in the journal, or its report is in the channel.   *)
LEMMA ProviderAnswersKeepsInv ==
  ASSUME Inv, NEW s \in Supervisors, ProviderAnswers(s)
  PROVE  Inv'
<1>1. /\ eng[s].pc = "request" /\ eng[s].msg = "none"
      /\ UNCHANGED <<sup, procs, lock, identity, receipts>>
  BY DEF ProviderAnswers, EngineStep
<1>2. sup[s].pc \in {"run", "dead"}
  BY <1>1, EngineHasASupervisor
<1>3. /\ procs' \subseteq Processes
      /\ \A t \in Supervisors : t # s => Shells(t)' = Shells(t)
  BY <1>1 DEF Inv, TypeOK, Shells
<1>4. Quiet(s)'
  BY <1>1 DEF Inv, PerSession, Quiet, Shells, Attempt
<1>5. /\ journal' \in [state : {"none", "open", "done", "failed"}, of : Requests \cup {"none"},
                       metered : BOOLEAN]
      /\ journal'.state = journal.state /\ journal'.of = journal.of
  BY DEF Inv, TypeOK, ProviderAnswers
<1>6. Settled' <=> Settled
  BY <1>5 DEF Settled
<1>7. ~Settled /\ journal.state # "none"
  BY <1>1 DEF Inv, PerSession, Ahead
<1>8. Files' /\ unmetered' \in BOOLEAN
  BY <1>1, <1>5, <1>6, <1>7 DEF Inv, TypeOK, Files, ProviderAnswers
<1>9. ASSUME NEW to \in {"answered", "metering"}, NEW m \in {"usage-incomplete", "none"},
             EngineStep(s, "request", to, m),
             \/ to = "metering" /\ m = "usage-incomplete"
             \/ to = "answered" /\ m = "none" /\ unmetered' = unmetered
      PROVE  Inv'
  <2>1. /\ eng'[s].pc = to /\ eng'[s].msg = m
        /\ eng' = [eng EXCEPT ![s] = [pc |-> to, msg |-> m]]
        /\ to \in EngPcs \ {"none"} /\ m \in Messages \cup {"none"}
    BY <1>9 DEF Inv, TypeOK, EngineStep, EngPcs, Messages
  <2>2. Ahead(s)'
    BY <1>1, <1>5, <1>6, <1>7, <1>9, <2>1 DEF Inv, PerSession, Ahead
  <2>3. Counted(s)'
    BY <1>1, <1>2, <1>9, <2>1 DEF Inv, PerSession, Counted
  <2> QED
    BY <1>1, <1>3, <1>4, <1>5, <1>6, <1>8, <2>1, <2>2, <2>3, EngineStepKeepsInv
<1> QED
  BY <1>9 DEF ProviderAnswers

(* A shell belongs to the attempt that spawned it.                         *)
LEMMA ShellKeepsInv ==
  ASSUME Inv, NEW s \in Supervisors, SpawnShell(s) \/ ShellEnds(s)
  PROVE  Inv'
<1> DEFINE q == <<s, Attempt(s)>>
<1>1. /\ eng[s].pc \in {"shell_ask", "shell"} /\ eng[s].msg = "none"
      /\ UNCHANGED <<sup, lock, identity, journal, receipts, unmetered>>
      /\ procs' \in {procs, procs \cup {q}, procs \ {q}}
  BY DEF SpawnShell, ShellEnds, EngineStep
<1>2. sup[s].pc \in {"run", "dead"} /\ sup[s] \in SupType
  BY <1>1, EngineHasASupervisor
<1>3. q \in Processes /\ q[1] = s /\ q[2] = Attempt(s)
  BY <1>2, RestartsAssumption DEF SupType, Attempt, Processes
<1> HIDE DEF q
<1>4. procs' \subseteq Processes
  BY <1>1, <1>3 DEF Inv, TypeOK
<1>5. \A t \in Supervisors : t # s => Shells(t)' = Shells(t)
  BY <1>1, <1>3 DEF Shells
<1>6. Quiet(s)'
  BY <1>1, <1>2, <1>3 DEF Inv, PerSession, Quiet, Shells, Attempt
<1>7. Files' /\ unmetered' \in BOOLEAN
      /\ journal' \in [state : {"none", "open", "done", "failed"}, of : Requests \cup {"none"},
                       metered : BOOLEAN]
  BY <1>1 DEF Inv, TypeOK, Files, Settled
<1>8. ASSUME NEW from \in {"shell_ask", "shell"}, NEW to \in {"shell", "shell_end"},
             NEW m \in {"shell-end", "none"}, EngineStep(s, from, to, m)
      PROVE  Inv'
  <2>1. /\ eng'[s].pc = to /\ eng'[s].msg = m
        /\ eng' = [eng EXCEPT ![s] = [pc |-> to, msg |-> m]]
        /\ to \in EngPcs \ {"none"} /\ m \in Messages \cup {"none"}
    BY <1>8 DEF Inv, TypeOK, EngineStep, EngPcs, Messages
  <2>2. Ahead(s)'
    BY <1>1, <1>8, <2>1 DEF Inv, PerSession, Ahead, Settled
  <2>3. Counted(s)'
    BY <1>1, <1>2, <1>8, <2>1 DEF Inv, PerSession, Counted
  <2> QED
    BY <1>1, <1>4, <1>5, <1>6, <1>7, <2>1, <2>2, <2>3, EngineStepKeepsInv DEF Settled
<1> QED
  BY <1>8 DEF SpawnShell, ShellEnds

(* A process that ends takes nothing with it.                              *)
LEMMA ProcessExitsKeepsInv ==
  ASSUME Inv, NEW p \in procs, ProcessExits(p)
  PROVE  Inv'
<1>1. /\ procs' \subseteq procs
      /\ UNCHANGED <<sup, eng, lock, identity, journal, receipts, unmetered>>
  BY DEF ProcessExits
<1>2. TypeOK' /\ Files'
  BY <1>1 DEF Inv, TypeOK, Files, Settled
<1>3. ASSUME NEW t \in Supervisors PROVE PerSession(t)'
  <2>1. Quiet(t)'
    BY <1>1 DEF Inv, PerSession, Quiet, Shells, Attempt
  <2>2. Owned(t)' /\ Named(t)' /\ Ahead(t)' /\ Grounded(t)' /\ Counted(t)'
    BY <1>1 DEF Inv, PerSession, Owned, Named, Ahead, Grounded, Counted, Settled
  <2> QED
    BY <2>1, <2>2 DEF PerSession
<1> QED
  BY <1>2, <1>3 DEF Inv

(* Every step of every process keeps the invariant.                        *)
LEMMA NextKeepsInv == Inv /\ Based /\ [Next]_vars => Inv'
<1> SUFFICES ASSUME Inv, Based, [Next]_vars PROVE Inv'
  OBVIOUS
<1>1. CASE UNCHANGED vars
  <2>1. TypeOK' /\ Files'
    BY <1>1 DEF Inv, TypeOK, Files, Settled, vars
  <2>2. ASSUME NEW t \in Supervisors PROVE PerSession(t)'
    BY <1>1 DEF Inv, PerSession, Owned, Quiet, Named, Ahead, Grounded, Counted, Settled, Shells,
                Attempt, vars
  <2> QED
    BY <2>1, <2>2 DEF Inv
<1>2. ASSUME NEW s \in Supervisors, NEW r \in Requests, Launch(s, r) PROVE Inv'
  BY <1>2, LaunchKeepsInv
<1>3. ASSUME NEW s \in Supervisors, SupervisorStep(s) PROVE Inv'
  BY <1>3, PrepareKeepsInv, ReleaseKeepsInv, ReadUsageKeepsInv, CheckLoopKeepsInv, SpawnKeepsInv,
     SuperviseThrowsKeepsInv, OnExitKeepsInv, ReinspectKeepsInv, WriteUsageKeepsInv,
     WriteTerminalKeepsInv, WriteFailsKeepsInv DEF SupervisorStep
<1>4. ASSUME NEW s \in Supervisors,
             \/ OnMessage(s) \/ SupervisorDies(s)
             \/ \E reason \in {"timeout", "cancelled"} : Stop(s, reason)
      PROVE  Inv'
  BY <1>4, OnMessageKeepsInv, SupervisorDiesKeepsInv, StopKeepsInv
<1>5. ASSUME NEW s \in Supervisors, EngineNext(s) \/ KillEngine(s) PROVE Inv'
  BY <1>5, EngineDeathKeepsInv, EngineFailsKeepsInv, EngineMoves, OpenJournalKeepsInv,
     ProviderAnswersKeepsInv, ShellKeepsInv DEF EngineNext
<1>6. ASSUME NEW p \in procs, ProcessExits(p) PROVE Inv'
  BY <1>6, ProcessExitsKeepsInv
<1> QED
  BY <1>1, <1>2, <1>3, <1>4, <1>5, <1>6 DEF Next

-----------------------------------------------------------------------------
(* A step that spawns nothing, begins no watch, and keeps every inventory  *)
(* that is watched by.                                                     *)
Unwatchful ==
  /\ procs' \subseteq procs
  /\ \A t \in Supervisors :
       /\ sup'[t].base \in {sup[t].base, {}}
       /\ Watched(t)' => Watched(t) /\ sup'[t].base = sup[t].base

LEMMA UnwatchfulKeepsBased ==
  ASSUME Based, Unwatchful
  PROVE  Based'
<1>1. ASSUME NEW t \in Supervisors
      PROVE  /\ \A p \in sup'[t].base : p[1] # t
             /\ Watched(t)' => \A p \in procs' : p[1] # t => p \in sup'[t].base
  <2>1. /\ sup'[t].base \in {sup[t].base, {}}
        /\ Watched(t)' => Watched(t) /\ sup'[t].base = sup[t].base
        /\ procs' \subseteq procs
    BY DEF Unwatchful
  <2>2. /\ \A p \in sup[t].base : p[1] # t
        /\ Watched(t) => \A p \in procs : p[1] # t => p \in sup[t].base
    BY DEF Based
  <2> QED
    BY <2>1, <2>2
<1> QED
  BY <1>1 DEF Based

(* What a step of s does to the inventory and the watch of the others.     *)
LEMMA OneSupervisorUnwatchful ==
  ASSUME NEW s \in Supervisors, procs' \subseteq procs,
         \A t \in Supervisors : t # s => sup'[t] = sup[t] /\ eng'[t] = eng[t],
         sup'[s].base \in {sup[s].base, {}},
         Watched(s)' => Watched(s) /\ sup'[s].base = sup[s].base
  PROVE  Unwatchful
  BY DEF Unwatchful, Watched

(* break leaves no inventory, and no engine to watch.                      *)
LEMMA LeaveUnwatchful ==
  ASSUME TypeOK, NEW s \in Supervisors, NEW st, NEW u, Leave(s, st, u),
         eng'[s].pc = "none",
         \A t \in Supervisors : t # s => eng'[t] = eng[t], UNCHANGED procs
  PROVE  Unwatchful
<1>1. /\ sup'[s].pc = "write_usage" /\ sup'[s].base = {}
      /\ \A t \in Supervisors : t # s => sup'[t] = sup[t]
  BY DEF Leave, Fresh, TypeOK
<1> QED
  BY <1>1, OneSupervisorUnwatchful DEF Watched

(* A step of supervise() that spawns no engine and reads no inventory.     *)
LEMMA SupervisorUnwatchful ==
  ASSUME Inv, NEW s \in Supervisors,
         \/ Prepare(s) \/ PrepareFails(s) \/ CheckLoop(s) \/ Spawn(s) \/ SuperviseThrows(s)
         \/ OnExit(s) \/ Reinspect(s) \/ WriteUsage(s) \/ WriteTerminal(s) \/ WriteFails(s)
         \/ Release(s)
  PROVE  Unwatchful
<1>1. sup \in [Supervisors -> SupType] /\ sup[s] \in SupType /\ eng \in [Supervisors -> EngType]
  BY DEF Inv, TypeOK
<1>2. ASSUME NEW st, NEW u, Leave(s, st, u), eng' = eng \/ eng' = [eng EXCEPT ![s] = NoEngine],
             eng' = eng => sup[s].pc \notin {"run", "dead"}, UNCHANGED procs
      PROVE  Unwatchful
  <2>1. eng'[s].pc = "none" /\ \A t \in Supervisors : t # s => eng'[t] = eng[t]
    BY <1>1, <1>2, NoEngineOutsideRun, FreshIsTyped
  <2> QED
    BY <1>2, <2>1, LeaveUnwatchful DEF Inv
<1>3. ASSUME NEW x, sup' = [sup EXCEPT ![s] = x], x.base \in {sup[s].base, {}},
             x.pc \in {"check", "hash", "run", "reinspect"} => Watched(s) /\ x.base = sup[s].base,
             eng'[s].pc # "none" => Watched(s) /\ x.base = sup[s].base,
             \A t \in Supervisors : t # s => eng'[t] = eng[t],
             procs' \subseteq procs
      PROVE  Unwatchful
  <2>1. sup'[s] = x /\ \A t \in Supervisors : t # s => sup'[t] = sup[t]
    BY <1>1, <1>3
  <2>2. Watched(s)' => Watched(s) /\ sup'[s].base = sup[s].base
    BY <1>3, <2>1 DEF Watched
  <2> QED
    BY <1>3, <2>1, <2>2, OneSupervisorUnwatchful
<1>4. CASE Prepare(s) \/ PrepareFails(s) \/ Release(s)
  <2>1. eng[s].pc = "none" /\ UNCHANGED <<eng, procs>>
    BY <1>4, NoEngineOutsideRun DEF Prepare, PrepareFails, Release
  <2>2. CASE Prepare(s)
    <3> DEFINE x == [sup[s] EXCEPT !.pc = "usage"]
    <3>1. sup' = [sup EXCEPT ![s] = x] /\ x.pc = "usage" /\ x.base = sup[s].base
      BY <1>1, <2>2 DEF Prepare, SupType
    <3> HIDE DEF x
    <3> QED
      BY <1>3, <2>1, <3>1
  <2>3. CASE PrepareFails(s) \/ Release(s)
    <3>1. sup' = [sup EXCEPT ![s] = Ended] /\ Ended.pc = "end" /\ Ended.base = {}
      BY <2>3 DEF PrepareFails, Release, Ended, Fresh
    <3> QED
      BY <1>3, <2>1, <3>1
  <2> QED
    BY <1>4, <2>2, <2>3
<1>5. CASE WriteUsage(s) \/ WriteTerminal(s) \/ WriteFails(s)
  <2>1. eng[s].pc = "none" /\ UNCHANGED <<eng, procs>>
    BY <1>5, NoEngineOutsideRun DEF WriteUsage, WriteTerminal, WriteFails, Local
  <2>2. PICK p \in {"write_terminal", "release"} : sup' = [sup EXCEPT ![s].pc = p]
    BY <1>5 DEF WriteUsage, WriteTerminal, WriteFails
  <2> DEFINE x == [sup[s] EXCEPT !.pc = p]
  <2>3. sup' = [sup EXCEPT ![s] = x] /\ x.pc = p /\ x.base = sup[s].base
    BY <1>1, <2>2 DEF SupType
  <2> HIDE DEF x
  <2> QED
    BY <1>3, <2>1, <2>3
<1>6. CASE CheckLoop(s)
  <2>1. sup[s].pc = "check" /\ UNCHANGED <<eng, procs>>
    BY <1>6 DEF CheckLoop, Local
  <2>2. CASE Leave(s, sup[s].stopped, FALSE)
    BY <1>2, <2>1, <2>2
  <2>3. CASE sup' = [sup EXCEPT ![s].pc = "hash"]
    <3> DEFINE x == [sup[s] EXCEPT !.pc = "hash"]
    <3>1. sup' = [sup EXCEPT ![s] = x] /\ x.pc = "hash" /\ x.base = sup[s].base
      BY <1>1, <2>3 DEF SupType
    <3> HIDE DEF x
    <3> QED
      BY <1>3, <2>1, <3>1 DEF Watched
  <2> QED
    BY <1>6, <2>2, <2>3 DEF CheckLoop
<1>7. CASE Spawn(s)
  <2>1. sup[s].pc = "hash" /\ UNCHANGED procs
    BY <1>7 DEF Spawn
  <2>2. CASE Leave(s, sup[s].stopped, FALSE) /\ UNCHANGED eng
    BY <1>2, <2>1, <2>2
  <2>3. CASE /\ sup' = [sup EXCEPT ![s].pc = "run", ![s].terminal = "none",
                                   ![s].fatal = FALSE, ![s].shell = FALSE]
             /\ eng' = [eng EXCEPT ![s] = [pc |-> "boot", msg |-> "none"]]
    <3> DEFINE x == [sup[s] EXCEPT !.pc = "run", !.terminal = "none", !.fatal = FALSE,
                                   !.shell = FALSE]
    <3>1. sup' = [sup EXCEPT ![s] = x] /\ x.base = sup[s].base
      BY <1>1, <2>3 DEF SupType
    <3>2. \A t \in Supervisors : t # s => eng'[t] = eng[t]
      BY <1>1, <2>3
    <3> HIDE DEF x
    <3> QED
      BY <1>3, <2>1, <3>1, <3>2 DEF Watched
  <2> QED
    BY <1>7, <2>2, <2>3 DEF Spawn
<1>8. CASE SuperviseThrows(s)
  BY <1>2, <1>8 DEF SuperviseThrows, Local
<1>9. CASE OnExit(s)
  <2>1. sup[s].pc = "run" /\ eng' = [eng EXCEPT ![s] = NoEngine] /\ UNCHANGED procs
        /\ eng'[s] = NoEngine /\ eng[s].pc = "dead" /\ NoEngine.pc = "none"
        /\ \A t \in Supervisors : t # s => eng'[t] = eng[t]
    BY <1>1, <1>9 DEF OnExit, NoEngine
  <2>2. ASSUME NEW st, NEW u, Leave(s, st, u) PROVE Unwatchful
    BY <2>1, <2>2, LeaveUnwatchful DEF Inv
  <2>3. CASE sup' = [sup EXCEPT ![s].pc = "reinspect", ![s].uncertain = TRUE]
    <3> DEFINE x == [sup[s] EXCEPT !.pc = "reinspect", !.uncertain = TRUE]
    <3>1. sup' = [sup EXCEPT ![s] = x] /\ x.base = sup[s].base
      BY <1>1, <2>3 DEF SupType
    <3> HIDE DEF x
    <3> QED
      BY <1>3, <2>1, <3>1 DEF Watched
  <2> QED
    BY <1>9, <2>2, <2>3 DEF OnExit, ExitMeans
<1>10. CASE Reinspect(s)
  <2>1. sup[s].pc = "reinspect" /\ UNCHANGED <<eng, procs>>
    BY <1>10 DEF Reinspect, Local
  <2>2. CASE Leave(s, "failed", FALSE)
    BY <1>2, <2>1, <2>2
  <2>3. CASE sup' = [sup EXCEPT ![s].pc = "check", ![s].restarts = @ + 1]
    <3> DEFINE x == [sup[s] EXCEPT !.pc = "check", !.restarts = sup[s].restarts + 1]
    <3>1. x.base = sup[s].base
      BY <1>1 DEF SupType
    <3>2. sup' = [sup EXCEPT ![s] = x]
      BY <2>3
    <3> HIDE DEF x
    <3> QED
      BY <1>3, <2>1, <3>1, <3>2 DEF Watched
  <2> QED
    BY <1>10, <2>2, <2>3 DEF Reinspect
<1> QED
  BY <1>4, <1>5, <1>6, <1>7, <1>8, <1>9, <1>10

(* Every other step, but the one that reads the inventory and the one that *)
(* spawns a shell, watches as before.                                      *)
LEMMA OtherUnwatchful ==
  ASSUME Inv, NEW s \in Supervisors,
         \/ \E r \in Requests : Launch(s, r)
         \/ OnMessage(s) \/ KillEngine(s) \/ SupervisorDies(s)
         \/ \E reason \in {"timeout", "cancelled"} : Stop(s, reason)
         \/ EngineNext(s) /\ ~SpawnShell(s)
  PROVE  Unwatchful
<1>1. sup \in [Supervisors -> SupType] /\ sup[s] \in SupType /\ eng \in [Supervisors -> EngType]
      /\ eng[s] \in EngType
  BY DEF Inv, TypeOK
<1>2. ASSUME NEW x, sup' = [sup EXCEPT ![s] = x], x.base \in {sup[s].base, {}},
             x.pc \in {"check", "hash", "run", "reinspect"} => Watched(s) /\ x.base = sup[s].base,
             eng'[s].pc # "none" => eng[s].pc # "none" /\ x.base = sup[s].base,
             \A t \in Supervisors : t # s => eng'[t] = eng[t],
             procs' \subseteq procs
      PROVE  Unwatchful
  <2>1. sup'[s] = x /\ \A t \in Supervisors : t # s => sup'[t] = sup[t]
    BY <1>1, <1>2
  <2>2. Watched(s)' => Watched(s) /\ sup'[s].base = sup[s].base
    BY <1>2, <2>1 DEF Watched
  <2> QED
    BY <1>2, <2>1, <2>2, OneSupervisorUnwatchful
<1>3. ASSUME NEW r \in Requests, Launch(s, r) PROVE Unwatchful
  <2> DEFINE x == IF lock = "none" THEN [sup[s] EXCEPT !.req = r, !.pc = "prepare"] ELSE Ended
  <2>1. sup' = [sup EXCEPT ![s] = x] /\ UNCHANGED <<eng, procs>> /\ eng[s].pc = "none"
    BY <1>3, NoEngineOutsideRun DEF Launch
  <2>2. x.pc \in {"prepare", "end"} /\ x.base \in {sup[s].base, {}}
    <3>1. Ended.pc = "end" /\ Ended.base = {}
      BY DEF Ended, Fresh
    <3>2. LET y == [sup[s] EXCEPT !.req = r, !.pc = "prepare"]
          IN  y.pc = "prepare" /\ y.base = sup[s].base
      BY <1>1 DEF SupType
    <3> QED
      BY <3>1, <3>2
  <2> HIDE DEF x
  <2> QED
    BY <1>2, <2>1, <2>2
<1>4. CASE OnMessage(s)
  <2> DEFINE m == eng[s].msg
             x == [sup[s] EXCEPT
                !.uncertain = sup[s].uncertain \/ m = "usage-incomplete",
                !.shell = IF m = "shell-start" THEN TRUE ELSE IF m = "shell-end" THEN FALSE
                          ELSE sup[s].shell,
                !.terminal = IF m # "terminal" THEN sup[s].terminal
                             ELSE IF journal.state = "done" THEN "completed" ELSE "failed",
                !.ledger = IF m = "terminal" THEN journal.metered ELSE sup[s].ledger,
                !.fatal = sup[s].fatal \/ m = "fatal"]
  <2>1. x.base = sup[s].base
    BY <1>1 DEF SupType
  <2>2. sup[s].pc = "run" /\ sup' = [sup EXCEPT ![s] = x] /\ UNCHANGED procs
        /\ eng' = [eng EXCEPT ![s].msg = "none"]
    BY <1>4 DEF OnMessage
  <2>3. eng'[s].pc = eng[s].pc /\ \A t \in Supervisors : t # s => eng'[t] = eng[t]
    BY <1>1, <2>2 DEF EngType
  <2> HIDE DEF x
  <2> QED
    BY <1>2, <2>1, <2>2, <2>3 DEF Watched
<1>5. CASE SupervisorDies(s)
  <2> DEFINE x == [Fresh EXCEPT !.pc = "dead", !.req = sup[s].req, !.restarts = sup[s].restarts,
                                !.base = sup[s].base]
  <2>1. x.pc = "dead" /\ x.base = sup[s].base
    BY DEF Fresh
  <2>2. sup' = [sup EXCEPT ![s] = x] /\ UNCHANGED <<eng, procs>>
    BY <1>5 DEF SupervisorDies, Local
  <2> HIDE DEF x
  <2> QED
    BY <1>2, <2>1, <2>2
<1>6. ASSUME NEW reason, Stop(s, reason) PROVE Unwatchful
  <2> DEFINE x == [sup[s] EXCEPT !.stopped = reason, !.killer = sup[s].pc = "run"]
  <2>1. x.pc = sup[s].pc /\ x.base = sup[s].base
    BY <1>1 DEF SupType
  <2>2. sup' = [sup EXCEPT ![s] = x] /\ UNCHANGED <<eng, procs>>
    BY <1>6 DEF Stop, Local
  <2> HIDE DEF x
  <2> QED
    BY <1>2, <2>1, <2>2 DEF Watched
<1>7. CASE KillEngine(s) \/ (EngineNext(s) /\ ~SpawnShell(s))
  <2>1. eng[s].pc # "none" /\ UNCHANGED sup /\ procs' \subseteq procs
    BY <1>7 DEF KillEngine, EngineNext, EngineAlive, EngineStep, OpenJournal, SendRequest,
      ProviderAnswers, Metered, NextTurn, ShellEnds, ShellReleased, EngineFails, EngineLeaves,
      EngineDies
  <2>2. \E e : eng' = [eng EXCEPT ![s] = e]
    BY <1>7 DEF KillEngine, EngineNext, EngineAlive, EngineStep, OpenJournal, SendRequest,
      ProviderAnswers, Metered, NextTurn, ShellEnds, ShellReleased, EngineFails, EngineLeaves,
      EngineDies
  <2>3. \A t \in Supervisors : t # s => eng'[t] = eng[t]
    BY <1>1, <2>2
  <2>4. Watched(s)
    BY <2>1 DEF Watched
  <2> QED
    BY <2>1, <2>3, <2>4, OneSupervisorUnwatchful
<1> QED
  BY <1>3, <1>4, <1>5, <1>6, <1>7

(* Nobody but the owner of the lock spawns, and a new inventory finds no   *)
(* process of its own launch.                                              *)
LEMMA NextKeepsBased == Inv /\ Based /\ [Next]_vars => Based'
<1> SUFFICES ASSUME Inv, Based, [Next]_vars PROVE Based'
  OBVIOUS
<1>1. CASE UNCHANGED vars
  BY <1>1 DEF Based, Watched, vars
<1>2. ASSUME NEW s \in Supervisors, ReadUsage(s) PROVE Based'
  <2>1. /\ sup[s].pc = "usage" /\ UNCHANGED <<eng, procs>>
        /\ sup'[s].base = procs /\ \A t \in Supervisors : t # s => sup'[t] = sup[t]
    BY <1>2 DEF ReadUsage, Local, Inv, TypeOK, SupType
  <2>2. \A p \in procs : p[1] # s
    BY <2>1 DEF Inv, PerSession, Quiet, Shells
  <2>3. ASSUME NEW t \in Supervisors, t # s
        PROVE  sup'[t] = sup[t] /\ (Watched(t)' => Watched(t))
    BY <2>1, <2>3 DEF Watched
  <2> QED
    BY <2>1, <2>2, <2>3 DEF Based
<1>3. ASSUME NEW s \in Supervisors, SpawnShell(s) PROVE Based'
  <2>1. /\ sup[s].pc = "run" /\ UNCHANGED sup /\ procs' = procs \cup {<<s, Attempt(s)>>}
        /\ Watched(s)
        /\ \A t \in Supervisors : t # s => eng'[t] = eng[t]
    BY <1>3 DEF SpawnShell, EngineStep, Inv, TypeOK, Watched
  <2>2. ASSUME NEW t \in Supervisors, Watched(t) PROVE t = s
    BY <2>1, <2>2, NobodyAssumption DEF Watched, Inv, PerSession, Owned
  <2>3. ASSUME NEW t \in Supervisors
        PROVE  /\ \A p \in sup'[t].base : p[1] # t
               /\ Watched(t)' => \A p \in procs' : p[1] # t => p \in sup'[t].base
    <3>1. CASE t = s
      BY <2>1, <3>1 DEF Based
    <3>2. CASE t # s
      <4>1. ~Watched(t)'
        BY <2>1, <2>2, <3>2 DEF Watched
      <4> QED
        BY <2>1, <4>1 DEF Based
    <3> QED
      BY <3>1, <3>2
  <2> QED
    BY <2>3 DEF Based
<1>4. ASSUME NEW s \in Supervisors, SupervisorStep(s), ~ReadUsage(s) PROVE Based'
  BY <1>4, SupervisorUnwatchful, UnwatchfulKeepsBased DEF SupervisorStep
<1>5. ASSUME NEW s \in Supervisors,
             \/ \E r \in Requests : Launch(s, r)
             \/ OnMessage(s) \/ KillEngine(s) \/ SupervisorDies(s)
             \/ \E reason \in {"timeout", "cancelled"} : Stop(s, reason)
             \/ EngineNext(s) /\ ~SpawnShell(s)
      PROVE  Based'
  BY <1>5, OtherUnwatchful, UnwatchfulKeepsBased
<1>6. ASSUME NEW p \in procs, ProcessExits(p) PROVE Based'
  <2>1. procs' \subseteq procs /\ UNCHANGED <<sup, eng>>
    BY <1>6 DEF ProcessExits
  <2> QED
    BY <2>1 DEF Based, Watched
<1> QED
  BY <1>1, <1>2, <1>3, <1>4, <1>5, <1>6 DEF Next

-----------------------------------------------------------------------------
(* Who has an engine alive holds the lock, so there is one of them.        *)
LEMMA AtMostOne ==
  ASSUME NEW A, \A a, b \in A : a = b
  PROVE  Cardinality(A) <= 1
<1>1. CASE A = {}
  BY <1>1, FS_EmptySet
<1>2. CASE A # {}
  <2>1. PICK a \in A : TRUE
    BY <1>2
  <2>2. A = {a}
    BY <2>1
  <2>3. Cardinality({a}) = 1
    BY FS_Singleton
  <2> QED
    BY <2>2, <2>3
<1> QED
  BY <1>1, <1>2

LEMMA InvIsExclusive == Inv /\ Based => SessionIsExclusive
<1> SUFFICES ASSUME Inv, Based PROVE SessionIsExclusive
  OBVIOUS
<1>1. ASSUME NEW s \in Supervisors, EngineAlive(s)
      PROVE  lock = s /\ sup[s].pc \in {"run", "dead"} /\ identity = sup[s].req
  BY <1>1 DEF EngineAlive, Inv, PerSession, Owned, Named
<1>2. OneEngine
  BY <1>1, AtMostOne DEF OneEngine
<1>3. QuietRestart
  <2> SUFFICES ASSUME NEW s \in Supervisors, EngineAlive(s), NEW p \in procs
               PROVE  p = <<s, Attempt(s)>> \/ (p \in sup[s].base /\ p[1] # s)
    BY DEF QuietRestart
  <2>1. p \in Processes /\ Watched(s) /\ sup[s].pc # "end"
    BY <1>1 DEF Inv, TypeOK, Watched, EngineAlive
  <2>2. CASE p[1] = s
    BY <2>1, <2>2 DEF Inv, PerSession, Quiet, Shells, Processes
  <2>3. CASE p[1] # s
    BY <2>1, <2>3 DEF Based
  <2> QED
    BY <2>2, <2>3
<1>4. JournalIsOwn
  BY <1>1 DEF JournalIsOwn, EngineAlive, Inv, PerSession, Ahead, Files
<1> QED
  BY <1>2, <1>3, <1>4 DEF Inv, SessionIsExclusive

(* Whatever invocations are made on one session directory and whichever of *)
(* the processes die, at most one engine works on it, on its own journal,  *)
(* and beside it run only its attempt's shell and what the inventory of    *)
(* its launch found running of earlier launches (the exclusive owner.lock  *)
(* of prepareState, extraProcesses before a restart).                      *)
THEOREM SessionHasOneEngine == Spec => []SessionIsExclusive
<1>1. Spec => [](Inv /\ Based)
  BY InitInv, InitBased, NextKeepsInv, NextKeepsBased, PTL DEF Spec
<1> QED
  BY <1>1, InvIsExclusive, PTL

(* A usage receipt that says complete has counted every provider attempt   *)
(* of every invocation, and a terminal receipt stands on the journal       *)
(* (writeJSON at the end of supervise()).                                  *)
THEOREM ReceiptsClaimNoMore == Spec => []ReceiptsAreHonest
<1>1. Inv => ReceiptsAreHonest
  BY DEF Inv, Files, ReceiptsAreHonest, MeteringIsHonest, TerminalIsGrounded
<1>2. Spec => []Inv
  BY InitInv, InitBased, NextKeepsInv, NextKeepsBased, PTL DEF Spec
<1> QED
  BY <1>1, <1>2, PTL
=============================================================================
