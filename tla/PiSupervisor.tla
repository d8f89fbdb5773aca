---------------------------- MODULE PiSupervisor ----------------------------
(***************************************************************************)
(* The Pi agent inside a microVM (agents/pi/src): a supervisor that owns   *)
(* one session directory, runs an engine process over the session's        *)
(* journal, restarts it after an unexpected death, and writes the receipts *)
(* the factory reads.                                                      *)
(*                                                                         *)
(* A supervisor is one invocation; several may be made on one directory,   *)
(* one after the other or at once.  Interleaved here: the supervisors,     *)
(* their engines, the shells the engines spawn, the deadline and signals,  *)
(* and the death of any process at any moment.  The IPC channel carries    *)
(* the one message the engine is awaiting the acknowledgement of; what is  *)
(* in it when the engine dies is read or is lost.                          *)
(***************************************************************************)
EXTENDS Naturals, FiniteSets

CONSTANTS
  Supervisors,    \* invocations on one session directory
  Requests,       \* distinct request contents for that directory
  MaxRestarts     \* max_process_restarts

ASSUME SupervisorsAssumption == IsFiniteSet(Supervisors)
ASSUME RestartsAssumption == MaxRestarts \in {0, 1}
ASSUME NobodyAssumption == "none" \notin Supervisors /\ "none" \notin Requests

VARIABLES
  sup,        \* sup[s]: the state of supervise() in invocation s
  eng,        \* eng[s]: the current engine process of s
  procs,      \* live shells and what they left running: <<s, attempt>>
  lock,       \* owner.lock: the invocation that created it, or "none"
  identity,   \* identity.json: the request of the session, or "none"
  journal,    \* journal/main.jsonl
  receipts,   \* usage.json and terminal.json
  unmetered   \* history: some provider attempt escaped the usage ledger

vars == <<sup, eng, procs, lock, identity, journal, receipts, unmetered>>

Statuses == {"completed", "failed", "timeout", "cancelled"}
SupPcs == {"idle", "prepare", "usage", "check", "hash", "run", "reinspect",
           "write_usage", "write_terminal", "release", "end", "dead"}
EngPcs == {"none", "boot", "turn", "request", "metering", "answered", "shell_ask",
           "shell", "shell_end", "settle", "failing", "dead"}
Messages == {"usage-incomplete", "shell-start", "shell-end", "terminal", "fatal"}

(* A shell, or what it left running, by the engine that spawned it. *)
Processes == Supervisors \X (1..(MaxRestarts + 1))

(* The variables of supervise(); result is what break leaves in it, base   *)
(* the processes in its baseline inventory.                                *)
Fresh ==
  [pc |-> "idle", req |-> "none", stopped |-> "none", uncertain |-> FALSE,
   restarts |-> 0, terminal |-> "none", fatal |-> FALSE, shell |-> FALSE,
   killer |-> FALSE, ledger |-> FALSE, result |-> "none", base |-> {}]
Ended == [Fresh EXCEPT !.pc = "end"]

NoEngine == [pc |-> "none", msg |-> "none"]

SupType ==
  [pc : SupPcs, req : Requests \cup {"none"}, stopped : {"none", "timeout", "cancelled"},
   uncertain : BOOLEAN, restarts : 0..MaxRestarts, terminal : {"none", "completed", "failed"},
   fatal : BOOLEAN, shell : BOOLEAN, killer : BOOLEAN, ledger : BOOLEAN,
   result : Statuses \cup {"none"}, base : SUBSET Processes]
EngType == [pc : EngPcs, msg : Messages \cup {"none"}]

Init ==
  /\ sup = [s \in Supervisors |-> Fresh]
  /\ eng = [s \in Supervisors |-> NoEngine]
  /\ procs = {}
  /\ lock = "none"
  /\ identity = "none"
  /\ journal = [state |-> "none", of |-> "none", metered |-> FALSE]
  /\ receipts = [usage |-> "none", terminal |-> "none"]
  /\ unmetered = FALSE

EngineAlive(s) == eng[s].pc \notin {"none", "dead"}
Attempt(s) == sup[s].restarts + 1

(* Steps that change only what supervise() holds in memory. *)
Local == UNCHANGED <<eng, procs, lock, identity, journal, receipts, unmetered>>

(***************************************************************************)
(* The supervisor                                                          *)
(***************************************************************************)

(* prepareState: the lock is created exclusively and never taken over. *)
Launch(s, r) ==
  /\ sup[s].pc = "idle"
  /\ sup' = [sup EXCEPT ![s] = IF lock = "none" THEN [@ EXCEPT !.req = r, !.pc = "prepare"] ELSE Ended]
  /\ lock' = IF lock = "none" THEN s ELSE lock
  /\ UNCHANGED <<eng, procs, identity, journal, receipts, unmetered>>

(* prepareState: the session is this request's, with its journal, or it is *)
(* new and there is no journal.  Then the old terminal receipt goes.       *)
SessionIsUsable(s) ==
  \/ identity = sup[s].req /\ journal.state # "none"
  \/ identity = "none" /\ journal.state = "none"

Prepare(s) ==
  /\ sup[s].pc = "prepare"
  /\ SessionIsUsable(s)
  /\ identity' = sup[s].req
  /\ receipts' = [receipts EXCEPT !.terminal = "none"]
  /\ sup' = [sup EXCEPT ![s].pc = "usage"]
  /\ UNCHANGED <<eng, procs, lock, journal, unmetered>>

(* A session that is not usable, or a file that cannot be written. *)
PrepareFails(s) ==
  /\ sup[s].pc = "prepare"
  /\ lock' = "none"
  /\ sup' = [sup EXCEPT ![s] = Ended]
  /\ UNCHANGED <<eng, procs, identity, journal, receipts, unmetered>>

(* Mutant: a missing receipt counts as a complete one. *)
ReadUsageTrusting(s) ==
  /\ sup[s].pc = "usage"
  /\ sup' = [sup EXCEPT ![s].pc = "check", ![s].base = procs,
                        ![s].uncertain = receipts.usage = "incomplete"]
  /\ Local

(* The completeness receipt of earlier invocations, then the inventory to  *)
(* compare with later: it accepts whatever earlier launches left running.  *)
ReadUsage(s) ==
  /\ sup[s].pc = "usage"
  /\ sup' = [sup EXCEPT ![s].pc = "check", ![s].base = procs,
       ![s].uncertain = \/ receipts.usage = "incomplete"
                        \/ receipts.usage = "none" /\ journal.state # "none"]
  /\ Local

(* break: the loop, and its variables, are left with a result; finally     *)
(* takes the timer and the handlers off.                                   *)
Leave(s, status, uncertain) ==
  sup' = [sup EXCEPT ![s] = [Fresh EXCEPT
    !.pc = "write_usage", !.req = sup[s].req, !.restarts = sup[s].restarts,
    !.result = status, !.ledger = sup[s].ledger,
    !.uncertain = sup[s].uncertain \/ uncertain]]

(* The head of the loop; a restart needs the journal it resumes. *)
CheckLoop(s) ==
  /\ sup[s].pc = "check"
  /\ \/ /\ sup[s].stopped # "none"
        /\ Leave(s, sup[s].stopped, FALSE)
     \/ /\ sup[s].stopped = "none"
        /\ sup[s].restarts > 0 => journal.state # "none"
        /\ sup' = [sup EXCEPT ![s].pc = "hash"]
  /\ Local

(* Mutant: nobody looks at the deadline after the digests. *)
SpawnUnchecked(s) ==
  /\ sup[s].pc = "hash"
  /\ sup' = [sup EXCEPT ![s].pc = "run", ![s].terminal = "none",
                        ![s].fatal = FALSE, ![s].shell = FALSE]
  /\ eng' = [eng EXCEPT ![s] = [pc |-> "boot", msg |-> "none"]]
  /\ UNCHANGED <<procs, lock, identity, journal, receipts, unmetered>>

(* After the digests, the deadline is looked at again before the spawn. *)
Spawn(s) ==
  /\ sup[s].pc = "hash"
  /\ \/ /\ sup[s].stopped # "none"
        /\ Leave(s, sup[s].stopped, FALSE)
        /\ UNCHANGED eng
     \/ /\ sup[s].stopped = "none"
        /\ sup' = [sup EXCEPT ![s].pc = "run", ![s].terminal = "none",
                              ![s].fatal = FALSE, ![s].shell = FALSE]
        /\ eng' = [eng EXCEPT ![s] = [pc |-> "boot", msg |-> "none"]]
  /\ UNCHANGED <<procs, lock, identity, journal, receipts, unmetered>>

(* A file, a digest, an inspection or the spawn fails: catch. *)
SuperviseThrows(s) ==
  /\ sup[s].pc \in {"usage", "check", "hash", "reinspect"}
  /\ Leave(s, IF sup[s].stopped = "none" THEN "failed" ELSE sup[s].stopped, TRUE)
  /\ Local

(* child.on('message'): the message is applied and acknowledged. *)
OnMessage(s) ==
  /\ sup[s].pc = "run"
  /\ eng[s].msg # "none"
  /\ LET m == eng[s].msg IN
       sup' = [sup EXCEPT
         ![s].uncertain = @ \/ m = "usage-incomplete",
         ![s].shell = IF m = "shell-start" THEN TRUE ELSE IF m = "shell-end" THEN FALSE ELSE @,
         ![s].terminal = IF m # "terminal" THEN @
                         ELSE IF journal.state = "done" THEN "completed" ELSE "failed",
         ![s].ledger = IF m = "terminal" THEN journal.metered ELSE @,
         ![s].fatal = @ \/ m = "fatal"]
  /\ eng' = [eng EXCEPT ![s].msg = "none"]
  /\ UNCHANGED <<procs, lock, identity, journal, receipts, unmetered>>

(* Mutant: a death during a shell call is recovered from like any other. *)
ExitIgnoresShell(s) ==
  IF sup[s].stopped # "none" THEN Leave(s, sup[s].stopped, TRUE)
  ELSE IF sup[s].fatal THEN Leave(s, "failed", TRUE)
  ELSE IF sup[s].terminal # "none"
    THEN Leave(s, sup[s].terminal, sup[s].terminal # "completed")
  ELSE sup' = [sup EXCEPT ![s].pc = "check", ![s].uncertain = TRUE,
                          ![s].restarts = IF @ < MaxRestarts THEN @ + 1 ELSE @]

(* What the exit of an engine means, in the order the code looks at it. *)
ExitMeans(s) ==
  IF sup[s].stopped # "none" THEN Leave(s, sup[s].stopped, TRUE)
  ELSE IF sup[s].fatal THEN Leave(s, "failed", TRUE)
  ELSE IF sup[s].terminal # "none"
    THEN Leave(s, sup[s].terminal, sup[s].terminal # "completed")
  ELSE IF sup[s].shell THEN Leave(s, "failed", TRUE)
  ELSE sup' = [sup EXCEPT ![s].pc = "reinspect", ![s].uncertain = TRUE]

(* child.once('exit'): a message still in the channel is lost. *)
OnExit(s) ==
  /\ sup[s].pc = "run"
  /\ eng[s].pc = "dead"
  /\ ExitMeans(s)
  /\ eng' = [eng EXCEPT ![s] = NoEngine]
  /\ UNCHANGED <<procs, lock, identity, journal, receipts, unmetered>>

(* extraProcesses(baseline, inspect()). *)
Additional(s) == procs \ sup[s].base

(* After an unexplained death: stray processes, then the allowance. *)
Reinspect(s) ==
  /\ sup[s].pc = "reinspect"
  /\ \/ /\ Additional(s) # {} \/ sup[s].restarts >= MaxRestarts
        /\ Leave(s, "failed", FALSE)
     \/ /\ Additional(s) = {} /\ sup[s].restarts < MaxRestarts
        /\ sup' = [sup EXCEPT ![s].pc = "check", ![s].restarts = @ + 1]
  /\ Local

(* The deadline or a signal, while the handlers are installed. *)
StopWindow == {"usage", "check", "hash", "run", "reinspect"}

Stop(s, reason) ==
  /\ sup[s].pc \in StopWindow
  /\ sup[s].stopped = "none"
  /\ sup' = [sup EXCEPT ![s].stopped = reason, ![s].killer = sup[s].pc = "run"]
  /\ Local

(* The SIGKILL one second after stop(). *)
KillEngine(s) ==
  /\ sup[s].killer
  /\ EngineAlive(s)
  /\ eng' = [eng EXCEPT ![s].pc = "dead"]
  /\ unmetered' = (unmetered \/ eng[s].pc = "request")
  /\ UNCHANGED <<sup, procs, lock, identity, journal, receipts>>

(* writeJSON of the receipts, one after the other. *)
WriteUsage(s) ==
  /\ sup[s].pc = "write_usage"
  /\ receipts' = [receipts EXCEPT !.usage =
       IF ~sup[s].uncertain /\ sup[s].ledger THEN "complete" ELSE "incomplete"]
  /\ sup' = [sup EXCEPT ![s].pc = "write_terminal"]
  /\ UNCHANGED <<eng, procs, lock, identity, journal, unmetered>>

(* recovery.json, then terminal.json. *)
WriteTerminal(s) ==
  /\ sup[s].pc = "write_terminal"
  /\ receipts' = [receipts EXCEPT !.terminal = sup[s].result]
  /\ sup' = [sup EXCEPT ![s].pc = "release"]
  /\ UNCHANGED <<eng, procs, lock, identity, journal, unmetered>>

(* A receipt that cannot be written skips the rest, never the release. *)
WriteFails(s) ==
  /\ sup[s].pc \in {"write_usage", "write_terminal"}
  /\ sup' = [sup EXCEPT ![s].pc = "release"]
  /\ Local

Release(s) ==
  /\ sup[s].pc = "release"
  /\ lock' = "none"
  /\ sup' = [sup EXCEPT ![s] = Ended]
  /\ UNCHANGED <<eng, procs, identity, journal, receipts, unmetered>>

(* The supervisor is killed: its lock stays behind, and its engine, if it  *)
(* has one, among the processes that were there at its launch.             *)
SupervisorDies(s) ==
  /\ sup[s].pc \notin {"idle", "end", "dead"}
  /\ sup' = [sup EXCEPT ![s] = [Fresh EXCEPT !.pc = "dead", !.req = sup[s].req,
                                             !.restarts = sup[s].restarts, !.base = sup[s].base]]
  /\ Local

(***************************************************************************)
(* The engine                                                              *)
(***************************************************************************)

EngineStep(s, from, to, msg) ==
  /\ eng[s].pc = from
  /\ eng[s].msg = "none"
  /\ eng' = [eng EXCEPT ![s] = [pc |-> to, msg |-> msg]]

(* The journal is opened or created and the submission reacquired: a       *)
(* committed one is settled without another request.                       *)
OpenJournal(s) ==
  /\ IF journal.state \in {"done", "failed"}
       THEN EngineStep(s, "boot", "settle", "terminal")
       ELSE EngineStep(s, "boot", "turn", "none")
  /\ journal' = IF journal.state = "none"
                  THEN [journal EXCEPT !.state = "open", !.of = sup[s].req] ELSE journal
  /\ UNCHANGED <<sup, procs, lock, identity, receipts, unmetered>>

SendRequest(s) ==
  /\ EngineStep(s, "turn", "request", "none")
  /\ UNCHANGED <<sup, procs, lock, identity, journal, receipts, unmetered>>

(* tracked(): an attempt without usage, or in error, is reported, and the  *)
(* report acknowledged, before the harness sees the end of the attempt.    *)
ProviderAnswers(s) ==
  /\ \/ /\ EngineStep(s, "request", "answered", "none")
        /\ journal' = [journal EXCEPT !.metered = TRUE]
        /\ UNCHANGED unmetered
     \/ /\ EngineStep(s, "request", "metering", "usage-incomplete")
        /\ unmetered' = TRUE
        /\ UNCHANGED journal
  /\ UNCHANGED <<sup, procs, lock, identity, receipts>>

Metered(s) ==
  /\ sup[s].pc = "run"
  /\ EngineStep(s, "metering", "answered", "none")
  /\ UNCHANGED <<sup, procs, lock, identity, journal, receipts, unmetered>>

(* The harness goes on: a file tool and another turn, a shell, or the end. *)
NextTurn(s) ==
  /\ \/ EngineStep(s, "answered", "turn", "none") /\ UNCHANGED journal
     \/ EngineStep(s, "answered", "shell_ask", "shell-start") /\ UNCHANGED journal
     \/ \E st \in {"done", "failed"} :
          /\ EngineStep(s, "answered", "settle", "terminal")
          /\ journal' = [journal EXCEPT !.state = st]
  /\ UNCHANGED <<sup, procs, lock, identity, receipts, unmetered>>

(* guardedBash: the tool spawns once the supervisor has acknowledged. *)
SpawnShell(s) ==
  /\ sup[s].pc = "run"
  /\ EngineStep(s, "shell_ask", "shell", "none")
  /\ procs' = procs \cup {<<s, Attempt(s)>>}
  /\ UNCHANGED <<sup, lock, identity, journal, receipts, unmetered>>

(* The command ends; what it put in the background may stay. *)
ShellEnds(s) ==
  /\ EngineStep(s, "shell", "shell_end", "shell-end")
  /\ procs' \in {procs, procs \ {<<s, Attempt(s)>>}}
  /\ UNCHANGED <<sup, lock, identity, journal, receipts, unmetered>>

ShellReleased(s) ==
  /\ sup[s].pc = "run"
  /\ EngineStep(s, "shell_end", "turn", "none")
  /\ UNCHANGED <<sup, procs, lock, identity, journal, receipts, unmetered>>

(* main(): an error of engine() (storage, provider, stop, disconnect) is   *)
(* reported as fatal.                                                      *)
EngineFails(s) ==
  /\ eng[s].pc \in {"boot", "turn", "request", "answered"}
  /\ eng[s].msg = "none"
  /\ eng' = [eng EXCEPT ![s] = [pc |-> "failing", msg |-> "fatal"]]
  /\ unmetered' = (unmetered \/ eng[s].pc = "request")
  /\ UNCHANGED <<sup, procs, lock, identity, journal, receipts>>

(* The terminal or fatal notification was acknowledged: disconnect, exit. *)
EngineLeaves(s) ==
  /\ sup[s].pc = "run"
  /\ eng[s].pc \in {"settle", "failing"}
  /\ EngineStep(s, eng[s].pc, "dead", "none")
  /\ UNCHANGED <<sup, procs, lock, identity, journal, receipts, unmetered>>

(* The engine process dies by itself; its shell does not die with it. *)
EngineDies(s) ==
  /\ EngineAlive(s)
  /\ eng' = [eng EXCEPT ![s].pc = "dead"]
  /\ unmetered' = (unmetered \/ eng[s].pc = "request")
  /\ UNCHANGED <<sup, procs, lock, identity, journal, receipts>>

(* A shell without its engine, or a background process, ends. *)
ProcessExits(p) ==
  /\ p \in procs
  /\ ~(eng[p[1]].pc = "shell" /\ Attempt(p[1]) = p[2])
  /\ procs' = procs \ {p}
  /\ UNCHANGED <<sup, eng, lock, identity, journal, receipts, unmetered>>

SupervisorStep(s) ==
  \/ Prepare(s) \/ PrepareFails(s) \/ ReadUsage(s) \/ CheckLoop(s)
  \/ Spawn(s) \/ SuperviseThrows(s) \/ OnExit(s) \/ Reinspect(s) \/ WriteUsage(s)
  \/ WriteTerminal(s) \/ WriteFails(s) \/ Release(s)

EngineNext(s) ==
  \/ OpenJournal(s) \/ SendRequest(s) \/ ProviderAnswers(s) \/ Metered(s) \/ NextTurn(s)
  \/ SpawnShell(s) \/ ShellEnds(s) \/ ShellReleased(s) \/ EngineFails(s) \/ EngineLeaves(s)
  \/ EngineDies(s)

Next ==
  \/ \E s \in Supervisors :
       \/ \E r \in Requests : Launch(s, r)
       \/ SupervisorStep(s) \/ OnMessage(s) \/ KillEngine(s) \/ SupervisorDies(s)
       \/ \E reason \in {"timeout", "cancelled"} : Stop(s, reason)
       \/ EngineNext(s)
  \/ \E p \in procs : ProcessExits(p)

Spec == Init /\ [][Next]_vars

(* Pending file operations settle, the deadline timer fires, SIGKILL       *)
(* kills, and an exit is reported.  The engine, the provider and the shell *)
(* may hang for ever.                                                      *)
Fairness ==
  \A s \in Supervisors :
    /\ WF_vars(SupervisorStep(s))
    /\ WF_vars(Stop(s, "timeout"))
    /\ WF_vars(KillEngine(s))

FairSpec == Spec /\ Fairness

-----------------------------------------------------------------------------
(* Properties *)

TypeOK ==
  /\ sup \in [Supervisors -> SupType]
  /\ eng \in [Supervisors -> EngType]
  /\ procs \subseteq Processes
  /\ lock \in Supervisors \cup {"none"}
  /\ identity \in Requests \cup {"none"}
  /\ journal \in [state : {"none", "open", "done", "failed"}, of : Requests \cup {"none"},
                  metered : BOOLEAN]
  /\ receipts \in [usage : {"none", "complete", "incomplete"}, terminal : Statuses \cup {"none"}]
  /\ unmetered \in BOOLEAN

(* No two engines work on one session, whatever invocations are made and   *)
(* whoever dies: not even the engine that outlived its supervisor beside   *)
(* that of a later one ("Never steal a stale lock").                       *)
OneEngine == Cardinality({s \in Supervisors : EngineAlive(s)}) <= 1

(* What runs beside an engine is its own attempt's shell and what earlier  *)
(* launches on the session left running, which the inventory at this       *)
(* launch found and accepted (supervisor.mjs:42): no process of an earlier *)
(* attempt, and none of any launch that started after the inventory.       *)
QuietRestart ==
  \A s \in Supervisors : EngineAlive(s) =>
    \A p \in procs :
      \/ p = <<s, Attempt(s)>>
      \/ p \in sup[s].base /\ p[1] # s

(* Usage that is called complete is: no provider attempt of any invocation *)
(* of the session was interrupted or came back without metering.           *)
MeteringIsHonest == receipts.usage = "complete" => ~unmetered

(* An engine only works on the journal of its own request. *)
JournalIsOwn ==
  \A s \in Supervisors :
    eng[s].pc \notin {"none", "dead", "boot", "failing"} => journal.of = sup[s].req

(* Through crashes, restarts and later launches, one engine at most works  *)
(* on a session, on the journal of its own request, and shares the tree    *)
(* with no process but its own and those its launch found there.           *)
SessionIsExclusive == TypeOK /\ OneEngine /\ QuietRestart /\ JournalIsOwn

(* A terminal receipt comes after the usage receipt it stands on, and one  *)
(* that says completed is about a submission the journal holds as done.    *)
TerminalIsGrounded ==
  /\ receipts.terminal # "none" => receipts.usage # "none"
  /\ receipts.terminal = "completed" => journal.state = "done"

(* The receipts the factory reads claim no more than what happened.        *)
ReceiptsAreHonest == MeteringIsHonest /\ TerminalIsGrounded

(* Every invocation ends by its deadline, though engine, provider and      *)
(* shell may hang for ever.                                                *)
SupervisorEnds ==
  \A s \in Supervisors : sup[s].pc = "usage" ~> sup[s].pc \in {"end", "dead"}
=============================================================================
