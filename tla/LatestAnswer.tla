---------------------------- MODULE LatestAnswer ----------------------------
(***************************************************************************)
(* What a console screen may rely on when it reads one endpoint: the data  *)
(* it holds is an answer to a question it asked, an answer is only ever    *)
(* put in place for the question that is being asked now, and the evidence *)
(* on the screen never becomes older.  Requests, aborts, timers and tabs   *)
(* are not visible here; ConsoleFeed implements this specification.        *)
(***************************************************************************)
EXTENDS Naturals

CONSTANTS Keys,        \* the questions: path and parameters of a request
          MaxVersion   \* how often the evidence behind the API changes

VARIABLES asked,    \* the question of the last effect that ran
          shown,    \* [key, ver] of the data on the screen, or NoAnswer
          waiting,  \* the screen says that it is loading
          failed    \* the screen holds the error of the last load

answerVars == <<asked, shown, waiting, failed>>

Answers == [key : Keys, ver : 0..MaxVersion]
NoAnswer == [key |-> "none", ver |-> 0]

AnswerInit ==
  /\ asked \in Keys
  /\ shown = NoAnswer
  /\ waiting \in BOOLEAN
  /\ failed = FALSE

\* The question changes, or is asked again; what is shown stays until answered.
Ask(k) ==
  /\ asked' = k
  /\ waiting' = TRUE
  /\ UNCHANGED <<shown, failed>>

\* The question is withdrawn, the screen does not wait any more.
Withdraw ==
  /\ waiting' = FALSE
  /\ UNCHANGED <<asked, shown, failed>>

\* An answer to the question asked now, no older than what it replaces.
Answer(v) ==
  /\ v >= shown.ver
  /\ shown' = [key |-> asked, ver |-> v]
  /\ waiting' = FALSE
  /\ failed' = FALSE
  /\ UNCHANGED asked

Fail ==
  /\ failed' = TRUE
  /\ waiting' = FALSE
  /\ UNCHANGED <<asked, shown>>

AnswerNext ==
  \/ \E k \in Keys : Ask(k)
  \/ Withdraw
  \/ \E v \in 0..MaxVersion : Answer(v)
  \/ Fail

AnswerSpec == AnswerInit /\ [][AnswerNext]_answerVars
=============================================================================
