---------------------------- MODULE ConsoleFeed ----------------------------
(***************************************************************************)
(* useApi (internal/console/web/src/lib/hooks.js) with the request it      *)
(* makes (lib/api.js): one mounted screen that reads one endpoint.  Every  *)
(* effect run owns an AbortController, the number of its run and at most   *)
(* one timer; a load it started may still be under way when the next       *)
(* effect runs, and its continuation then runs against the later state.    *)
(*                                                                         *)
(* An effect runs in the commit that changed one of its dependencies: the  *)
(* old cleanup and the new effect are one step.  Which dependency changed  *)
(* (path, params, pollMs, a nonce) matters only by the key asked.          *)
(***************************************************************************)
EXTENDS Naturals

CONSTANTS Keys,       \* path and parameters
          MaxEffects, \* bound on effect runs
          MaxVersion, \* bound on changes of the evidence behind the API
          MaxFailures \* bound on requests that fail

ASSUME FeedAssumption ==
  /\ "none" \notin Keys
  /\ MaxEffects \in Nat
  /\ MaxVersion \in Nat
  /\ MaxFailures \in Nat

VARIABLES
  key,       \* path and paramsKey of the last effect run
  enabled,
  polls,     \* pollMs > 0
  mounted,   \* alive.current
  visible,   \* document.visibilityState
  requestID, \* requestID.current
  timer,     \* "none", "poll" (pollMs) or "hidden" (the 4000 ms one)
  loads,     \* requests under way, of this effect run and of earlier ones
  version,   \* the evidence behind the API
  failures,
  data, error, loading  \* the state the screen renders

feedVars == <<key, enabled, polls, mounted, visible, requestID, timer, loads,
              version, failures, data, error, loading>>
screen == <<data, error, loading>>
asking == <<key, enabled, polls, mounted, requestID>>

NoData == [key |-> "none", ver |-> 0]

(* A load: the effect run it belongs to, what it asked, and how far it is.  *)
(* "sent": fetch() is pending.  "ok" and "bad": the headers are in and the  *)
(* body is being read, from evidence of version ver.  aborted: its          *)
(* controller was.                                                          *)
Load(id, k) == [id |-> id, key |-> k, phase |-> "sent", ver |-> 0,
                aborted |-> FALSE]
LoadType ==
  [id : 1..MaxEffects, key : Keys, phase : {"sent", "ok", "bad"},
   ver : 0..MaxVersion, aborted : BOOLEAN]

TypeOK ==
  /\ key \in Keys
  /\ enabled \in BOOLEAN
  /\ polls \in BOOLEAN
  /\ mounted \in BOOLEAN
  /\ visible \in BOOLEAN
  /\ requestID \in 0..MaxEffects
  /\ timer \in {"none", "poll", "hidden"}
  /\ loads \subseteq LoadType
  /\ version \in 0..MaxVersion
  /\ failures \in 0..MaxFailures
  /\ data \in [key : Keys, ver : 0..MaxVersion] \cup {NoData}
  /\ error \in BOOLEAN
  /\ loading \in BOOLEAN

Init ==
  /\ key \in Keys
  /\ enabled = FALSE
  /\ polls = FALSE
  /\ mounted = TRUE
  /\ visible = TRUE
  /\ requestID = 0
  /\ timer = "none"
  /\ loads = {}
  /\ version = 0
  /\ failures = 0
  /\ data = NoData
  /\ error = FALSE
  /\ loading = FALSE

Aborted(ls) == {[l EXCEPT !.aborted = TRUE] : l \in ls}

(* Mutant: a cleanup that leaves its timer running. *)
CleanupKeepsTimer == UNCHANGED timer

\* The cleanup aborts the controller of its own run and clears its timer; the
\* loads of earlier runs were aborted by their own cleanups.
Cleanup == timer' = "none"

(***************************************************************************)
(* Renders                                                                 *)
(***************************************************************************)
(* Mutant: a parameter is missing from the effect's dependencies. *)
EffectMissesParams(k, p) ==
  /\ mounted
  /\ requestID < MaxEffects
  /\ key' = k
  /\ polls' = p
  /\ enabled' = TRUE
  /\ IF enabled /\ p = polls /\ k /= key
       THEN UNCHANGED <<requestID, loads, loading, timer>>
       ELSE /\ requestID' = requestID + 1
            /\ loads' = Aborted(loads) \cup {Load(requestID', k)}
            /\ loading' = TRUE
            /\ Cleanup
  /\ UNCHANGED <<mounted, visible, version, failures, data, error>>

\* A dependency changes (the key, pollMs, enabled to true, or a nonce): the old
\* cleanup, then the effect with a request number of its own.
Effect(k, p) ==
  /\ mounted
  /\ requestID < MaxEffects
  /\ key' = k
  /\ polls' = p
  /\ enabled' = TRUE
  /\ requestID' = requestID + 1
  /\ loads' = Aborted(loads) \cup {Load(requestID', k)}
  /\ loading' = TRUE
  /\ Cleanup
  /\ UNCHANGED <<mounted, visible, version, failures, data, error>>

\* enabled becomes false: the effect returns early, and the request number stays
\* that of the run that was cleaned up.
Disable ==
  /\ mounted /\ enabled
  /\ enabled' = FALSE
  /\ loading' = FALSE
  /\ loads' = Aborted(loads)
  /\ Cleanup
  /\ UNCHANGED <<key, polls, mounted, visible, requestID, version, failures,
                 data, error>>

Unmount ==
  /\ mounted
  /\ mounted' = FALSE
  /\ loads' = Aborted(loads)
  /\ Cleanup
  /\ UNCHANGED <<key, enabled, polls, visible, requestID, version, failures,
                 data, error, loading>>

(***************************************************************************)
(* The request                                                             *)
(***************************************************************************)
\* The server answers: the headers are in, the body is still to be read.
Respond(l) ==
  /\ l.phase = "sent" /\ ~l.aborted
  /\ \E ok \in BOOLEAN :
       /\ ok \/ failures < MaxFailures
       /\ failures' = IF ok THEN failures ELSE failures + 1
       /\ loads' = (loads \ {l}) \cup
                   {[l EXCEPT !.phase = IF ok THEN "ok" ELSE "bad",
                              !.ver = version]}
  /\ UNCHANGED <<asking, visible, timer, version, screen>>

\* The promise of an aborted request rejects with AbortError, which load
\* ignores; not when an error response was being read, whose body request()
\* reads in a catch-all of its own.
AbortSettles(l) ==
  /\ l.aborted /\ l.phase /= "bad"
  /\ loads' = loads \ {l}
  /\ UNCHANGED <<asking, visible, timer, version, failures, screen>>

\* Is the continuation still allowed to touch the state?
Current(l) == mounted /\ l.id = requestID

\* A load continues after its poll timer is set: while its effect run stands.
NextTimer(l) == IF ~l.aborted /\ polls THEN "poll" ELSE timer

(* Mutant: no controller and no request number: the last answer to arrive wins. *)
LoadSucceedsLate(l) ==
  /\ l.phase = "ok"
  /\ loads' = loads \ {l}
  /\ data' = [key |-> l.key, ver |-> l.ver]
  /\ error' = FALSE
  /\ loading' = FALSE
  /\ timer' = NextTimer(l)
  /\ UNCHANGED <<asking, visible, version, failures>>

LoadSucceeds(l) ==
  /\ l.phase = "ok" /\ ~l.aborted
  /\ loads' = loads \ {l}
  /\ IF Current(l)
       THEN /\ data' = [key |-> l.key, ver |-> l.ver]
            /\ error' = FALSE
            /\ loading' = FALSE
            /\ timer' = NextTimer(l)
       ELSE UNCHANGED <<screen, timer>>
  /\ UNCHANGED <<asking, visible, version, failures>>

\* A failed load polls on like one that succeeded.
FailedTimer(l) == NextTimer(l)

\* An error response, or the network: fetch itself rejects only when it was not
\* aborted.
LoadFails(l) ==
  /\ \/ l.phase = "bad" /\ UNCHANGED failures
     \/ /\ l.phase = "sent" /\ ~l.aborted /\ failures < MaxFailures
        /\ failures' = failures + 1
  /\ loads' = loads \ {l}
  /\ IF Current(l)
       THEN /\ error' = TRUE
            /\ loading' = FALSE
            /\ timer' = FailedTimer(l)
            /\ UNCHANGED data
       ELSE UNCHANGED <<screen, timer>>
  /\ UNCHANGED <<asking, visible, version>>

(***************************************************************************)
(* Timers                                                                  *)
(***************************************************************************)
PollTimer ==
  /\ timer = "poll"
  /\ IF visible
       THEN /\ timer' = "none"
            /\ loads' = loads \cup {Load(requestID, key)}
       ELSE timer' = "hidden" /\ UNCHANGED loads
  /\ UNCHANGED <<asking, visible, version, failures, screen>>

(* Mutant: a hidden tab waits until it is shown again. *)
HiddenTimerWaits ==
  /\ timer = "hidden"
  /\ visible
  /\ timer' = "none"
  /\ loads' = loads \cup {Load(requestID, key)}
  /\ UNCHANGED <<asking, visible, version, failures, screen>>

\* Four seconds later, whether or not the tab is still hidden.
HiddenTimer ==
  /\ timer = "hidden"
  /\ timer' = "none"
  /\ loads' = loads \cup {Load(requestID, key)}
  /\ UNCHANGED <<asking, visible, version, failures, screen>>

(***************************************************************************)
(* The browser tab and the evidence                                        *)
(***************************************************************************)
SwitchTab ==
  /\ visible' = ~visible
  /\ UNCHANGED <<asking, timer, loads, version, failures, screen>>

EvidenceChanges ==
  /\ version < MaxVersion
  /\ version' = version + 1
  /\ UNCHANGED <<asking, visible, timer, loads, failures, screen>>

Render ==
  \/ \E k \in Keys, p \in BOOLEAN : Effect(k, p)
  \/ Disable
  \/ Unmount

Network ==
  \E l \in loads :
    \/ Respond(l)
    \/ AbortSettles(l)
    \/ LoadSucceeds(l)
    \/ LoadFails(l)

Next == Render \/ Network \/ PollTimer \/ HiddenTimer \/ SwitchTab \/ EvidenceChanges

Spec == Init /\ [][Next]_feedVars

\* Every request is answered or fails, every timer fires.
FairSpec ==
  /\ Spec
  /\ WF_feedVars(Network)
  /\ WF_feedVars(PollTimer)
  /\ WF_feedVars(HiddenTimer)

-----------------------------------------------------------------------------
\* At most one load of the mounted screen can still change what it shows: two
\* would race for the data, and each would arm a timer of its own.
SingleFlight ==
  /\ \A l, m \in loads :
       Current(l) /\ ~l.aborted /\ Current(m) /\ ~m.aborted => l = m
  /\ timer /= "none" => \A l \in loads : Current(l) => l.aborted

\* Once a screen has stopped loading without an error, its rows answer the
\* question it is asking, and not the one it asked before a filter changed.
SettledIsCurrent ==
  mounted /\ enabled /\ ~loading /\ ~error => data.key = key

\* A screen that polls has something under way that will refresh it: a load that
\* still counts or a timer. Otherwise it would show the same rows for ever.
PollingIsAlive ==
  mounted /\ enabled /\ polls =>
    timer /= "none" \/ \E l \in loads : Current(l) /\ ~l.aborted

\* There is one chain of loads and timers, never two and, while the screen polls,
\* never none.
OneChain == TypeOK /\ SingleFlight /\ PollingIsAlive

\* The screen implements what its page relies on.
Latest == INSTANCE LatestAnswer WITH
  asked <- key, shown <- data, waiting <- loading, failed <- error

ImplementsLatestAnswer == Latest!AnswerSpec

\* A screen left open with auto-refresh on ends up showing the last evidence for
\* what it asks, hidden tab or not, after any number of failed requests.
CatchesUp ==
  <>[](mounted /\ enabled /\ polls)
    => <>[](data = [key |-> key, ver |-> version])
=============================================================================
