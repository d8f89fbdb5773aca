------------------------- MODULE ConsoleFeedProofs -------------------------
(***************************************************************************)
(* Proofs about ConsoleFeed, for any keys and any bounds: its invariants   *)
(* and that it implements LatestAnswer.                                    *)
(*                                                                         *)
(* None of the invariants is inductive.  What carries them is that a load  *)
(* whose controller was not aborted belongs to the effect that stands      *)
(* (Own), that there is no second one and none beside a timer (Alone), and *)
(* that what such a load read is no older than what is shown (Fresh).      *)
(***************************************************************************)
EXTENDS ConsoleFeed, TLAPS

Counts(l) == ~l.aborted

Own == \A l \in loads : Counts(l) => l.id = requestID /\ l.key = key /\ mounted /\ enabled

Alone ==
  /\ \A l, m \in loads : Counts(l) /\ Counts(m) => l = m
  /\ timer /= "none" =>
       /\ requestID > 0 /\ mounted /\ enabled
       /\ \A l \in loads : ~Counts(l)

Fresh ==
  /\ data.ver <= version
  /\ \A l \in loads : l.phase /= "sent" => l.ver <= version
  /\ \A l \in loads : Counts(l) /\ l.phase /= "sent" => data.ver <= l.ver

Alive == mounted /\ enabled /\ polls => timer /= "none" \/ \E l \in loads : Counts(l)

Inv == TypeOK /\ Own /\ Alone /\ Fresh /\ Alive /\ SettledIsCurrent

-----------------------------------------------------------------------------
(* An aborted load keeps all but its mark.                                 *)
LEMMA AbortedLoads ==
  ASSUME NEW S \in SUBSET LoadType
  PROVE  /\ Aborted(S) \in SUBSET LoadType
         /\ \A m \in Aborted(S) : ~Counts(m)
         /\ \A m \in Aborted(S) : \E l \in S : m.phase = l.phase /\ m.ver = l.ver
  BY DEF Aborted, LoadType, Counts

(* A new load is of the effect that starts it and has read nothing.        *)
LEMMA NewLoad ==
  ASSUME NEW i \in 1..MaxEffects, NEW k \in Keys
  PROVE  /\ Load(i, k) \in LoadType
         /\ Load(i, k).id = i /\ Load(i, k).key = k
         /\ Counts(Load(i, k)) /\ Load(i, k).phase = "sent"
  BY FeedAssumption DEF Load, LoadType, Counts

(* The first effect has not run: nothing is under way.                     *)
LEMMA InitInv == Init => Inv
<1> SUFFICES ASSUME Init PROVE Inv
  OBVIOUS
<1>1. TypeOK
  <2>1. 0 \in 0..MaxEffects /\ 0 \in 0..MaxVersion /\ 0 \in 0..MaxFailures
    BY FeedAssumption
  <2> QED
    BY <2>1, Zenon DEF Init, TypeOK
<1>2. Own /\ Alone /\ Alive /\ SettledIsCurrent
  BY DEF Init, Own, Alone, Alive, SettledIsCurrent
<1>3. Fresh
  BY DEF Init, Fresh, NoData
<1> QED
  BY <1>1, <1>2, <1>3 DEF Inv

(* The steps that ask something new: a load that counts, and no timer.     *)
LEMMA EffectKeepsInv ==
  ASSUME Inv, NEW k \in Keys, NEW p \in BOOLEAN, Effect(k, p)
  PROVE  Inv'
<1> USE FeedAssumption DEF Inv
<1> DEFINE n == Load(requestID + 1, k)
<1>1. /\ requestID + 1 \in 1..MaxEffects
      /\ requestID' = requestID + 1 /\ key' = k /\ polls' = p
      /\ enabled' = TRUE /\ mounted' = TRUE /\ loading' = TRUE /\ timer' = "none"
      /\ loads' = Aborted(loads) \cup {n}
      /\ UNCHANGED <<visible, version, failures, data, error>>
  BY DEF Effect, Cleanup, TypeOK
<1>2. /\ Aborted(loads) \in SUBSET LoadType
      /\ \A m \in Aborted(loads) : ~Counts(m)
      /\ \A m \in Aborted(loads) : \E l \in loads : m.phase = l.phase /\ m.ver = l.ver
  BY AbortedLoads DEF TypeOK
<1>3. n \in LoadType /\ n.id = requestID + 1 /\ n.key = k /\ Counts(n) /\ n.phase = "sent"
  BY <1>1, NewLoad
<1> HIDE DEF n
<1>4. TypeOK'
  BY <1>1, <1>2, <1>3 DEF TypeOK
<1>5. Own'
  BY <1>1, <1>2, <1>3 DEF Own
<1>6. Alone'
  BY <1>1, <1>2, <1>3 DEF Alone
<1>7. Fresh'
  BY <1>1, <1>2, <1>3 DEF Fresh
<1>8. Alive' /\ SettledIsCurrent'
  BY <1>1, <1>3 DEF Alive, SettledIsCurrent
<1> QED
  BY <1>4, <1>5, <1>6, <1>7, <1>8

(* The steps that give up what was asked.                                  *)
LEMMA StopKeepsInv ==
  ASSUME Inv, Disable \/ Unmount
  PROVE  Inv'
<1> USE FeedAssumption DEF Inv
<1>1. /\ loads' = Aborted(loads) /\ timer' = "none"
      /\ ~enabled' \/ ~mounted'
      /\ enabled' \in BOOLEAN /\ mounted' \in BOOLEAN /\ loading' \in BOOLEAN
      /\ UNCHANGED <<key, polls, visible, requestID, version, failures, data, error>>
  BY DEF Disable, Unmount, Cleanup, TypeOK
<1>2. /\ Aborted(loads) \in SUBSET LoadType
      /\ \A m \in Aborted(loads) : ~Counts(m)
      /\ \A m \in Aborted(loads) : \E l \in loads : m.phase = l.phase /\ m.ver = l.ver
  BY AbortedLoads DEF TypeOK
<1>3. TypeOK'
  BY <1>1, <1>2 DEF TypeOK
<1>4. Own' /\ Alone'
  BY <1>1, <1>2 DEF Own, Alone
<1>5. Fresh'
  BY <1>1, <1>2 DEF Fresh
<1>6. Alive' /\ SettledIsCurrent'
  BY <1>1 DEF Alive, SettledIsCurrent
<1> QED
  BY <1>3, <1>4, <1>5, <1>6

(* An answer is read at the version of its moment.                         *)
LEMMA RespondKeepsInv ==
  ASSUME Inv, NEW l \in loads, Respond(l)
  PROVE  Inv'
<1> USE FeedAssumption DEF Inv
<1>1. PICK ph \in {"ok", "bad"} :
        /\ loads' = (loads \ {l}) \cup {[l EXCEPT !.phase = ph, !.ver = version]}
        /\ failures' \in 0..MaxFailures
  <2>1. PICK ok \in BOOLEAN :
          /\ ok \/ failures < MaxFailures
          /\ failures' = IF ok THEN failures ELSE failures + 1
          /\ loads' = (loads \ {l}) \cup
                      {[l EXCEPT !.phase = IF ok THEN "ok" ELSE "bad", !.ver = version]}
    BY DEF Respond
  <2>2. failures' \in 0..MaxFailures
    BY <2>1, FeedAssumption DEF TypeOK
  <2>3. CASE ok
    BY <2>1, <2>2, <2>3
  <2>4. CASE ~ok
    BY <2>1, <2>2, <2>4
  <2> QED
    BY <2>3, <2>4
<1>2. l \in LoadType /\ Counts(l) /\ UNCHANGED <<asking, visible, timer, version, screen>>
  BY DEF Respond, TypeOK, Counts
<1> DEFINE m == [l EXCEPT !.phase = ph, !.ver = version]
<1>3. /\ m \in LoadType /\ Counts(m) /\ m.id = l.id /\ m.key = l.key
      /\ m.phase /= "sent" /\ m.ver = version
  BY <1>2 DEF LoadType, TypeOK, Counts
<1>4. loads' = (loads \ {l}) \cup {m}
  BY <1>1
<1> HIDE DEF m
<1>5. TypeOK'
  BY <1>1, <1>2, <1>3, <1>4 DEF TypeOK, asking, screen
<1>6. Own'
  BY <1>2, <1>3, <1>4 DEF Own, asking
<1>7. Alone'
  BY <1>2, <1>3, <1>4 DEF Alone, asking
<1>8. Fresh'
  BY <1>2, <1>3, <1>4 DEF Fresh, TypeOK, screen
<1>9. Alive' /\ SettledIsCurrent'
  BY <1>2, <1>3, <1>4 DEF Alive, SettledIsCurrent, asking, screen
<1> QED
  BY <1>5, <1>6, <1>7, <1>8, <1>9

(* An aborted request is forgotten.                                        *)
LEMMA AbortKeepsInv ==
  ASSUME Inv, NEW l \in loads, AbortSettles(l)
  PROVE  Inv'
<1> USE DEF Inv
<1>1. /\ ~Counts(l) /\ loads' = loads \ {l}
      /\ UNCHANGED <<asking, visible, timer, version, failures, screen>>
  BY DEF AbortSettles, Counts
<1>2. TypeOK'
  BY <1>1 DEF TypeOK, asking, screen
<1>3. Own' /\ Alone' /\ Fresh'
  BY <1>1 DEF Own, Alone, Fresh, asking, screen
<1>4. Alive' /\ SettledIsCurrent'
  BY <1>1 DEF Alive, SettledIsCurrent, asking, screen
<1> QED
  BY <1>2, <1>3, <1>4

(* Only the load that counts puts its answer in place.                     *)
LEMMA SuccessKeepsInv ==
  ASSUME Inv, NEW l \in loads, LoadSucceeds(l)
  PROVE  Inv'
<1> USE DEF Inv
<1>1. /\ Counts(l) /\ l \in LoadType /\ Current(l) /\ l.phase = "ok"
      /\ l.id = requestID /\ l.key = key /\ mounted /\ enabled
  BY DEF LoadSucceeds, Counts, TypeOK, Own, Current
<1>2. /\ loads' = loads \ {l} /\ data' = [key |-> l.key, ver |-> l.ver]
      /\ error' = FALSE /\ loading' = FALSE
      /\ timer' = IF polls THEN "poll" ELSE timer
      /\ UNCHANGED <<asking, visible, version, failures>>
  BY <1>1 DEF LoadSucceeds, NextTimer, Counts
<1>3. \A m \in loads' : m \in loads /\ ~Counts(m)
  BY <1>1, <1>2 DEF Alone
<1>4. TypeOK'
  BY <1>1, <1>2 DEF TypeOK, LoadType, asking
<1>5. Own'
  BY <1>3 DEF Own
<1>6. requestID > 0
  BY <1>1, FeedAssumption DEF LoadType
<1>7. Alone'
  BY <1>1, <1>2, <1>3, <1>6 DEF Alone, asking
<1>8. Fresh'
  BY <1>1, <1>2, <1>3 DEF Fresh, asking
<1>9. Alive' /\ SettledIsCurrent'
  BY <1>1, <1>2 DEF Alive, SettledIsCurrent, asking
<1> QED
  BY <1>4, <1>5, <1>7, <1>8, <1>9

(* A failed load leaves the data, and polls on if it counts.               *)
LEMMA FailureKeepsInv ==
  ASSUME Inv, NEW l \in loads, LoadFails(l)
  PROVE  Inv'
<1> USE DEF Inv
<1>1. /\ loads' = loads \ {l} /\ UNCHANGED <<asking, visible, version, data>>
      /\ failures' \in 0..MaxFailures /\ l \in LoadType
  BY FeedAssumption DEF LoadFails, TypeOK, screen
<1>2. \/ error' = TRUE /\ loading' = FALSE
      \/ error' = error /\ loading' = loading
  BY DEF LoadFails, screen
<1>3. timer' = IF Counts(l) /\ polls THEN "poll" ELSE timer
  BY DEF LoadFails, FailedTimer, NextTimer, Counts, Own, Current
<1>4. Counts(l) => requestID > 0 /\ mounted /\ enabled /\ \A m \in loads' : ~Counts(m)
  BY <1>1, FeedAssumption DEF Own, Alone, LoadType
<1>5. TypeOK'
  BY <1>1, <1>2, <1>3 DEF TypeOK, asking
<1>6. Own' /\ Fresh'
  BY <1>1 DEF Own, Fresh, asking
<1>7. Alone'
  BY <1>1, <1>3, <1>4 DEF Alone, asking
<1>8. Alive' /\ SettledIsCurrent'
  BY <1>1, <1>2, <1>3 DEF Alive, SettledIsCurrent, asking
<1> QED
  BY <1>5, <1>6, <1>7, <1>8

(* A timer waits a little longer or loads again.                           *)
LEMMA TimerKeepsInv ==
  ASSUME Inv, PollTimer \/ HiddenTimer
  PROVE  Inv'
<1> USE DEF Inv
<1> DEFINE n == Load(requestID, key)
<1>1. timer /= "none" /\ UNCHANGED <<asking, visible, version, failures, screen>>
  BY DEF PollTimer, HiddenTimer
<1>2. /\ requestID > 0 /\ mounted /\ enabled /\ \A l \in loads : ~Counts(l)
      /\ requestID \in 1..MaxEffects
  BY <1>1, FeedAssumption DEF Alone, TypeOK
<1>3. n \in LoadType /\ n.id = requestID /\ n.key = key /\ Counts(n) /\ n.phase = "sent"
  BY <1>2, NewLoad DEF TypeOK
<1>4. \/ timer' = "hidden" /\ loads' = loads
      \/ timer' = "none" /\ loads' = loads \cup {n}
  BY DEF PollTimer, HiddenTimer
<1> HIDE DEF n
<1>5. TypeOK'
  BY <1>1, <1>3, <1>4 DEF TypeOK, asking, screen
<1>6. Own' /\ Alone'
  BY <1>1, <1>2, <1>3, <1>4 DEF Own, Alone, asking
<1>7. Fresh'
  BY <1>1, <1>2, <1>3, <1>4 DEF Fresh, screen
<1>8. Alive' /\ SettledIsCurrent'
  BY <1>1, <1>3, <1>4 DEF Alive, SettledIsCurrent, asking, screen
<1> QED
  BY <1>5, <1>6, <1>7, <1>8

(* The tab, the evidence, and nothing at all.                              *)
LEMMA AroundKeepsInv ==
  ASSUME Inv, SwitchTab \/ EvidenceChanges \/ UNCHANGED feedVars
  PROVE  Inv'
<1> USE DEF Inv
<1>1. /\ UNCHANGED <<asking, timer, loads, failures, screen>>
      /\ version' \in {version, version + 1} /\ version' \in 0..MaxVersion
      /\ visible' \in BOOLEAN
  <2>1. CASE SwitchTab
    BY <2>1 DEF SwitchTab, TypeOK
  <2>2. CASE EvidenceChanges
    BY <2>2, FeedAssumption DEF EvidenceChanges, TypeOK
  <2>3. CASE UNCHANGED feedVars
    BY <2>3 DEF feedVars, asking, screen, TypeOK
  <2> QED
    BY <2>1, <2>2, <2>3
<1>2. TypeOK'
  BY <1>1 DEF TypeOK, asking, screen
<1>3. Own' /\ Alone' /\ Alive' /\ SettledIsCurrent'
  BY <1>1 DEF Own, Alone, Alive, SettledIsCurrent, asking, screen
<1>4. data.ver \in 0..MaxVersion /\ \A l \in loads : l.ver \in 0..MaxVersion
  BY FeedAssumption DEF TypeOK, LoadType, NoData
<1>5. Fresh'
  BY <1>1, <1>4 DEF Fresh, TypeOK, screen
<1> QED
  BY <1>2, <1>3, <1>5

LEMMA NextKeepsInv == Inv /\ [Next]_feedVars => Inv'
<1> SUFFICES ASSUME Inv, [Next]_feedVars PROVE Inv'
  OBVIOUS
<1>1. ASSUME NEW k \in Keys, NEW p \in BOOLEAN, Effect(k, p) PROVE Inv'
  BY <1>1, EffectKeepsInv
<1>2. CASE Disable \/ Unmount
  BY <1>2, StopKeepsInv
<1>3. ASSUME NEW l \in loads, Respond(l) PROVE Inv'
  BY <1>3, RespondKeepsInv
<1>4. ASSUME NEW l \in loads, AbortSettles(l) PROVE Inv'
  BY <1>4, AbortKeepsInv
<1>5. ASSUME NEW l \in loads, LoadSucceeds(l) PROVE Inv'
  BY <1>5, SuccessKeepsInv
<1>6. ASSUME NEW l \in loads, LoadFails(l) PROVE Inv'
  BY <1>6, FailureKeepsInv
<1>7. CASE PollTimer \/ HiddenTimer
  BY <1>7, TimerKeepsInv
<1>8. CASE SwitchTab \/ EvidenceChanges \/ UNCHANGED feedVars
  BY <1>8, AroundKeepsInv
<1> QED
  BY <1>1, <1>2, <1>3, <1>4, <1>5, <1>6, <1>7, <1>8 DEF Next, Render, Network

LEMMA InvHolds == Spec => []Inv
  BY InitInv, NextKeepsInv, PTL DEF Spec

-----------------------------------------------------------------------------
(* Every variable of useApi keeps its type, whatever answers arrive late.  *)
THEOREM FeedIsTyped == Spec => []TypeOK
  BY InvHolds, PTL DEF Inv

(* There is one chain of loads and timers: a load that is not aborted is   *)
(* alone and never beside a timer, and a polling screen has one of them.   *)
THEOREM FeedHasOneChain == Spec => []OneChain
<1>1. Inv => SingleFlight
  BY DEF Inv, Alone, SingleFlight, Counts
<1>2. Inv => PollingIsAlive
  BY DEF Inv, Own, Alive, PollingIsAlive, Counts, Current
<1>3. Inv => OneChain
  BY <1>1, <1>2 DEF Inv, OneChain
<1> QED
  BY <1>3, InvHolds, PTL

(* A screen at rest shows the answer to what it asks.                      *)
THEOREM FeedIsCurrent == Spec => []SettledIsCurrent
  BY InvHolds, PTL DEF Inv

(* useApi implements LatestAnswer: an effect asks, a cleanup withdraws, the *)
(* load that counts answers or fails, and every other step changes nothing  *)
(* on the screen.                                                           *)
THEOREM FeedImplementsLatestAnswer == Spec => ImplementsLatestAnswer
<1>1. Init => Latest!AnswerInit
  BY DEF Init, Latest!AnswerInit, NoData, Latest!NoAnswer
<1>2. Inv /\ [Next]_feedVars => [Latest!AnswerNext]_<<key, data, loading, error>>
  <2> SUFFICES ASSUME Inv, [Next]_feedVars
               PROVE  Latest!AnswerNext \/ UNCHANGED <<key, data, loading, error>>
    OBVIOUS
  <2>1. ASSUME NEW k \in Keys, NEW p \in BOOLEAN, Effect(k, p)
        PROVE  Latest!Ask(k)
    BY <2>1 DEF Effect, Latest!Ask
  <2>2. CASE Disable
    BY <2>2 DEF Disable, Latest!AnswerNext, Latest!Withdraw
  <2>3. ASSUME NEW l \in loads, LoadSucceeds(l)
        PROVE  Latest!AnswerNext
    <3>1. /\ l \in LoadType /\ Current(l) /\ l.key = key
          /\ data.ver <= l.ver
      BY <2>3 DEF LoadSucceeds, Inv, TypeOK, Own, Fresh, Current, Counts
    <3>2. Latest!Answer(l.ver)
      BY <2>3, <3>1 DEF LoadSucceeds, Latest!Answer, asking, LoadType, Inv, TypeOK, NoData
    <3>3. l.ver \in 0..MaxVersion
      BY <3>1 DEF LoadType
    <3> QED
      BY <3>2, <3>3 DEF Latest!AnswerNext
  <2>4. ASSUME NEW l \in loads, LoadFails(l)
        PROVE  Latest!AnswerNext \/ UNCHANGED <<key, data, loading, error>>
    BY <2>4 DEF LoadFails, Latest!AnswerNext, Latest!Fail, asking, screen
  <2>5. ASSUME NEW l \in loads, Respond(l) \/ AbortSettles(l)
        PROVE  UNCHANGED <<key, data, loading, error>>
    BY <2>5 DEF Respond, AbortSettles, asking, screen
  <2>6. CASE Unmount \/ PollTimer \/ HiddenTimer \/ SwitchTab \/ EvidenceChanges
             \/ UNCHANGED feedVars
    BY <2>6 DEF Unmount, PollTimer, HiddenTimer, SwitchTab, EvidenceChanges,
                feedVars, asking, screen
  <2> QED
    BY <2>1, <2>2, <2>3, <2>4, <2>5, <2>6 DEF Next, Render, Network, Latest!AnswerNext
<1> QED
  BY <1>1, <1>2, InvHolds, PTL
  DEF Spec, ImplementsLatestAnswer, Latest!AnswerSpec, Latest!answerVars
=============================================================================
