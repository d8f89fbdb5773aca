------------------------ MODULE ConsoleScreensProofs ------------------------
(***************************************************************************)
(* Proofs about the screens of ConsoleScreens, each with an invariant of   *)
(* its own, since they share no state: the change page and the review      *)
(* queue (ChangeInv), the dispatch form (DispatchInv), the three lists     *)
(* (ListsInv) and the command palette (PaletteInv), for every number of    *)
(* runs and rows, every page size, every configuration and every answer.   *)
(***************************************************************************)
EXTENDS ConsoleScreens, FiniteSetTheorems, SequenceTheorems,
        WellFoundedInduction, TLAPS

-----------------------------------------------------------------------------
(***************************************************************************)
(* The change page and the review queue                                    *)
(***************************************************************************)
Works == {"absent", "running", "paused", "recorded", "folded", "closed"}
Statuses == {"none", "OPEN", "IN_REVIEW", "DONE", "ABANDONED"}
Records == [status : Statuses, acts : SUBSET Activations, last : Activations \cup {0}]

\* ChangeTypeOK with the shape of the records, so that a step can update them.
ChangeTyped ==
  /\ work \in [Activations -> Works]
  /\ human \in [Activations -> Outcomes]
  /\ kept \in SUBSET Activations
  /\ record \in Records
  /\ known \in [record : Records, runs : SUBSET Activations]
  /\ gates \in [available : BOOLEAN, paused : SUBSET Activations]
  /\ ~gates.available => gates.paused = {}
  /\ problem \in {"none", "not found", "failed"}

\* A run that got past its work never goes back to it, so a list of gates, of
\* whatever age, names no run that has not reached its gate.
Reached(r) == r \in Activations /\ work[r] \notin {"absent", "running"}
Waited == \A r \in gates.paused : Reached(r)

\* The command an answer of the page carries.
Commanded ==
  answer /= NoDetail /\ answer.review.actionable => Reached(answer.review.command)

\* The page is behind the index, the index behind the record.
Behind ==
  /\ known.record.acts \subseteq record.acts
  /\ answer /= NoDetail => answer.record.acts \subseteq known.record.acts

ChangeInv == ChangeTyped /\ Waited /\ Commanded /\ Behind

-----------------------------------------------------------------------------
\* A set of numbers that is not empty has a first one.
LEMMA MinIsFirst ==
  ASSUME NEW S \in SUBSET Nat, S /= {}
  PROVE  Min(S) \in S /\ \A y \in S : ~ (y < Min(S))
<1>1. PICK x \in S : \A y \in S : ~ (<<y, x>> \in OpToRel(<, Nat))
  BY WFMin, NatLessThanWellFounded
<1>2. \A y \in S : ~ (y < x)
  BY <1>1 DEF OpToRel
<1>3. \A y \in S : x =< y
  BY <1>2
<1>4. Min(S) \in S /\ \A y \in S : Min(S) =< y
  BY <1>3 DEF Min
<1>5. \A u, v \in S : u =< v => ~ (v < u)
  OBVIOUS
<1> QED
  BY <1>4, <1>5

LEMMA ActivationsAreNaturals == Activations \subseteq Nat \ {0}
BY ChangeAssumption DEF Activations

\* What an answer names is the lineage of its record, whatever evidence is left.
LEMMA NamedIsLineage ==
  ASSUME NEW a, a /= NoDetail
  PROVE  Named(a) = a.record.acts
BY DEF Named, ActivationTable, missingActivationRuns

\* An answer of the page is told from no answer by its record.
LEMMA DetailIsAnAnswer ==
  ASSUME known.record /= NoRecord
  PROVE  /\ ChangeDetail /= NoDetail
         /\ ChangeDetail.record = known.record
         /\ ChangeDetail.review = ReviewContext(known.record)
BY DEF ChangeDetail, NoDetail

\* The review of a change offers the first of its gates.
LEMMA ContextOffersTheFirst ==
  /\ ReviewContext(known.record).pending
       <=> known.record.status = "IN_REVIEW" \/ gates.paused /= {}
  /\ ReviewContext(known.record).actionable <=> gates.paused /= {}
  /\ gates.paused /= {} => ReviewContext(known.record).command = Min(gates.paused)
BY Zenon DEF ReviewContext

-----------------------------------------------------------------------------
LEMMA ChangeInitInv == ChangeInit => ChangeInv
<1> SUFFICES ASSUME ChangeInit PROVE ChangeInv
  OBVIOUS
<1>1. NoRecord \in Records /\ NoRecord.acts = {}
  BY DEF NoRecord, Records, Statuses
<1>2. ChangeTyped
  BY <1>1 DEF ChangeInit, ChangeTyped, Works, Outcomes
<1>3. Waited /\ Commanded
  BY DEF ChangeInit, Waited, Commanded
<1>4. Behind
  BY <1>1 DEF ChangeInit, Behind
<1> QED
  BY <1>2, <1>3, <1>4 DEF ChangeInv

\* A step that only moves runs forward.
LEMMA Forward ==
  ASSUME ChangeInv,
         work' \in [Activations -> Works],
         \A r \in Activations : Reached(r) => work'[r] \notin {"absent", "running"},
         human' \in [Activations -> Outcomes],
         kept' \in SUBSET Activations,
         record' \in Records, record.acts \subseteq record'.acts,
         UNCHANGED <<known, gates, answer, problem>>
  PROVE  ChangeInv'
<1>1. ChangeTyped'
  BY DEF ChangeInv, ChangeTyped
<1>2. Waited'
  BY DEF ChangeInv, Waited, Reached
<1>3. Commanded'
  BY DEF ChangeInv, Commanded, Reached
<1>4. Behind'
  BY DEF ChangeInv, Behind
<1> QED
  BY <1>1, <1>2, <1>3, <1>4 DEF ChangeInv

LEMMA ChangeStep == ChangeInv /\ ChangeNext => ChangeInv'
<1> SUFFICES ASSUME ChangeInv, ChangeNext PROVE ChangeInv'
  OBVIOUS
<1> USE DEF Reached
<1>t. ChangeTyped
  BY DEF ChangeInv
<1>1. ASSUME NEW r \in Activations, BeginRun(r) PROVE ChangeInv'
  BY <1>1, <1>t, Forward DEF BeginRun, ChangeTyped, Works
<1>2. ASSUME NEW r \in Activations, PauseRun(r) PROVE ChangeInv'
  BY <1>2, <1>t, Forward DEF PauseRun, ChangeTyped, Works
<1>3. ASSUME NEW r \in Activations, NEW o \in Outcomes \ {"none"}, WriteManifest(r, o)
      PROVE  ChangeInv'
  <2>1. human' \in [Activations -> Outcomes] /\ kept' \in SUBSET Activations
    BY <1>3, <1>t DEF WriteManifest, ChangeTyped
  <2> QED
    BY <1>3, <1>t, <2>1, Forward DEF WriteManifest, ChangeTyped, Works
<1>4. ASSUME NEW r \in Activations, FoldRun(r) PROVE ChangeInv'
  <2>1. record' \in Records /\ record.acts \subseteq record'.acts
    BY <1>4, <1>t DEF FoldRun, ChangeTyped, Records, Statuses
  <2>2. /\ work' \in [Activations -> Works]
        /\ \A q \in Activations : Reached(q) => work'[q] \notin {"absent", "running"}
    BY <1>4, <1>t DEF FoldRun, ChangeTyped, Works
  <2>3. UNCHANGED <<human, kept, known, gates, answer, problem>>
    BY <1>4 DEF FoldRun
  <2> QED
    BY <1>t, <2>1, <2>2, <2>3, Forward DEF ChangeTyped
<1>5. ASSUME NEW r \in Activations, CloseRun(r) PROVE ChangeInv'
  BY <1>5, <1>t, Forward DEF CloseRun, ChangeTyped, Works
<1>6. ASSUME NEW r \in Activations, PruneRun(r) PROVE ChangeInv'
  BY <1>6, <1>t, Forward DEF PruneRun, ChangeTyped, Works
<1>7. CASE AbandonChange
  <2>1. record' \in Records /\ record.acts \subseteq record'.acts
    BY <1>7, <1>t DEF AbandonChange, ChangeTyped, Records, Statuses
  <2> QED
    BY <1>7, <1>t, <2>1, Forward DEF AbandonChange, ChangeTyped
<1>8. CASE ReadEvidence
  <2>1. ChangeTyped'
    BY <1>8, <1>t DEF ReadEvidence, ChangeTyped
  <2>2. Waited' /\ Commanded'
    BY <1>8 DEF ReadEvidence, ChangeInv, Waited, Commanded
  <2>3. Behind'
    BY <1>8 DEF ReadEvidence, ChangeInv, Behind
  <2> QED
    BY <2>1, <2>2, <2>3 DEF ChangeInv
<1>9. CASE ReadOpenRuns \/ ReadOpenRunsFails
  <2>a. PICK on \in BOOLEAN, list \in SUBSET {r \in Activations : work[r] = "paused"} :
          gates' = [available |-> on, paused |-> list] /\ (~on => list = {})
    BY <1>9 DEF ReadOpenRuns, ReadOpenRunsFails
  <2>b. UNCHANGED <<work, human, kept, record, known, answer, problem>>
    BY <1>9 DEF ReadOpenRuns, ReadOpenRunsFails
  <2>1. ChangeTyped'
    BY <2>a, <2>b, <1>t DEF ChangeTyped
  <2>2. Waited'
    BY <1>9 DEF ReadOpenRuns, ReadOpenRunsFails, Waited
  <2>3. Commanded' /\ Behind'
    BY <1>9 DEF ReadOpenRuns, ReadOpenRunsFails, ChangeInv, Commanded, Behind
  <2> QED
    BY <2>1, <2>2, <2>3 DEF ChangeInv
<1>10. CASE PollChange /\ known.record /= NoRecord
  <2>1. /\ answer' = ChangeDetail /\ problem' = "none"
        /\ UNCHANGED <<work, human, kept, record, known, gates>>
    BY <1>10 DEF PollChange
  <2>2. /\ answer' /= NoDetail /\ answer'.record = known.record
        /\ answer'.review = ReviewContext(known.record)
    BY <1>10, <2>1, DetailIsAnAnswer
  <2>3. ChangeTyped'
    BY <2>1, <1>t DEF ChangeTyped
  <2>4. Waited' /\ Behind'
    BY <2>1, <2>2 DEF ChangeInv, Waited, Behind
  <2>5. answer'.review.actionable => answer'.review.command \in gates.paused
    <3>1. gates.paused \in SUBSET Nat
      BY <1>t, ActivationsAreNaturals DEF ChangeTyped
    <3> QED
      BY <2>2, <3>1, MinIsFirst, ContextOffersTheFirst
  <2>6. Commanded'
    BY <2>1, <2>5 DEF ChangeInv, Waited, Commanded
  <2> QED
    BY <2>3, <2>4, <2>6 DEF ChangeInv
<1>11. CASE PollChangeFails \/ (PollChange /\ known.record = NoRecord)
  <2>1. /\ problem' \in {"not found", "failed"}
        /\ UNCHANGED <<work, human, kept, record, known, gates, answer>>
    BY <1>11 DEF PollChange, PollChangeFails
  <2> QED
    BY <2>1 DEF ChangeInv, ChangeTyped, Waited, Commanded, Behind
<1> QED
  BY <1>1, <1>2, <1>3, <1>4, <1>5, <1>6, <1>7, <1>8, <1>9, <1>10, <1>11 DEF ChangeNext

LEMMA ChangeFrame == ChangeInv /\ UNCHANGED changePage => ChangeInv'
BY DEF changePage, ChangeInv, ChangeTyped, Waited, Commanded, Behind, Reached

LEMMA ChangeInvariant == Spec => []ChangeInv
<1>1. Init => ChangeInv
  BY ChangeInitInv DEF Init
<1>2. ChangeInv /\ [Next]_screens => ChangeInv'
  BY ChangeStep, ChangeFrame DEF Next, screens
<1> QED
  BY <1>1, <1>2, PTL DEF Spec

-----------------------------------------------------------------------------
\* The commands of the queue are those of the gates that are known to wait: a
\* change with an item of its own hides no run and repeats none.
LEMMA QueueOffersTheGates ==
  ASSUME ChangeInv
  PROVE  /\ UNION {q.commands : q \in QueueShown} = gates.paused
         /\ \A r \in gates.paused : Cardinality({i \in ReviewItems : i.command = r}) = 1
         /\ ReviewItems = {} <=> known.record.status /= "IN_REVIEW" /\ gates.paused = {}
<1> DEFINE R == known.record
           own == [kind |-> IF R.last \in gates.paused THEN "paused_run" ELSE "in_review",
                   run |-> R.last, actionable |-> R.last \in gates.paused,
                   command |-> IF R.last \in gates.paused THEN R.last ELSE 0]
           other(r) == [kind |-> "paused_run", run |-> r, actionable |-> TRUE, command |-> r]
           inReview == IF R.status = "IN_REVIEW" THEN {own} ELSE {}
           rest == gates.paused \ {i.run : i \in inReview}
<1>1. ReviewItems = inReview \cup {other(r) : r \in rest}
  BY DEF ReviewItems
<1>2. /\ own.run = R.last
      /\ own.actionable <=> R.last \in gates.paused
      /\ own.command = IF R.last \in gates.paused THEN R.last ELSE 0
      /\ \A r : other(r).run = r /\ other(r).actionable /\ other(r).command = r
  OBVIOUS
<1>3. R.status = "IN_REVIEW" => inReview = {own} /\ rest = gates.paused \ {R.last}
  BY <1>2
<1>4. R.status /= "IN_REVIEW" => inReview = {} /\ rest = gates.paused
  OBVIOUS
<1>5. \A r \in gates.paused : r /= 0
  BY ActivationsAreNaturals DEF ChangeInv, ChangeTyped
<1> HIDE DEF own, other, inReview, rest
<1>6. ReviewItems = {} <=> R.status /= "IN_REVIEW" /\ gates.paused = {}
  BY <1>1, <1>3, <1>4
<1>7. ASSUME NEW i PROVE ReviewQueueItem(i).commands = IF i.actionable THEN {i.command} ELSE {}
  BY DEF ReviewQueueItem
<1>8. UNION {q.commands : q \in QueueShown} = UNION {ReviewQueueItem(i).commands : i \in ReviewItems}
  BY DEF QueueShown
<1>9. \A i \in ReviewItems : ReviewQueueItem(i).commands \subseteq gates.paused
  <2> SUFFICES ASSUME NEW i \in ReviewItems, i.actionable PROVE i.command \in gates.paused
    BY <1>7
  <2>1. CASE i = own
    BY <1>2, <2>1
  <2>2. CASE \E r \in rest : i = other(r)
    BY <1>2, <1>3, <1>4, <2>2
  <2> QED
    BY <1>1, <1>3, <1>4, <2>1, <2>2
<1>10. ASSUME NEW r \in gates.paused
       PROVE  \E i \in ReviewItems :
                r \in ReviewQueueItem(i).commands /\ {j \in ReviewItems : j.command = r} = {i}
  <2>1. CASE R.status = "IN_REVIEW" /\ R.last = r
    <3>1. \A j \in ReviewItems : j.command = r <=> j = own
      BY <1>1, <1>2, <1>3, <2>1
    <3>2. own \in ReviewItems /\ r \in ReviewQueueItem(own).commands
      BY <1>1, <1>2, <1>3, <1>7, <2>1
    <3> QED
      BY <3>1, <3>2
  <2>2. CASE ~(R.status = "IN_REVIEW" /\ R.last = r)
    <3>1. \A j \in ReviewItems : j.command = r <=> j = other(r)
      BY <1>1, <1>2, <1>3, <1>4, <1>5, <2>2
    <3>2. other(r) \in ReviewItems /\ r \in ReviewQueueItem(other(r)).commands
      BY <1>1, <1>2, <1>3, <1>4, <1>7, <2>2
    <3> QED
      BY <3>1, <3>2
  <2> QED
    BY <2>1, <2>2
<1>11. \A r \in gates.paused : Cardinality({i \in ReviewItems : i.command = r}) = 1
  BY <1>10, FS_Singleton
<1> QED
  BY <1>6, <1>8, <1>9, <1>10, <1>11

\* The panel of the page, from the cached list alone.
LEMMA PanelOffersAGate ==
  ASSUME ChangeInv
  PROVE  LET panel == ReviewPanel(ReviewContext(known.record))
         IN /\ panel.badge = "Decision pending"
                 <=> known.record.status = "IN_REVIEW" \/ gates.paused /= {}
            /\ gates.paused = {} => panel.commands = {}
            /\ gates.paused /= {} => panel.commands /= {} /\ panel.commands \subseteq gates.paused
<1> DEFINE v == ReviewContext(known.record)
<1>1. /\ v.pending <=> known.record.status = "IN_REVIEW" \/ gates.paused /= {}
      /\ v.actionable <=> gates.paused /= {}
      /\ gates.paused /= {} => v.command = Min(gates.paused)
  BY ContextOffersTheFirst
<1>2. gates.paused \in SUBSET Nat
  BY ActivationsAreNaturals DEF ChangeInv, ChangeTyped
<1> HIDE DEF v
<1>3. /\ ReviewPanel(v).badge = IF v.pending THEN "Decision pending" ELSE "No decision pending"
      /\ ReviewPanel(v).commands = IF v.actionable THEN {v.command} ELSE {}
  BY DEF ReviewPanel
<1>4. gates.paused /= {} => Min(gates.paused) \in gates.paused
  BY <1>2, MinIsFirst
<1>5. /\ ReviewPanel(v).badge = "Decision pending"
            <=> known.record.status = "IN_REVIEW" \/ gates.paused /= {}
      /\ gates.paused = {} => ReviewPanel(v).commands = {}
      /\ gates.paused /= {} =>
           ReviewPanel(v).commands /= {} /\ ReviewPanel(v).commands \subseteq gates.paused
  BY <1>1, <1>3, <1>4
<1> QED
  BY <1>5 DEF v

LEMMA ChangeInvGate == ChangeInv => GateIsFound
<1> SUFFICES ASSUME ChangeInv PROVE GateIsFound
  OBVIOUS
<1>1. ChangeTypeOK
  BY DEF ChangeInv, ChangeTyped, ChangeTypeOK, Works, Records
<1>2. EveryGateIsOffered
  <2>1. \A r \in UNION {q.commands : q \in QueueShown} : work[r] \notin {"absent", "running"}
    BY QueueOffersTheGates DEF ChangeInv, Waited, Reached
  <2>2. ASSUME ChangeView = "page", NEW r \in ReviewPanel(answer.review).commands
        PROVE  work[r] \notin {"absent", "running"}
    <3>1. answer /= NoDetail
      BY <2>2 DEF ChangeView
    <3>2. answer.review.actionable /\ r = answer.review.command
      BY <2>2 DEF ReviewPanel
    <3> QED
      BY <3>1, <3>2 DEF ChangeInv, Commanded, Reached
  <2> QED
    BY <2>1, <2>2, QueueOffersTheGates DEF EveryGateIsOffered
<1>3. PageAndQueueAgree
  <2> DEFINE panel == ReviewPanel(ReviewContext(known.record))
             offered == UNION {q.commands : q \in QueueShown}
  <2>1. offered = gates.paused
    BY QueueOffersTheGates
  <2>2. /\ panel.badge = "Decision pending" <=> ReviewItems /= {}
        /\ panel.commands \subseteq gates.paused
        /\ panel.commands = {} <=> gates.paused = {}
    BY QueueOffersTheGates, PanelOffersAGate
  <2> HIDE DEF panel, offered
  <2>3. /\ panel.badge = "Decision pending" <=> ReviewItems /= {}
        /\ panel.commands \subseteq offered
        /\ panel.commands = {} <=> offered = {}
    BY <2>1, <2>2
  <2> QED
    BY <2>3 DEF PageAndQueueAgree, panel, offered
<1> QED
  BY <1>1, <1>2, <1>3 DEF GateIsFound

\* A run that waits for a decision is offered once by the review queue and found
\* from the page of its change with the same command, and no command is offered
\* for a run that never got past its work, for any number of runs and however
\* old the index and the list of open workflows are (handleReviews,
\* handleChangeDetail, queue-item.jsx, review-panel.jsx).
THEOREM GatesAreFound == Spec => []GateIsFound
BY ChangeInvariant, ChangeInvGate, PTL

\* An activation the change page has named is named by every later answer, though
\* its evidence may be removed and the index is behind (missingActivationRuns).
THEOREM LineageGrows == Spec => LineageOnlyGrows
<1>1. ASSUME ChangeInv, [Next]_screens
      PROVE  [Named(answer) \subseteq Named(answer')]_changePage
  <2>1. CASE UNCHANGED answer
    BY <2>1
  <2>2. CASE ~UNCHANGED answer
    <3>1. ChangeNext
      BY <1>1, <2>2 DEF Next, screens, changePage
    <3>2. PollChange
      BY <2>2, <3>1 DEF ChangeNext, BeginRun, PauseRun, FoldRun, CloseRun, PruneRun,
        WriteManifest, AbandonChange, ReadEvidence, ReadOpenRuns, ReadOpenRunsFails,
        PollChangeFails
    <3>3. known.record /= NoRecord /\ answer' = ChangeDetail
      BY <2>2, <3>2 DEF PollChange
    <3>4. answer' /= NoDetail /\ answer'.record = known.record
      BY <3>3, DetailIsAnAnswer
    <3>5. Named(answer') = known.record.acts
      BY <3>4, NamedIsLineage
    <3>6. answer /= NoDetail => Named(answer) = answer.record.acts
      BY NamedIsLineage
    <3>7. answer = NoDetail => Named(answer) = {}
      BY DEF Named
    <3> QED
      BY <1>1, <3>5, <3>6, <3>7 DEF ChangeInv, Behind
  <2> QED
    BY <2>1, <2>2
<1> QED
  BY <1>1, ChangeInvariant, PTL DEF Spec, LineageOnlyGrows

-----------------------------------------------------------------------------
(***************************************************************************)
(* The dispatch form                                                       *)
(***************************************************************************)
\* The strings; the provers do not know that a literal is one.
Words == STRING \cup {"", "default"}
Forms ==
  [repository : Repositories \cup {<<>>}, revision : {"", "branch", "sha"},
   task : {"", "short", "text"}, scope : Words, harness : Words,
   verification : Words, model : Words, egress : Words, review : BOOLEAN]

\* A form that is not empty was touched: a select alone leaves it empty.
DispatchInv ==
  /\ config \in Configs /\ catalog \in Configs \cup {NoCatalog}
  /\ form \in Forms
  /\ touched \in BOOLEAN
  /\ form.repository /= <<>> \/ form.revision /= "" \/ form.task /= "" => touched = TRUE

\* An entry of a list is one of its values.
LEMMA HeadIsAnEntry ==
  ASSUME NEW S, NEW s \in Seq(S), s /= <<>>
  PROVE  Head(s) \in ToSet(s)
BY DEF ToSet

LEMMA EntriesAreTyped ==
  ASSUME NEW S, NEW s \in Seq(S)
  PROVE  ToSet(s) \subseteq S
BY DEF ToSet

LEMMA CatalogIsTyped == DispatchInv => catalog \in Catalogs
<1>1. NoCatalog \in Catalogs
  BY DEF NoCatalog, Catalogs
<1> QED
  BY <1>1, DispatchAssumption DEF DispatchInv

\* The scope the page falls back on has a name the factory knows, or there is
\* none and the factory falls back on its own.
LEMMA DefaultIsKnown ==
  ASSUME NEW c \in Catalogs
  PROVE  /\ DefaultScope(c) \in Words
         /\ c.scopes /= <<>> => DefaultScope(c) \in Names(c.scopes)
         /\ c.scopes = <<>> => DefaultScope(c) = ""
<1>1. c.scopes \in Seq(Scopes)
  BY DEF Catalogs
<1>2. c.scopes /= <<>> => Head(c.scopes) \in ToSet(c.scopes) /\ Head(c.scopes) \in Scopes
  BY <1>1, HeadIsAnEntry, EntriesAreTyped
<1>3. c.scopes /= <<>> => Head(c.scopes).name \in Names(c.scopes) /\ Head(c.scopes).name \in Words
  BY <1>2 DEF Names, Scopes, Entries, Words
<1>4. CASE c.scopes = <<>>
  <2>1. DefaultScope(c) = ""
    BY <1>4, Zenon DEF DefaultScope
  <2> QED
    BY <1>4, <2>1 DEF Words
<1>5. CASE c.scopes /= <<>> /\ "default" \in Names(c.scopes)
  <2>1. DefaultScope(c) = "default"
    BY <1>5, Zenon DEF DefaultScope
  <2> QED
    BY <1>5, <2>1 DEF Words
<1>6. CASE c.scopes /= <<>> /\ "default" \notin Names(c.scopes)
  <2>1. DefaultScope(c) = Head(c.scopes).name
    BY <1>6 DEF DefaultScope
  <2> QED
    BY <1>3, <1>6, <2>1
<1> QED
  BY <1>4, <1>5, <1>6

LEMMA NamesAreTyped ==
  ASSUME NEW c \in Catalogs
  PROVE  /\ Names(c.scopes) \subseteq Entries
         /\ Names(c.models) \subseteq Words
         /\ ToSet(c.harnesses) \subseteq Entries
         /\ ToSet(c.profiles) \subseteq Entries
         /\ c.egress \subseteq Words
<1>1. /\ c.scopes \in Seq(Scopes)
      /\ c.models \in Seq([name : STRING, scopes : SUBSET STRING])
      /\ c.harnesses \in Seq(Entries) /\ c.profiles \in Seq(Entries)
      /\ c.egress \subseteq STRING
  BY DEF Catalogs
<1>2. /\ ToSet(c.scopes) \subseteq Scopes
      /\ ToSet(c.models) \subseteq [name : STRING, scopes : SUBSET STRING]
      /\ ToSet(c.harnesses) \subseteq Entries /\ ToSet(c.profiles) \subseteq Entries
  BY <1>1, EntriesAreTyped
<1> QED
  BY <1>1, <1>2 DEF Names, Scopes, Words

LEMMA DispatchInitInv == DispatchInit => DispatchInv
<1> SUFFICES ASSUME DispatchInit PROVE DispatchInv
  OBVIOUS
<1>1. EmptyForm \in Forms
  BY DEF EmptyForm, Forms, Words
<1>2. EmptyForm.repository = <<>> /\ EmptyForm.revision = "" /\ EmptyForm.task = ""
  BY DEF EmptyForm
<1> QED
  BY <1>1, <1>2 DEF DispatchInit, DispatchInv

LEMMA FillStep == DispatchInv /\ Fill => DispatchInv'
<1> SUFFICES ASSUME DispatchInv, Fill PROVE DispatchInv'
  OBVIOUS
<1>c. catalog \in Catalogs
  BY CatalogIsTyped
<1>n. /\ Names(catalog.scopes) \subseteq Words /\ Names(catalog.models) \subseteq Words
      /\ ToSet(catalog.harnesses) \subseteq Words /\ ToSet(catalog.profiles) \subseteq Words
      /\ catalog.egress \subseteq Words /\ DefaultScope(catalog) \in Words
  BY <1>c, NamesAreTyped, DefaultIsKnown DEF Entries, Words
<1> USE DEF DispatchInv, Forms
<1>1. ASSUME NEW r \in Repositories \cup {<<>>}, Edit("repository", r) PROVE DispatchInv'
  BY <1>1 DEF Edit
<1>2. ASSUME NEW r \in {"", "branch", "sha"}, Edit("revision", r) PROVE DispatchInv'
  BY <1>2 DEF Edit
<1>3. ASSUME NEW t \in {"", "short", "text"}, Edit("task", t) PROVE DispatchInv'
  BY <1>3 DEF Edit
<1>4. ASSUME NEW s \in Names(catalog.scopes), Choose("scope", s) PROVE DispatchInv'
  BY <1>4, <1>n DEF Choose, Words
<1>5. ASSUME NEW h \in ToSet(catalog.harnesses), Choose("harness", h) PROVE DispatchInv'
  BY <1>5, <1>n DEF Choose, Words
<1>6. ASSUME NEW p \in ToSet(catalog.profiles), Choose("verification", p) PROVE DispatchInv'
  BY <1>6, <1>n DEF Choose, Words
<1>7. ASSUME NEW n \in Names(catalog.models) \cup {""}, Choose("model", n) PROVE DispatchInv'
  BY <1>7, <1>n DEF Choose, Words
<1>8. ASSUME NEW e \in catalog.egress \cup {""}, Choose("egress", e) PROVE DispatchInv'
  BY <1>8, <1>n DEF Choose, Words
<1>9. ASSUME NEW b \in BOOLEAN, Choose("review", b) PROVE DispatchInv'
  BY <1>9 DEF Choose
<1>10. ASSUME NEW run \in Templates, ApplyTemplate(run) PROVE DispatchInv'
  <2>1. /\ run.repository \in Repositories /\ run.scope \in Words
        /\ run.harness \in Words /\ run.verification \in Words
    BY DispatchAssumption DEF Words
  <2> QED
    BY <1>10, <1>n, <2>1 DEF ApplyTemplate
<1> HIDE DEF DispatchInv, Forms
<1> QED
  BY <1>1, <1>2, <1>3, <1>4, <1>5, <1>6, <1>7, <1>8, <1>9, <1>10 DEF Fill

LEMMA DispatchInvariant == Spec => []DispatchInv
<1>1. Init => DispatchInv
  BY DispatchInitInv DEF Init, DispatchIdle
<1>2. DispatchInv /\ DispatchNext => DispatchInv'
  <2>1. DispatchInv /\ PollCatalog => DispatchInv'
    BY DEF DispatchInv, PollCatalog
  <2>2. ASSUME NEW c \in Configs PROVE DispatchInv /\ Reconfigure(c) => DispatchInv'
    BY DEF DispatchInv, Reconfigure
  <2> QED
    BY <2>1, <2>2, FillStep DEF DispatchNext
<1>3. DispatchInv /\ UNCHANGED dispatch => DispatchInv'
  BY DEF DispatchInv, dispatch
<1>4. DispatchInv /\ [Next]_screens => DispatchInv'
  BY <1>2, <1>3 DEF Next, screens
<1> QED
  BY <1>1, <1>4, PTL DEF Spec

\* What the page makes of a form, field by field.
LEMMA CommandFields ==
  ASSUME DispatchInv
  PROVE  /\ Command \in Forms
         /\ Command.repository = form.repository
         /\ Command.revision = form.revision
         /\ Command.task = form.task
         /\ Command.scope = IF form.scope = "" THEN DefaultScope(catalog) ELSE form.scope
         /\ Command.harness = IF form.harness = "" THEN First(catalog.harnesses) ELSE form.harness
         /\ Command.verification =
              IF form.verification = "" THEN First(catalog.profiles) ELSE form.verification
<1>1. catalog \in Catalogs
  BY CatalogIsTyped
<1>2. /\ catalog.harnesses \in Seq(Entries) /\ catalog.profiles \in Seq(Entries)
      /\ ToSet(catalog.harnesses) \subseteq Words /\ ToSet(catalog.profiles) \subseteq Words
  BY <1>1, NamesAreTyped DEF Catalogs, Entries, Words
<1>3. First(catalog.harnesses) \in Words /\ First(catalog.profiles) \in Words
  BY <1>2, HeadIsAnEntry DEF First, Words
<1>4. DefaultScope(catalog) \in Words
  BY <1>1, DefaultIsKnown
<1>5. form \in Forms
  BY DEF DispatchInv
<1> QED
  BY <1>3, <1>4, <1>5 DEF Command, Effective, Forms

\* The checks of the page and of the factory, one by one.
LEMMA ErrorsByField ==
  ASSUME NEW f, NEW c
  PROVE  Errors(f, c) = {} <=>
           /\ f.repository /= <<>> /\ repositoryAllowed(f, c)
           /\ f.revision = "sha" /\ f.task = "text"
           /\ harnessAllowed(f, c) /\ f.verification /= ""
BY DEF Errors

\* The scope the factory reads is the one the page reads.
FactoryScope(f) == IF f.scope = "" THEN "default" ELSE f.scope

LEMMA RefusalsByReason ==
  ASSUME NEW f \in Forms, NEW c
  PROVE  LET scope == SelectedScope([f EXCEPT !.scope = FactoryScope(f)], c)
         IN /\ "scope" \in Refusals(f, c)
                 <=> FactoryScope(f) \notin Names(c.scopes) \cup {"default"}
            /\ "adjacent repository" \in Refusals(f, c)
                 <=> ~matchesAnyPrefix(f.repository, c.allowed)
            /\ "repository outside scope" \in Refusals(f, c)
                 <=> /\ scope.repositories /= {}
                     /\ ~matchesAnyPrefix(f.repository,
                                          narrowedPrefixes(c.allowed, scope.repositories))
            /\ "harness" \in Refusals(f, c) <=> f.harness \notin ToSet(c.harnesses)
            /\ "harness outside scope" \in Refusals(f, c)
                 <=> scope.harnesses /= {} /\ f.harness \notin scope.harnesses
            /\ "verification" \in Refusals(f, c) <=> f.verification \notin ToSet(c.profiles)
BY DEF Refusals, FactoryScope

LEMMA NoIndex == \A i : i \notin 1 .. 0
<1> SUFFICES ASSUME NEW i \in 1 .. 0 PROVE FALSE
  OBVIOUS
<1>1. i \in Int /\ 1 <= i /\ i <= 0
  OBVIOUS
<1> QED
  BY <1>1

LEMMA SameScope ==
  ASSUME NEW f \in Forms, NEW c \in Catalogs,
         f.scope = "" => c.scopes = <<>>
  PROVE  SelectedScope([f EXCEPT !.scope = FactoryScope(f)], c) = SelectedScope(f, c)
<1> DEFINE g == [f EXCEPT !.scope = FactoryScope(f)]
<1>1. g.scope = FactoryScope(f)
  BY DEF Forms
<1>2. CASE f.scope /= ""
  <2>1. g = f
    BY <1>2 DEF FactoryScope, Forms
  <2> QED
    BY <2>1, Zenon
<1>3. CASE f.scope = ""
  <2>1. Names(c.scopes) = {}
    <3>1. c.scopes \in Seq(Scopes) /\ c.scopes = <<>>
      BY <1>3 DEF Catalogs
    <3>2. DOMAIN c.scopes = 1 .. 0
      BY <3>1, EmptySeq
    <3>3. \A i : i \notin DOMAIN c.scopes
      BY <3>2, NoIndex, Zenon
    <3> QED
      <4>1. ToSet(c.scopes) = {}
        BY <3>3 DEF ToSet
      <4> QED
        BY <4>1 DEF Names
  <2> QED
    BY <2>1, Zenon DEF SelectedScope
<1> QED
  BY <1>2, <1>3 DEF g

\* A sequence that is not empty is its front and its last element.
LEMMA FrontAndLast ==
  ASSUME NEW S, NEW s \in Seq(S), s /= <<>>
  PROVE  /\ Len(s) \in Nat \ {0}
         /\ Front(s) \in Seq(S) /\ Len(Front(s)) = Len(s) - 1
         /\ \A i \in 1 .. Len(s) - 1 : Front(s)[i] = s[i]
         /\ Last(s) = s[Len(s)] /\ Last(s) \in S
<1> DEFINE m == Len(s) - 1
<1>1. Len(s) \in Nat \ {0}
  BY EmptySeq
<1>2. /\ m \in Nat /\ 1 \in Int /\ m \in Int
      /\ \A i \in 1 .. m : s[i] \in S
  BY <1>1
<1>3. Front(s) = SubSeq(s, 1, m)
  BY DEF Front
<1>4. Last(s) = s[Len(s)] /\ Last(s) \in S
  BY <1>1 DEF Last
<1> HIDE DEF m
<1>5. /\ SubSeq(s, 1, m) \in Seq(S)
      /\ Len(SubSeq(s, 1, m)) = IF 1 <= m THEN m - 1 + 1 ELSE 0
      /\ \A i \in 1 .. m - 1 + 1 : SubSeq(s, 1, m)[i] = s[1 + i - 1]
  BY <1>2, SubSeqProperties
<1>6. Len(Front(s)) = m
  BY <1>2, <1>3, <1>5
<1>7. ASSUME NEW i \in 1 .. m PROVE Front(s)[i] = s[i]
  <2>1. i \in 1 .. m - 1 + 1 /\ 1 + i - 1 = i
    BY <1>2
  <2> QED
    BY <1>3, <1>5, <2>1
<1> QED
  BY <1>1, <1>3, <1>4, <1>5, <1>6, <1>7 DEF m

\* A prefix of the path is a prefix of the text, except that all of a prefix may
\* lack its last slash.
LEMMA PathPrefixIsTextPrefix ==
  ASSUME NEW r \in Seq(STRING), NEW p \in URLs, URLMatchesPrefix(r, p)
  PROVE  IsPrefix(p, r) \/ p = Append(r, "/")
<1>1. p \in Seq(STRING) /\ Len(p) \in Nat /\ Len(p) > 0 /\ Len(r) \in Nat
  BY DEF URLs
<1>2. CASE Last(p) = "/"
  <2>1. /\ Front(p) \in Seq(STRING) /\ Len(Front(p)) = Len(p) - 1
        /\ \A i \in 1 .. Len(p) - 1 : Front(p)[i] = p[i]
    BY FrontAndLast DEF URLs
  <2>2. Append(Front(p), Last(p)) = p
    BY <1>1, <2>1 DEF Last
  <2> QED
    BY <1>2, <2>2 DEF URLMatchesPrefix
<1>3. CASE Last(p) /= "/"
  <2>1. r = p \/ IsPrefix(Append(p, "/"), r)
    BY <1>3 DEF URLMatchesPrefix
  <2>2. CASE r = p
    BY <1>1, <2>2 DEF IsPrefix
  <2>3. CASE IsPrefix(Append(p, "/"), r)
    <3> DEFINE q == Append(p, "/")
    <3>1. Len(q) = Len(p) + 1 /\ \A i \in 1 .. Len(p) : q[i] = p[i]
      BY <1>1
    <3> HIDE DEF q
    <3>2. Len(q) <= Len(r) /\ \A i \in 1 .. Len(q) : SubSeq(q, 1, Len(q))[i] = SubSeq(r, 1, Len(q))[i]
      BY <2>3 DEF IsPrefix, q
    <3> QED
      BY <1>1, <3>1, <3>2 DEF IsPrefix
  <2> QED
    BY <2>1, <2>2, <2>3
<1> QED
  BY <1>2, <1>3

\* What the factory admits by a path the page admits by the text, or the
\* repository is all of a prefix without its slash.
LEMMA MatchesStart ==
  ASSUME NEW r \in Seq(STRING), NEW P \in SUBSET URLs, matchesAnyPrefix(r, P)
  PROVE  startsWith(r, P) \/ \E p \in P : p = Append(r, "/")
BY PathPrefixIsTextPrefix DEF matchesAnyPrefix, startsWith

\* A form that is filled in names a scope, or the factory has none.
LEMMA ScopeIsNamed ==
  ASSUME DispatchInv
  PROVE  /\ Command.scope = "" => catalog.scopes = <<>>
         /\ form.scope \in Names(catalog.scopes) \cup {""}
              => FactoryScope(Command) \in Names(catalog.scopes) \cup {"default"}
<1>1. catalog \in Catalogs
  BY CatalogIsTyped
<1>2. "" \notin Names(catalog.scopes)
  BY <1>1, NamesAreTyped DEF Entries
<1>3. /\ catalog.scopes /= <<>> => DefaultScope(catalog) \in Names(catalog.scopes)
      /\ catalog.scopes = <<>> => DefaultScope(catalog) = ""
  BY <1>1, DefaultIsKnown
<1>4. Command.scope = IF form.scope = "" THEN DefaultScope(catalog) ELSE form.scope
  BY CommandFields
<1> QED
  BY <1>2, <1>3, <1>4 DEF FactoryScope

LEMMA ScopesAreTyped ==
  ASSUME NEW f, NEW c \in Catalogs
  PROVE  /\ SelectedScope(f, c).repositories \in SUBSET URLs
         /\ SelectedScope(f, c).repositories /= {} => SelectedScope(f, c) \in ToSet(c.scopes)
<1>1. CASE f.scope \in Names(c.scopes)
  <2>1. \E s \in ToSet(c.scopes) : s.name = f.scope
    BY <1>1 DEF Names
  <2>2. SelectedScope(f, c) \in ToSet(c.scopes)
    BY <1>1, <2>1, Zenon DEF SelectedScope
  <2>3. ToSet(c.scopes) \subseteq Scopes
    BY EntriesAreTyped DEF Catalogs
  <2> QED
    BY <2>2, <2>3 DEF Scopes
<1>2. CASE f.scope \notin Names(c.scopes)
  <2>1. SelectedScope(f, c) = NoScope
    BY <1>2, Zenon DEF SelectedScope
  <2>2. NoScope.repositories = {}
    BY DEF NoScope
  <2> QED
    BY <2>1, <2>2, Zenon
<1> QED
  BY <1>1, <1>2

LEMMA OfferSound == DispatchInv => OfferIsSound
<1> SUFFICES ASSUME DispatchInv, Offered, catalog = config
             PROVE  /\ Complete(Command)
                    /\ "harness outside scope" \notin Refusals(Command, config)
                    /\ Refusals(Command, config) \cap {"scope", "harness", "verification"} /= {} =>
                         \/ form.scope \notin Names(catalog.scopes) \cup {""}
                         \/ form.harness \notin ToSet(catalog.harnesses) \cup {""}
                         \/ form.verification \notin ToSet(catalog.profiles) \cup {""}
  BY DEF OfferIsSound
<1>1. catalog \in Catalogs /\ Command \in Forms
  BY CatalogIsTyped, CommandFields
<1>2. /\ Command.repository /= <<>> /\ Command.revision = "sha" /\ Command.task = "text"
      /\ harnessAllowed(Command, catalog) /\ Command.verification /= ""
  BY ErrorsByField DEF Offered
<1>3. Complete(Command)
  BY <1>2 DEF Complete
<1>4. SelectedScope([Command EXCEPT !.scope = FactoryScope(Command)], catalog)
        = SelectedScope(Command, catalog)
  BY <1>1, ScopeIsNamed, SameScope
<1>5. "harness outside scope" \notin Refusals(Command, catalog)
  BY <1>1, <1>2, <1>4, RefusalsByReason DEF harnessAllowed
<1>6. form.scope \in Names(catalog.scopes) \cup {""} => "scope" \notin Refusals(Command, catalog)
  BY <1>1, ScopeIsNamed, RefusalsByReason
<1>7. ASSUME NEW s \in Seq(Entries), First(s) /= "" PROVE First(s) \in ToSet(s)
  BY <1>7, HeadIsAnEntry DEF First
<1>8. catalog.harnesses \in Seq(Entries) /\ catalog.profiles \in Seq(Entries)
  BY <1>1 DEF Catalogs
<1>9. form.harness \in ToSet(catalog.harnesses) \cup {""}
        => Command.harness \in ToSet(catalog.harnesses)
  BY <1>2, <1>7, <1>8, CommandFields DEF harnessAllowed
<1>10. form.verification \in ToSet(catalog.profiles) \cup {""}
        => Command.verification \in ToSet(catalog.profiles)
  BY <1>2, <1>7, <1>8, CommandFields
<1>11. /\ form.harness \in ToSet(catalog.harnesses) \cup {""} => "harness" \notin Refusals(Command, catalog)
       /\ form.verification \in ToSet(catalog.profiles) \cup {""}
            => "verification" \notin Refusals(Command, catalog)
  BY <1>1, <1>9, <1>10, RefusalsByReason
<1> QED
  BY <1>3, <1>5, <1>6, <1>11

LEMMA RefusalSound == DispatchInv => RefusalIsSound
<1> SUFFICES ASSUME DispatchInv, ~Offered, catalog = config, Accepts(Command, catalog),
                    form.task /= "short", form.revision /= "branch"
             PROVE  \E p \in catalog.allowed \cup UNION {s.repositories : s \in ToSet(catalog.scopes)} :
                      p = Append(form.repository, "/")
  BY DEF RefusalIsSound
<1>1. catalog \in Catalogs /\ Command \in Forms
  BY CatalogIsTyped, CommandFields
<1>2. /\ Command.repository = form.repository
      /\ Command.revision = form.revision /\ Command.task = form.task
  BY CommandFields
<1>3. Command.repository /= <<>> /\ Command.revision = "sha" /\ Command.task = "text"
  BY <1>1, <1>2 DEF Accepts, Complete, Forms
<1>4. Refusals(Command, catalog) = {}
  BY DEF Accepts
<1> DEFINE scope == SelectedScope(Command, catalog)
<1>5. SelectedScope([Command EXCEPT !.scope = FactoryScope(Command)], catalog) = scope
  BY <1>1, ScopeIsNamed, SameScope
<1>6. /\ matchesAnyPrefix(Command.repository, catalog.allowed)
      /\ scope.repositories /= {} =>
           matchesAnyPrefix(Command.repository, narrowedPrefixes(catalog.allowed, scope.repositories))
      /\ Command.harness \in ToSet(catalog.harnesses)
      /\ scope.harnesses /= {} => Command.harness \in scope.harnesses
      /\ Command.verification \in ToSet(catalog.profiles)
  BY <1>1, <1>4, <1>5, RefusalsByReason
<1>7. Command.harness /= "" /\ Command.verification /= ""
  BY <1>1, <1>6, NamesAreTyped DEF Entries
<1>8. harnessAllowed(Command, catalog)
  BY <1>6, <1>7 DEF harnessAllowed
<1>9. ~repositoryAllowed(Command, catalog)
  BY <1>3, <1>7, <1>8, ErrorsByField DEF Offered
<1>10. Command.repository \in Seq(STRING)
  BY <1>1, <1>3, DispatchAssumption DEF Forms
<1>11. scope.repositories \in SUBSET URLs
       /\ (scope.repositories /= {} => scope \in ToSet(catalog.scopes))
  BY <1>1, ScopesAreTyped
<1>12. catalog.allowed \in SUBSET URLs
  BY <1>1 DEF Catalogs
<1>13. scope.repositories /= {} => matchesAnyPrefix(Command.repository, scope.repositories)
  BY <1>6 DEF matchesAnyPrefix, narrowedPrefixes
<1> HIDE DEF scope
<1>14. CASE ~startsWith(Command.repository, catalog.allowed)
  BY <1>2, <1>6, <1>10, <1>12, <1>14, MatchesStart
<1>15. CASE scope.repositories /= {} /\ ~startsWith(Command.repository, scope.repositories)
  BY <1>2, <1>10, <1>11, <1>13, <1>15, MatchesStart
<1> QED
  BY <1>9, <1>14, <1>15 DEF repositoryAllowed, scope

\* With a catalog that is up to date, a command that is offered is complete and
\* refused only for what the page does not look at, what is held back the factory
\* would take only in three named cases, and a form that was begun says why it
\* has no command, for every configuration, set of recent runs and order of
\* edits, polls and changes of the configuration (dispatch.jsx against
\* ResolveResources and URLMatchesPrefix).
THEOREM FormIsSound == Spec => []FormFollowsCatalog
<1>1. DispatchInv => DispatchTypeOK
  BY DEF DispatchInv, DispatchTypeOK, Forms
<1>2. DispatchInv => HiddenIsExplained
  BY DEF DispatchInv, HiddenIsExplained, Explained, Offered
<1> QED
  BY <1>1, <1>2, OfferSound, RefusalSound, DispatchInvariant, PTL DEF FormFollowsCatalog

-----------------------------------------------------------------------------
(***************************************************************************)
(* The lists                                                               *)
(***************************************************************************)
ListsTyped ==
  /\ page \in {"runs", "changes", "reviews"}
  /\ window \in Windows
  /\ typed \in Texts \cup {""} /\ debounced \in Texts \cup {""} /\ landed \in Texts \cup {""}
  /\ timer \in BOOLEAN
  /\ filter \in Filters \cup Tabs \cup {""}
  /\ limit \in Limits
  /\ failed \in BOOLEAN /\ loading \in BOOLEAN

\* The stored cursor is a record; its key and origin may be those of any screen.
PagerTyped ==
  /\ pager = [key |-> pager.key, cursor |-> pager.cursor, history |-> pager.history,
              crossed |-> pager.crossed, from |-> pager.from]
  /\ pager.cursor \in 0 .. MaxTotal
  /\ pager.history \in Seq(0 .. MaxTotal)
  /\ pager.crossed \in BOOLEAN

\* What is shown is a page of some queue, cut for the question it answers.
Answered ==
  Loaded => /\ data.asked.cursor \in 0 .. MaxTotal
            /\ data.asked.base.limit \in Limits
            /\ \E queue \in Queues : data = Paginate(queue, data.asked)

\* Without a spinner and an error it answers the question of the screen.
Current == Settled => data.asked = asked

\* The box, the timer and the query of the runs screen.
SearchFollows ==
  /\ timer = FALSE => debounced = typed
  /\ page = "runs" => landed \in {debounced, ""}

\* Where the stored cursor stands while it belongs to the present question.
Rooted ==
  /\ pager.history = <<>> => pager.cursor = 0
  /\ pager.history /= <<>> => pager.history[1] = 0
Straight ==
  /\ \A i \in 1 .. Len(pager.history) : pager.history[i] = (i - 1) * limit
  /\ pager.cursor = Len(pager.history) * limit
Placed ==
  Synced => /\ pager.cursor > 0 /\ pager.crossed = FALSE => pager.from = Base
            /\ page /= "runs" => Rooted
            /\ page /= "runs" /\ pager.crossed = FALSE => Straight

ListsInv ==
  /\ ListsTyped /\ PagerTyped
  /\ asked = Question
  /\ Answered /\ Current
  /\ SearchFollows
  /\ Placed

LEMMA LimitsAreNatural == Limits \subseteq Nat \ {0} /\ MaxTotal \in Nat
BY ListsAssumption

LEMMA PlacesAreNatural ==
  /\ \A x \in 0 .. MaxTotal : x \in Nat
  /\ \A l \in Limits : l \in Nat \ {0}
  /\ 0 \in 0 .. MaxTotal
BY LimitsAreNatural

LEMMA Multiples ==
  ASSUME NEW l \in Nat, NEW n \in Nat
  PROVE  0 * l = 0 /\ (n + 1) * l = n * l + l /\ n * l \in Nat
OBVIOUS

LEMMA FirstPageFields ==
  ASSUME NEW k
  PROVE  /\ FirstPage(k) = [key |-> FirstPage(k).key, cursor |-> FirstPage(k).cursor,
                            history |-> FirstPage(k).history,
                            crossed |-> FirstPage(k).crossed, from |-> FirstPage(k).from]
         /\ FirstPage(k).key = k /\ FirstPage(k).cursor = 0
         /\ FirstPage(k).history = <<>> /\ FirstPage(k).crossed = FALSE
BY DEF FirstPage

\* The key of a cursor has everything its question is made of.
LEMMA KeyFixesBase ==
  ASSUME ListsTyped, UNCHANGED page, PagerKey' = PagerKey,
         page = "runs" => UNCHANGED <<landed, filter, limit>>,
         page = "reviews" => UNCHANGED limit
  PROVE  Base' = Base /\ limit' = limit
<1>1. CASE page = "runs"
  BY <1>1 DEF PagerKey, Base, Search
<1>2. CASE page = "changes"
  BY <1>2 DEF PagerKey, Base, Search
<1>3. CASE page = "reviews"
  BY <1>3 DEF PagerKey, Base
<1> QED
  BY <1>1, <1>2, <1>3 DEF ListsTyped

LEMMA PlacedFirst ==
  ASSUME NEW k, pager' = FirstPage(k), ListsTyped'
  PROVE  PagerTyped' /\ Placed'
<1>1. /\ pager'.cursor = 0 /\ pager'.history = <<>> /\ pager'.crossed = FALSE
      /\ pager' = [key |-> pager'.key, cursor |-> pager'.cursor, history |-> pager'.history,
                   crossed |-> pager'.crossed, from |-> pager'.from]
  BY FirstPageFields
<1>2. PagerTyped'
  <2>1. 0 \in 0 .. MaxTotal
    BY LimitsAreNatural
  <2>2. <<>> \in Seq(0 .. MaxTotal)
    BY EmptySeq
  <2> QED
    BY <1>1, <2>1, <2>2 DEF PagerTyped
<1>3. Rooted'
  BY <1>1 DEF Rooted
<1>4. Straight'
  <2>1. Len(<<>>) = 0
    BY EmptySeq
  <2>2. limit' \in Nat
    BY LimitsAreNatural DEF ListsTyped
  <2>3. 0 * limit' = 0
    BY <2>2, Multiples
  <2> QED
    BY <1>1, <2>1, <2>3, NoIndex DEF Straight
<1> QED
  BY <1>1, <1>2, <1>3, <1>4 DEF Placed

LEMMA PlacedKept ==
  ASSUME ListsInv, Synced, UNCHANGED <<page, pager>>,
         page = "runs" => UNCHANGED <<landed, filter, limit>>,
         page = "reviews" => UNCHANGED limit
  PROVE  PagerTyped' /\ Placed'
<1>1. PagerTyped'
  BY DEF ListsInv, PagerTyped
<1>2. ASSUME Synced' PROVE Placed'
  <2>1. PagerKey' = PagerKey
    BY <1>2 DEF Synced
  <2>2. Base' = Base /\ limit' = limit
    BY <2>1, KeyFixesBase DEF ListsInv
  <2> QED
    BY <2>2 DEF ListsInv, Placed, Rooted, Straight
<1>3. ASSUME ~Synced' PROVE Placed'
  BY <1>3 DEF Placed
<1> QED
  BY <1>1, <1>2, <1>3

\* A render keeps what is shown, and asks what the screen stands for.
LEMMA Rendered ==
  ASSUME ListsInv, Render,
         window' \in Windows, limit' \in Limits,
         typed' \in Texts \cup {""}, debounced' \in Texts \cup {""},
         landed' \in Texts \cup {""}, timer' \in BOOLEAN,
         filter' \in Filters \cup Tabs \cup {""},
         SearchFollows', ListsTyped' => PagerTyped' /\ Placed'
  PROVE  ListsInv'
<1>1. ListsTyped'
  BY DEF ListsInv, ListsTyped, Render
<1>2. UNCHANGED <<page, data, failed>> /\ asked' = Question'
  BY DEF Render
<1>3. Answered'
  BY <1>2 DEF ListsInv, Answered, Loaded, Queues
<1>4. Current'
  <2> SUFFICES ASSUME Settled' PROVE data'.asked = asked'
    BY DEF Current
  <2>1. ~loading' /\ ~failed /\ Loaded
    BY <1>2 DEF Settled, Loaded
  <2>2. ~loading /\ Question' = asked
    BY <2>1 DEF Render
  <2>3. Settled
    BY <2>1, <2>2 DEF Settled
  <2> QED
    BY <1>2, <2>2, <2>3 DEF ListsInv, Current
<1> QED
  BY <1>1, <1>2, <1>3, <1>4 DEF ListsInv

-----------------------------------------------------------------------------
LEMMA ListsInitInv == ListsInit => ListsInv
<1> SUFFICES ASSUME ListsInit PROVE ListsInv
  OBVIOUS
<1>1. ListsTyped
  BY DEF ListsInit, ListsTyped
<1>2. /\ pager.cursor = 0 /\ pager.history = <<>> /\ pager.crossed = FALSE
      /\ pager = [key |-> pager.key, cursor |-> pager.cursor, history |-> pager.history,
                  crossed |-> pager.crossed, from |-> pager.from]
  BY FirstPageFields DEF ListsInit
<1>3. PagerTyped
  <2>1. 0 \in 0 .. MaxTotal
    BY LimitsAreNatural
  <2>2. <<>> \in Seq(0 .. MaxTotal)
    BY EmptySeq
  <2> QED
    BY <1>2, <2>1, <2>2 DEF PagerTyped
<1>4. Rooted
  BY <1>2 DEF Rooted
<1>5. Straight
  <2>1. Len(<<>>) = 0
    BY EmptySeq
  <2>2. 0 * limit = 0
    BY <1>1, LimitsAreNatural, Multiples DEF ListsTyped
  <2> QED
    BY <1>2, <2>1, <2>2, NoIndex DEF Straight
<1>6. Placed
  BY <1>2, <1>4, <1>5 DEF Placed
<1>7. Answered /\ Current
  BY DEF ListsInit, Answered, Current, Settled, Loaded
<1>8. asked = Question /\ SearchFollows
  BY DEF ListsInit, SearchFollows
<1> QED
  BY <1>1, <1>3, <1>6, <1>7, <1>8 DEF ListsInv

LEMMA SearchSteps ==
  ASSUME ListsInv,
         (\E t \in Texts \cup {""} : Type(t)) \/ Debounce \/ RemoveSearchChip \/ ClearFilters
  PROVE  ListsInv'
<1>t. ListsTyped /\ SearchFollows
  BY DEF ListsInv
<1>1. ASSUME NEW t \in Texts \cup {""}, Type(t) PROVE ListsInv'
  <2>1. /\ Synced /\ Render /\ typed' = t /\ timer' = TRUE
        /\ UNCHANGED <<page, window, debounced, landed, filter, limit, pager>>
    BY <1>1 DEF Type, Render
  <2>2. SearchFollows'
    BY <1>t, <2>1 DEF SearchFollows
  <2>3. PagerTyped' /\ Placed'
    BY <2>1, PlacedKept
  <2> QED
    BY <1>t, <2>1, <2>2, <2>3, Rendered DEF ListsTyped
<1>2. CASE Debounce
  <2>1. /\ Synced /\ Render /\ timer' = FALSE /\ debounced' = typed
        /\ UNCHANGED <<page, window, typed, filter, limit>>
    BY <1>2 DEF Debounce, Render
  <2>2. CASE page = "runs" /\ debounced' /= debounced /\ debounced' /= landed
    <3>1. landed' = debounced' /\ pager' = FirstPage(PagerKey)
      BY <1>2, <2>2 DEF Debounce
    <3>2. SearchFollows'
      BY <2>1, <3>1 DEF SearchFollows
    <3>3. ListsTyped' => PagerTyped' /\ Placed'
      BY <3>1, PlacedFirst
    <3> QED
      BY <1>t, <2>1, <3>1, <3>2, <3>3, Rendered DEF ListsTyped
  <2>3. CASE ~(page = "runs" /\ debounced' /= debounced /\ debounced' /= landed)
    <3>1. landed' = landed /\ pager' = pager
      BY <1>2, <2>3 DEF Debounce
    <3>2. SearchFollows'
      BY <1>t, <2>1, <2>3, <3>1 DEF SearchFollows
    <3>3. PagerTyped' /\ Placed'
      BY <2>1, <3>1, PlacedKept
    <3> QED
      BY <1>t, <2>1, <3>1, <3>2, <3>3, Rendered DEF ListsTyped
  <2> QED
    BY <2>2, <2>3
<1>3. CASE RemoveSearchChip
  <2>1. /\ Synced /\ Render /\ page = "runs" /\ EmptyBox /\ landed' = ""
        /\ pager' = FirstPage(PagerKey)
        /\ UNCHANGED <<page, window, filter, limit>>
    BY <1>3 DEF RemoveSearchChip, Render
  <2>2. typed' = "" /\ debounced' = debounced /\ timer' \in BOOLEAN
        /\ (timer' = FALSE => timer = FALSE /\ typed = "")
    BY <1>t, <2>1 DEF EmptyBox, ListsTyped
  <2>3. SearchFollows'
    BY <1>t, <2>1, <2>2 DEF SearchFollows
  <2>4. ListsTyped' => PagerTyped' /\ Placed'
    BY <2>1, PlacedFirst
  <2> QED
    BY <1>t, <2>1, <2>2, <2>3, <2>4, Rendered DEF ListsTyped
<1>4. CASE ClearFilters
  <2>1. /\ Synced /\ Render /\ page /= "reviews" /\ EmptyBox /\ landed' = "" /\ filter' = ""
        /\ pager' = IF page = "runs" THEN FirstPage(PagerKey) ELSE pager
        /\ UNCHANGED <<page, window, limit>>
    BY <1>4 DEF ClearFilters, Render
  <2>2. typed' = "" /\ debounced' = debounced /\ timer' \in BOOLEAN
        /\ (timer' = FALSE => timer = FALSE /\ typed = "")
    BY <1>t, <2>1 DEF EmptyBox, ListsTyped
  <2>3. SearchFollows'
    BY <1>t, <2>1, <2>2 DEF SearchFollows
  <2>4. ListsTyped' => PagerTyped' /\ Placed'
    <3>1. CASE page = "runs"
      BY <2>1, <3>1, PlacedFirst
    <3>2. CASE page /= "runs"
      BY <2>1, <3>2, PlacedKept
    <3> QED
      BY <3>1, <3>2
  <2> QED
    BY <1>t, <2>1, <2>2, <2>3, <2>4, Rendered DEF ListsTyped
<1> QED
  BY <1>1, <1>2, <1>3, <1>4

LEMMA SettingSteps ==
  ASSUME ListsInv,
         \/ \E f \in Filters \cup Tabs \cup {""} : SetFilter(f)
         \/ \E l \in Limits : SetLimit(l)
         \/ \E w \in Windows : SetWindow(w)
         \/ Sync
  PROVE  ListsInv'
<1>t. ListsTyped /\ SearchFollows
  BY DEF ListsInv
<1>s. ASSUME UNCHANGED <<page, searching>> PROVE SearchFollows'
  BY <1>s, <1>t DEF SearchFollows, searching
<1>1. ASSUME NEW f \in Filters \cup Tabs \cup {""}, SetFilter(f) PROVE ListsInv'
  <2>1. /\ Synced /\ Render /\ filter' = f
        /\ pager' = IF page = "runs" THEN FirstPage(PagerKey) ELSE pager
        /\ UNCHANGED <<page, window, typed, timer, debounced, landed, limit>>
    BY <1>1 DEF SetFilter, Render, searching
  <2>2. ListsTyped' => PagerTyped' /\ Placed'
    <3>1. CASE page = "runs"
      BY <2>1, <3>1, PlacedFirst
    <3>2. CASE page /= "runs"
      BY <2>1, <3>2, PlacedKept
    <3> QED
      BY <3>1, <3>2
  <2> QED
    BY <1>t, <1>s, <2>1, <2>2, Rendered DEF ListsTyped, searching
<1>2. ASSUME NEW l \in Limits, SetLimit(l) PROVE ListsInv'
  <2>1. /\ Synced /\ Render /\ page /= "reviews" /\ limit' = l
        /\ pager' = IF page = "runs" THEN FirstPage(PagerKey) ELSE pager
        /\ UNCHANGED <<page, window, typed, timer, debounced, landed, filter>>
    BY <1>2 DEF SetLimit, Render, searching
  <2>2. ListsTyped' => PagerTyped' /\ Placed'
    <3>1. CASE page = "runs"
      BY <2>1, <3>1, PlacedFirst
    <3>2. CASE page /= "runs"
      BY <2>1, <3>2, PlacedKept
    <3> QED
      BY <3>1, <3>2
  <2> QED
    BY <1>t, <1>s, <2>1, <2>2, Rendered DEF ListsTyped, searching
<1>3. ASSUME NEW w \in Windows, SetWindow(w) PROVE ListsInv'
  <2>1. /\ Synced /\ Render /\ window' = w
        /\ UNCHANGED <<page, typed, timer, debounced, landed, filter, limit, pager>>
    BY <1>3 DEF SetWindow, Render, searching
  <2>2. PagerTyped' /\ Placed'
    BY <2>1, PlacedKept
  <2> QED
    BY <1>t, <1>s, <2>1, <2>2, Rendered DEF ListsTyped, searching
<1>4. CASE Sync
  <2>1. /\ Render /\ pager' = FirstPage(PagerKey)
        /\ UNCHANGED <<page, window, typed, timer, debounced, landed, filter, limit>>
    BY <1>4 DEF Sync, Render, searching
  <2>2. ListsTyped' => PagerTyped' /\ Placed'
    BY <2>1, PlacedFirst
  <2> QED
    BY <1>t, <1>s, <2>1, <2>2, Rendered DEF ListsTyped, searching
<1> QED
  BY <1>1, <1>2, <1>3, <1>4

-----------------------------------------------------------------------------
LEMMA QueuesAreShort ==
  ASSUME NEW queue \in Queues
  PROVE  queue \in Seq(Kinds) /\ Len(queue) \in 0 .. MaxTotal
<1>1. PICK n \in 0 .. MaxTotal : queue \in [1 .. n -> Kinds]
  BY DEF Queues, Kinds
<1>2. n \in Nat
  BY LimitsAreNatural
<1>3. queue \in Seq(Kinds) /\ Len(queue) = n
  BY <1>1, <1>2
<1> QED
  BY <1>3

LEMMA PageArithmetic ==
  ASSUME NEW total \in Nat, NEW cursor \in Nat, NEW l \in Nat \ {0}
  PROVE  LET offset == IF cursor > total THEN total ELSE cursor
             end == IF offset + l > total THEN total ELSE offset + l
         IN /\ offset \in 0 .. total /\ end \in offset .. total
            /\ offset <= cursor /\ (offset < total => offset = cursor)
            /\ end < total => end = cursor + l
            /\ end = IF offset + l < total THEN offset + l ELSE total
OBVIOUS

\* What paginate makes of a queue.
LEMMA PageOfQueue ==
  ASSUME NEW queue \in Seq(Kinds), NEW q, q.cursor \in Nat, q.base.limit \in Nat \ {0}
  PROVE  LET d == Paginate(queue, q)
         IN /\ d.asked = q /\ d.total = Len(queue) /\ d.total \in Nat
            /\ d.offset \in 0 .. d.total /\ d.offset <= q.cursor
            /\ d.offset < d.total => d.offset = q.cursor
            /\ d.next \in 0 .. d.total
            /\ d.next /= 0 => d.next = q.cursor + q.base.limit
            /\ Len(d.rows) = (IF d.offset + q.base.limit < d.total
                                THEN d.offset + q.base.limit ELSE d.total) - d.offset
            /\ d.rows \in Seq(Kinds)
            /\ d.next = 0 /\ d.offset = 0 => d.rows = queue
            /\ d.paused = Count(queue, {"paused_run", "both"})
<1> DEFINE total == Len(queue)
           offset == IF q.cursor > total THEN total ELSE q.cursor
           end == IF offset + q.base.limit > total THEN total ELSE offset + q.base.limit
           d == Paginate(queue, q)
<1>1. /\ d.asked = q /\ d.total = total /\ d.offset = offset
      /\ d.next = (IF end < total THEN end ELSE 0)
      /\ d.rows = SubSeq(queue, offset + 1, end)
      /\ d.paused = Count(queue, {"paused_run", "both"})
  BY DEF Paginate
<1>2. /\ total \in Nat /\ offset \in 0 .. total /\ end \in offset .. total
      /\ offset <= q.cursor /\ (offset < total => offset = q.cursor)
      /\ end < total => end = q.cursor + q.base.limit
      /\ end = IF offset + q.base.limit < total THEN offset + q.base.limit ELSE total
  <2>1. total \in Nat
    OBVIOUS
  <2> QED
    BY <2>1, PageArithmetic
<1>3. /\ SubSeq(queue, offset + 1, end) \in Seq(Kinds)
      /\ Len(SubSeq(queue, offset + 1, end)) = end - offset
  <2> HIDE DEF offset, end, total
  <2>1. \A i \in offset + 1 .. end : queue[i] \in Kinds
    BY <1>2 DEF total
  <2>2. offset + 1 \in Int /\ end \in Int
    BY <1>2
  <2>3. /\ SubSeq(queue, offset + 1, end) \in Seq(Kinds)
        /\ Len(SubSeq(queue, offset + 1, end))
             = IF offset + 1 <= end THEN end - (offset + 1) + 1 ELSE 0
    BY <2>1, <2>2, SubSeqProperties
  <2> QED
    BY <1>2, <2>3
<1>4. ASSUME d.next = 0, d.offset = 0 PROVE d.rows = queue
  <2>1. offset = 0 /\ end = total
    <3> HIDE DEF offset, end, total
    <3>1. offset = 0 /\ (end < total => end = 0)
      BY <1>1, <1>4
    <3>2. end < total => q.cursor = 0 /\ end = q.cursor + q.base.limit
      BY <1>2, <3>1
    <3> QED
      BY <1>2, <3>1, <3>2
  <2>2. SubSeq(queue, 0 + 1, total) = queue
    BY SubSeqFull
  <2> HIDE DEF d, offset, end
  <2> QED
    BY <1>1, <2>1, <2>2
<1> HIDE DEF d, total, offset, end
<1>5. /\ d.asked = q /\ d.total = Len(queue) /\ d.total \in Nat
      /\ d.offset \in 0 .. d.total /\ d.offset <= q.cursor
      /\ d.offset < d.total => d.offset = q.cursor
      /\ d.next \in 0 .. d.total
      /\ d.next /= 0 => d.next = q.cursor + q.base.limit
  BY <1>1, <1>2 DEF total
<1>6. /\ Len(d.rows) = (IF d.offset + q.base.limit < d.total
                          THEN d.offset + q.base.limit ELSE d.total) - d.offset
      /\ d.rows \in Seq(Kinds)
  BY <1>1, <1>2, <1>3
<1> QED
  BY <1>1, <1>4, <1>5, <1>6 DEF d

\* The same of what is shown.
LEMMA PageShown ==
  ASSUME ListsInv, Loaded
  PROVE  /\ data.total \in 0 .. MaxTotal
         /\ data.offset \in 0 .. data.total /\ data.offset <= data.asked.cursor
         /\ data.next \in 0 .. MaxTotal
         /\ data.next /= 0 => data.next = data.asked.cursor + data.asked.base.limit
         /\ Len(data.rows) = (IF data.offset + data.asked.base.limit < data.total
                                THEN data.offset + data.asked.base.limit
                                ELSE data.total) - data.offset
         /\ data.rows \in Seq(Kinds)
         /\ data.next = 0 /\ data.offset = 0 => data.paused = Count(data.rows, {"paused_run", "both"})
<1>a. /\ data.asked.cursor \in 0 .. MaxTotal /\ data.asked.base.limit \in Limits
      /\ \E queue \in Queues : data = Paginate(queue, data.asked)
  <2>1. Answered
    BY DEF ListsInv
  <2> QED
    BY <2>1 DEF Answered
<1>1. PICK queue \in Queues : data = Paginate(queue, data.asked)
  BY <1>a
<1>2. data.asked.cursor \in Nat /\ data.asked.base.limit \in Nat \ {0}
  BY <1>a, PlacesAreNatural, Zenon
<1>3. queue \in Seq(Kinds) /\ Len(queue) \in 0 .. MaxTotal
  BY QueuesAreShort
<1> DEFINE d == Paginate(queue, data.asked)
<1>4. /\ d.asked = data.asked /\ d.total = Len(queue) /\ d.total \in Nat
      /\ d.offset \in 0 .. d.total /\ d.offset <= data.asked.cursor
      /\ d.next \in 0 .. d.total
      /\ d.next /= 0 => d.next = data.asked.cursor + data.asked.base.limit
      /\ Len(d.rows) = (IF d.offset + data.asked.base.limit < d.total
                          THEN d.offset + data.asked.base.limit ELSE d.total) - d.offset
      /\ d.rows \in Seq(Kinds)
      /\ d.next = 0 /\ d.offset = 0 => d.rows = queue
      /\ d.paused = Count(queue, {"paused_run", "both"})
  BY <1>2, <1>3, PageOfQueue
<1>5. d = data
  BY <1>1
<1> HIDE DEF d
<1>6. /\ data.total \in 0 .. MaxTotal
      /\ data.next \in 0 .. MaxTotal
  <2>1. \A t, n : t \in 0 .. MaxTotal /\ n \in 0 .. t => n \in 0 .. MaxTotal
    BY LimitsAreNatural
  <2>2. d.total \in 0 .. MaxTotal
    BY <1>3, <1>4
  <2>3. d.next \in 0 .. MaxTotal
    BY <1>4, <2>1, <2>2
  <2> QED
    BY <1>5, <2>2, <2>3
<1> QED
  BY <1>4, <1>5, <1>6

-----------------------------------------------------------------------------
\* What is asked is a page of the present list.
LEMMA AskedFields ==
  ASSUME ListsInv
  PROVE  /\ asked.base = Base /\ asked.cursor = Pager.cursor
         /\ Base.limit = limit
         /\ asked.cursor \in 0 .. MaxTotal
<1>1. asked.base = Base /\ asked.cursor = Pager.cursor
  BY DEF ListsInv, Question
<1>2. Base.limit = limit
  BY DEF Base
<1>3. Pager.cursor \in 0 .. MaxTotal
  <2>1. CASE pager.key = PagerKey
    BY <2>1 DEF Pager, ListsInv, PagerTyped
  <2>2. CASE pager.key /= PagerKey
    <3>1. Pager = FirstPage(PagerKey)
      BY <2>2 DEF Pager
    <3>2. Pager.cursor = 0
      BY <3>1, FirstPageFields, Zenon
    <3> QED
      BY <3>2, PlacesAreNatural, Zenon
  <2> QED
    BY <2>1, <2>2
<1> QED
  BY <1>1, <1>2, <1>3

\* Turning a page leaves everything but the cursor alone.
LEMMA Turned ==
  ASSUME ListsInv, Render, UNCHANGED <<window, searching, filter, limit>>,
         ListsTyped' => PagerTyped' /\ Placed'
  PROVE  ListsInv'
<1>1. UNCHANGED <<page, window, typed, timer, debounced, landed, filter, limit>>
  BY DEF Render, searching
<1>2. SearchFollows'
  BY <1>1 DEF ListsInv, SearchFollows
<1> QED
  BY <1>1, <1>2, Rendered DEF ListsInv, ListsTyped

LEMMA SameBase ==
  ASSUME UNCHANGED <<page, window, searching, filter, limit>>
  PROVE  Base' = Base /\ PagerKey' = PagerKey
<1>1. UNCHANGED <<page, window, typed, timer, debounced, landed, filter, limit>>
  BY DEF searching
<1> QED
  BY <1>1 DEF Base, Search, PagerKey

\* The runs screen turns its pages by offset.
LEMMA RunsStep ==
  ASSUME ListsInv, RunsNext \/ RunsPrev
  PROVE  ListsInv'
<1>1. PICK to : /\ page = "runs" /\ Loaded /\ Synced /\ to \in 0 .. MaxTotal
                /\ Move(to, <<>>, data.asked.base)
  <2>1. CASE RunsNext
    <3>1. data.next \in 0 .. MaxTotal
      BY <2>1, PageShown DEF RunsNext
    <3> QED
      BY <2>1, <3>1 DEF RunsNext
  <2>2. CASE RunsPrev
    <3> DEFINE to == IF data.offset > limit THEN data.offset - limit ELSE 0
    <3>1. data.total \in 0 .. MaxTotal /\ data.offset \in 0 .. data.total /\ limit \in Nat
      BY <2>2, PageShown, LimitsAreNatural DEF RunsPrev, ListsInv, ListsTyped
    <3>2. \A t, o, l : t \in 0 .. MaxTotal /\ o \in 0 .. t /\ l \in Nat
             => (IF o > l THEN o - l ELSE 0) \in 0 .. MaxTotal
      BY LimitsAreNatural
    <3>3. to \in 0 .. MaxTotal
      BY <3>1, <3>2
    <3> QED
      BY <2>2, <3>3 DEF RunsPrev
  <2> QED
    BY <2>1, <2>2
<1>2. /\ pager' = [key |-> PagerKey, cursor |-> to, history |-> <<>>,
                   crossed |-> Pager.crossed \/ data.asked /= asked, from |-> data.asked.base]
      /\ UNCHANGED <<window, searching, filter, limit>> /\ Render
  BY <1>1 DEF Move
<1>3. UNCHANGED <<page, window, searching, filter, limit>>
  BY <1>2 DEF Render
<1>4. Base' = Base /\ PagerKey' = PagerKey
  BY <1>3, SameBase
<1>5. PagerTyped'
  <2>1. <<>> \in Seq(0 .. MaxTotal)
    BY EmptySeq
  <2> QED
    BY <1>1, <1>2, <2>1 DEF PagerTyped
<1>6. Placed'
  <2>1. pager'.crossed = FALSE => pager'.from = Base
    BY <1>2, AskedFields
  <2>2. page' = "runs"
    BY <1>1, <1>3
  <2> QED
    BY <1>4, <2>1, <2>2 DEF Placed
<1> QED
  BY <1>2, <1>5, <1>6, Turned

\* A path is rooted and straight.
LEMMA NextStep ==
  ASSUME ListsInv, page /= "runs", Loaded, Synced, data.next /= 0,
         Move(data.next, Append(Pager.history, Pager.cursor), data.asked.base)
  PROVE  ListsInv'
<1> DEFINE H == pager.history
           G == Append(H, pager.cursor)
           n == Len(H)
<1>1. Pager = pager
  BY DEF Pager, Synced
<1>2. /\ pager' = [key |-> PagerKey, cursor |-> data.next, history |-> G,
                   crossed |-> pager.crossed \/ data.asked /= asked, from |-> data.asked.base]
      /\ UNCHANGED <<window, searching, filter, limit>> /\ Render
  BY <1>1 DEF Move
<1>3. UNCHANGED <<page, window, searching, filter, limit>>
  BY <1>2 DEF Render
<1>4. Base' = Base /\ PagerKey' = PagerKey
  BY <1>3, SameBase
<1>5. H \in Seq(0 .. MaxTotal) /\ pager.cursor \in 0 .. MaxTotal /\ n \in Nat
  BY DEF ListsInv, PagerTyped
<1>6. /\ G \in Seq(0 .. MaxTotal) /\ Len(G) = n + 1 /\ G /= <<>>
      /\ \A i \in 1 .. n : G[i] = H[i]
      /\ G[n + 1] = pager.cursor
  BY <1>5
<1>7. data.next \in 0 .. MaxTotal /\ data.next = data.asked.cursor + data.asked.base.limit
  BY PageShown
<1> HIDE DEF H, G, n
<1>8. /\ pager'.cursor = data.next /\ pager'.history = G
      /\ pager'.crossed = FALSE => pager.crossed = FALSE /\ data.asked = asked
      /\ pager'.from = data.asked.base
      /\ pager' = [key |-> pager'.key, cursor |-> pager'.cursor, history |-> pager'.history,
                   crossed |-> pager'.crossed, from |-> pager'.from]
      /\ pager'.crossed \in BOOLEAN
  BY <1>2 DEF ListsInv, PagerTyped
<1>9. PagerTyped'
  BY <1>6, <1>7, <1>8 DEF PagerTyped
<1>10. Rooted /\ (pager.crossed = FALSE => Straight)
  BY DEF ListsInv, Placed
<1>11. Rooted'
  <2>1. G[1] = 0
    <3>1. CASE H = <<>>
      <4>1. n = 0 /\ pager.cursor = 0
        BY <1>10, <3>1, EmptySeq DEF Rooted, H, n
      <4> QED
        BY <1>6, <4>1
    <3>2. CASE H /= <<>>
      <4>1. n \in Nat \ {0} /\ H[1] = 0
        BY <1>5, <1>10, <3>2, EmptySeq DEF Rooted, H, n
      <4> QED
        BY <1>6, <4>1
    <3> QED
      BY <3>1, <3>2
  <2> QED
    BY <1>6, <1>8, <2>1 DEF Rooted
<1>12. ASSUME pager'.crossed = FALSE PROVE Straight' /\ pager'.from = Base
  <2>1. data.asked = asked /\ Straight
    BY <1>8, <1>10, <1>12
  <2>2. asked.base = Base /\ asked.cursor = pager.cursor /\ Base.limit = limit
    BY <1>1, AskedFields
  <2>3. limit \in Nat
    BY LimitsAreNatural DEF ListsInv, ListsTyped
  <2>4. data.next = pager.cursor + limit
    BY <1>7, <2>1, <2>2
  <2>5. pager.cursor = n * limit /\ \A i \in 1 .. n : H[i] = (i - 1) * limit
    BY <2>1 DEF Straight, H, n
  <2>6. data.next = (n + 1) * limit
    BY <1>5, <2>3, <2>4, <2>5, Multiples
  <2>7. ASSUME NEW i \in 1 .. n + 1 PROVE G[i] = (i - 1) * limit
    <3>1. CASE i \in 1 .. n
      BY <1>6, <2>5, <3>1
    <3>2. CASE i = n + 1
      <4>1. i - 1 = n
        BY <1>5, <3>2
      <4> QED
        BY <1>6, <2>5, <3>2, <4>1
    <3> QED
      BY <1>5, <3>1, <3>2
  <2> QED
    BY <1>3, <1>6, <1>8, <2>1, <2>2, <2>6, <2>7 DEF Straight
<1>13. Placed'
  BY <1>4, <1>11, <1>12 DEF Placed
<1> QED
  BY <1>2, <1>9, <1>13, Turned

LEMMA PrevStep == ListsInv /\ GoPrev => ListsInv'
<1> SUFFICES ASSUME ListsInv, GoPrev PROVE ListsInv'
  OBVIOUS
<1> DEFINE H == pager.history
           F == Front(H)
           n == Len(H)
<1>1. /\ page /= "runs" /\ Synced
      /\ pager' = [pager EXCEPT !.cursor = Last(H), !.history = F]
      /\ UNCHANGED <<window, searching, filter, limit>> /\ Render
  BY DEF GoPrev
<1>2. Pager.history /= <<>>
  BY DEF GoPrev
<1>3. H /= <<>>
  BY <1>1, <1>2 DEF Pager, Synced
<1>4. UNCHANGED <<page, window, searching, filter, limit>>
  BY <1>1 DEF Render
<1>5. Base' = Base /\ PagerKey' = PagerKey
  BY <1>4, SameBase
<1>6. H \in Seq(0 .. MaxTotal) /\ n \in Nat \ {0}
  <2>1. H \in Seq(0 .. MaxTotal)
    BY DEF ListsInv, PagerTyped
  <2> QED
    BY <1>3, <2>1, EmptySeq
<1> DEFINE m == n - 1
<1>7. /\ F \in Seq(0 .. MaxTotal) /\ Len(F) = m
      /\ \A i \in 1 .. m : F[i] = H[i]
  BY <1>3, <1>6, FrontAndLast
<1>8. Last(H) = H[n] /\ H[n] \in 0 .. MaxTotal
  BY <1>3, <1>6, FrontAndLast
<1> HIDE DEF H, F, n, m
<1>9. pager = [key |-> pager.key, cursor |-> pager.cursor, history |-> pager.history,
               crossed |-> pager.crossed, from |-> pager.from] /\ pager.crossed \in BOOLEAN
  BY DEF ListsInv, PagerTyped
<1>10. /\ pager'.cursor = H[n] /\ pager'.history = F
       /\ pager'.crossed = pager.crossed /\ pager'.from = pager.from
       /\ pager' = [key |-> pager'.key, cursor |-> pager'.cursor, history |-> pager'.history,
                    crossed |-> pager'.crossed, from |-> pager'.from]
  BY <1>1, <1>8, <1>9
<1>11. PagerTyped'
  BY <1>7, <1>8, <1>9, <1>10 DEF PagerTyped
<1>12. /\ pager.cursor > 0 /\ pager.crossed = FALSE => pager.from = Base
       /\ Rooted /\ (pager.crossed = FALSE => Straight)
  BY <1>1 DEF ListsInv, Placed
<1>13. m \in Nat /\ n = m + 1
  BY <1>6 DEF m
<1>14. Rooted'
  <2>1. H[1] = 0
    BY <1>3, <1>12 DEF Rooted, H
  <2>2. CASE m = 0
    <3>1. n = 1
      BY <1>13, <2>2
    <3>2. F = <<>>
      BY <1>7, <2>2, EmptySeq
    <3> QED
      BY <1>10, <2>1, <3>1, <3>2 DEF Rooted
  <2>3. CASE m /= 0
    <3>1. F[1] = H[1]
      BY <1>7, <1>13, <2>3
    <3>2. F /= <<>>
      BY <1>7, <2>3, EmptySeq
    <3> QED
      BY <1>10, <2>1, <3>1, <3>2 DEF Rooted
  <2> QED
    BY <2>2, <2>3
<1>15. ASSUME pager'.crossed = FALSE
       PROVE  Straight' /\ (pager'.cursor > 0 => pager'.from = Base)
  <2>1. Straight
    BY <1>10, <1>12, <1>15
  <2>2. pager.cursor = n * limit /\ \A i \in 1 .. n : H[i] = (i - 1) * limit
    BY <2>1 DEF Straight, H, n
  <2>3. limit \in Nat \ {0}
    BY LimitsAreNatural DEF ListsInv, ListsTyped
  <2>4. H[n] = m * limit
    <3>1. n \in 1 .. n /\ n - 1 = m
      BY <1>13
    <3> QED
      BY <2>2, <3>1
  <2>5. \A i \in 1 .. m : F[i] = (i - 1) * limit
    <3>1. \A i \in 1 .. m : i \in 1 .. n
      BY <1>13
    <3> QED
      BY <1>7, <2>2, <3>1
  <2>6. Straight'
    BY <1>4, <1>7, <1>10, <2>4, <2>5 DEF Straight
  <2>7. pager.cursor > 0
    <3>1. pager.cursor = (m + 1) * limit
      BY <1>13, <2>2
    <3>2. pager.cursor = m * limit + limit /\ m * limit \in Nat
      BY <1>13, <2>3, <3>1, Multiples
    <3> QED
      BY <2>3, <3>2
  <2> QED
    BY <1>10, <1>12, <1>15, <2>6, <2>7
<1>16. Placed'
  BY <1>5, <1>14, <1>15 DEF Placed
<1> QED
  BY <1>1, <1>11, <1>16, Turned

LEMMA EmptyPageStep == ListsInv /\ EmptyPageActions => ListsInv'
<1> SUFFICES ASSUME ListsInv, EmptyPageActions PROVE ListsInv'
  OBVIOUS
<1>1. page = "reviews" /\ Loaded /\ Synced
  BY DEF EmptyPageActions, ReviewsView, ChangesView
<1>2. CASE /\ pager' = FirstPage(PagerKey)
           /\ UNCHANGED <<window, searching, filter, limit>> /\ Render
  BY <1>2, PlacedFirst, Turned
<1>3. CASE /\ data.next /= 0
           /\ Move(data.next, Append(Pager.history, Pager.cursor), data.asked.base)
  BY <1>1, <1>3, NextStep
<1> QED
  BY <1>2, <1>3 DEF EmptyPageActions

\* The feed changes what is shown, never what is asked.
LEMMA FeedStep ==
  ASSUME ListsInv, Refresh \/ Fail \/ (\E queue \in Queues : Answer(queue))
  PROVE  ListsInv'
<1>1. UNCHANGED <<page, window, typed, timer, debounced, landed, filter, limit, pager, asked>>
  BY DEF Refresh, Fail, Answer, searching
<1>2. Base' = Base /\ PagerKey' = PagerKey
  BY <1>1, SameBase DEF searching
<1>3. asked' = Question'
  BY <1>1, <1>2 DEF ListsInv, Question, Pager
<1>4. PagerTyped' /\ SearchFollows' /\ Placed'
  BY <1>1, <1>2 DEF ListsInv, PagerTyped, SearchFollows, Placed, Synced, Rooted, Straight
<1>5. CASE Refresh \/ Fail
  <2>1. UNCHANGED data /\ loading' \in BOOLEAN /\ failed' \in BOOLEAN /\ (loading' \/ failed')
    BY <1>5 DEF Refresh, Fail, ListsInv, ListsTyped
  <2>2. ListsTyped'
    BY <1>1, <2>1 DEF ListsInv, ListsTyped
  <2>3. Answered' /\ Current'
    BY <1>1, <2>1 DEF ListsInv, Answered, Current, Settled, Loaded, Queues
  <2> QED
    BY <1>3, <1>4, <2>2, <2>3 DEF ListsInv
<1>6. ASSUME NEW queue \in Queues, Answer(queue) PROVE ListsInv'
  <2>1. data' = Paginate(queue, asked) /\ failed' = FALSE /\ loading' = FALSE
    BY <1>6 DEF Answer
  <2>2. ListsTyped'
    BY <1>1, <2>1 DEF ListsInv, ListsTyped
  <2>3. data'.asked = asked
    BY <2>1 DEF Paginate
  <2>4. asked.cursor \in 0 .. MaxTotal /\ asked.base.limit \in Limits
    BY AskedFields DEF ListsInv, ListsTyped
  <2>5. Answered'
    <3>1. queue \in Queues'
      BY <1>1 DEF Queues
    <3> QED
      BY <2>1, <2>3, <2>4, <3>1 DEF Answered
  <2>6. Current'
    BY <1>1, <2>3 DEF Current
  <2> QED
    BY <1>3, <1>4, <2>2, <2>5, <2>6 DEF ListsInv
<1> QED
  BY <1>5, <1>6

LEMMA ListsStep == ListsInv /\ ListsNext => ListsInv'
<1> SUFFICES ASSUME ListsInv, ListsNext PROVE ListsInv'
  OBVIOUS
<1>1. CASE GoNext
  BY <1>1, NextStep DEF GoNext
<1> QED
  BY <1>1, SearchSteps, SettingSteps, RunsStep, PrevStep, EmptyPageStep, FeedStep DEF ListsNext

LEMMA ListsFrame == ListsInv /\ UNCHANGED lists => ListsInv'
<1> SUFFICES ASSUME ListsInv, UNCHANGED lists PROVE ListsInv'
  OBVIOUS
<1>1. UNCHANGED <<page, window, typed, timer, debounced, landed, filter, limit, pager,
                  asked, data, failed, loading>>
  BY DEF lists
<1>2. Base' = Base /\ PagerKey' = PagerKey
  BY <1>1, SameBase DEF searching
<1>3. asked' = Question'
  BY <1>1, <1>2 DEF ListsInv, Question, Pager
<1>4. ListsTyped' /\ PagerTyped' /\ SearchFollows' /\ Placed'
  <2>1. ListsTyped' /\ SearchFollows'
    BY <1>1 DEF ListsInv, ListsTyped, SearchFollows
  <2>2. PagerTyped' /\ Placed'
    BY <1>1, <1>2 DEF ListsInv, PagerTyped, Placed, Synced, Rooted, Straight
  <2> QED
    BY <2>1, <2>2
<1>5. Answered' /\ Current'
  BY <1>1 DEF ListsInv, Answered, Current, Settled, Loaded, Queues
<1> QED
  BY <1>3, <1>4, <1>5 DEF ListsInv

LEMMA ListsInvariant == Spec => []ListsInv
<1>1. Init => ListsInv
  BY ListsInitInv DEF Init, ListsIdle
<1>2. ListsInv /\ [Next]_screens => ListsInv'
  BY ListsStep, ListsFrame DEF Next, screens
<1> QED
  BY <1>1, <1>2, PTL DEF Spec

-----------------------------------------------------------------------------
\* The cursor that is rendered, whether or not the effect has stored it.
LEMMA RenderedPager ==
  ASSUME ListsInv
  PROVE  /\ Synced => Pager = pager
         /\ ~Synced => Pager.cursor = 0 /\ Pager.history = <<>>
         /\ Pager.history \in Seq(0 .. MaxTotal) /\ Pager.cursor \in 0 .. MaxTotal
<1>1. CASE Synced
  <2>1. Pager = pager
    BY <1>1 DEF Synced, Pager
  <2> QED
    BY <1>1, <2>1 DEF ListsInv, PagerTyped
<1>2. CASE ~Synced
  <2>1. Pager = FirstPage(PagerKey)
    BY <1>2 DEF Synced, Pager
  <2>2. Pager.cursor = 0 /\ Pager.history = <<>>
    BY <2>1, FirstPageFields, Zenon
  <2>3. <<>> \in Seq(0 .. MaxTotal)
    BY EmptySeq
  <2> QED
    BY <1>2, <2>2, <2>3, PlacesAreNatural, Zenon
<1> QED
  BY <1>1, <1>2

LEMMA ListsInvPlace == ListsInv => PagerKeepsItsPlace
<1> SUFFICES ASSUME ListsInv PROVE PagerKeepsItsPlace
  OBVIOUS
<1>t. ListsTyped /\ PagerTyped /\ Placed /\ Current
  BY DEF ListsInv
<1>1. ListsTypeOK
  <2>1. Loaded => data.total \in 0 .. MaxTotal /\ data.offset \in 0 .. data.total
    BY PageShown
  <2>2. asked.cursor \in 0 .. MaxTotal
    BY AskedFields
  <2> QED
    BY <1>t, <2>1, <2>2 DEF ListsTypeOK, ListsTyped, PagerTyped
<1>2. CursorIsOwn
  <2> SUFFICES ASSUME asked.cursor > 0, ~Pager.crossed PROVE Pager.from = asked.base
    BY DEF CursorIsOwn
  <2>1. asked.base = Base /\ asked.cursor = Pager.cursor
    BY AskedFields
  <2>2. Synced /\ Pager = pager
    <3>1. ~Synced => asked.cursor = 0
      BY <2>1, RenderedPager
    <3>2. ~(0 > 0)
      OBVIOUS
    <3> QED
      BY <3>1, <3>2, RenderedPager
  <2>3. pager.cursor > 0 /\ pager.crossed = FALSE
    BY <1>t, <2>1, <2>2 DEF PagerTyped
  <2> QED
    BY <1>t, <2>1, <2>2, <2>3 DEF Placed
<1>3. PagerIsAPath
  <2> SUFFICES ASSUME page /= "runs", ~Pager.crossed,
                      NEW i \in DOMAIN Append(Pager.history, Pager.cursor)
               PROVE  Append(Pager.history, Pager.cursor)[i] = (i - 1) * limit
    BY DEF PagerIsAPath
  <2> DEFINE H == Pager.history
             n == Len(H)
  <2>1. H \in Seq(0 .. MaxTotal) /\ n \in Nat
    BY RenderedPager
  <2>2. /\ i \in 1 .. n + 1
        /\ i \in 1 .. n => Append(H, Pager.cursor)[i] = H[i]
        /\ i = n + 1 => Append(H, Pager.cursor)[i] = Pager.cursor
    BY <2>1
  <2>3. limit \in Nat
    BY <1>t, LimitsAreNatural DEF ListsTyped
  <2> HIDE DEF H, n
  <2>4. Pager.cursor = n * limit /\ \A j \in 1 .. n : H[j] = (j - 1) * limit
    <3>1. CASE Synced
      <4>1. Pager = pager
        BY <3>1, RenderedPager
      <4>2. pager.crossed = FALSE
        BY <1>t, <4>1 DEF PagerTyped
      <4>3. Straight
        BY <1>t, <3>1, <4>2 DEF Placed
      <4> QED
        BY <4>1, <4>3 DEF Straight, H, n
    <3>2. CASE ~Synced
      <4>1. Pager.cursor = 0 /\ H = <<>>
        BY <3>2, RenderedPager DEF H
      <4>2. n = 0
        BY <4>1, EmptySeq DEF n
      <4> QED
        BY <2>3, <4>1, <4>2, Multiples, NoIndex
    <3> QED
      BY <3>1, <3>2
  <2>5. CASE i \in 1 .. n
    BY <2>2, <2>4, <2>5 DEF H
  <2>6. CASE i = n + 1
    <3>1. i - 1 = n
      BY <2>1, <2>6
    <3> QED
      BY <2>2, <2>4, <2>6, <3>1 DEF H
  <2> QED
    BY <2>1, <2>2, <2>5, <2>6
<1>4. EmptyHasWayBack
  <2> SUFFICES ASSUME Settled, data.rows = <<>>, data.total > 0
               PROVE  IF page = "runs" THEN data.offset > 0 ELSE Pager.history /= <<>>
    BY DEF EmptyHasWayBack
  <2>1. Loaded /\ data.asked = asked
    BY <1>t DEF Settled, Current
  <2>2. asked.base = Base /\ Base.limit = limit /\ asked.cursor = Pager.cursor
    BY AskedFields
  <2>3. limit \in Nat \ {0} /\ data.asked.base.limit = limit
    BY <1>t, <2>1, <2>2, LimitsAreNatural DEF ListsTyped
  <2>4. Len(data.rows) = 0
    BY EmptySeq
  <2>5. /\ data.total \in 0 .. MaxTotal /\ data.offset \in 0 .. data.total
        /\ data.offset <= asked.cursor
        /\ 0 = (IF data.offset + limit < data.total THEN data.offset + limit ELSE data.total)
                 - data.offset
    BY <2>1, <2>3, <2>4, PageShown
  <2>6. \A t, o, l : /\ t \in 0 .. MaxTotal /\ o \in 0 .. t /\ l \in Nat \ {0} /\ t > 0
                     /\ 0 = (IF o + l < t THEN o + l ELSE t) - o
                     => o > 0
    BY LimitsAreNatural
  <2>7. data.offset > 0
    BY <2>3, <2>5, <2>6
  <2>8. asked.cursor \in 0 .. MaxTotal
    BY AskedFields
  <2>9. \A t, o, c : /\ t \in 0 .. MaxTotal /\ o \in 0 .. t /\ c \in 0 .. MaxTotal
                     /\ o > 0 /\ o <= c
                     => c /= 0
    BY LimitsAreNatural
  <2>10. Pager.cursor /= 0
    BY <2>2, <2>5, <2>7, <2>8, <2>9
  <2>11. Synced /\ Pager = pager
    BY <2>10, RenderedPager
  <2>12. page /= "runs" => Pager.history /= <<>>
    BY <1>t, <2>10, <2>11 DEF Placed, Rooted
  <2> QED
    BY <2>7, <2>12
<1> QED
  BY <1>1, <1>2, <1>3, <1>4 DEF PagerKeepsItsPlace

\* Wherever filters, page sizes and vanishing rows have taken it, a list stands
\* on a page of its own question and has a way back from there, for any number of
\* rows, page sizes, searches and windows (runs.jsx, changes.jsx, reviews.jsx,
\* useCursorPager, paginate).
THEOREM ListKeepsItsPlace == Spec => []PagerKeepsItsPlace
BY ListsInvariant, ListsInvPlace, PTL

LEMMA ListsInvSays == ListsInv => ListSaysWhatItShows
<1> SUFFICES ASSUME ListsInv PROVE ListSaysWhatItShows
  OBVIOUS
<1>t. ListsTyped /\ SearchFollows /\ Current
  BY DEF ListsInv
<1>1. SearchIsVisible
  BY <1>t DEF SearchIsVisible, SearchFollows, Search, ListsTyped
<1>2. RangeMatchesRows
  <2> SUFFICES ASSUME page = "runs", Settled, data.total > 0
               PROVE  RangeEnd + 1 = RangeStart + Len(data.rows)
    BY DEF RangeMatchesRows
  <2>1. Loaded /\ data.asked = asked
    BY <1>t DEF Settled, Current
  <2>2. limit \in Nat \ {0} /\ data.asked.base.limit = limit
    BY <1>t, <2>1, AskedFields, LimitsAreNatural DEF ListsTyped
  <2>3. /\ data.total \in 0 .. MaxTotal /\ data.offset \in 0 .. data.total
        /\ Len(data.rows) = (IF data.offset + limit < data.total THEN data.offset + limit
                             ELSE data.total) - data.offset
    BY <2>1, <2>2, PageShown
  <2>4. \A t, o, l, r : /\ t \in 0 .. MaxTotal /\ o \in 0 .. t /\ l \in Nat \ {0} /\ t > 0
                        /\ r = (IF o + l < t THEN o + l ELSE t) - o
                        => (IF o + l < t THEN o + l ELSE t) + 1 = (IF t = 0 THEN 0 ELSE o + 1) + r
    BY LimitsAreNatural
  <2>5. (IF data.offset + limit < data.total THEN data.offset + limit ELSE data.total) + 1
          = (IF data.total = 0 THEN 0 ELSE data.offset + 1) + Len(data.rows)
    BY <2>2, <2>3, <2>4
  <2>6. /\ RangeEnd = IF data.offset + limit < data.total THEN data.offset + limit ELSE data.total
        /\ RangeStart = IF data.total = 0 THEN 0 ELSE data.offset + 1
    BY Zenon DEF RangeEnd, RangeStart
  <2> QED
    BY <2>5, <2>6, Zenon
<1>3. PausedAreElsewhere
  <2> SUFFICES ASSUME page = "reviews", Settled, filter = "paused", ReviewsEmpty = "tab",
                      data.paused > 0, data.next = 0, data.offset = 0
               PROVE  FALSE
    <3>1. Settled => Loaded
      BY DEF Settled
    <3>2. Loaded => data.total \in 0 .. MaxTotal /\ data.offset \in 0 .. data.total
      BY PageShown
    <3>3. \A t, o : t \in 0 .. MaxTotal /\ o \in 0 .. t => o = 0 \/ o > 0
      BY LimitsAreNatural
    <3>4. Settled => data.offset = 0 \/ data.offset > 0
      BY <3>1, <3>2, <3>3
    <3> QED
      BY <3>4 DEF PausedAreElsewhere
  <2> DEFINE P == {i \in DOMAIN data.rows : data.rows[i] \in {"paused_run", "both"}}
  <2>1. data.rows \in Seq(Kinds) /\ data.paused = Cardinality(P)
    BY PageShown DEF Settled, Count
  <2>2. Visible = {}
    BY DEF ReviewsEmpty
  <2>3. P = {}
    BY <2>2 DEF Visible, OnTab
  <2>4. Cardinality(P) = 0
    BY <2>3, FS_EmptySet
  <2>5. ~(0 > 0)
    OBVIOUS
  <2> HIDE DEF P
  <2> QED
    BY <2>1, <2>4, <2>5
<1> QED
  BY <1>1, <1>2, <1>3 DEF ListSaysWhatItShows

\* What a list says about itself is true of its rows, for any evidence behind it:
\* the search it was made with is in the box once typing pauses, the footer counts
\* the rows above it, and paused runs said to be on another page are on another
\* page (useDebounced, runs.jsx, reviews.jsx).
THEOREM ListIsTruthful == Spec => []ListSaysWhatItShows
BY ListsInvariant, ListsInvSays, PTL
-----------------------------------------------------------------------------
(***************************************************************************)
(* The command palette                                                     *)
(***************************************************************************)
PaletteEntries == ToSet(Shortcuts) \cup Hits
Answers == [of : Queries \cup {""}, results : SeqOf(Hits, MaxHits)]

\* What was searched last is what the box says, unless the timer runs, and an
\* answer that is there without a request or a failure is to that question.
QueryIsSettled == ~typing => query = debouncedQuery
QueryIsAnswered ==
  paletteOpen /\ debouncedQuery /= "" /\ ~searchLoading /\ ~searchFailed =>
    found.of = debouncedQuery

PaletteInv == PaletteTypeOK /\ QueryIsSettled /\ QueryIsAnswered /\ HighlightExists

\* How many of a set of positions are before one of them tells it from the rest.
LEMMA RankIsStrict ==
  ASSUME NEW n \in Nat, NEW P \in SUBSET (1 .. n), NEW i \in P,
         NEW Q \in SUBSET P, i \in Q, \A j \in P : j < i => j \in Q
  PROVE  /\ IsFiniteSet(P) /\ Cardinality(P) \in Nat
         /\ Cardinality({j \in P : j < i}) \in Nat
         /\ Cardinality({j \in P : j < i}) < Cardinality(Q)
<1> DEFINE B == {j \in P : j < i}
<1>1. IsFiniteSet(1 .. n)
  BY FS_Interval
<1>2. IsFiniteSet(P) /\ Cardinality(P) \in Nat
  BY <1>1, FS_Subset, FS_CardinalityType
<1>3. IsFiniteSet(Q) /\ Cardinality(Q) \in Nat
  BY <1>2, FS_Subset, FS_CardinalityType
<1>4. B \in SUBSET Q /\ i \notin B
  <2>1. i \in Nat /\ ~ (i < i)
    OBVIOUS
  <2> QED BY <2>1
<1> HIDE DEF B
<1>5. IsFiniteSet(B) /\ Cardinality(B) \in Nat
  BY <1>3, <1>4, FS_Subset, FS_CardinalityType
<1>6. Cardinality(B) =< Cardinality(Q) /\ (Cardinality(Q) = Cardinality(B) => Q = B)
  BY <1>3, <1>4, FS_Subset
<1>7. Cardinality(B) < Cardinality(Q)
  BY <1>3, <1>4, <1>5, <1>6
<1> QED BY <1>2, <1>5, <1>7 DEF B

\* A set of positions has a k-th one, for each k up to its size.
LEMMA NthIsThere ==
  ASSUME NEW n \in Nat, NEW P \in SUBSET (1 .. n)
  PROVE  /\ Cardinality(P) \in Nat /\ (Cardinality(P) = 0 <=> P = {})
         /\ \A k \in 1 .. Cardinality(P) :
              Nth(P, k) \in P /\ Cardinality({j \in P : j < Nth(P, k)}) = k - 1
<1> DEFINE Rank == [i \in P |-> Cardinality({j \in P : j < i})]
           N == Cardinality(P)
<1>1. IsFiniteSet(P) /\ N \in Nat /\ (N = 0 <=> P = {})
  <2>1. IsFiniteSet(1 .. n)
    BY FS_Interval
  <2>2. IsFiniteSet(P)
    BY <2>1, FS_Subset
  <2> QED BY <2>2, FS_CardinalityType, FS_EmptySet
<1>2. \A i \in P : Rank[i] \in 0 .. N - 1
  <2> SUFFICES ASSUME NEW i \in P PROVE Rank[i] \in 0 .. N - 1
    OBVIOUS
  <2>0. P \in SUBSET P /\ \A j \in P : j < i => j \in P
    OBVIOUS
  <2>1. Cardinality({j \in P : j < i}) \in Nat /\ Cardinality({j \in P : j < i}) < N
    BY <2>0, RankIsStrict
  <2> QED BY <1>1, <2>1
<1>3. \A i, k \in P : i < k => Rank[i] < Rank[k]
  <2> SUFFICES ASSUME NEW i \in P, NEW k \in P, i < k PROVE Rank[i] < Rank[k]
    OBVIOUS
  <2> DEFINE Q == {j \in P : j < k}
  <2>1. Q \in SUBSET P /\ i \in Q /\ \A j \in P : j < i => j \in Q
    OBVIOUS
  <2>2. Cardinality({j \in P : j < i}) < Cardinality(Q)
    BY <2>1, RankIsStrict
  <2> QED BY <2>2
<1>4. Rank \in Injection(P, 0 .. N - 1)
  <2>1. Rank \in [P -> 0 .. N - 1]
    BY <1>2
  <2>2. \A i, k \in P : Rank[i] = Rank[k] => i = k
    <3> SUFFICES ASSUME NEW i \in P, NEW k \in P, Rank[i] = Rank[k] PROVE i = k
      OBVIOUS
    <3>1. i < k \/ k < i \/ i = k
      OBVIOUS
    <3>2. Rank[i] \in Int /\ Rank[k] \in Int
      BY <1>2
    <3> HIDE DEF Rank
    <3>3. ~ (i < k) /\ ~ (k < i)
      BY <1>3, <3>2
    <3> QED BY <3>1, <3>3
  <2>3. DOMAIN Rank = P
    OBVIOUS
  <2> QED BY <2>1, <2>2, <2>3 DEF Injection, IsInjective
<1>5. IsFiniteSet(0 .. N - 1) /\ Cardinality(0 .. N - 1) = N
  <2> HIDE DEF N
  <2>1. 0 \in Int /\ N - 1 \in Int /\ (IF 0 > N - 1 THEN 0 ELSE (N - 1) - 0 + 1) = N
    BY <1>1
  <2> QED BY <2>1, FS_Interval
<1> HIDE DEF Rank
<1>6. Rank \in Surjection(P, 0 .. N - 1)
  BY <1>4, <1>5, FS_Injection
<1>7. \A m \in 0 .. N - 1 : \E i \in P : Rank[i] = m
  BY <1>6 DEF Surjection
<1>8. \A k \in 1 .. N : \E i \in P : Cardinality({j \in P : j < i}) = k - 1
  <2> SUFFICES ASSUME NEW k \in 1 .. N
               PROVE  \E i \in P : Cardinality({j \in P : j < i}) = k - 1
    OBVIOUS
  <2>1. k - 1 \in 0 .. N - 1
    BY <1>1
  <2>2. PICK i \in P : Rank[i] = k - 1
    BY <1>7, <2>1
  <2> QED BY <2>2 DEF Rank
<1> QED BY <1>1, <1>8 DEF Nth

\* What a filter leaves: as many entries as there are positions, each of them
\* from a position of its own.
LEMMA Filtered ==
  ASSUME NEW S, NEW s \in Seq(S), NEW P \in SUBSET DOMAIN s
  PROVE  /\ EntriesAt(s, P) \in Seq(S)
         /\ Len(EntriesAt(s, P)) = 0 => P = {}
         /\ \A k \in 1 .. Len(EntriesAt(s, P)) :
              Nth(P, k) \in P /\ EntriesAt(s, P)[k] = s[Nth(P, k)]
         /\ \A k, l \in 1 .. Len(EntriesAt(s, P)) : Nth(P, k) = Nth(P, l) => k = l
<1> DEFINE t == EntriesAt(s, P)  N == Cardinality(P)
<1>1. Len(s) \in Nat /\ DOMAIN s = 1 .. Len(s) /\ \A i \in 1 .. Len(s) : s[i] \in S
  BY LenProperties, ElementOfSeq
<1>2. /\ N \in Nat /\ (N = 0 <=> P = {})
      /\ \A k \in 1 .. N : Nth(P, k) \in P /\ Cardinality({j \in P : j < Nth(P, k)}) = k - 1
  BY <1>1, NthIsThere
<1>3. \A k \in 1 .. N : s[Nth(P, k)] \in S
  BY <1>1, <1>2
<1>4. t \in [1 .. N -> S]
  BY <1>3 DEF EntriesAt
<1>5. t \in Seq(S) /\ Len(t) = N
  BY <1>2, <1>4, SeqDef, LenProperties
<1>6. \A k \in 1 .. N : t[k] = s[Nth(P, k)]
  BY DEF EntriesAt
<1>7. \A k, l \in 1 .. N : Nth(P, k) = Nth(P, l) => k = l
  <2> SUFFICES ASSUME NEW k \in 1 .. N, NEW l \in 1 .. N, Nth(P, k) = Nth(P, l) PROVE k = l
    OBVIOUS
  <2>1. k - 1 = l - 1
    BY <1>2
  <2> QED BY <1>2, <2>1
<1> HIDE DEF t, N
<1>8. /\ t \in Seq(S) /\ (Len(t) = 0 => P = {})
      /\ \A k \in 1 .. Len(t) : Nth(P, k) \in P /\ t[k] = s[Nth(P, k)]
      /\ \A k, l \in 1 .. Len(t) : Nth(P, k) = Nth(P, l) => k = l
  BY <1>2, <1>5, <1>6, <1>7
<1> QED BY <1>8 DEF t

LEMMA MatchesAreShortcuts ==
  ASSUME NEW q \in Queries \cup {""}
  PROVE  /\ NavMatches(q) \in Seq(ToSet(Shortcuts))
         /\ \A i, j \in 1 .. Len(NavMatches(q)) : NavMatches(q)[i] = NavMatches(q)[j] => i = j
<1> DEFINE S == ToSet(Shortcuts)
           P == {i \in DOMAIN Shortcuts : Shortcuts[i] \in Includes[q]}
<1>1. Shortcuts \in Seq(S) /\ IsInjective(Shortcuts)
  BY PaletteAssumption
<1>2. DOMAIN Shortcuts = 1 .. Len(Shortcuts)
  BY <1>1, LenProperties
<1>3. \A i, j \in DOMAIN Shortcuts : Shortcuts[i] = Shortcuts[j] => i = j
  BY <1>1 DEF IsInjective
<1>4. CASE q = ""
  BY <1>1, <1>2, <1>3, <1>4 DEF NavMatches
<1>5. CASE q /= ""
  <2> DEFINE t == EntriesAt(Shortcuts, P)
  <2>1. NavMatches(q) = t
    BY <1>5 DEF NavMatches
  <2>2. P \in SUBSET DOMAIN Shortcuts
    OBVIOUS
  <2> HIDE DEF S, P
  <2>3. /\ t \in Seq(S)
        /\ \A k \in 1 .. Len(t) : Nth(P, k) \in P /\ t[k] = Shortcuts[Nth(P, k)]
        /\ \A k, l \in 1 .. Len(t) : Nth(P, k) = Nth(P, l) => k = l
    BY <1>1, <2>2, Filtered
  <2> HIDE DEF t
  <2>4. \A k, l \in 1 .. Len(t) : t[k] = t[l] => k = l
    BY <1>3, <2>2, <2>3
  <2> QED BY <2>1, <2>3, <2>4 DEF S
<1> QED BY <1>4, <1>5

LEMMA ResultsAreHits ==
  ASSUME NEW r \in Seq(Hits), NEW kind
  PROVE  LET t == collectResults(r, kind)
         IN  /\ t \in Seq(Hits)
             /\ \A k \in 1 .. Len(t) : t[k].kind = kind
             /\ \A k, l \in 1 .. Len(t) : t[k] = t[l] => k = l
             /\ t = <<>> => \A e \in ToSet(r) : e.kind /= kind
<1> DEFINE P == FirstOfKind(r, kind)
           t == collectResults(r, kind)
<1>1. DOMAIN r = 1 .. Len(r) /\ Len(r) \in Nat
  BY LenProperties
<1>2. P \in SUBSET DOMAIN r
  BY DEF FirstOfKind
<1>3. /\ t \in Seq(Hits)
      /\ Len(t) = 0 => P = {}
      /\ \A k \in 1 .. Len(t) : Nth(P, k) \in P /\ t[k] = r[Nth(P, k)]
      /\ \A k, l \in 1 .. Len(t) : Nth(P, k) = Nth(P, l) => k = l
  BY <1>2, Filtered DEF collectResults
<1>4. \A i \in P : r[i].kind = kind
  BY DEF FirstOfKind
<1>5. \A i, j \in P : r[i] = r[j] => i = j
  <2> SUFFICES ASSUME NEW i \in P, NEW j \in P, r[i] = r[j], i < j PROVE FALSE
    BY <1>1, <1>2
  <2>1. i \in 1 .. j - 1
    BY <1>1, <1>2
  <2>2. \A m \in 1 .. j - 1 : r[m] /= r[j]
    BY DEF FirstOfKind
  <2> QED BY <2>1, <2>2
<1>6. ASSUME t = <<>>, NEW e \in ToSet(r), e.kind = kind PROVE FALSE
  <2>1. P = {}
    BY <1>3, <1>6
  <2> DEFINE M == {i \in DOMAIN r : r[i] = e}
  <2>2. M \in SUBSET Nat /\ M /= {}
    BY <1>1 DEF ToSet
  <2>3. Min(M) \in M /\ \A j \in M : ~ (j < Min(M))
    BY <2>2, MinIsFirst
  <2>4. Min(M) \in P
    <3> DEFINE m == Min(M)
    <3>1. m \in 1 .. Len(r) /\ r[m] = e /\ \A j \in M : ~ (j < m)
      BY <1>1, <2>3
    <3> HIDE DEF m
    <3>2. \A j \in 1 .. m - 1 : r[j] /= r[m]
      BY <1>1, <3>1
    <3>3. m \in P
      BY <1>1, <1>6, <3>1, <3>2 DEF FirstOfKind
    <3> QED BY <3>3 DEF m
  <2> QED BY <2>1, <2>4
<1> HIDE DEF P, t
<1>7. \A k, l \in 1 .. Len(t) : t[k] = t[l] => k = l
  BY <1>3, <1>5
<1> QED BY <1>3, <1>4, <1>6, <1>7 DEF t

LEMMA WiderSeq ==
  ASSUME NEW S, NEW T, S \subseteq T, NEW s \in Seq(S)
  PROVE  s \in Seq(T)
<1>1. Len(s) \in Nat /\ s \in [1 .. Len(s) -> S]
  BY LenProperties
<1>2. s \in [1 .. Len(s) -> T]
  BY <1>1
<1> QED BY <1>1, <1>2, SeqDef

Distinct(s) == \A i, j \in 1 .. Len(s) : s[i] = s[j] => i = j
OfKinds(s, kinds) == \A i \in 1 .. Len(s) : s[i].kind \in kinds

\* Two groups without a common kind, one after the other.
LEMMA Joined ==
  ASSUME NEW S, NEW x \in Seq(S), NEW y \in Seq(S), NEW K, NEW L, K \cap L = {},
         Distinct(x), Distinct(y), OfKinds(x, K), OfKinds(y, L)
  PROVE  /\ x \o y \in Seq(S)
         /\ Distinct(x \o y) /\ OfKinds(x \o y, K \cup L)
         /\ x \o y = <<>> => x = <<>> /\ y = <<>>
<1> DEFINE t == x \o y
<1>1. Len(x) \in Nat /\ Len(y) \in Nat
  BY LenProperties
<1>2. t \in Seq(S) /\ Len(t) = Len(x) + Len(y)
  BY ConcatProperties
<1>3. \A i \in 1 .. Len(x) + Len(y) : t[i] = IF i =< Len(x) THEN x[i] ELSE y[i - Len(x)]
  BY ConcatProperties
<1>4. t = <<>> => x = <<>> /\ y = <<>>
  BY ConcatEqualIffEmpty
<1> HIDE DEF t
<1>5. \A i \in 1 .. Len(t) : \/ i \in 1 .. Len(x) /\ t[i] = x[i]
                             \/ i - Len(x) \in 1 .. Len(y) /\ t[i] = y[i - Len(x)]
  <2> SUFFICES ASSUME NEW i \in 1 .. Len(t)
               PROVE  \/ i \in 1 .. Len(x) /\ t[i] = x[i]
                      \/ i - Len(x) \in 1 .. Len(y) /\ t[i] = y[i - Len(x)]
    OBVIOUS
  <2>1. CASE i =< Len(x)
    BY <1>1, <1>2, <1>3, <2>1
  <2>2. CASE ~ (i =< Len(x))
    BY <1>1, <1>2, <1>3, <2>2
  <2> QED BY <2>1, <2>2
<1>6. \A i \in 1 .. Len(t) : \/ i \in 1 .. Len(x) /\ t[i] = x[i] /\ t[i].kind \in K
                             \/ /\ i - Len(x) \in 1 .. Len(y) /\ t[i] = y[i - Len(x)]
                                /\ t[i].kind \in L
  BY <1>5 DEF OfKinds
<1>7. \A i, j \in 1 .. Len(t) : t[i] = t[j] => i = j
  <2> SUFFICES ASSUME NEW i \in 1 .. Len(t), NEW j \in 1 .. Len(t), t[i] = t[j] PROVE i = j
    OBVIOUS
  <2>1. CASE i \in 1 .. Len(x) /\ t[i] = x[i] /\ t[i].kind \in K
    <3>1. j \in 1 .. Len(x) /\ t[j] = x[j]
      BY <1>6, <2>1
    <3> QED BY <2>1, <3>1 DEF Distinct
  <2>2. CASE i - Len(x) \in 1 .. Len(y) /\ t[i] = y[i - Len(x)] /\ t[i].kind \in L
    <3>1. j - Len(x) \in 1 .. Len(y) /\ t[j] = y[j - Len(x)]
      BY <1>6, <2>2
    <3>2. i - Len(x) = j - Len(x)
      BY <2>2, <3>1 DEF Distinct
    <3> QED BY <1>1, <1>2, <3>2
  <2> QED BY <1>6, <2>1, <2>2
<1>8. \A i \in 1 .. Len(t) : t[i].kind \in K \cup L
  BY <1>6
<1> QED BY <1>2, <1>4, <1>7, <1>8 DEF t, Distinct, OfKinds

LEMMA ResultsAreSeqs == \A a \in Answers : a.results \in Seq(Hits)
<1>1. MaxHits \in Nat
  BY Zenon, PaletteAssumption
<1>2. \A m \in 0 .. MaxHits : m \in Nat
  BY <1>1
<1>3. \A m \in 0 .. MaxHits : [1 .. m -> Hits] \subseteq Seq(Hits)
  BY <1>2, SeqDef
<1> QED BY <1>3 DEF Answers, SeqOf

\* The list, for any query and any answer: pages, runs and changes, each once,
\* and empty only if nothing of the answer is a run or a change.
LEMMA ItemsAreDistinct ==
  ASSUME NEW q \in Queries \cup {""}, NEW a \in Answers
  PROVE  LET t == Items(q, a)
         IN  /\ t \in Seq(PaletteEntries)
             /\ \A i, j \in DOMAIN t : t[i] = t[j] => i = j
             /\ q = "" => t = Shortcuts
             /\ q /= "" /\ t = <<>> =>
                  \A e \in ToSet(a.results) : e.kind \notin {"run", "change"}
<1> DEFINE t == Items(q, a)
           nav == NavMatches(q)
           runs == collectResults(a.results, "run")
           changes == collectResults(a.results, "change")
<1>1. a.results \in Seq(Hits)
  BY ResultsAreSeqs
<1>2. nav \in Seq(ToSet(Shortcuts)) /\ Distinct(nav)
  BY MatchesAreShortcuts DEF Distinct
<1>3. /\ runs \in Seq(Hits) /\ Distinct(runs) /\ OfKinds(runs, {"run"})
      /\ runs = <<>> => \A e \in ToSet(a.results) : e.kind /= "run"
  BY <1>1, ResultsAreHits DEF Distinct, OfKinds
<1>4. /\ changes \in Seq(Hits) /\ Distinct(changes) /\ OfKinds(changes, {"change"})
      /\ changes = <<>> => \A e \in ToSet(a.results) : e.kind /= "change"
  BY <1>1, ResultsAreHits DEF Distinct, OfKinds
<1>5. OfKinds(nav, {"nav"})
  BY <1>2, ElementOfSeq, PaletteAssumption DEF OfKinds
<1>6. CASE q = ""
  <2>1. nav = Shortcuts /\ t = nav \o <<>>
    BY <1>6 DEF Items, NavMatches
  <2>2. t = Shortcuts
    BY <1>2, <2>1, ConcatEmptySeq
  <2>3. DOMAIN t = 1 .. Len(t)
    BY <1>2, <2>1, <2>2, LenProperties
  <2>4. t \in Seq(PaletteEntries)
    BY <1>2, <2>1, <2>2, WiderSeq DEF PaletteEntries
  <2>5. \A i, j \in DOMAIN t : t[i] = t[j] => i = j
    BY <1>2, <2>1, <2>2, <2>3 DEF Distinct
  <2> QED BY <1>6, <2>2, <2>4, <2>5
<1>7. CASE q /= ""
  <2>1. t = nav \o (runs \o changes)
    BY <1>7 DEF Items
  <2> HIDE DEF t, nav, runs, changes
  <2>2. nav \in Seq(PaletteEntries) /\ runs \in Seq(PaletteEntries) /\ changes \in Seq(PaletteEntries)
    BY <1>2, <1>3, <1>4, WiderSeq DEF PaletteEntries
  <2>3. /\ t \in Seq(PaletteEntries) /\ Distinct(t)
        /\ t = <<>> => runs = <<>> /\ changes = <<>>
    <3>1. /\ runs \o changes \in Seq(PaletteEntries)
          /\ Distinct(runs \o changes)
          /\ OfKinds(runs \o changes, {"run"} \cup {"change"})
          /\ runs \o changes = <<>> => runs = <<>> /\ changes = <<>>
      BY <1>3, <1>4, <2>2, Joined
    <3>2. /\ nav \o (runs \o changes) \in Seq(PaletteEntries)
          /\ Distinct(nav \o (runs \o changes))
          /\ nav \o (runs \o changes) = <<>> => runs \o changes = <<>>
      BY <1>2, <1>5, <2>2, <3>1, Joined
    <3> QED BY <2>1, <3>1, <3>2
  <2>4. DOMAIN t = 1 .. Len(t)
    BY <2>3, LenProperties
  <2>5. ASSUME t = <<>> PROVE \A e \in ToSet(a.results) : e.kind \notin {"run", "change"}
    BY <1>3, <1>4, <2>3, <2>5
  <2> QED BY <1>7, <2>3, <2>4, <2>5 DEF t, Distinct
<1> QED BY <1>6, <1>7

LEMMA SeqIsEmptyOrNot ==
  ASSUME NEW S, NEW t \in Seq(S)
  PROVE  Len(t) \in Nat /\ (t /= <<>> <=> Len(t) > 0)
<1>1. Len(t) \in Nat
  BY LenProperties
<1>2. t = <<>> => Len(t) = 0
  BY EmptySeq
<1>3. t /= <<>> => Len(t) \in Nat \ {0}
  BY EmptySeq
<1>4. \A n \in Nat : n /= 0 <=> n > 0
  OBVIOUS
<1>5. Len(t) /= 0 <=> Len(t) > 0
  BY <1>1, <1>4
<1>6. t /= <<>> <=> Len(t) /= 0
  BY <1>2, <1>3
<1> QED BY <1>1, <1>5, <1>6

LEMMA ItemsAreSeqs ==
  ASSUME NEW q \in Queries \cup {""}, NEW a \in Answers
  PROVE  Len(Items(q, a)) \in Nat /\ (Items(q, a) /= <<>> <=> Len(Items(q, a)) > 0)
<1>1. Items(q, a) \in Seq(PaletteEntries)
  BY ItemsAreDistinct
<1> QED BY <1>1, SeqIsEmptyOrNot

\* The list that is drawn.
LEMMA ItemsFacts ==
  ASSUME PaletteTypeOK
  PROVE  /\ found \in Answers /\ debouncedQuery \in Queries \cup {""}
         /\ items \in Seq(PaletteEntries) /\ Len(items) \in Nat
         /\ items /= <<>> <=> Len(items) > 0
         /\ \A i, j \in DOMAIN items : items[i] = items[j] => i = j
         /\ debouncedQuery = "" => items = Shortcuts
         /\ debouncedQuery /= "" /\ items = <<>> =>
              \A e \in ToSet(found.results) : e.kind \notin {"run", "change"}
<1>1. found \in Answers /\ debouncedQuery \in Queries \cup {""}
  BY DEF PaletteTypeOK, Answers
<1>2. /\ items \in Seq(PaletteEntries)
      /\ \A i, j \in DOMAIN items : items[i] = items[j] => i = j
      /\ debouncedQuery = "" => items = Shortcuts
      /\ debouncedQuery /= "" /\ items = <<>> =>
           \A e \in ToSet(found.results) : e.kind \notin {"run", "change"}
  BY <1>1, ItemsAreDistinct DEF items
<1>3. Len(items) \in Nat
  BY <1>1, ItemsAreSeqs DEF items
<1>4. items /= <<>> <=> Len(items) > 0
  BY <1>1, ItemsAreSeqs DEF items
<1> QED BY <1>1, <1>2, <1>3, <1>4

\* A step that leaves the list alone and keeps the highlight on it.
LEMMA SameList ==
  ASSUME PaletteInv, UNCHANGED <<debouncedQuery, found>>,
         PaletteTypeOK', QueryIsSettled', QueryIsAnswered',
         paletteOpen' => active' = 0 \/ active' < Len(items) \/ (paletteOpen /\ active' = active)
  PROVE  PaletteInv'
<1>1. items' = items
  BY DEF items
<1>2. items /= <<>> => Len(items) > 0
  BY ItemsFacts DEF PaletteInv
<1>3. HighlightExists'
  BY <1>1, <1>2 DEF PaletteInv, HighlightExists
<1> QED BY <1>3 DEF PaletteInv

\* A new list: the highlight goes back to its start unless it is still on it.
LEMMA NewList ==
  ASSUME PaletteTypeOK', QueryIsSettled', QueryIsAnswered',
         active' = 0 \/ items' = <<>> \/ active' < Len(items')
  PROVE  PaletteInv'
<1>1. items' /= <<>> => Len(items') > 0
  <2>1. debouncedQuery' \in Queries \cup {""} /\ found' \in Answers
    BY DEF PaletteTypeOK, Answers
  <2>2. items' = Items(debouncedQuery', found')
    BY DEF items
  <2> QED BY <2>1, <2>2, ItemsAreSeqs
<1>2. HighlightExists'
  BY <1>1 DEF HighlightExists
<1> QED BY <1>2 DEF PaletteInv

LEMMA PaletteInitInv == PaletteInit => PaletteInv
<1> SUFFICES ASSUME PaletteInit PROVE PaletteInv
  OBVIOUS
<1>1. found \in [of : Queries \cup {""}, results : SeqOf(Hits, MaxHits)]
  <2>1. MaxHits \in Nat
    BY Zenon, PaletteAssumption
  <2>2. 0 \in 0 .. MaxHits /\ <<>> \in [1 .. 0 -> Hits]
    BY <2>1
  <2>3. <<>> \in SeqOf(Hits, MaxHits)
    BY <2>2 DEF SeqOf
  <2> QED BY <2>3 DEF PaletteInit, NoAnswer
<1>2. PaletteTypeOK
  BY <1>1 DEF PaletteInit, PaletteTypeOK
<1> QED
  BY <1>2 DEF PaletteInit, PaletteInv, QueryIsSettled, QueryIsAnswered, HighlightExists

LEMMA PaletteStep == PaletteInv /\ PaletteNext => PaletteInv'
<1> SUFFICES ASSUME PaletteInv, PaletteNext PROVE PaletteInv'
  OBVIOUS
<1>t. PaletteTypeOK /\ QueryIsSettled /\ QueryIsAnswered
  BY DEF PaletteInv
<1> USE DEF PaletteTypeOK, QueryIsSettled, QueryIsAnswered, StartSearch
<1>1. CASE OpenPalette
  BY <1>1, <1>t, SameList DEF OpenPalette
<1>2. CASE ClosePalette
  BY <1>2, <1>t, SameList DEF ClosePalette
<1>3. ASSUME NEW q \in Queries \cup {""}, TypeQuery(q) PROVE PaletteInv'
  BY <1>3, <1>t, SameList DEF TypeQuery
<1>4. CASE QuerySettles
  <2>1. PaletteTypeOK' /\ QueryIsSettled' /\ QueryIsAnswered'
    BY <1>4, <1>t DEF QuerySettles
  <2>2. CASE query = debouncedQuery
    BY <1>4, <2>1, <2>2, SameList DEF QuerySettles
  <2>3. CASE query /= debouncedQuery
    BY <1>4, <2>1, <2>3, NewList DEF QuerySettles
  <2> QED BY <2>2, <2>3
<1>5. ASSUME NEW results \in SeqOf(Hits, MaxHits), SearchAnswers(results) PROVE PaletteInv'
  <2>1. items' = Items(debouncedQuery, found')
    BY <1>5 DEF SearchAnswers, items
  <2>2. active' = Clamp(active, Len(items'))
    BY <1>5, <2>1 DEF SearchAnswers
  <2>3. PaletteTypeOK' /\ QueryIsSettled' /\ QueryIsAnswered'
    BY <1>5, <1>t DEF SearchAnswers, Clamp
  <2>4. Len(items') \in Nat /\ (items' /= <<>> <=> Len(items') > 0)
    <3>1. debouncedQuery \in Queries \cup {""} /\ found' \in Answers
      BY <1>t, <2>3 DEF Answers
    <3> QED BY <2>1, <3>1, ItemsAreSeqs
  <2>5. active' = 0 \/ items' = <<>> \/ active' < Len(items')
    <3>1. active \in Nat
      BY <1>t
    <3>2. CASE active >= Len(items') /\ Len(items') > 0
      BY <2>2, <3>2 DEF Clamp
    <3>3. CASE ~ (active >= Len(items') /\ Len(items') > 0)
      <4>1. active' = active
        BY <2>2, <3>3 DEF Clamp
      <4>2. active < Len(items') \/ ~ (Len(items') > 0)
        BY <2>4, <3>1, <3>3
      <4> QED BY <2>4, <4>1, <4>2
    <3> QED BY <3>2, <3>3
  <2> QED BY <2>3, <2>5, NewList
<1>6. CASE SearchFails
  BY <1>6, <1>t, SameList DEF SearchFails
<1>7. ASSUME NEW i \in 0 .. Len(items), MoveHighlight(i) \/ Hover(i) \/ Activate(i)
      PROVE  PaletteInv'
  <2>1. /\ Len(items) \in Nat /\ (items /= <<>> <=> Len(items) > 0)
        /\ items \in Seq(PaletteEntries)
    BY <1>t, ItemsFacts
  <2>5. i \in Nat
    BY <2>1
  <2>2. CASE MoveHighlight(i)
    <3>1. i < Len(items)
      <4>1. Len(items) > 0 /\ active \in Nat
        BY <1>t, <2>1, <2>2 DEF MoveHighlight
      <4>2. \A m, n \in Nat : n > 0 => m % n < n
        OBVIOUS
      <4>3. active + 1 \in Nat /\ active + Len(items) - 1 \in Nat
        BY <2>1, <4>1
      <4>4. (active + 1) % Len(items) < Len(items)
        BY <2>1, <4>1, <4>2, <4>3
      <4>5. (active + Len(items) - 1) % Len(items) < Len(items)
        BY <2>1, <4>1, <4>2, <4>3
      <4> QED BY <2>1, <2>2, <4>1, <4>4, <4>5 DEF MoveHighlight
    <3>2. PaletteTypeOK' /\ QueryIsSettled' /\ QueryIsAnswered'
      BY <1>t, <2>2, <2>5 DEF MoveHighlight
    <3> QED BY <2>2, <3>1, <3>2, SameList DEF MoveHighlight
  <2>3. CASE Hover(i)
    <3>1. PaletteTypeOK' /\ QueryIsSettled' /\ QueryIsAnswered'
      BY <1>t, <2>3, <2>5 DEF Hover
    <3> QED BY <2>3, <3>1, SameList DEF Hover
  <2>4. CASE Activate(i)
    <3>1. i + 1 \in 1 .. Len(items)
      BY <2>1, <2>4 DEF Activate
    <3>2. items[i + 1] \in PaletteEntries
      BY <2>1, <3>1, ElementOfSeq
    <3>3. PaletteTypeOK' /\ QueryIsSettled' /\ QueryIsAnswered'
      BY <1>t, <2>4, <3>2 DEF Activate, PaletteEntries
    <3> QED BY <2>4, <3>3, SameList DEF Activate
  <2> QED BY <1>7, <2>2, <2>3, <2>4
<1> QED BY <1>1, <1>2, <1>3, <1>4, <1>5, <1>6, <1>7 DEF PaletteNext

LEMMA PaletteFrame == PaletteInv /\ UNCHANGED palette => PaletteInv'
<1> SUFFICES ASSUME PaletteInv, UNCHANGED palette PROVE PaletteInv'
  OBVIOUS
<1>1. PaletteTypeOK' /\ QueryIsSettled' /\ QueryIsAnswered'
  BY DEF PaletteInv, palette, PaletteTypeOK, QueryIsSettled, QueryIsAnswered
<1> QED BY <1>1, SameList DEF palette

LEMMA PaletteInvariant == Spec => []PaletteInv
<1>1. Init => PaletteInv
  BY PaletteInitInv DEF Init
<1>2. PaletteInv /\ [Next]_screens => PaletteInv'
  BY PaletteStep, PaletteFrame DEF Next, screens
<1> QED BY <1>1, <1>2, PTL DEF Spec

\* The palette opens what it shows: a highlight that exists however the list
\* shrank under it, and at rest the pages and the answer of the query that is in
\* the box, each entry once, for any pages, any queries and any answers
\* (command-palette.jsx over useApi and useDebounced of hooks.js).
THEOREM PaletteIsTruthful == Spec => []PaletteOpensWhatItShows
<1>1. PaletteInv => PaletteOpensWhatItShows
  <2> SUFFICES ASSUME PaletteInv PROVE PaletteTypeOK /\ HighlightExists /\ RestShowsTheQuery
    BY DEF PaletteOpensWhatItShows
  <2>1. PaletteTypeOK /\ HighlightExists
    BY DEF PaletteInv
  <2>2. RestShowsTheQuery
    <3> SUFFICES ASSUME paletteOpen, ~typing, ~searchLoading, ~searchFailed
                 PROVE  /\ query /= "" => found.of = query
                        /\ query = "" => items = Shortcuts
                        /\ PaletteView = "empty" =>
                             \A e \in ToSet(found.results) : e.kind \notin {"run", "change"}
                        /\ \A i, j \in DOMAIN items : items[i] = items[j] => i = j
      BY DEF RestShowsTheQuery
    <3>1. query = debouncedQuery
      BY DEF PaletteInv, QueryIsSettled
    <3>2. query /= "" => found.of = query
      BY <3>1 DEF PaletteInv, QueryIsAnswered
    <3>3. PaletteView = "empty" => debouncedQuery /= "" /\ items = <<>>
      BY DEF PaletteView
    <3> QED BY <2>1, <3>1, <3>2, <3>3, ItemsFacts
  <2> QED BY <2>1, <2>2
<1> QED BY <1>1, PaletteInvariant, PTL
=============================================================================
