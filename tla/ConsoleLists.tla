---------------------------- MODULE ConsoleLists ----------------------------
(***************************************************************************)
(* The three paged screens of the console: pages/runs.jsx, changes.jsx and *)
(* reviews.jsx, with useCursorPager and Pagination (flows/pagination.jsx)  *)
(* and useDebounced (lib/hooks.js).  Each turns what the operator picks    *)
(* into the question its feed asks; ConsoleFeed shows that the feed then   *)
(* only ever shows answers to that question.                               *)
(*                                                                         *)
(* The server is external: it answers from evidence that may have changed  *)
(* in any way since the last answer, and pages it with paginate of         *)
(* internal/console/handlers.go.  A render, its effects and the request    *)
(* they send are one step; a state set by an effect is rendered in the     *)
(* next one (Sync).                                                        *)
(***************************************************************************)
EXTENDS Integers, Sequences, FiniteSets, SequencesExt

CONSTANTS Windows,   \* time windows of the top bar
          Texts,     \* search texts besides the empty one
          Filters,   \* settings of the facets and of the sort order
          Limits,    \* page sizes
          MaxTotal,  \* bound on the evidence behind a list
          MaxPages   \* bound on the pages visited one after the other

ASSUME ListsAssumption ==
  /\ "" \notin Texts \cup Filters
  /\ Limits \subseteq Nat \ {0}
  /\ MaxTotal \in Nat
  /\ MaxPages \in Nat

VARIABLES
  page,      \* the screen that is mounted
  window,    \* the workspace's window
  typed,     \* the search box
  timer,     \* the timer of useDebounced is running
  debounced, \* its value
  landed,    \* query.search of the runs screen
  filter,    \* the facets and the sort; the tab of the review queue
  limit,     \* rows per page
  pager,     \* the stored cursor: offset and windowKey, or useCursorPager
  asked,     \* the question of the last request
  data, failed, loading  \* what useApi returns

lists == <<page, window, typed, timer, debounced, landed, filter, limit, pager,
           asked, data, failed, loading>>
searching == <<typed, timer, debounced, landed>>

Kinds == {"in_review", "paused_run", "both"}
Tabs == {"in_review", "paused"}
None == [total |-> 0 - 1]

-----------------------------------------------------------------------------
(***************************************************************************)
(* What is asked                                                           *)
(***************************************************************************)
Search == IF page = "runs" THEN landed ELSE debounced

\* What the stored cursor belongs to: a window, the whole filter set, a tab.
PagerKey ==
  CASE page = "runs"    -> <<window>>
    [] page = "changes" -> <<debounced, filter, limit, window>>
    [] page = "reviews" -> <<filter>>

\* crossed and from are history: a page button was pressed on rows that answer
\* another question; the question whose answer gave the cursor.
FirstPage(k) ==
  [key |-> k, cursor |-> 0, history |-> <<>>, crossed |-> FALSE, from |-> None]

(* Mutant: the cursor is reset by the effect only. *)
StoredPager == pager

\* The cursor that is rendered: page one as soon as its key is out of date.
Pager == IF pager.key = PagerKey THEN pager ELSE FirstPage(PagerKey)

\* Everything but the place in the list.
Base ==
  IF page = "reviews"
    THEN [window |-> "", search |-> "", filter |-> "", limit |-> limit]
    ELSE [window |-> window, search |-> Search, filter |-> filter, limit |-> limit]

Question == [base |-> Base, cursor |-> Pager.cursor]

\* useApi runs its effect, and shows a spinner, when the question changed.
Render ==
  /\ UNCHANGED <<page, data, failed>>
  /\ asked' = Question'
  /\ loading' = (loading \/ Question' /= asked)

ListsInit ==
  /\ page \in {"runs", "changes", "reviews"}
  /\ window \in Windows
  /\ typed = "" /\ timer = FALSE /\ debounced = "" /\ landed = ""
  /\ filter = ""
  /\ limit \in Limits
  /\ pager = FirstPage(PagerKey)
  /\ asked = Question
  /\ data = None
  /\ failed = FALSE
  /\ loading = TRUE

(***************************************************************************)
(* What is shown                                                           *)
(***************************************************************************)
Loaded == data /= None

RunsView ==
  IF ~Loaded /\ loading THEN "skeleton" ELSE IF ~Loaded /\ failed THEN "error" ELSE "list"

ChangesView == IF failed /\ ~Loaded THEN "error" ELSE IF ~Loaded THEN "skeleton" ELSE "list"

ReviewsView == ChangesView

\* Are the search box, the facets and the tabs on the screen?
Toolbar ==
  CASE page = "runs"    -> RunsView = "list"
    [] page = "changes" -> ChangesView /= "error"
    [] page = "reviews" -> ReviewsView /= "error"

\* The effects of the last render have run before the next event.
Synced == pager.key = PagerKey

\* "both": the item of an IN_REVIEW change whose run is paused, which the API
\* lists as a paused_run.
OnTab(kind) ==
  filter = "" \/ (filter = "in_review" /\ kind = "in_review")
              \/ (filter = "paused" /\ kind \in {"paused_run", "both"})

\* The rows that are drawn, by their places on the page.
Visible == {i \in DOMAIN data.rows : page = "reviews" => OnTab(data.rows[i])}

\* Why is the review queue empty?
ReviewsEmpty ==
  IF data.total = 0 THEN "clear"
  ELSE IF data.rows = <<>> THEN "page"
  ELSE IF Visible = {} THEN "tab"
  ELSE "none"

\* The footer of the runs screen.
RangeStart == IF data.total = 0 THEN 0 ELSE data.offset + 1

RangeEnd == IF data.offset + limit < data.total THEN data.offset + limit ELSE data.total

(***************************************************************************)
(* Search                                                                  *)
(***************************************************************************)
\* Typing restarts the timer.
Type(t) ==
  /\ page /= "reviews" /\ Toolbar /\ Synced
  /\ t /= typed
  /\ typed' = t
  /\ timer' = TRUE
  /\ UNCHANGED <<window, debounced, landed, filter, limit, pager>>
  /\ Render

(* Mutant: an empty text is not worth a request. *)
DebounceSkipsEmpty ==
  /\ timer /\ Synced
  /\ timer' = FALSE
  /\ debounced' = IF typed = "" THEN debounced ELSE typed
  /\ landed' = IF page = "runs" THEN debounced' ELSE landed
  /\ pager' = IF page = "runs" /\ landed' /= landed THEN FirstPage(PagerKey) ELSE pager
  /\ UNCHANGED <<window, typed, filter, limit>>
  /\ Render

\* The timer fires. The runs screen moves a new value into its query in an
\* effect, and goes back to page one with it.
Debounce ==
  /\ timer /\ Synced
  /\ timer' = FALSE
  /\ debounced' = typed
  /\ LET lands == page = "runs" /\ debounced' /= debounced /\ debounced' /= landed
     IN /\ landed' = IF lands THEN debounced' ELSE landed
        /\ pager' = IF lands THEN FirstPage(PagerKey) ELSE pager
  /\ UNCHANGED <<window, typed, filter, limit>>
  /\ Render

\* An emptied box starts the timer again.
EmptyBox ==
  /\ typed' = ""
  /\ timer' = (timer \/ typed /= "")
  /\ UNCHANGED debounced

RemoveSearchChip ==
  /\ page = "runs" /\ Toolbar /\ Synced
  /\ landed /= ""
  /\ EmptyBox
  /\ landed' = ""
  /\ pager' = FirstPage(PagerKey)
  /\ UNCHANGED <<window, filter, limit>>
  /\ Render

ClearFilters ==
  /\ page /= "reviews" /\ Toolbar /\ Synced
  /\ Search /= "" \/ filter /= ""
  /\ EmptyBox
  /\ filter' = ""
  /\ landed' = ""
  /\ pager' = IF page = "runs" THEN FirstPage(PagerKey) ELSE pager
  /\ UNCHANGED <<window, limit>>
  /\ Render

(***************************************************************************)
(* Facets, tabs, page size, window                                         *)
(***************************************************************************)
\* update() of the runs screen resets the offset in the same state; the other
\* screens change the pager's key.
SetFilter(f) ==
  /\ Toolbar /\ Synced
  /\ f \in (IF page = "reviews" THEN Tabs ELSE Filters) \cup {""}
  /\ f /= filter
  /\ filter' = f
  /\ pager' = IF page = "runs" THEN FirstPage(PagerKey) ELSE pager
  /\ UNCHANGED <<window, searching, limit>>
  /\ Render

SetLimit(l) ==
  /\ page /= "reviews" /\ Toolbar /\ Synced
  /\ page = "changes" => ~loading
  /\ l /= limit
  /\ limit' = l
  /\ pager' = IF page = "runs" THEN FirstPage(PagerKey) ELSE pager
  /\ UNCHANGED <<window, searching, filter>>
  /\ Render

SetWindow(w) ==
  /\ page /= "reviews" /\ Synced
  /\ w /= window
  /\ window' = w
  /\ UNCHANGED <<searching, filter, limit, pager>>
  /\ Render

\* The effect that stores what the render has already derived.
Sync ==
  /\ ~Synced
  /\ pager' = FirstPage(PagerKey)
  /\ UNCHANGED <<window, searching, filter, limit>>
  /\ Render

(***************************************************************************)
(* Page buttons                                                            *)
(***************************************************************************)
Move(cursor, history, from) ==
  /\ Len(history) <= MaxPages
  /\ pager' = [key |-> PagerKey, cursor |-> cursor, history |-> history,
               crossed |-> Pager.crossed \/ data.asked /= asked, from |-> from]
  /\ UNCHANGED <<window, searching, filter, limit>>
  /\ Render

\* The buttons of the runs screen work while another page is loading.
RunsNext ==
  /\ page = "runs" /\ Loaded /\ Synced
  /\ data.next /= 0
  /\ Move(data.next, <<>>, data.asked.base)

RunsPrev ==
  /\ page = "runs" /\ Loaded /\ Synced
  /\ data.offset /= 0
  /\ LET to == IF data.offset > limit THEN data.offset - limit ELSE 0
     IN Move(to, <<>>, data.asked.base)

GoNext ==
  /\ page /= "runs" /\ Loaded /\ Synced /\ ~loading
  /\ data.next /= 0
  /\ Move(data.next, Append(Pager.history, Pager.cursor), data.asked.base)

GoPrev ==
  /\ page /= "runs" /\ Toolbar /\ Synced /\ ~loading
  /\ Pager.history /= <<>>
  /\ pager' = [pager EXCEPT !.cursor = Last(pager.history),
                            !.history = Front(pager.history)]
  /\ UNCHANGED <<window, searching, filter, limit>>
  /\ Render

\* "Back to first page" of an empty review page; "Next page" of an empty tab
\* works while the page is loading.
EmptyPageActions ==
  /\ page = "reviews" /\ ReviewsView = "list" /\ Synced
  /\ \/ /\ ReviewsEmpty = "page" \/ (ReviewsEmpty = "tab" /\ data.next = 0)
        /\ pager' = FirstPage(PagerKey)
        /\ UNCHANGED <<window, searching, filter, limit>>
        /\ Render
     \/ /\ ReviewsEmpty = "tab" /\ data.next /= 0
        /\ Move(data.next, Append(Pager.history, Pager.cursor), data.asked.base)

\* Refresh, Retry and Try again ask the same question once more.
Refresh ==
  /\ Synced
  /\ loading' = TRUE
  /\ UNCHANGED <<page, window, searching, filter, limit, pager, asked, data, failed>>

(***************************************************************************)
(* The feed                                                                *)
(***************************************************************************)
Queues ==
  IF page = "reviews" THEN UNION {[1..n -> Kinds] : n \in 0..MaxTotal}
                      ELSE {[i \in 1..n |-> "in_review"] : n \in 0..MaxTotal}

Count(queue, kinds) == Cardinality({i \in DOMAIN queue : queue[i] \in kinds})

\* paginate: an offset past the end is moved to the end.
Paginate(queue, q) ==
  LET total  == Len(queue)
      offset == IF q.cursor > total THEN total ELSE q.cursor
      end    == IF offset + q.base.limit > total THEN total ELSE offset + q.base.limit
  IN [asked   |-> q,
      total   |-> total,
      offset  |-> offset,
      next    |-> IF end < total THEN end ELSE 0,
      rows    |-> SubSeq(queue, offset + 1, end),
      pending |-> Count(queue, {"in_review", "both"}),
      paused  |-> Count(queue, {"paused_run", "both"})]

\* The answer to a load or to a poll.
Answer(queue) ==
  /\ data' = Paginate(queue, asked)
  /\ failed' = FALSE
  /\ loading' = FALSE
  /\ UNCHANGED <<page, window, searching, filter, limit, pager, asked>>

Fail ==
  /\ failed' = TRUE
  /\ loading' = FALSE
  /\ UNCHANGED <<page, window, searching, filter, limit, pager, asked, data>>

ListsNext ==
  \/ \E t \in Texts \cup {""} : Type(t)
  \/ Debounce
  \/ RemoveSearchChip
  \/ ClearFilters
  \/ \E f \in Filters \cup Tabs \cup {""} : SetFilter(f)
  \/ \E l \in Limits : SetLimit(l)
  \/ \E w \in Windows : SetWindow(w)
  \/ Sync
  \/ RunsNext \/ RunsPrev
  \/ GoNext \/ GoPrev \/ EmptyPageActions
  \/ Refresh
  \/ \E queue \in Queues : Answer(queue)
  \/ Fail

-----------------------------------------------------------------------------
ListsTypeOK ==
  /\ page \in {"runs", "changes", "reviews"}
  /\ window \in Windows
  /\ {typed, debounced, landed} \subseteq Texts \cup {""}
  /\ timer \in BOOLEAN
  /\ filter \in Filters \cup Tabs \cup {""}
  /\ limit \in Limits
  /\ pager.cursor \in 0..MaxTotal
  /\ pager.crossed \in BOOLEAN
  /\ asked.cursor \in 0..MaxTotal
  /\ Loaded => data.total \in 0..MaxTotal /\ data.offset \in 0..data.total
  /\ failed \in BOOLEAN
  /\ loading \in BOOLEAN

Settled == Loaded /\ ~loading /\ ~failed

\* A request past the first row carries a cursor that an answer to the same
\* question gave, in every order of filters, windows, tabs and pages; except that
\* a page button can be pressed on rows that answer another question.
CursorIsOwn ==
  asked.cursor > 0 /\ ~Pager.crossed => Pager.from = asked.base

\* Once typing pauses, a list is not narrowed by a text the box does not show.
SearchIsVisible ==
  page /= "reviews" /\ ~timer =>
    Search = typed \/ (page = "runs" /\ landed = "")

\* The footer of the runs screen counts the rows above it.
RangeMatchesRows ==
  page = "runs" /\ Settled /\ data.total > 0 =>
    RangeEnd + 1 = RangeStart + Len(data.rows)

\* A page that has become empty while there is evidence has a way back.
EmptyHasWayBack ==
  Settled /\ data.rows = <<>> /\ data.total > 0 =>
    IF page = "runs" THEN data.offset > 0 ELSE Pager.history /= <<>>

\* Previous walks back the way Next came, and the page number is right, as long
\* as Next was pressed on rows of the page that it leaves.
PagerIsAPath ==
  page /= "runs" /\ ~Pager.crossed =>
    LET path == Append(Pager.history, Pager.cursor)
    IN \A i \in DOMAIN path : path[i] = (i - 1) * limit

\* "None of them fall on this page; return to the first page" is said of paused
\* runs only when there is another page to find them on.
PausedAreElsewhere ==
  /\ page = "reviews" /\ Settled /\ filter = "paused"
  /\ ReviewsEmpty = "tab" /\ data.paused > 0 /\ data.next = 0
  => data.offset > 0

\* The same of changes in review: the queue counts an IN_REVIEW change whose run
\* is paused as a change in review and lists it as a paused run.
InReviewAreElsewhere ==
  /\ page = "reviews" /\ Settled /\ filter = "in_review"
  /\ ReviewsEmpty = "tab" /\ data.pending > 0 /\ data.next = 0
  => data.offset > 0

\* The range label never ends before it starts.
RangeLabelIsOrdered ==
  page = "runs" /\ Settled => RangeStart <= RangeEnd

\* Wherever filters, page sizes and vanishing rows have taken it, a list stands
\* on a page of its own question and has a way back from there.
PagerKeepsItsPlace ==
  /\ ListsTypeOK
  /\ CursorIsOwn
  /\ PagerIsAPath
  /\ EmptyHasWayBack

\* What a list says about itself is true of its rows: the search it was made
\* with, the range it shows, and where the rest is.
ListSaysWhatItShows ==
  /\ SearchIsVisible
  /\ RangeMatchesRows
  /\ PausedAreElsewhere
=============================================================================
