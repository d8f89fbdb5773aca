--------------------------- MODULE ConsolePalette ---------------------------
(***************************************************************************)
(* The command palette, components/layout/command-palette.jsx: a query     *)
(* that is searched 180 ms after the last key (useDebounced), a feed that  *)
(* keeps its last answer while the next is on the way (useApi), and a      *)
(* highlight that is an index into a list which both of them change.       *)
(*                                                                         *)
(* The palette stays mounted while it is closed, and its timer runs on.  A *)
(* render and its effects are one step: React runs them before the next    *)
(* event.                                                                  *)
(***************************************************************************)
EXTENDS Naturals, Sequences, FiniteSets, SequencesExt

CONSTANTS Queries,  \* what may be typed, trimmed and not empty
          Shortcuts, \* STATIC_ENTRIES: the pages, in their order
          Includes,  \* the shortcuts that a query matches
          Hits,      \* entries that the search may return: [kind, id]
          MaxHits    \* bound on the length of an answer

ASSUME PaletteAssumption ==
  /\ "" \notin Queries
  /\ Includes \in [Queries -> SUBSET ToSet(Shortcuts)]
  /\ MaxHits \in Nat
  /\ Shortcuts \in Seq(ToSet(Shortcuts)) /\ IsInjective(Shortcuts)
  /\ \A e \in ToSet(Shortcuts) : e.kind = "nav"
  /\ \A e \in Hits : e.kind /= "nav"

VARIABLES
  paletteOpen,
  query,         \* the text box
  typing,        \* the timer of useDebounced is running
  debouncedQuery,
  active,        \* the index of the highlight, from 0
  found,         \* search.data
  searchFailed, searchLoading,
  opened         \* the entry whose page was opened last

palette == <<paletteOpen, query, typing, debouncedQuery, active, found,
             searchFailed, searchLoading, opened>>

Nothing == [kind |-> "none", id |-> "none"]
NoAnswer == [of |-> "", results |-> <<>>]

-----------------------------------------------------------------------------
(***************************************************************************)
(* The list                                                                *)
(***************************************************************************)
\* The k-th of a set of positions, and the entries of s at such a set, in their
\* order: what a filter leaves.
Nth(P, k) == CHOOSE i \in P : Cardinality({j \in P : j < i}) = k - 1
EntriesAt(s, P) == [k \in 1 .. Cardinality(P) |-> s[Nth(P, k)]]

NavMatches(q) ==
  IF q = "" THEN Shortcuts
  ELSE EntriesAt(Shortcuts, {i \in DOMAIN Shortcuts : Shortcuts[i] \in Includes[q]})

\* collectResults: known kinds, each entry once, in the order they came.
FirstOfKind(results, kind) ==
  {i \in DOMAIN results :
     results[i].kind = kind /\ \A j \in 1 .. i - 1 : results[j] /= results[i]}
collectResults(results, kind) == EntriesAt(results, FirstOfKind(results, kind))

\* groups, and the index that runs through them.
Items(q, answer) ==
  NavMatches(q)
    \o IF q = "" THEN <<>>
       ELSE collectResults(answer.results, "run") \o collectResults(answer.results, "change")

items == Items(debouncedQuery, found)

PaletteView ==
  IF ~paletteOpen THEN "closed"
  ELSE IF debouncedQuery /= "" /\ searchLoading /\ found = NoAnswer THEN "searching"
  ELSE IF debouncedQuery /= "" /\ ~searchLoading /\ items = <<>> THEN "empty"
  ELSE "list"

\* The effect on [active, items.length].
Clamp(i, n) == IF i >= n /\ n > 0 THEN 0 ELSE i

-----------------------------------------------------------------------------
PaletteInit ==
  /\ paletteOpen = FALSE
  /\ query = "" /\ typing = FALSE /\ debouncedQuery = ""
  /\ active = 0
  /\ found = NoAnswer /\ searchFailed = FALSE /\ searchLoading = FALSE
  /\ opened = Nothing

\* useApi's effect on enabled and on the query: a search is started, or
\* whatever is under way is called off.
StartSearch(open, q) ==
  IF open = paletteOpen /\ q = debouncedQuery THEN UNCHANGED searchLoading
  ELSE searchLoading' = (open /\ q /= "")

\* The effect on [open] empties the box; the search still has the old query
\* until the timer fires.
OpenPalette ==
  /\ ~paletteOpen
  /\ paletteOpen' = TRUE
  /\ query' = ""
  /\ typing' = (typing \/ query /= "")
  /\ active' = 0
  /\ StartSearch(TRUE, debouncedQuery)
  /\ UNCHANGED <<debouncedQuery, found, searchFailed, opened>>

\* Escape, the backdrop, or Ctrl-K again.
ClosePalette ==
  /\ paletteOpen
  /\ paletteOpen' = FALSE
  /\ StartSearch(FALSE, debouncedQuery)
  /\ UNCHANGED <<query, typing, debouncedQuery, active, found, searchFailed, opened>>

\* A key, or the clear button.
TypeQuery(q) ==
  /\ paletteOpen /\ q /= query
  /\ query' = q
  /\ typing' = TRUE
  /\ UNCHANGED <<paletteOpen, debouncedQuery, active, found, searchFailed, searchLoading, opened>>

\* The timer of useDebounced; the effect on [debouncedQuery] goes back to the
\* first entry.
QuerySettles ==
  /\ typing
  /\ typing' = FALSE
  /\ debouncedQuery' = query
  /\ active' = IF query = debouncedQuery THEN active ELSE 0
  /\ StartSearch(paletteOpen, query)
  /\ UNCHANGED <<paletteOpen, query, found, searchFailed, opened>>

(* Mutant: an answer counts although its search was called off. *)
SearchAnswersLate(results) ==
  /\ debouncedQuery /= ""
  /\ \E q \in Queries : found' = [of |-> q, results |-> results]
  /\ searchFailed' = FALSE /\ searchLoading' = FALSE
  /\ active' = Clamp(active, Len(Items(debouncedQuery, found')))
  /\ UNCHANGED <<paletteOpen, query, typing, debouncedQuery, opened>>

SearchAnswers(results) ==
  /\ searchLoading
  /\ found' = [of |-> debouncedQuery, results |-> results]
  /\ searchFailed' = FALSE /\ searchLoading' = FALSE
  /\ active' = Clamp(active, Len(Items(debouncedQuery, found')))
  /\ UNCHANGED <<paletteOpen, query, typing, debouncedQuery, opened>>

\* A failure keeps the answer to an earlier query.
SearchFails ==
  /\ searchLoading
  /\ searchFailed' = TRUE /\ searchLoading' = FALSE
  /\ UNCHANGED <<paletteOpen, query, typing, debouncedQuery, active, found, opened>>

\* handleKeyDown: arrows wrap around, Home and End jump.
MoveHighlight(to) ==
  /\ paletteOpen /\ items /= <<>>
  /\ to \in {(active + 1) % Len(items), (active + Len(items) - 1) % Len(items), 0, Len(items) - 1}
  /\ active' = to
  /\ UNCHANGED <<paletteOpen, query, typing, debouncedQuery, found, searchFailed, searchLoading, opened>>

\* The pointer enters an entry that is drawn.
Hover(to) ==
  /\ PaletteView = "list" /\ to < Len(items)
  /\ active' = to
  /\ UNCHANGED <<paletteOpen, query, typing, debouncedQuery, found, searchFailed, searchLoading, opened>>

\* Enter opens the highlighted entry, a click the one under it.
Activate(i) ==
  /\ paletteOpen
  /\ i = active \/ PaletteView = "list"
  /\ i < Len(items)
  /\ paletteOpen' = FALSE
  /\ opened' = items[i + 1]
  /\ StartSearch(FALSE, debouncedQuery)
  /\ UNCHANGED <<query, typing, debouncedQuery, active, found, searchFailed>>

PaletteNext ==
  \/ OpenPalette \/ ClosePalette
  \/ \E q \in Queries \cup {""} : TypeQuery(q)
  \/ QuerySettles
  \/ \E results \in SeqOf(Hits, MaxHits) : SearchAnswers(results)
  \/ SearchFails
  \/ \E i \in 0 .. Len(items) : MoveHighlight(i) \/ Hover(i) \/ Activate(i)

-----------------------------------------------------------------------------
PaletteTypeOK ==
  /\ paletteOpen \in BOOLEAN /\ typing \in BOOLEAN
  /\ query \in Queries \cup {""} /\ debouncedQuery \in Queries \cup {""}
  /\ active \in Nat
  /\ found \in [of : Queries \cup {""}, results : SeqOf(Hits, MaxHits)]
  /\ searchFailed \in BOOLEAN /\ searchLoading \in BOOLEAN
  /\ opened \in ToSet(Shortcuts) \cup Hits \cup {Nothing}

\* An entry is highlighted whenever there are entries, however the list shrank
\* under the highlight: the id that aria-activedescendant names exists.
HighlightExists ==
  paletteOpen /\ items /= <<>> => active < Len(items)

\* At rest (no key, no request, no failure) the palette shows what the box asks
\* for: the entries of the answer to it, each once, and the matching pages; and
\* it says that nothing matches only if the answer to this query was empty.
RestShowsTheQuery ==
  paletteOpen /\ ~typing /\ ~searchLoading /\ ~searchFailed =>
    /\ query /= "" => found.of = query
    /\ query = "" => items = Shortcuts
    /\ PaletteView = "empty" => \A e \in ToSet(found.results) : e.kind \notin {"run", "change"}
    /\ \A i, j \in DOMAIN items : items[i] = items[j] => i = j

\* Enter opens an entry that is there, of the query that is in the field.
PaletteOpensWhatItShows == PaletteTypeOK /\ HighlightExists /\ RestShowsTheQuery
=============================================================================
