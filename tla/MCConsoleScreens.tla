-------------------------- MODULE MCConsoleScreens --------------------------
(* TLC instance of ConsoleScreens. The lists: two windows, one search text,  *)
(* one facet, two page sizes, up to three rows. The palette: two queries, of *)
(* which one matches a page, and answers of two entries. The dispatch form:  *)
(* four configurations with narrow, wide, missing and unnamed scopes.        *)
EXTENDS ConsoleScreens

TwoWindows == {"7d", "30d"}
OneText == {"text"}
OneFilter == {"facet"}

TwoQueries == {"a", "b"}
TwoShortcuts == <<[kind |-> "nav", id |-> "overview"], [kind |-> "nav", id |-> "runs"]>>
SomeIncludes == [q \in TwoQueries |-> IF q = "a" THEN {TwoShortcuts[2]} ELSE {}]
HitKinds == {"run", "change", "other"}
SomeHits == {[kind |-> k, id |-> "x"] : k \in HitKinds}

Acme == <<"acme", "/">>
App == <<"acme", "/", "app">>
Adjacent == <<"acme", "/", "app", "-x">>
SomeRepositories == {App, Adjacent, <<"acme">>}
ScopeOf(n, r, h) == [name |-> n, repositories |-> r, harnesses |-> h]
ModelOf(scopes) == [name |-> "m", scopes |-> scopes]
SomeConfigs ==
  { [allowed |-> {Acme}, scopes |-> <<ScopeOf("default", {}, {})>>,
     harnesses |-> <<"codex", "pi">>, profiles |-> <<"go">>,
     models |-> <<ModelOf({})>>, egress |-> {"closed"}],
    [allowed |-> {App},
     scopes |-> <<ScopeOf("default", {App}, {"pi"}), ScopeOf("team", {Acme}, {})>>,
     harnesses |-> <<"codex", "pi">>, profiles |-> <<"go">>,
     models |-> <<ModelOf({"team"})>>, egress |-> {}],
    [allowed |-> {}, scopes |-> <<>>,
     harnesses |-> <<"pi">>, profiles |-> <<>>, models |-> <<>>, egress |-> {}],
    [allowed |-> {Acme}, scopes |-> <<ScopeOf("team", {App}, {"pi"})>>,
     harnesses |-> <<"pi">>, profiles |-> <<"go">>, models |-> <<>>, egress |-> {}] }
SomeTemplates ==
  { [repository |-> App, scope |-> "", harness |-> "codex", verification |-> "go"],
    [repository |-> App, scope |-> "team", harness |-> "pi", verification |-> "old"] }
=============================================================================
