--------------------------- MODULE ConsoleDispatch ---------------------------
(***************************************************************************)
(* The dispatch page, pages/dispatch.jsx: a form over the operator's       *)
(* catalog that offers a `factory run` command once its own checks find    *)
(* nothing wrong, beside what the factory checks when that command is run  *)
(* (cmd/factory/main.go, ResolveResources of internal/factory/resources.go *)
(* and internal/repository/validate.go).                                   *)
(*                                                                         *)
(* A URL is a sequence of parts, "/" among them, so that a prefix of the   *)
(* text and a prefix of the path are different things.  The workspace is   *)
(* treated like the egress policy, and --wait is left out with it.         *)
(***************************************************************************)
EXTENDS Naturals, Sequences, SequencesExt

CONSTANTS Configs,      \* configurations the factory may have
          Repositories, \* URLs that may be typed
          Templates     \* recent runs: repository, scope, harness, verification

\* What factory.toml may hold. A URL is not empty, nor is a name: of a scope's
\* that is assumed, loading does not check it. The maps of the file are lists in
\* the order of their names.
Entries == STRING \ {""}
URLs == Seq(STRING) \ {<<>>}
Scopes == [name : Entries, repositories : SUBSET URLs, harnesses : SUBSET STRING]
Catalogs ==
  [allowed : SUBSET URLs, scopes : Seq(Scopes),
   harnesses : Seq(Entries), profiles : Seq(Entries),
   models : Seq([name : STRING, scopes : SUBSET STRING]), egress : SUBSET STRING]

ASSUME DispatchAssumption ==
  /\ Configs \subseteq Catalogs
  /\ Repositories \subseteq Seq(STRING)
  /\ Templates \subseteq [repository : Repositories, scope : STRING, harness : STRING,
                          verification : STRING]

VARIABLES
  config,   \* factory.toml, which the command will read
  catalog,  \* catalog.data, or NoCatalog
  form,     \* the fields as they were set; "" and <<>> are unset
  touched

dispatch == <<config, catalog, form, touched>>

\* What the page works with before the catalog has come.
NoCatalog ==
  [allowed |-> {}, scopes |-> <<>>, harnesses |-> <<>>, profiles |-> <<>>,
   models |-> <<>>, egress |-> {}]

NoScope == [name |-> "", repositories |-> {}, harnesses |-> {}]
EmptyForm ==
  [repository |-> <<>>, revision |-> "", task |-> "", scope |-> "", harness |-> "",
   verification |-> "", model |-> "", egress |-> "", review |-> FALSE]

Names(entries) == {e.name : e \in ToSet(entries)}
First(names) == IF names = <<>> THEN "" ELSE Head(names)

-----------------------------------------------------------------------------
(***************************************************************************)
(* The page                                                                *)
(***************************************************************************)
\* The scope called default, or the first by name.
DefaultScope(c) ==
  IF "default" \in Names(c.scopes) \/ c.scopes = <<>>
    THEN IF c.scopes = <<>> THEN "" ELSE "default"
    ELSE Head(c.scopes).name

\* effectiveScope, effectiveHarness, effectiveProfile.
Effective(f, c) ==
  [f EXCEPT !.scope = IF @ = "" THEN DefaultScope(c) ELSE @,
            !.harness = IF @ = "" THEN First(c.harnesses) ELSE @,
            !.verification = IF @ = "" THEN First(c.profiles) ELSE @]

\* selectedScope; a name the catalog does not have restricts nothing.
SelectedScope(f, c) ==
  IF f.scope \in Names(c.scopes)
    THEN CHOOSE s \in ToSet(c.scopes) : s.name = f.scope
    ELSE NoScope

\* startsWith, of the text.
startsWith(repository, prefixes) == \E p \in prefixes : IsPrefix(p, repository)

repositoryAllowed(f, c) ==
  LET s == SelectedScope(f, c)
  IN /\ c.allowed = {} \/ startsWith(f.repository, c.allowed)
     /\ s.repositories = {} \/ startsWith(f.repository, s.repositories)

(* Mutant: the harness is looked up in the catalog only. *)
harnessAllowedAnywhere(f, c) == f.harness /= ""

harnessAllowed(f, c) ==
  LET s == SelectedScope(f, c)
  IN f.harness /= "" /\ (s.harnesses = {} \/ f.harness \in s.harnesses)

\* The fields with an error, of a form with effective values.
Errors(f, c) ==
  {field \in {"repository", "revision", "task", "harness", "verification"} :
     CASE field = "repository"   -> f.repository = <<>> \/ ~repositoryAllowed(f, c)
       [] field = "revision"     -> f.revision /= "sha"
       [] field = "task"         -> f.task /= "text"
       [] field = "harness"      -> ~harnessAllowed(f, c)
       [] field = "verification" -> f.verification = ""}

Command == Effective(form, catalog)
Offered == Errors(Command, catalog) = {}

\* The list below the command.
Explained == IF touched THEN Errors(Command, catalog) ELSE {}

DispatchInit ==
  /\ config \in Configs
  /\ catalog = NoCatalog
  /\ form = EmptyForm
  /\ touched = FALSE

\* The console reads factory.toml when it starts; a poll brings what it has.
PollCatalog ==
  /\ catalog /= config
  /\ catalog' = config
  /\ UNCHANGED <<config, form, touched>>

Reconfigure(c) ==
  /\ config' = c
  /\ UNCHANGED <<catalog, form, touched>>

\* A text field. The revision is trimmed and put in lower case; "sha" is a full
\* commit hash and "text" a task of at least twelve characters.
Edit(field, value) ==
  /\ form' = [form EXCEPT ![field] = value]
  /\ touched' = TRUE
  /\ UNCHANGED <<config, catalog>>

\* A select offers what the catalog has; only the overrides can be unset. Like
\* the check boxes it does not touch the form.
Choose(field, value) ==
  /\ form' = [form EXCEPT ![field] = value]
  /\ UNCHANGED <<config, catalog, touched>>

\* "Use": the configuration of a recent run, whatever the catalog says by now.
ApplyTemplate(run) ==
  /\ form' = [form EXCEPT !.repository = run.repository,
                          !.revision = "sha",
                          !.scope = IF run.scope = "" THEN DefaultScope(catalog) ELSE run.scope,
                          !.harness = run.harness,
                          !.verification = run.verification]
  /\ touched' = TRUE
  /\ UNCHANGED <<config, catalog>>

Fill ==
  \/ \E r \in Repositories \cup {<<>>} : Edit("repository", r)
  \/ \E r \in {"", "branch", "sha"} : Edit("revision", r)
  \/ \E t \in {"", "short", "text"} : Edit("task", t)
  \/ \E s \in Names(catalog.scopes) : Choose("scope", s)
  \/ \E h \in ToSet(catalog.harnesses) : Choose("harness", h)
  \/ \E p \in ToSet(catalog.profiles) : Choose("verification", p)
  \/ \E n \in Names(catalog.models) \cup {""} : Choose("model", n)
  \/ \E e \in catalog.egress \cup {""} : Choose("egress", e)
  \/ \E b \in BOOLEAN : Choose("review", b)
  \/ \E run \in Templates : ApplyTemplate(run)

DispatchNext == Fill \/ PollCatalog \/ \E c \in Configs : Reconfigure(c)

-----------------------------------------------------------------------------
(***************************************************************************)
(* The factory (Go)                                                        *)
(***************************************************************************)
\* URLMatchesPrefix: a prefix of the path, on the boundaries of its parts.
URLMatchesPrefix(repository, prefix) ==
  LET base == IF Last(prefix) = "/" THEN Front(prefix) ELSE prefix
  IN repository = base \/ IsPrefix(Append(base, "/"), repository)

matchesAnyPrefix(repository, prefixes) == \E p \in prefixes : URLMatchesPrefix(repository, p)

\* A scope's prefix counts if a global one covers it.
narrowedPrefixes(global, scope) == {s \in scope : matchesAnyPrefix(s, global)}

\* What ResolveResources, the registries and the repository provider refuse.
Refusals(f, c) ==
  LET name  == IF f.scope = "" THEN "default" ELSE f.scope
      scope == SelectedScope([f EXCEPT !.scope = name], c)
  IN {why \in {"scope", "adjacent repository", "repository outside scope", "harness",
               "harness outside scope", "verification", "egress", "model outside scope"} :
        CASE why = "scope"                     -> name \notin Names(c.scopes) \cup {"default"}
          [] why = "adjacent repository"       -> ~matchesAnyPrefix(f.repository, c.allowed)
          [] why = "repository outside scope"  ->
               /\ scope.repositories /= {}
               /\ ~matchesAnyPrefix(f.repository, narrowedPrefixes(c.allowed, scope.repositories))
          [] why = "harness"                   -> f.harness \notin ToSet(c.harnesses)
          [] why = "harness outside scope"     -> scope.harnesses /= {} /\ f.harness \notin scope.harnesses
          [] why = "verification"              -> f.verification \notin ToSet(c.profiles)
          [] why = "egress"                    -> f.egress \notin c.egress \cup {""}
          [] why = "model outside scope"       ->
               \E m \in ToSet(c.models) : m.name = f.model /\ m.scopes /= {} /\ name \notin m.scopes}

\* The command line itself wants a task, a repository and a revision.
Complete(f) == f.task /= "" /\ f.repository /= <<>> /\ f.revision /= ""

Accepts(f, c) == Complete(f) /\ Refusals(f, c) = {}

-----------------------------------------------------------------------------
DispatchTypeOK ==
  /\ config \in Configs
  /\ catalog \in Configs \cup {NoCatalog}
  /\ touched \in BOOLEAN
  /\ form.repository \in Repositories \cup {<<>>}
  /\ form.review \in BOOLEAN

\* With a catalog that is up to date, a command that is offered is complete, and
\* the factory refuses it only for what the page does not look at: the
\* boundaries of the repository's path, an override, or a name that a recent
\* run or an earlier catalog left in the form. It never refuses it because the
\* scope does not admit the harness.
OfferIsSound ==
  Offered /\ catalog = config =>
    /\ Complete(Command)
    /\ "harness outside scope" \notin Refusals(Command, config)
    /\ Refusals(Command, config) \cap {"scope", "harness", "verification"} /= {} =>
         \/ form.scope \notin Names(catalog.scopes) \cup {""}
         \/ form.harness \notin ToSet(catalog.harnesses) \cup {""}
         \/ form.verification \notin ToSet(catalog.profiles) \cup {""}

\* What the page holds back with a catalog that is up to date, the factory would
\* take only if the task is short, the revision is not a full hash, or the
\* repository is all of a prefix that ends in a slash.
RefusalIsSound ==
  ~Offered /\ catalog = config /\ Accepts(Command, config) =>
    \/ form.task = "short"
    \/ form.revision = "branch"
    \/ \E p \in config.allowed \cup UNION {s.repositories : s \in ToSet(config.scopes)} :
         p = Append(form.repository, "/")

\* A form that somebody has begun to fill in says why there is no command yet.
HiddenIsExplained ==
  ~Offered /\ (form.repository /= <<>> \/ form.revision /= "" \/ form.task /= "")
    => Explained /= {}

\* "Compose the exact run request this factory will accept" (dispatch.jsx:197).
OfferIsAccepted == Offered /\ catalog = config => Accepts(Command, config)

\* The form agrees with the catalog it has: what it offers is allowed, what it
\* refuses is not, and it says why.
FormFollowsCatalog ==
  /\ DispatchTypeOK
  /\ OfferIsSound
  /\ RefusalIsSound
  /\ HiddenIsExplained
=============================================================================
