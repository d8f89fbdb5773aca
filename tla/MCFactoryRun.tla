--------------------------- MODULE MCFactoryRun ---------------------------
(* TLC instances of FactoryRun: which switches a run may turn on. *)
EXTENDS FactoryRun

SafetyFeatures == {"intake", "probe", "monitor", "review", "suspend"}
ReviewFeatures == {"review"}

\* The advisory intake, on which nothing depends but one more place to be
\* cancelled at, is on; suspending, which only the review gate asks about, comes
\* with review, and review with it. The other instances have runs without the
\* intake, and reviews that do not suspend.
SafetyInit ==
  /\ Init
  /\ "intake" \in cfg
  /\ "suspend" \in cfg <=> "review" \in cfg

SafetySpec == SafetyInit /\ [][Next]_vars

\* The runs with a review gate that nobody cancels, or the total timeout ends,
\* but while a human is waited for.
InReview == pc = "review.wait" \/ UNCHANGED opVars

ReviewSpec == Init /\ "review" \in cfg /\ [][Next /\ InReview]_vars
=============================================================================
