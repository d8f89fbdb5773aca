--------------------------- MODULE MCConsolePages ---------------------------
(* One run, with evidence of every kind.                                   *)
EXTENDS ConsolePages

Ev(b, e, p, g) == [behavior |-> b, error |-> e, probe |-> p, gate |-> g]

SomeHardenings ==
  { Ev("clean", FALSE, "clean", "clean"),      \* nothing found
    Ev("clean", FALSE, "clean", "none"),       \* the gates could not be checked
    Ev("none", FALSE, "violated", "none"),     \* stopped before the agent
    Ev("none", TRUE, "none", "modified") }     \* no probe, no scan that worked

\* The egress probe is disabled, and the patch could not be scanned.
UnmeasuredHardenings == {Ev("clean", TRUE, "none", "clean")}
=============================================================================
