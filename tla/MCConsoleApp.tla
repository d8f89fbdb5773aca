---------------------------- MODULE MCConsoleApp ----------------------------
(* TLC instance of ConsoleApp: two tokens, two requests under way, the run   *)
(* screen and one other.                                                     *)
EXTENDS ConsoleApp

TwoTokens == {"old", "new"}
TwoViews == {"run", "runs"}
=============================================================================
