--------------------------- MODULE MCConsoleFeed ---------------------------
(* TLC instance of ConsoleFeed: two questions. *)
EXTENDS ConsoleFeed, TLC

TwoKeys == {"runs?page=1", "runs?page=2"}
=============================================================================
