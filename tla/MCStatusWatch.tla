--------------------------- MODULE MCStatusWatch ---------------------------
(* TLC instances of StatusWatch: the switches that add waiting steps to a    *)
(* run.                                                                      *)
EXTENDS StatusWatch

WatchedFeatures == {"intake", "alert_blocked", "review", "suspend"}
=============================================================================
