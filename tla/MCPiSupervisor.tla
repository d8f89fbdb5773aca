--------------------------- MODULE MCPiSupervisor ---------------------------
(* TLC instance of PiSupervisor. *)
EXTENDS PiSupervisor
=============================================================================
