--------------------------- MODULE ConsoleWorkspace ---------------------------
(***************************************************************************)
(* The operator's auto-refresh switch (lib/workspace.jsx).  With it off no *)
(* screen has an interval: a load comes when a screen is mounted, when the *)
(* operator refreshes, and when the switch is turned, either way.          *)
(***************************************************************************)
VARIABLE autoRefresh

WorkspaceTypeOK == autoRefresh \in BOOLEAN

\* What an earlier visit left in localStorage.
WorkspaceInit == autoRefresh \in BOOLEAN

Switch == autoRefresh' = ~autoRefresh
=============================================================================
