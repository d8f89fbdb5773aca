----------------------------- MODULE ConsoleApp -----------------------------
(***************************************************************************)
(* App.jsx: the session decides whether there is a shell at all.  Losing   *)
(* the session unmounts the shell and the screen inside it, whose effects  *)
(* give the scroll lock back, the outer ones first; a new session mounts   *)
(* fresh ones on the route the address bar still shows.                    *)
(* The auto-refresh switch is kept outside both (lib/workspace.jsx): with  *)
(* it off no screen polls.                                                 *)
(***************************************************************************)
EXTENDS ConsoleSession, ConsoleShell, ConsoleWorkspace

vars == <<sessionVars, shellVars, autoRefresh>>

Init == SessionInit /\ ShellInit /\ WorkspaceInit

TypeOK == SessionTypeOK /\ ShellTypeOK /\ WorkspaceTypeOK

ShellUnmounts ==
  LET l == ShellLock(locked, shellSaved, overlay, "none")
  IN /\ locked' = IF preview THEN previewSaved ELSE l.cell
     /\ overlay' = "none"
     /\ shellSaved' = l.saved
     /\ previewSaved' = FALSE
     /\ preview' = FALSE
     /\ goPending' = FALSE
     /\ focus' = "page"
     /\ CloseMenus
     /\ UNCHANGED <<route, overlapped>>

SessionStep ==
  /\ SessionNext
  /\ IF status = "authenticated" /\ status' /= "authenticated"
       THEN ShellUnmounts
       ELSE UNCHANGED shellVars
  /\ UNCHANGED autoRefresh

ShellStep ==
  /\ status = "authenticated"
  /\ ShellNext
  /\ UNCHANGED <<sessionVars, autoRefresh>>

\* Either way the interval of every polling read changes, so those of the mounted
\* screens are aborted and sent again at once. A rejection whose body is being
\* read is announced all the same.
Reload(mounted) ==
  requests' = [i \in Slots |->
                 IF i \in mounted /\ requests[i].phase /= "unauthorized"
                   THEN [kind |-> "read", token |-> token, phase |-> "sent"]
                   ELSE requests[i]]

\* The button of the top bar, or the one in the drawer; a press dismisses an
\* open menu, the keyboard does not.
ToggleAutoRefresh ==
  /\ status = "authenticated"
  /\ overlay \in {"none", "nav"} /\ ~preview
  /\ Switch
  /\ \E mounted \in SUBSET Feeds : Reload(mounted)
  /\ CloseMenus \/ UNCHANGED <<attentionOpen, operatorOpen>>
  /\ focus' = "page"
  /\ UNCHANGED <<route, overlay, preview, goPending, lockVars, overlapped>>
  /\ UNCHANGED <<status, token, session, verifying, notice, accepts, rotations,
                 failures>>

Next == SessionStep \/ ShellStep \/ ToggleAutoRefresh

Spec == Init /\ [][Next]_vars

\* Requests and verifications settle, and while auto-refresh stays on the screens
\* poll; with it off none of them need ever send anything again. Nobody has to
\* press anything.
FairSpec ==
  /\ Spec
  /\ WF_vars((Verified \/ VerificationFails) /\ UNCHANGED <<shellVars, autoRefresh>>)
  /\ \A i \in Slots :
       /\ WF_vars(Headers(i) /\ UNCHANGED <<shellVars, autoRefresh>>)
       /\ WF_vars(/\ Settle(i)
                  /\ IF status = "authenticated" /\ status' /= status
                       THEN ShellUnmounts ELSE UNCHANGED shellVars
                  /\ UNCHANGED autoRefresh)
  /\ \A i \in Feeds :
       WF_vars(autoRefresh /\ Send(i) /\ UNCHANGED <<shellVars, autoRefresh>>)

\* A screen is there only with a token the server has accepted, in every state
\* of the session and of the shell.
ScreensNeedASession == TypeOK /\ SessionIsVerified

\* A tab whose token was replaced on the server does not go on with the screens it
\* has for as long as auto-refresh is on: it asks for the new token. An operator
\* who switches auto-refresh off keeps stale screens until the next load.
RejectedTokenIsNoticed ==
  status = "authenticated" /\ token \notin accepts
    ~> status /= "authenticated" \/ token \in accepts \/ ~autoRefresh

\* A session ends when its own token is rejected, and by nothing else; with
\* auto-refresh on a rejected token ends it for certain.
SessionEndsByItsToken == EndsByItsOwnToken /\ RejectedTokenIsNoticed
=============================================================================
