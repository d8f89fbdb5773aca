---------------------------- MODULE ConsolePages ----------------------------
(***************************************************************************)
(* An operator watches a factory at work on the run page and on the        *)
(* operations page.  One of them is mounted at a time (Page of App.jsx);   *)
(* both are drawn from the caches of ConsoleServer.                        *)
(***************************************************************************)
EXTENDS ConsoleRun, ConsoleOperations

pages == <<server, runPage, opsPage, autoRefresh>>

PagesInit == ServerInit /\ RunInit /\ OpsInit /\ WorkspaceInit

OnOperations == shown = "none"

\* The route changes.
GoToRun(r) ==
  /\ shown /= r
  /\ OpenRun(r)
  /\ OpenOps
  /\ LiveCachesExpire
  /\ UNCHANGED <<factory, index, faults, autoRefresh>>

GoToOperations ==
  /\ shown /= "none"
  /\ LeaveRun
  /\ OpenOps
  /\ UNCHANGED <<server, autoRefresh>>

\* The operations page is the one that is drawn from the live caches; their
\* refreshes are followed while it is open, and what they read has expired when
\* it is opened again.
World ==
  /\ Factory \/ IndexCache \/ (OnOperations /\ LiveCaches)
  /\ UNCHANGED <<runPage, opsPage, autoRefresh>>
RunPage == RunNext /\ UNCHANGED opsPage
OpsPage == OnOperations /\ (PollOps \/ PollOpsFails) /\ UNCHANGED runPage
Navigate == (\E r \in Runs : GoToRun(r)) \/ GoToOperations

\* The button of the top bar.
Toggle == Switch /\ UNCHANGED <<server, runPage, opsPage>>

Next == World \/ RunPage \/ OpsPage \/ Navigate \/ Toggle

Spec == PagesInit /\ [][Next]_pages

(***************************************************************************)
(* A page loads when it is opened and polls while auto-refresh is on; then *)
(* answers arrive, and the caches are refreshed once they are too old.     *)
(* The operator may do nothing, and the factory may wait.                  *)
(***************************************************************************)
FairSpec ==
  /\ Spec
  /\ WF_pages(autoRefresh /\ RefreshIndex /\ UNCHANGED <<runPage, opsPage, autoRefresh>>)
  /\ WF_pages(/\ autoRefresh /\ OnOperations /\ RefreshOpen
              /\ UNCHANGED <<runPage, opsPage, autoRefresh>>)
  /\ WF_pages(/\ autoRefresh /\ OnOperations /\ RefreshInventory
              /\ UNCHANGED <<runPage, opsPage, autoRefresh>>)
  /\ WF_pages((autoRefresh \/ RunView = "skeleton") /\ PollRun /\ UNCHANGED opsPage)
  /\ WF_pages(autoRefresh /\ OnOperations /\ PollOps /\ UNCHANGED runPage)
  /\ WF_pages((\E n \in fetches : PatchArrives(n)) /\ UNCHANGED opsPage)

-----------------------------------------------------------------------------
TypeOK ==
  /\ stage \in [Runs -> Stages]
  /\ files \in [Runs -> FilesType]
  /\ boxes \subseteq Runs /\ index \subseteq Runs
  /\ open = Expired \/ open.runs \subseteq Runs
  /\ inventory = Expired \/ inventory.runs \subseteq Runs
  /\ faults \in 0 .. MaxFaults
  /\ RunTypeOK
  /\ WorkspaceTypeOK
  /\ shown /= "none" => ops = NoOps
  /\ shown = "none" => detail = NoData

\* A run that waits for a decision is shown as waiting, with the commands to
\* decide, to an operator who stays on its page with auto-refresh on.
ReviewReachesOperator ==
  \A r \in Runs :
    stage[r] = "paused" /\ shown = r
      ~> \/ detail /= NoData /\ "approve" \in CommandsCard(detail)
         \/ stage[r] /= "paused" \/ shown /= r \/ ~autoRefresh

\* An operator who stays on the page of a run with auto-refresh on sees its
\* recorded verdict in the end. With it on or off the page comes to rest: it does
\* not stay a skeleton, and its patch viewer does not load for ever.
VerdictIsShown ==
  \A r \in Runs :
    /\ Recorded(r) /\ shown = r
         ~> detail.kind = "final" \/ shown /= r \/ ~autoRefresh
    /\ shown = r
         ~> (RunView /= "skeleton" /\ PatchCard /= "loading") \/ shown /= r

\* A sandbox that a recorded and closed run left behind is flagged to an
\* operator who stays on the operations page with auto-refresh on.
LeakSurfaces ==
  \A r \in Runs :
    stage[r] = "closed" /\ Recorded(r) /\ r \in boxes /\ OnOperations
      ~> r \in ShownLeaked \/ ~OnOperations \/ ~autoRefresh

\* No label says more than the evidence behind it, and what is missing is said
\* to be missing by some card.
LabelsAreGrounded ==
  /\ CleanIsBackedUp
  /\ NothingFabricated
  /\ GreenRunIsWhole
  /\ MissingIsExplained

\* Two views of one run, drawn from caches of different ages, do not contradict
\* each other: the patch is of the run that is shown, the counts are those of
\* the table, and what is at work is not called leaked.
ViewsAgree ==
  /\ TypeOK
  /\ PatchIsOfThisView
  /\ ScreensAgree
  /\ NoLiveRunIsCalledLeaked

\* What an operator has to know reaches whoever stays: a gate that waits, a
\* verdict, a leak.
OperatorIsTold == ReviewReachesOperator /\ VerdictIsShown /\ LeakSurfaces
=============================================================================
