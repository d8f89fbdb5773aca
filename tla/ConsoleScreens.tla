--------------------------- MODULE ConsoleScreens ---------------------------
(***************************************************************************)
(* The screens an operator works with: the three lists, the dispatch form, *)
(* the command palette, and the change page with the review queue.  In the *)
(* model the screens share no state, so one of them is followed at a time: *)
(* a behaviour of several is an interleaving of theirs.                    *)
(***************************************************************************)
EXTENDS ConsoleLists, ConsolePalette, ConsoleDispatch, ConsoleChange

VARIABLE screen  \* the one that is followed

screens == <<screen, lists, palette, dispatch, changePage>>

\* The state of a screen that nobody uses.
ListsIdle ==
  /\ ListsInit
  /\ page = "runs"
  /\ window = CHOOSE w \in Windows : TRUE
  /\ limit = CHOOSE l \in Limits : TRUE
DispatchIdle == DispatchInit /\ config = CHOOSE c \in Configs : TRUE

Init ==
  /\ PaletteInit /\ ChangeInit
  /\ \/ screen = "list" /\ ListsInit /\ DispatchIdle
     \/ screen \in {"palette", "change"} /\ ListsIdle /\ DispatchIdle
     \/ screen = "dispatch" /\ ListsIdle /\ DispatchInit

Next ==
  /\ UNCHANGED screen
  /\ \/ screen = "list" /\ ListsNext /\ UNCHANGED <<palette, dispatch, changePage>>
     \/ screen = "palette" /\ PaletteNext /\ UNCHANGED <<lists, dispatch, changePage>>
     \/ screen = "dispatch" /\ DispatchNext /\ UNCHANGED <<lists, palette, changePage>>
     \/ screen = "change" /\ ChangeNext /\ UNCHANGED <<lists, palette, dispatch>>

Spec == Init /\ [][Next]_screens
=============================================================================
