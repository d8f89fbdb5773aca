---------------------------- MODULE ConsoleShell ----------------------------
(***************************************************************************)
(* The chrome around the console's screens: the overlays, menus and global *)
(* keys of components/layout, and the evidence preview of the run screen   *)
(* (components/runs/evidence-modal.jsx), which locks the page by itself.   *)
(*                                                                         *)
(* document.body.style.overflow is one cell that the shell and the preview *)
(* each save, set and restore.  An event is one step: React commits        *)
(* between two listeners of a user event, so the listeners of a key run    *)
(* in their order, each on the state the one before left.                  *)
(***************************************************************************)
EXTENDS Naturals

CONSTANT Views  \* routes; "run" is the one with an evidence preview

ASSUME ShellAssumption == "run" \in Views

VARIABLES
  route,
  overlay,        \* "none", "nav", "palette" or "shortcuts"
  attentionOpen, operatorOpen,
  preview,        \* the evidence preview is open
  focus,          \* "page", "field" (typing), "palette" or "preview"
  goPending,
  locked,         \* document.body.style.overflow = "hidden"
  shellSaved, previewSaved, \* what each effect will restore
  overlapped      \* history: an overlay and the preview were open together

shellVars == <<route, overlay, attentionOpen, operatorOpen, preview, focus,
               goPending, locked, shellSaved, previewSaved, overlapped>>
lockVars == <<locked, shellSaved, previewSaved>>

Overlays == {"none", "nav", "palette", "shortcuts"}

ShellTypeOK ==
  /\ route \in Views
  /\ overlay \in Overlays
  /\ attentionOpen \in BOOLEAN
  /\ operatorOpen \in BOOLEAN
  /\ preview \in BOOLEAN
  /\ focus \in {"page", "field", "palette", "preview"}
  /\ goPending \in BOOLEAN
  /\ locked \in BOOLEAN
  /\ shellSaved \in BOOLEAN
  /\ previewSaved \in BOOLEAN
  /\ overlapped \in BOOLEAN

ShellInit ==
  /\ route \in Views
  /\ overlay = "none"
  /\ attentionOpen = FALSE
  /\ operatorOpen = FALSE
  /\ preview = FALSE
  /\ focus = "page"
  /\ goPending = FALSE
  /\ locked = FALSE
  /\ shellSaved = FALSE
  /\ previewSaved = FALSE
  /\ overlapped = FALSE

(***************************************************************************)
(* The scroll lock                                                         *)
(***************************************************************************)
(* Mutant: an effect that depends on the overlay saves its own lock. *)
ShellLockEachTime(cell, saved, from, to) ==
  CASE to /= "none" -> [cell |-> TRUE, saved |-> cell]
    [] from /= "none" /\ to = "none" -> [cell |-> saved, saved |-> FALSE]
    [] OTHER -> [cell |-> cell, saved |-> saved]

\* [modalOpen]: the effect runs when an overlay appears or the last one goes;
\* replacing one overlay by another does not run it.
ShellLock(cell, saved, from, to) ==
  CASE from = "none" /\ to /= "none" -> [cell |-> TRUE, saved |-> cell]
    [] from /= "none" /\ to = "none" -> [cell |-> saved, saved |-> FALSE]
    [] OTHER -> [cell |-> cell, saved |-> saved]

SetOverlay(to) ==
  LET l == ShellLock(locked, shellSaved, overlay, to)
  IN /\ overlay' = to
     /\ locked' = l.cell
     /\ shellSaved' = l.saved
     /\ UNCHANGED previewSaved
     /\ overlapped' = (overlapped \/ (to /= "none" /\ preview))

CloseMenus == attentionOpen' = FALSE /\ operatorOpen' = FALSE

\* Opening the palette moves the focus into its field; closing an overlay gives
\* the focus back to what had it.
FocusAfter(to) ==
  IF to = "palette" THEN "palette"
  ELSE IF preview THEN "preview" ELSE "page"

(***************************************************************************)
(* Keys                                                                    *)
(***************************************************************************)
\* Cmd-K or Ctrl-K, from anywhere.
KeyPalette ==
  LET to == IF overlay = "palette" THEN "none" ELSE "palette"
  IN /\ SetOverlay(to)
     /\ CloseMenus
     /\ focus' = FocusAfter(to)
     /\ UNCHANGED <<route, preview, goPending>>

\* Escape without the preview: the listeners of the palette's field, the menus
\* and the shortcuts dialog agree with the shell's own.
KeyEscape ==
  /\ ~preview
  /\ SetOverlay("none")
  /\ CloseMenus
  /\ goPending' = FALSE
  /\ focus' = "page"
  /\ UNCHANGED <<route, preview>>

\* Escape with the preview open: the palette's field, when it has the focus,
\* closes the palette first; then the document's listeners run in the order in
\* which they were added, the preview's before the shortcuts dialog's, and the
\* preview stops the event before it reaches the shell.
KeyEscapeInPreview ==
  /\ preview
  /\ LET first  == IF overlay = "palette" /\ focus = "palette" THEN "none" ELSE overlay
         l1     == ShellLock(locked, shellSaved, overlay, first)
         last   == IF first = "shortcuts" THEN "none" ELSE first
         l3     == ShellLock(previewSaved, l1.saved, first, last)
     IN /\ overlay' = last
        /\ locked' = l3.cell
        /\ shellSaved' = l3.saved
        /\ focus' = IF last = "palette" THEN "palette" ELSE "page"
  /\ preview' = FALSE
  /\ previewSaved' = FALSE
  /\ CloseMenus
  /\ UNCHANGED <<route, goPending, overlapped>>

\* The keys that pause while something is open or a field is being typed in.
Quiet == overlay = "none" /\ ~attentionOpen /\ ~operatorOpen

KeyInField ==
  /\ Quiet /\ focus = "field"
  /\ goPending' = FALSE
  /\ UNCHANGED <<route, overlay, attentionOpen, operatorOpen, preview, focus,
                 lockVars, overlapped>>

KeyOverlay(to) ==
  /\ to \in {"palette", "shortcuts"}
  /\ Quiet /\ focus /= "field"
  /\ SetOverlay(to)
  /\ focus' = FocusAfter(to)
  /\ UNCHANGED <<route, attentionOpen, operatorOpen, preview, goPending>>

KeyGo ==
  /\ Quiet /\ focus /= "field"
  /\ goPending' = TRUE
  /\ UNCHANGED <<route, overlay, attentionOpen, operatorOpen, preview, focus,
                 lockVars, overlapped>>

GoTimer ==
  /\ goPending
  /\ goPending' = FALSE
  /\ UNCHANGED <<route, overlay, attentionOpen, operatorOpen, preview, focus,
                 lockVars, overlapped>>

\* A new route remounts the screen, whose preview restores the cell it saved,
\* and then closes the shell's overlays and menus.
Leave(v) ==
  LET cell == IF preview THEN previewSaved ELSE locked
      l == ShellLock(cell, shellSaved, overlay, "none")
  IN /\ route' = v
     /\ overlay' = "none"
     /\ locked' = l.cell
     /\ shellSaved' = l.saved
     /\ preview' = FALSE
     /\ previewSaved' = FALSE
     /\ CloseMenus
     /\ focus' = "page"
     /\ UNCHANGED overlapped

KeyGoTo(v) ==
  /\ Quiet /\ focus /= "field" /\ goPending
  /\ v /= "run"
  /\ goPending' = FALSE
  /\ IF v = route
       THEN UNCHANGED <<route, overlay, attentionOpen, operatorOpen, preview,
                        focus, lockVars, overlapped>>
       ELSE Leave(v)

(***************************************************************************)
(* Pointer                                                                 *)
(***************************************************************************)
\* A link, the sidebar, the palette or the browser's history.
Navigate(v) ==
  /\ v /= route
  /\ Leave(v)
  /\ UNCHANGED goPending

\* Choosing an entry of the palette closes it and then changes the hash.
PaletteOpens(v) ==
  /\ overlay = "palette"
  /\ IF v = route
       THEN /\ SetOverlay("none")
            /\ focus' = FocusAfter("none")
            /\ UNCHANGED <<route, attentionOpen, operatorOpen, preview, goPending>>
       ELSE Leave(v) /\ UNCHANGED goPending

\* The buttons of the top bar are covered by an overlay and by the preview; the
\* open menus are dismissed by the press. The drawer offers the shortcuts too.
PressOpens(to) ==
  /\ ~preview
  /\ overlay = "none" \/ (overlay = "nav" /\ to = "shortcuts")
  /\ SetOverlay(to)
  /\ CloseMenus
  /\ focus' = FocusAfter(to)
  /\ UNCHANGED <<route, preview, goPending>>

\* The backdrop, the close button.
PressCloses ==
  /\ overlay /= "none"
  /\ ~preview
  /\ SetOverlay("none")
  /\ focus' = FocusAfter("none")
  /\ UNCHANGED <<route, attentionOpen, operatorOpen, preview, goPending>>

\* A press on a trigger is a pointerdown and a click: the pointerdown falls
\* outside the panel and dismisses it, the click then toggles it, so that an
\* open menu opens again.
PressMenu(attention) ==
  /\ overlay = "none" /\ ~preview
  /\ attentionOpen' = attention
  /\ operatorOpen' = ~attention
  /\ focus' = "page"
  /\ UNCHANGED <<route, overlay, preview, goPending, lockVars, overlapped>>

\* The same trigger from the keyboard is the click alone.
KeyMenu(attention) ==
  /\ overlay = "none" /\ ~preview
  /\ attentionOpen' = IF attention THEN ~attentionOpen ELSE attentionOpen
  /\ operatorOpen' = IF attention THEN operatorOpen ELSE ~operatorOpen
  /\ focus' = "page"
  /\ UNCHANGED <<route, overlay, preview, goPending, lockVars, overlapped>>

PressPage(target) ==
  /\ overlay = "none" /\ ~preview
  /\ target \in {"page", "field"}
  /\ focus' = target
  /\ CloseMenus
  /\ UNCHANGED <<route, overlay, preview, goPending, lockVars, overlapped>>

\* The preview lies above the palette and takes the focus when pressed.
PressPreview ==
  /\ preview
  /\ focus' = "preview"
  /\ UNCHANGED <<route, overlay, attentionOpen, operatorOpen, preview, goPending,
                 lockVars, overlapped>>

OpenPreview ==
  /\ route = "run" /\ ~preview /\ overlay = "none"
  /\ preview' = TRUE
  /\ previewSaved' = locked
  /\ locked' = TRUE
  /\ focus' = "preview"
  /\ CloseMenus
  /\ UNCHANGED <<route, overlay, goPending, shellSaved, overlapped>>

\* Its backdrop or its close button, which lie above the shell's overlays.
ClosePreview ==
  /\ preview
  /\ preview' = FALSE
  /\ locked' = previewSaved
  /\ previewSaved' = FALSE
  /\ focus' = IF overlay = "palette" THEN "palette" ELSE "page"
  /\ UNCHANGED <<route, overlay, attentionOpen, operatorOpen, goPending,
                 shellSaved, overlapped>>

ShellNext ==
  \/ KeyPalette \/ KeyEscape \/ KeyEscapeInPreview \/ KeyInField
  \/ \E to \in Overlays : KeyOverlay(to)
  \/ KeyGo \/ GoTimer
  \/ \E v \in Views : KeyGoTo(v) \/ Navigate(v) \/ PaletteOpens(v)
  \/ \E to \in Overlays \ {"none"} : PressOpens(to)
  \/ PressCloses
  \/ \E a \in BOOLEAN : PressMenu(a) \/ KeyMenu(a)
  \/ \E target \in {"page", "field"} : PressPage(target)
  \/ PressPreview \/ OpenPreview \/ ClosePreview

-----------------------------------------------------------------------------
\* The page behind is locked exactly while something covers it, through every
\* order of opening, replacing and closing, as long as no overlay was opened over
\* an evidence preview.
LockMatches ==
  ~overlapped => (locked <=> overlay /= "none" \/ preview)

\* With nothing open the page scrolls again.
PageScrolls == overlay = "none" /\ ~preview => ~locked
=============================================================================
