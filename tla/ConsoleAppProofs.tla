-------------------------- MODULE ConsoleAppProofs --------------------------
(***************************************************************************)
(* Proofs about ConsoleApp: the session and the shell inside it, for any   *)
(* tokens, reads, downloads, routes and numbers of failures.               *)
(*                                                                         *)
(* That a read carries the token of the present session holds because      *)
(* nothing is being read outside one (Reading): losing the session aborts  *)
(* the reads before the form can be used.  That the page is locked exactly *)
(* under a cover needs what each effect will restore (Cell).               *)
(***************************************************************************)
EXTENDS ConsoleApp, TLAPS

(* A verification is under way exactly while the tab is loading, and a     *)
(* session is that of the stored token.                                    *)
Verifying ==
  /\ status = "loading" <=> verifying /= "none"
  /\ status = "authenticated" => session = token

(* A read belongs to the present session; only screens read.               *)
Reading ==
  \A i \in Slots :
    /\ requests[i].kind = "read" =>
         i \in Feeds /\ status = "authenticated" /\ requests[i].token = token
    /\ i \in Feeds => requests[i] = Idle \/ requests[i].kind = "read"

SessionInv == SessionTypeOK /\ Verifying /\ Reading

(* The cell and what the effects saved of it, with at most one cover.      *)
Cell ==
  ~overlapped =>
    /\ overlay = "none" \/ ~preview
    /\ overlay /= "none" => locked /\ ~shellSaved
    /\ preview => locked /\ ~previewSaved
    /\ overlay = "none" /\ ~preview => ~locked

ShellInv == ShellTypeOK /\ Cell

Inv == SessionInv /\ ShellInv /\ WorkspaceTypeOK

-----------------------------------------------------------------------------
(* The session                                                             *)

LEMMA PoliciesAreBearers == \A P \in Policies : P \subseteq Bearers
<1> SUFFICES ASSUME NEW P \in Policies PROVE P \subseteq Bearers
  OBVIOUS
<1>1. CASE P = Bearers
  BY <1>1
<1>2. CASE \E t \in Tokens : P = {t}
  BY <1>2 DEF Bearers
<1> QED
  BY <1>1, <1>2, Zenon DEF Policies

LEMMA BoundsAreNumbers ==
  /\ 0 \in 0..MaxRotations /\ 0 \in 0..MaxFailures
  /\ \A n \in 0..MaxRotations : n < MaxRotations => n + 1 \in 0..MaxRotations
  /\ \A n \in 0..MaxFailures : n < MaxFailures => n + 1 \in 0..MaxFailures
<1>1. MaxRotations \in Nat /\ MaxFailures \in Nat
  BY SessionAssumption, Zenon
<1> QED
  BY <1>1

LEMMA SessionStarts == SessionInit => SessionInv
<1> SUFFICES ASSUME SessionInit PROVE SessionInv
  OBVIOUS
<1>1. Idle \in RequestType /\ Idle.kind = "idle"
  BY DEF Idle, RequestType, Bearers
<1>2. SessionTypeOK
  <2>1. requests \in [Slots -> RequestType]
    BY <1>1 DEF SessionInit
  <2>2. accepts \subseteq Bearers
    BY PoliciesAreBearers DEF SessionInit
  <2>3. 0 \in 0..MaxRotations /\ 0 \in 0..MaxFailures
    BY BoundsAreNumbers
  <2> QED
    BY <2>1, <2>2, <2>3 DEF SessionInit, SessionTypeOK
<1>3. Verifying
  BY SessionAssumption DEF SessionInit, Verifying, Bearers
<1>4. Reading
  BY <1>1 DEF SessionInit, Reading
<1> QED
  BY <1>2, <1>3, <1>4 DEF SessionInv

(* Outside a session nothing is being read.                                *)
LEMMA NothingIsReadOutside ==
  ASSUME SessionInv, status /= "authenticated", NEW i \in Slots
  PROVE  requests[i].kind /= "read"
  BY DEF SessionInv, Reading

LEMMA LoginKeepsInv ==
  ASSUME SessionInv, NEW t \in Tokens, Login(t)
  PROVE  SessionInv'
<1>1. SessionTypeOK'
  BY DEF SessionInv, SessionTypeOK, Login, Bearers
<1>2. Verifying'
  BY SessionAssumption DEF Login, Verifying
<1>3. Reading'
  BY DEF SessionInv, Login, Reading
<1> QED
  BY <1>1, <1>2, <1>3 DEF SessionInv

LEMMA VerifiedKeepsInv ==
  ASSUME SessionInv, Verified
  PROVE  SessionInv'
<1>1. verifying \in Bearers /\ verifying /= "none"
  BY SessionAssumption DEF SessionInv, SessionTypeOK, Verified, Bearers
<1>2. status = "loading"
  BY <1>1 DEF SessionInv, Verifying
<1>3. SessionTypeOK'
  BY <1>1 DEF SessionInv, SessionTypeOK, Verified
<1>4. Verifying'
  BY DEF Verified, Verifying
<1>5. Reading'
  BY <1>2 DEF SessionInv, Verified, Reading
<1> QED
  BY <1>3, <1>4, <1>5 DEF SessionInv

LEMMA VerificationFailsKeepsInv ==
  ASSUME SessionInv, VerificationFails
  PROVE  SessionInv' /\ status = "loading"
<1>1. status = "loading"
  BY DEF SessionInv, Verifying, VerificationFails
<1>2. notice' \in {"", "rejected", "unreachable", "expired"}
  BY DEF VerificationFails
<1>3. SessionTypeOK'
  BY <1>2 DEF SessionInv, SessionTypeOK, VerificationFails, Bearers
<1>4. Verifying'
  BY DEF VerificationFails, Verifying
<1>5. Reading'
  BY <1>1 DEF SessionInv, VerificationFails, Reading
<1> QED
  BY <1>1, <1>3, <1>4, <1>5 DEF SessionInv

LEMMA SendKeepsInv ==
  ASSUME SessionInv, NEW i \in Slots, Send(i)
  PROVE  SessionInv'
<1> DEFINE r == [kind |-> IF i \in Feeds THEN "read" ELSE "download",
                 token |-> token, phase |-> "sent"]
<1>1. /\ r \in RequestType /\ r.token = token
      /\ r.kind = "read" <=> i \in Feeds
  BY DEF SessionInv, SessionTypeOK, RequestType
<1>2. /\ requests' = [requests EXCEPT ![i] = r] /\ status = "authenticated"
      /\ UNCHANGED <<status, token, session, verifying, notice, accepts, rotations, failures>>
  BY DEF Send
<1> HIDE DEF r
<1>3. /\ requests' \in [Slots -> RequestType] /\ requests'[i] = r
      /\ \A j \in Slots : j # i => requests'[j] = requests[j]
  BY <1>1, <1>2 DEF SessionInv, SessionTypeOK
<1>4. SessionTypeOK'
  BY <1>2, <1>3 DEF SessionInv, SessionTypeOK
<1>5. Verifying'
  BY <1>2 DEF SessionInv, Verifying
<1>6. Reading'
  BY <1>1, <1>2, <1>3 DEF SessionInv, Reading
<1> QED
  BY <1>4, <1>5, <1>6 DEF SessionInv

LEMMA HeadersKeepsInv ==
  ASSUME SessionInv, NEW i \in Slots, Headers(i)
  PROVE  SessionInv'
<1>1. PICK ph \in {"ok", "unauthorized", "failed"} :
        requests' = [requests EXCEPT ![i].phase = ph]
  BY DEF Headers
<1>2. /\ requests[i] \in RequestType /\ requests[i] /= Idle
      /\ UNCHANGED <<status, token, session, verifying, notice, accepts, rotations>>
  BY DEF SessionInv, SessionTypeOK, Headers
<1> DEFINE r == [requests[i] EXCEPT !.phase = ph]
<1>3. r \in RequestType /\ r.token = requests[i].token /\ r.kind = requests[i].kind
  BY <1>2 DEF RequestType
<1>4. requests' = [requests EXCEPT ![i] = r]
  BY <1>1
<1> HIDE DEF r
<1>5. /\ requests' \in [Slots -> RequestType] /\ requests'[i] = r
      /\ \A j \in Slots : j # i => requests'[j] = requests[j]
  BY <1>3, <1>4 DEF SessionInv, SessionTypeOK
<1>6. failures' \in 0..MaxFailures
  <2>1. CASE failures' = failures
    BY <2>1 DEF SessionInv, SessionTypeOK
  <2>2. CASE failures < MaxFailures /\ failures' = failures + 1
    BY <2>2, BoundsAreNumbers DEF SessionInv, SessionTypeOK
  <2> QED
    BY <2>1, <2>2 DEF Headers
<1>7. SessionTypeOK'
  BY <1>2, <1>5, <1>6 DEF SessionInv, SessionTypeOK
<1>8. Verifying'
  BY <1>2 DEF SessionInv, Verifying
<1>9. Reading'
  BY <1>2, <1>3, <1>5 DEF SessionInv, Reading
<1> QED
  BY <1>7, <1>8, <1>9 DEF SessionInv

(* A read whose token was rejected ends its session and every other read.  *)
LEMMA SettleKeepsInv ==
  ASSUME SessionInv, NEW i \in Slots, Settle(i)
  PROVE  /\ SessionInv'
         /\ status = "authenticated" /\ status' = "unauthenticated" =>
              requests[i].phase = "unauthorized" /\ requests[i].token = token
<1> DEFINE rest == [requests EXCEPT ![i] = Idle]
<1>1. Idle \in RequestType /\ Idle.kind = "idle"
  BY DEF Idle, RequestType, Bearers
<1>2. /\ rest \in [Slots -> RequestType] /\ rest[i] = Idle
      /\ \A j \in Slots : j # i => rest[j] = requests[j]
  BY <1>1 DEF SessionInv, SessionTypeOK
<1>3. UNCHANGED <<accepts, rotations, failures, verifying>>
  BY DEF Settle, Unauthorized
<1>4. CASE requests[i].kind = "read" /\ requests[i].phase = "unauthorized"
  <2>1. Unauthorized(rest)
    BY <1>4 DEF Settle
  <2>2. status = "authenticated" /\ requests[i].token = token
    BY <1>4 DEF SessionInv, Reading
  <2> HIDE DEF rest
  <2>3. /\ requests' \in [Slots -> RequestType]
        /\ \A j \in Slots : requests'[j] = IF rest[j].kind = "read" THEN Idle ELSE rest[j]
    BY <1>1, <1>2, <2>1 DEF Unauthorized, ShellRequestsEnd
  <2>4. /\ token' = "" /\ status' = "unauthenticated" /\ session' = "none" /\ notice' = "expired"
    BY <2>1 DEF Unauthorized
  <2>5. SessionTypeOK'
    BY <1>3, <2>3, <2>4 DEF SessionInv, SessionTypeOK, Bearers
  <2>6. Verifying'
    BY <1>3, <2>2, <2>4 DEF SessionInv, Verifying
  <2>7. Reading'
    <3>1. \A j \in Slots : requests'[j].kind /= "read"
      BY <1>1, <2>3
    <3>2. \A j \in Feeds : requests'[j] = Idle
      BY <1>2, <2>3 DEF SessionInv, Reading, Slots
    <3> QED
      BY <3>1, <3>2 DEF Reading
  <2> QED
    BY <1>4, <2>2, <2>5, <2>6, <2>7 DEF SessionInv
<1>5. CASE ~(requests[i].kind = "read" /\ requests[i].phase = "unauthorized")
  <2>1. requests' = rest /\ UNCHANGED <<token, status, session, notice, verifying>>
    BY <1>5 DEF Settle
  <2> HIDE DEF rest
  <2>2. SessionTypeOK'
    BY <1>2, <1>3, <2>1 DEF SessionInv, SessionTypeOK
  <2>3. Verifying'
    BY <1>3, <2>1 DEF SessionInv, Verifying
  <2>4. Reading'
    BY <1>1, <1>2, <2>1 DEF SessionInv, Reading
  <2> QED
    BY <2>1, <2>2, <2>3, <2>4 DEF SessionInv
<1> QED
  BY <1>4, <1>5

LEMMA RotateKeepsInv ==
  ASSUME SessionInv, Rotate
  PROVE  SessionInv'
<1>1. accepts' \subseteq Bearers
  BY PoliciesAreBearers DEF Rotate
<1>2. rotations' \in 0..MaxRotations
  BY BoundsAreNumbers DEF Rotate, SessionInv, SessionTypeOK
<1>3. SessionTypeOK'
  BY <1>1, <1>2 DEF SessionInv, SessionTypeOK, Rotate
<1> QED
  BY <1>3 DEF SessionInv, Verifying, Reading, Rotate

LEMMA SessionStepKeepsInv ==
  ASSUME SessionInv, SessionNext
  PROVE  SessionInv'
  BY LoginKeepsInv, VerifiedKeepsInv, VerificationFailsKeepsInv, SendKeepsInv, HeadersKeepsInv,
     SettleKeepsInv, RotateKeepsInv DEF SessionNext

-----------------------------------------------------------------------------
(* The shell                                                               *)

LockTypeOK ==
  /\ overlay \in Overlays /\ preview \in BOOLEAN /\ overlapped \in BOOLEAN
  /\ locked \in BOOLEAN /\ shellSaved \in BOOLEAN /\ previewSaved \in BOOLEAN

LEMMA ShellStarts == ShellInit => ShellInv
  BY DEF ShellInit, ShellInv, ShellTypeOK, Cell, Overlays

(* Opening, replacing and closing an overlay.                              *)
LEMMA SetOverlayKeepsCell ==
  ASSUME ShellInv, NEW to \in Overlays, SetOverlay(to), UNCHANGED preview
  PROVE  LockTypeOK' /\ Cell'
<1> DEFINE l == ShellLock(locked, shellSaved, overlay, to)
<1>1. /\ overlay \in Overlays /\ preview \in BOOLEAN /\ overlapped \in BOOLEAN
      /\ locked \in BOOLEAN /\ shellSaved \in BOOLEAN /\ previewSaved \in BOOLEAN
  BY DEF ShellInv, ShellTypeOK
<1>2. /\ l.cell \in BOOLEAN /\ l.saved \in BOOLEAN
      /\ overlay = "none" /\ to /= "none" => l.cell = TRUE /\ l.saved = locked
      /\ overlay /= "none" /\ to = "none" => l.cell = shellSaved /\ l.saved = FALSE
      /\ (overlay = "none" <=> to = "none") => l.cell = locked /\ l.saved = shellSaved
  <2>1. CASE overlay = "none" /\ to /= "none"
    BY <1>1, <2>1 DEF ShellLock
  <2>2. CASE overlay /= "none" /\ to = "none"
    BY <1>1, <2>2 DEF ShellLock
  <2>3. CASE overlay = "none" <=> to = "none"
    BY <1>1, <2>3 DEF ShellLock
  <2> QED
    BY <2>1, <2>2, <2>3
<1>3. /\ overlay' = to /\ locked' = l.cell /\ shellSaved' = l.saved
      /\ previewSaved' = previewSaved /\ preview' = preview
      /\ overlapped' = (overlapped \/ (to /= "none" /\ preview))
  BY DEF SetOverlay
<1> HIDE DEF l
<1>4. LockTypeOK'
  BY <1>1, <1>2, <1>3 DEF LockTypeOK
<1>5. Cell'
  BY <1>1, <1>2, <1>3 DEF ShellInv, Cell
<1> QED
  BY <1>4, <1>5

(* Leaving the screen.                                                     *)
LEMMA LeaveKeepsInv ==
  ASSUME ShellInv, NEW v \in Views, Leave(v), goPending' \in BOOLEAN
  PROVE  ShellInv'
<1> DEFINE cell == IF preview THEN previewSaved ELSE locked
           l == ShellLock(cell, shellSaved, overlay, "none")
<1>1. /\ overlay \in Overlays /\ preview \in BOOLEAN /\ overlapped \in BOOLEAN
      /\ locked \in BOOLEAN /\ shellSaved \in BOOLEAN /\ previewSaved \in BOOLEAN
      /\ "none" \in Overlays
  BY DEF ShellInv, ShellTypeOK, Overlays
<1>2. cell \in BOOLEAN
  BY <1>1
<1>4. /\ l.cell \in BOOLEAN /\ l.saved \in BOOLEAN
      /\ overlay /= "none" => l.cell = shellSaved /\ l.saved = FALSE
      /\ overlay = "none" => l.cell = cell /\ l.saved = shellSaved
  <2> HIDE DEF cell
  <2>1. CASE overlay = "none"
    BY <1>1, <1>2, <2>1 DEF ShellLock
  <2>2. CASE overlay /= "none"
    BY <1>1, <1>2, <2>2 DEF ShellLock
  <2> QED
    BY <2>1, <2>2
<1>5. /\ overlay' = "none" /\ locked' = l.cell /\ shellSaved' = l.saved
      /\ previewSaved' = FALSE /\ preview' = FALSE /\ overlapped' = overlapped
      /\ route' = v /\ attentionOpen' = FALSE /\ operatorOpen' = FALSE /\ focus' = "page"
  BY DEF Leave, CloseMenus
<1> HIDE DEF l
<1>6. ShellTypeOK'
  BY <1>1, <1>4, <1>5 DEF ShellTypeOK
<1>7. Cell'
  BY <1>1, <1>4, <1>5 DEF ShellInv, Cell
<1> QED
  BY <1>6, <1>7 DEF ShellInv

(* Keys and presses that open or close an overlay, or nothing.             *)
LEMMA OverlayStepKeepsInv ==
  ASSUME ShellInv, NEW to \in Overlays, SetOverlay(to), UNCHANGED preview,
         route' \in Views, attentionOpen' \in BOOLEAN, operatorOpen' \in BOOLEAN,
         focus' \in {"page", "field", "palette", "preview"}, goPending' \in BOOLEAN
  PROVE  ShellInv'
<1>1. LockTypeOK' /\ Cell'
  BY SetOverlayKeepsCell
<1> QED
  BY <1>1 DEF ShellInv, ShellTypeOK, LockTypeOK

LEMMA FocusIsTyped ==
  ASSUME NEW to
  PROVE  FocusAfter(to) \in {"page", "field", "palette", "preview"}
  BY DEF FocusAfter

LEMMA OverlayStepsKeepInv ==
  ASSUME ShellInv,
         \/ KeyPalette \/ KeyEscape \/ PressCloses
         \/ \E to \in Overlays : KeyOverlay(to)
         \/ \E to \in Overlays \ {"none"} : PressOpens(to)
  PROVE  ShellInv'
<1>1. /\ route \in Views /\ attentionOpen \in BOOLEAN /\ operatorOpen \in BOOLEAN
      /\ goPending \in BOOLEAN /\ "none" \in Overlays /\ "palette" \in Overlays
  BY DEF ShellInv, ShellTypeOK, Overlays
<1>2. CASE KeyPalette
  <2>1. PICK to \in Overlays : SetOverlay(to) /\ focus' = FocusAfter(to)
    BY <1>1, <1>2 DEF KeyPalette
  <2>2. /\ UNCHANGED <<route, preview, goPending>>
        /\ attentionOpen' \in BOOLEAN /\ operatorOpen' \in BOOLEAN
    BY <1>2 DEF KeyPalette, CloseMenus
  <2> QED
    BY <1>1, <2>1, <2>2, FocusIsTyped, OverlayStepKeepsInv
<1>3. CASE KeyEscape
  BY <1>1, <1>3, OverlayStepKeepsInv DEF KeyEscape, CloseMenus
<1>4. CASE PressCloses
  BY <1>1, <1>4, FocusIsTyped, OverlayStepKeepsInv DEF PressCloses
<1>5. ASSUME NEW to \in Overlays, KeyOverlay(to) PROVE ShellInv'
  BY <1>1, <1>5, FocusIsTyped, OverlayStepKeepsInv DEF KeyOverlay
<1>6. ASSUME NEW to \in Overlays \ {"none"}, PressOpens(to) PROVE ShellInv'
  BY <1>1, <1>6, FocusIsTyped, OverlayStepKeepsInv DEF PressOpens, CloseMenus
<1> QED
  BY <1>2, <1>3, <1>4, <1>5, <1>6

(* Escape over an open preview: the two effects give the cell back in the  *)
(* order of their listeners.                                               *)
LEMMA KeyEscapeInPreviewKeepsInv ==
  ASSUME ShellInv, KeyEscapeInPreview
  PROVE  ShellInv'
<1> DEFINE first == IF overlay = "palette" /\ focus = "palette" THEN "none" ELSE overlay
           l1    == ShellLock(locked, shellSaved, overlay, first)
           last  == IF first = "shortcuts" THEN "none" ELSE first
           l3    == ShellLock(previewSaved, l1.saved, first, last)
<1>1. /\ overlay \in Overlays /\ preview \in BOOLEAN /\ overlapped \in BOOLEAN
      /\ locked \in BOOLEAN /\ shellSaved \in BOOLEAN /\ previewSaved \in BOOLEAN
      /\ "none" \in Overlays
  BY DEF ShellInv, ShellTypeOK, Overlays
<1>2. /\ first \in Overlays /\ (first = overlay \/ first = "none")
      /\ last \in Overlays /\ (last = first \/ last = "none")
  BY <1>1
<1>3. l1.saved \in BOOLEAN /\ (overlay = "none" => l1.saved = shellSaved)
  <2> HIDE DEF first
  <2>1. CASE overlay = "none"
    BY <1>1, <1>2, <2>1 DEF ShellLock
  <2>2. CASE overlay /= "none" /\ first = "none"
    BY <1>1, <1>2, <2>2 DEF ShellLock
  <2>3. CASE overlay /= "none" /\ first /= "none"
    BY <1>1, <1>2, <2>3 DEF ShellLock
  <2> QED
    BY <2>1, <2>2, <2>3
<1>4. /\ l3.cell \in BOOLEAN /\ l3.saved \in BOOLEAN
      /\ overlay = "none" => l3.cell = previewSaved
  <2> HIDE DEF first, last, l1
  <2>1. CASE first = "none"
    BY <1>1, <1>2, <1>3, <2>1 DEF ShellLock
  <2>2. CASE first /= "none" /\ last = "none"
    BY <1>1, <1>2, <1>3, <2>2 DEF ShellLock
  <2>3. CASE first /= "none" /\ last /= "none"
    BY <1>1, <1>2, <1>3, <2>3 DEF ShellLock
  <2> QED
    BY <2>1, <2>2, <2>3
<1>5. /\ overlay' = last /\ locked' = l3.cell /\ shellSaved' = l3.saved
      /\ preview /\ preview' = FALSE /\ previewSaved' = FALSE
      /\ attentionOpen' = FALSE /\ operatorOpen' = FALSE
      /\ focus' \in {"page", "palette"}
      /\ UNCHANGED <<route, goPending, overlapped>>
  BY DEF KeyEscapeInPreview, CloseMenus
<1> HIDE DEF first, last, l1, l3
<1>6. ShellTypeOK'
  BY <1>1, <1>2, <1>4, <1>5 DEF ShellInv, ShellTypeOK
<1>7. Cell'
  BY <1>1, <1>2, <1>4, <1>5 DEF ShellInv, Cell
<1> QED
  BY <1>6, <1>7 DEF ShellInv

(* The keys, presses and timers that leave the cell alone.                 *)
LEMMA IdleStepsKeepInv ==
  ASSUME ShellInv, UNCHANGED <<overlay, preview, lockVars, overlapped>>,
         route' \in Views, attentionOpen' \in BOOLEAN, operatorOpen' \in BOOLEAN,
         focus' \in {"page", "field", "palette", "preview"}, goPending' \in BOOLEAN
  PROVE  ShellInv'
  BY DEF ShellInv, ShellTypeOK, Cell, lockVars

LEMMA PointerStepsKeepInv ==
  ASSUME ShellInv,
         \/ KeyInField \/ KeyGo \/ GoTimer \/ PressPreview
         \/ \E a \in BOOLEAN : PressMenu(a) \/ KeyMenu(a)
         \/ \E target \in {"page", "field"} : PressPage(target)
  PROVE  ShellInv'
<1>1. /\ route \in Views /\ attentionOpen \in BOOLEAN /\ operatorOpen \in BOOLEAN
      /\ goPending \in BOOLEAN /\ focus \in {"page", "field", "palette", "preview"}
  BY DEF ShellInv, ShellTypeOK
<1>2. CASE KeyInField \/ KeyGo \/ GoTimer \/ PressPreview
  BY <1>1, <1>2, IdleStepsKeepInv DEF KeyInField, KeyGo, GoTimer, PressPreview
<1>3. ASSUME NEW a \in BOOLEAN, PressMenu(a) PROVE ShellInv'
  BY <1>1, <1>3, IdleStepsKeepInv DEF PressMenu
<1>4. ASSUME NEW a \in BOOLEAN, KeyMenu(a) PROVE ShellInv'
  BY <1>1, <1>4, IdleStepsKeepInv DEF KeyMenu
<1>5. ASSUME NEW target \in {"page", "field"}, PressPage(target) PROVE ShellInv'
  BY <1>1, <1>5, IdleStepsKeepInv DEF PressPage, CloseMenus
<1> QED
  BY <1>2, <1>3, <1>4, <1>5

LEMMA PreviewStepsKeepInv ==
  ASSUME ShellInv, OpenPreview \/ ClosePreview
  PROVE  ShellInv'
<1>1. CASE OpenPreview
  BY <1>1 DEF ShellInv, ShellTypeOK, Cell, OpenPreview, CloseMenus
<1>2. CASE ClosePreview
  BY <1>2 DEF ShellInv, ShellTypeOK, Cell, ClosePreview
<1> QED
  BY <1>1, <1>2

LEMMA NavigationKeepsInv ==
  ASSUME ShellInv, NEW v \in Views, KeyGoTo(v) \/ Navigate(v) \/ PaletteOpens(v)
  PROVE  ShellInv'
<1>1. /\ route \in Views /\ attentionOpen \in BOOLEAN /\ operatorOpen \in BOOLEAN
      /\ goPending \in BOOLEAN /\ focus \in {"page", "field", "palette", "preview"}
      /\ "none" \in Overlays
  BY DEF ShellInv, ShellTypeOK, Overlays
<1>2. CASE KeyGoTo(v)
  BY <1>1, <1>2, LeaveKeepsInv, IdleStepsKeepInv DEF KeyGoTo
<1>3. CASE Navigate(v)
  BY <1>1, <1>3, LeaveKeepsInv DEF Navigate
<1>4. CASE PaletteOpens(v)
  BY <1>1, <1>4, LeaveKeepsInv, FocusIsTyped, OverlayStepKeepsInv DEF PaletteOpens
<1> QED
  BY <1>2, <1>3, <1>4

LEMMA ShellStepKeepsInv ==
  ASSUME ShellInv, ShellNext
  PROVE  ShellInv'
  BY OverlayStepsKeepInv, KeyEscapeInPreviewKeepsInv, PointerStepsKeepInv, PreviewStepsKeepInv,
     NavigationKeepsInv DEF ShellNext

-----------------------------------------------------------------------------
(* The app                                                                 *)

(* Losing the session gives the scroll lock back.                          *)
LEMMA ShellUnmountsKeepsInv ==
  ASSUME ShellInv, ShellUnmounts
  PROVE  ShellInv'
<1> DEFINE l == ShellLock(locked, shellSaved, overlay, "none")
<1>1. /\ overlay \in Overlays /\ preview \in BOOLEAN /\ overlapped \in BOOLEAN
      /\ locked \in BOOLEAN /\ shellSaved \in BOOLEAN /\ previewSaved \in BOOLEAN
      /\ "none" \in Overlays
  BY DEF ShellInv, ShellTypeOK, Overlays
<1>2. /\ l.cell \in BOOLEAN /\ l.saved \in BOOLEAN
      /\ overlay /= "none" => l.cell = shellSaved
      /\ overlay = "none" => l.cell = locked
  <2>1. CASE overlay = "none"
    BY <1>1, <2>1 DEF ShellLock
  <2>2. CASE overlay /= "none"
    BY <1>1, <2>2 DEF ShellLock
  <2> QED
    BY <2>1, <2>2
<1>3. /\ overlay' = "none" /\ shellSaved' = l.saved
      /\ locked' = IF preview THEN previewSaved ELSE l.cell
      /\ previewSaved' = FALSE /\ preview' = FALSE /\ goPending' = FALSE /\ focus' = "page"
      /\ attentionOpen' = FALSE /\ operatorOpen' = FALSE
      /\ UNCHANGED <<route, overlapped>>
  BY DEF ShellUnmounts, CloseMenus
<1> HIDE DEF l
<1>4. ShellTypeOK'
  BY <1>1, <1>2, <1>3 DEF ShellInv, ShellTypeOK
<1>5. Cell'
  BY <1>1, <1>2, <1>3 DEF ShellInv, Cell
<1> QED
  BY <1>4, <1>5 DEF ShellInv

(* Reads that are sent again carry the token of the same session.          *)
LEMMA ReloadKeepsInv ==
  ASSUME SessionInv, status = "authenticated", NEW mounted \in SUBSET Feeds, Reload(mounted),
         UNCHANGED <<status, token, session, verifying, notice, accepts, rotations, failures>>
  PROVE  SessionInv'
<1> DEFINE r == [kind |-> "read", token |-> token, phase |-> "sent"]
<1>1. r \in RequestType /\ r.token = token /\ r.kind = "read"
  BY DEF SessionInv, SessionTypeOK, RequestType
<1>2. requests' = [i \in Slots |-> IF i \in mounted /\ requests[i].phase /= "unauthorized"
                                     THEN r ELSE requests[i]]
  BY DEF Reload
<1> HIDE DEF r
<1>3. /\ requests' \in [Slots -> RequestType]
      /\ \A i \in Slots : requests'[i] = requests[i] \/ (i \in Feeds /\ requests'[i] = r)
  BY <1>1, <1>2 DEF SessionInv, SessionTypeOK
<1>4. SessionTypeOK'
  BY <1>3 DEF SessionInv, SessionTypeOK
<1>5. Verifying'
  BY DEF SessionInv, Verifying
<1>6. Reading'
  BY <1>1, <1>3 DEF SessionInv, Reading
<1> QED
  BY <1>4, <1>5, <1>6 DEF SessionInv

LEMMA ToggleKeepsInv ==
  ASSUME Inv, ToggleAutoRefresh
  PROVE  Inv'
<1>1. SessionInv'
  BY ReloadKeepsInv DEF Inv, ToggleAutoRefresh
<1>2. ShellInv'
  <2>1. /\ route \in Views /\ attentionOpen \in BOOLEAN /\ operatorOpen \in BOOLEAN
        /\ goPending \in BOOLEAN
    BY DEF Inv, ShellInv, ShellTypeOK
  <2> QED
    BY <2>1, IdleStepsKeepInv DEF Inv, ToggleAutoRefresh, CloseMenus
<1>3. WorkspaceTypeOK'
  BY DEF ToggleAutoRefresh, Switch, WorkspaceTypeOK
<1> QED
  BY <1>1, <1>2, <1>3 DEF Inv

LEMMA NextKeepsInv == Inv /\ [Next]_vars => Inv'
<1> SUFFICES ASSUME Inv, [Next]_vars PROVE Inv'
  OBVIOUS
<1>1. ASSUME UNCHANGED shellVars PROVE ShellInv'
  BY <1>1 DEF Inv, ShellInv, ShellTypeOK, Cell, shellVars
<1>2. ASSUME UNCHANGED sessionVars PROVE SessionInv'
  BY <1>2 DEF Inv, SessionInv, SessionTypeOK, Verifying, Reading, sessionVars
<1>3. CASE SessionStep
  BY <1>1, <1>3, SessionStepKeepsInv, ShellUnmountsKeepsInv DEF Inv, SessionStep, WorkspaceTypeOK
<1>4. CASE ShellStep
  BY <1>2, <1>4, ShellStepKeepsInv DEF Inv, ShellStep, WorkspaceTypeOK
<1>5. CASE UNCHANGED vars
  BY <1>1, <1>2, <1>5 DEF Inv, vars, WorkspaceTypeOK
<1>6. CASE ToggleAutoRefresh
  BY <1>6, ToggleKeepsInv
<1> QED
  BY <1>3, <1>4, <1>5, <1>6 DEF Next

LEMMA InvHolds == Spec => []Inv
<1>1. Init => Inv
  BY SessionStarts, ShellStarts DEF Init, Inv, WorkspaceInit, WorkspaceTypeOK
<1> QED
  BY <1>1, NextKeepsInv, PTL DEF Spec

(* Whatever tokens come and go and whenever answers arrive, a screen is    *)
(* shown only under the token the server accepted, and what it reads was   *)
(* asked for with that token (session.jsx, the aborts of the screens).     *)
THEOREM ScreensAreBehindTheLogin == Spec => []ScreensNeedASession
<1>1. Inv => ScreensNeedASession
  <2> SUFFICES ASSUME Inv PROVE ScreensNeedASession
    OBVIOUS
  <2>1. status = "authenticated" => session = token /\ verifying = "none"
    BY DEF Inv, SessionInv, Verifying
  <2>2. \A i \in Feeds : requests[i] = Idle \/ requests[i].token = token
    BY DEF Inv, SessionInv, Reading, Slots
  <2> QED
    BY <2>1, <2>2 DEF Inv, SessionInv, ShellInv, ScreensNeedASession, TypeOK, SessionIsVerified
<1> QED
  BY <1>1, InvHolds, PTL

(* The page is locked exactly while something covers it, through every     *)
(* order of opening, replacing, closing, navigating and signing out, until *)
(* an overlay was opened over a preview (the effects of app-shell.jsx and  *)
(* evidence-modal.jsx on document.body.style.overflow).                    *)
THEOREM PageIsLockedUnderACover == Spec => []LockMatches
<1>1. Inv => LockMatches
  BY DEF Inv, ShellInv, ShellTypeOK, Cell, LockMatches
<1> QED
  BY <1>1, InvHolds, PTL

(* No late answer to a request of an earlier session ends the present one: *)
(* only a rejection of its own token does (esf:unauthorized).              *)
THEOREM SessionEndsByItsOwnToken == Spec => EndsByItsOwnToken
<1> DEFINE Own == status = "authenticated" /\ status' = "unauthenticated"
                    => \E i \in Slots : /\ requests[i].phase = "unauthorized"
                                        /\ requests[i].token = token
<1>1. Inv /\ [Next]_vars => [Own]_sessionVars
  <2> SUFFICES ASSUME Inv, [Next]_vars, status = "authenticated", status' = "unauthenticated"
               PROVE  \E i \in Slots : /\ requests[i].phase = "unauthorized"
                                       /\ requests[i].token = token
    OBVIOUS
  <2>1. SessionNext
    BY DEF Next, SessionStep, ShellStep, ToggleAutoRefresh, sessionVars, vars
  <2>2. ~VerificationFails
    BY VerificationFailsKeepsInv DEF Inv
  <2>3. PICK i \in Slots : Settle(i)
    BY <2>1, <2>2 DEF SessionNext, Login, Verified, Send, Headers, Rotate
  <2> QED
    BY <2>3, SettleKeepsInv DEF Inv
<1> QED
  BY <1>1, InvHolds, PTL DEF Spec, EndsByItsOwnToken
=============================================================================
