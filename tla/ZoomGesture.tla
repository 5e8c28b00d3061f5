---------------------------- MODULE ZoomGesture ----------------------------
(***************************************************************************)
(* The three places that change the zoom and the protocol between them:    *)
(* ZoomModel.java with its flag isCommited, the pinch in                   *)
(* MultiTouchZoomImpl.java, the roll with its fling in ZoomRoll.java, and  *)
(* DocumentView.java, which follows the zoom at once and decodes for it    *)
(* only when it is committed.                                              *)
(*                                                                         *)
(* All of it runs on the UI thread.  The order in which touch events of    *)
(* the two views, frames of the roll and layouts come is free.  A view     *)
(* that got the first finger of a gesture gets all of it (targetSdkVersion *)
(* 7).  The roll is used with one finger.  Two fingers are never at the    *)
(* same point, so a pinch distance is zero only where the code resets it.  *)
(* What DocumentLayout has a name for has another one here (modelZoom,     *)
(* GestureInit), because the proofs extend both modules.                   *)
(***************************************************************************)
EXTENDS Naturals, FiniteSets

CONSTANTS
  MaxZoom,     \* bound: the largest zoom a pinch reaches
  RollMax,     \* the zoom at MAX_VALUE, where the roll ends
  MaxFingers   \* bound: how many fingers touch the document

ASSUME ZoomAssumption ==
  /\ RollMax \in Nat \ {0}
  /\ MaxZoom \in Nat
  /\ RollMax <= MaxZoom
  /\ MaxFingers \in Nat \ {0, 1}

MinZoom    == 1
Zoom       == MinZoom .. MaxZoom
Pointer    == 0 .. (MaxFingers - 1)   \* pointer ids; events list them in order
NoPointer  == MaxFingers
NoFling    == 0

VARIABLES
  modelZoom,          \* ZoomModel.zoom
  isCommited,         \* ZoomModel
  viewInZoom,         \* DocumentView.inZoom
  invalidatedAt,      \* the zoom at which commitZoom last invalidated the pages
  touch,              \* the view that gets the present gesture
  pointers,           \* the fingers that touch the document
  pinch,              \* the fingers lastZoomDistance is between, {} if it is zero
  resetLastPoint,     \* resetLastPointAfterZoom
  lastPoint,          \* the finger whose position lastX and lastY are
  fling,              \* the zoom at which the document's fling or scroll started
  rollView,           \* visibility of the zoom controls
  rollFling,          \* the roll's scroller is not finished
  rollDirty,          \* the roll will be drawn
  cancelled,          \* the last pinch was cancelled (history)
  pinchCrashed        \* getX(1) was asked of an event with one pointer

zoomVars  == <<modelZoom, isCommited, viewInZoom, invalidatedAt>>
pinchVars == <<pinch, resetLastPoint, lastPoint, cancelled>>
rollVars  == <<rollView, rollFling, rollDirty>>
gestureVars == <<zoomVars, pinchVars, rollVars, touch, pointers, fling, pinchCrashed>>

GestureInit ==
  /\ modelZoom = MinZoom /\ isCommited = FALSE
  /\ viewInZoom = FALSE /\ invalidatedAt = MinZoom
  /\ touch = "none" /\ pointers = {}
  /\ pinch = {} /\ resetLastPoint = FALSE /\ lastPoint = NoPointer
  /\ fling = NoFling
  /\ rollView = "visible" /\ rollFling = FALSE /\ rollDirty = TRUE
  /\ cancelled = FALSE /\ pinchCrashed = FALSE

-----------------------------------------------------------------------------
(* ZoomModel, and what DocumentView does when it is told. *)

\* The pointer that getX(0) is about, and the two that getZoomDistance is about.
First(ps)    == CHOOSE p \in ps : \A q \in ps : p <= q
FirstTwo(ps) == LET p == First(ps) IN {p, First(ps \ {p})}

\* Mutant: the flag of the last commit is kept.
SetZoom_StaysCommited(z) ==
  /\ modelZoom' = z
  /\ UNCHANGED <<isCommited, invalidatedAt>>
  /\ viewInZoom' = (viewInZoom \/ z # modelZoom)
  /\ fling' = IF z = modelZoom THEN fling ELSE NoFling

\* Mutant: zoomChanged does not stop the scroller.
SetZoom_KeepsFling(z) ==
  /\ modelZoom' = z
  /\ isCommited' = (isCommited /\ z = modelZoom)
  /\ viewInZoom' = (viewInZoom \/ z # modelZoom)
  /\ UNCHANGED <<invalidatedAt, fling>>

\* setZoom: zoomChanged sets inZoom and stops the document's fling.
SetZoom(z) ==
  /\ modelZoom' = z
  /\ isCommited' = (isCommited /\ z = modelZoom)
  /\ viewInZoom' = (viewInZoom \/ z # modelZoom)
  /\ fling' = IF z = modelZoom THEN fling ELSE NoFling
  /\ UNCHANGED invalidatedAt

\* commit: commitZoom invalidates every page at the present zoom.
Commit ==
  IF isCommited THEN UNCHANGED zoomVars
  ELSE /\ isCommited' = TRUE
       /\ viewInZoom' = FALSE
       /\ invalidatedAt' = modelZoom
       /\ UNCHANGED modelZoom

\* onLayout calls commitZoom past the model, and invalidateScroll before it.
Relayout ==
  /\ viewInZoom' = FALSE
  /\ invalidatedAt' = modelZoom
  /\ fling' = NoFling
  /\ UNCHANGED <<modelZoom, isCommited, pinchVars, rollVars, touch, pointers, pinchCrashed>>
-----------------------------------------------------------------------------
(* Touch events of DocumentView; MultiTouchZoomImpl sees them first. *)

\* What isResetLastPointAfterZoom makes of lastX and lastY, before anything else.
ResetLastPoint ==
  /\ resetLastPoint' = FALSE
  /\ lastPoint' = IF resetLastPoint THEN First(pointers) ELSE lastPoint

\* The second tap of a double tap shows or hides the zoom controls.
ToggleZoomControls ==
  /\ IF rollView = "visible" THEN rollView' = "leaving" /\ UNCHANGED rollDirty
     ELSE rollView' = "visible" /\ rollDirty' = TRUE
  /\ UNCHANGED rollFling

\* ACTION_DOWN.
Down ==
  /\ touch = "none"
  /\ touch' = "document"
  /\ pointers' = {0}
  /\ resetLastPoint' = FALSE
  /\ lastPoint' = 0
  /\ fling' = NoFling
  /\ UNCHANGED rollVars \/ ToggleZoomControls
  /\ UNCHANGED <<zoomVars, pinch, cancelled, pinchCrashed>>

\* ACTION_POINTER_DOWN; a new finger gets the lowest free id.
PointerDown ==
  /\ touch = "document"
  /\ pointers # Pointer
  /\ pointers' = pointers \cup {First(Pointer \ pointers)}
  /\ pinch' = FirstTwo(pointers')
  /\ cancelled' = FALSE
  /\ UNCHANGED <<zoomVars, resetLastPoint, lastPoint, rollVars, touch, fling, pinchCrashed>>

\* Mutant: the end of the pinch is not committed.
PointerUp_NoCommit(p) ==
  /\ p \in pointers /\ pointers # {p}
  /\ pointers' = pointers \ {p}
  /\ pinch' = {}
  /\ resetLastPoint' = TRUE
  /\ cancelled' = FALSE
  /\ UNCHANGED <<zoomVars, lastPoint, rollVars, touch, fling, pinchCrashed>>

\* Mutant: the pinch ends when the last but one finger is lifted.
PointerUp_LastTwo(p) ==
  /\ p \in pointers /\ pointers # {p}
  /\ pointers' = pointers \ {p}
  /\ pinch' = IF Cardinality(pointers) = 2 THEN {} ELSE pinch
  /\ resetLastPoint' = TRUE
  /\ cancelled' = FALSE
  /\ Commit
  /\ UNCHANGED <<lastPoint, rollVars, touch, fling, pinchCrashed>>

\* ACTION_POINTER_UP: the pinch ends and is committed, even if two fingers stay.
PointerUp(p) ==
  /\ p \in pointers /\ pointers # {p}
  /\ pointers' = pointers \ {p}
  /\ pinch' = {}
  /\ resetLastPoint' = TRUE
  /\ cancelled' = FALSE
  /\ Commit
  /\ UNCHANGED <<lastPoint, rollVars, touch, fling, pinchCrashed>>

\* ACTION_MOVE while lastZoomDistance is not zero.  After a pinch that was
\* cancelled the event may be of one finger.
PinchMove(z) ==
  /\ touch = "document"
  /\ pinch # {}
  /\ IF Cardinality(pointers) < 2
     THEN pinchCrashed' = TRUE /\ UNCHANGED <<zoomVars, fling, pinch>>
     ELSE SetZoom(z) /\ pinch' = FirstTwo(pointers) /\ UNCHANGED pinchCrashed
  /\ UNCHANGED <<resetLastPoint, lastPoint, cancelled, rollVars, touch, pointers>>

\* ACTION_MOVE otherwise: scrollBy from the last position to this one.
ScrollMove ==
  /\ touch = "document"
  /\ pinch = {}
  /\ resetLastPoint' = FALSE
  /\ lastPoint' = First(pointers)
  /\ UNCHANGED <<zoomVars, pinch, cancelled, rollVars, touch, pointers, fling, pinchCrashed>>

\* ACTION_UP: the fling is limited by the document as large as it is now.
Up ==
  /\ touch = "document"
  /\ Cardinality(pointers) = 1
  /\ ResetLastPoint
  /\ touch' = "none"
  /\ pointers' = {}
  /\ fling' = modelZoom
  /\ UNCHANGED <<zoomVars, pinch, cancelled, rollVars, pinchCrashed>>

\* ACTION_CANCEL of the document: nobody handles it.
Cancel ==
  /\ touch = "document"
  /\ ResetLastPoint
  /\ touch' = "none"
  /\ pointers' = {}
  /\ cancelled' = (pinch # {})
  /\ UNCHANGED <<zoomVars, pinch, rollVars, fling, pinchCrashed>>

\* dispatchKeyEvent: a key of the pad starts a scroll from where the view is.
KeyScroll ==
  /\ fling' = modelZoom
  /\ UNCHANGED <<zoomVars, pinchVars, rollVars, touch, pointers, pinchCrashed>>

\* The document's fling comes to its end.
FlingEnds ==
  /\ fling # NoFling
  /\ fling' = NoFling
  /\ UNCHANGED <<zoomVars, pinchVars, rollVars, touch, pointers, pinchCrashed>>
-----------------------------------------------------------------------------
(* ZoomRoll. *)

\* ACTION_DOWN stops the roll's fling and commits what it reached.
RollDown ==
  /\ touch = "none"
  /\ rollView = "visible"
  /\ touch' = "roll"
  /\ IF rollFling THEN rollFling' = FALSE /\ Commit
     ELSE UNCHANGED <<zoomVars, rollFling>>
  /\ rollDirty' = TRUE
  /\ UNCHANGED <<pinchVars, rollView, pointers, fling, pinchCrashed>>

\* setCurrentValue, which clamps to MAX_VALUE also what a pinch has set.
RollMove(z) ==
  /\ touch = "roll"
  /\ z <= RollMax
  /\ SetZoom(z)
  /\ rollDirty' = TRUE
  /\ UNCHANGED <<pinchVars, rollView, rollFling, touch, pointers, pinchCrashed>>

\* Mutant: no redraw is asked for when the finger is lifted.
RollUp_NotDrawn ==
  /\ touch = "roll"
  /\ touch' = "none"
  /\ \/ rollFling' \in BOOLEAN /\ UNCHANGED zoomVars
     \/ rollFling' = FALSE /\ Commit
  /\ rollDirty' = FALSE
  /\ UNCHANGED <<pinchVars, rollView, pointers, fling, pinchCrashed>>

\* ACTION_UP: a fling, unless the scroller has nothing to do; or a commit.
RollUp ==
  /\ touch = "roll"
  /\ touch' = "none"
  /\ \/ rollFling' \in BOOLEAN /\ UNCHANGED zoomVars
     \/ rollFling' = FALSE /\ Commit
  /\ rollDirty' = TRUE
  /\ UNCHANGED <<pinchVars, rollView, pointers, fling, pinchCrashed>>

RollCancel ==
  /\ touch = "roll"
  /\ touch' = "none"
  /\ rollDirty' = TRUE
  /\ UNCHANGED <<zoomVars, pinchVars, rollView, rollFling, pointers, fling, pinchCrashed>>

\* computeScroll of a frame in which the roll's fling goes on, or ends.
RollFrame(z, goesOn) ==
  /\ rollView # "gone"
  /\ rollFling
  /\ z <= RollMax
  /\ SetZoom(z)
  /\ rollFling' = goesOn
  /\ rollDirty' = TRUE
  /\ UNCHANGED <<pinchVars, rollView, touch, pointers, pinchCrashed>>

\* computeScroll of any other frame.  The roll may be drawn because something
\* under it was.
RollRest ==
  /\ rollView # "gone"
  /\ ~rollFling
  /\ Commit
  /\ rollDirty' = FALSE
  /\ UNCHANGED <<pinchVars, rollView, rollFling, touch, pointers, fling, pinchCrashed>>

\* The animation with which the controls leave has ended: no more frames.
RollGone ==
  /\ rollView = "leaving"
  /\ rollView' = "gone"
  /\ UNCHANGED <<zoomVars, pinchVars, rollFling, rollDirty, touch, pointers, fling, pinchCrashed>>
-----------------------------------------------------------------------------
Touch ==
  \/ Down \/ PointerDown \/ ScrollMove \/ Up \/ Cancel
  \/ \E p \in Pointer : PointerUp(p)
  \/ \E z \in Zoom : PinchMove(z) \/ RollMove(z)
  \/ RollDown \/ RollUp \/ RollCancel

RollLastFrame == \E z \in Zoom : RollFrame(z, FALSE)

GestureNext ==
  /\ ~pinchCrashed
  /\ \/ Touch
     \/ \E z \in Zoom : RollFrame(z, TRUE)
     \/ RollLastFrame \/ RollRest \/ RollGone
     \/ KeyScroll \/ FlingEnds \/ Relayout

GestureSpec == GestureInit /\ [][GestureNext]_gestureVars

\* A fling lasts for a fixed time, and a view that was invalidated is drawn.
GestureFairSpec ==
  /\ GestureSpec
  /\ WF_gestureVars(~pinchCrashed /\ RollLastFrame)
  /\ WF_gestureVars(~pinchCrashed /\ rollDirty /\ RollRest)
-----------------------------------------------------------------------------
(* Properties *)

\* Type correctness of the zoom model, the gestures and the roll.
GestureTypeOK ==
  /\ modelZoom \in Zoom /\ invalidatedAt \in Zoom
  /\ fling \in Zoom \cup {NoFling}
  /\ touch \in {"none", "document", "roll"}
  /\ pointers \subseteq Pointer /\ pinch \subseteq Pointer
  /\ lastPoint \in Pointer \cup {NoPointer}
  /\ rollView \in {"visible", "leaving", "gone"}
  /\ {isCommited, viewInZoom, resetLastPoint, rollFling, rollDirty, cancelled, pinchCrashed}
       \subseteq BOOLEAN
  /\ touch = "document" <=> pointers # {}

\* While the view holds back its decodes the next commit, whoever makes it, ends
\* that: the model has not swallowed it.
ZoomWaitsForCommit == viewInZoom => ~isCommited

\* A zoom that counts as committed is the one the pages were invalidated at.
CommittedIsInvalidated == isCommited => invalidatedAt = modelZoom

\* No commit is swallowed that the view or the pages still need.
NoCommitSwallowed == ZoomWaitsForCommit /\ CommittedIsInvalidated

\* When no finger is down and the roll has neither a fling nor a frame to come,
\* the pages were invalidated at the present zoom, whichever of pinch, roll and
\* layout met which, and however many fingers took part.  Only a pinch that was
\* cancelled is never committed.
RestIsSharp ==
  touch = "none" /\ ~rollFling /\ ~rollDirty /\ ~cancelled => invalidatedAt = modelZoom

\* A distance is compared with that of the same two fingers, and never asked of
\* an event with one, unless a pinch was cancelled.
PinchComparesItsFingers ==
  /\ pinch # {} /\ ~cancelled =>
       Cardinality(pointers) >= 2 /\ pinch = FirstTwo(pointers)
  /\ pinchCrashed => cancelled

\* A move scrolls by the way of one finger, whatever fingers came and went: the
\* page does not jump after a pinch.
ScrollFollowsItsFinger ==
  touch = "document" /\ pinch = {} /\ ~resetLastPoint => lastPoint = First(pointers)

\* Fingers come and go in any order, and both gestures keep to theirs.
GesturesKeepFingers == PinchComparesItsFingers /\ ScrollFollowsItsFinger

\* A fling of the document, or a scroll by key, never runs on under another zoom
\* than the one whose coordinates and limits it started with: whatever changes
\* the zoom stops it first, or scrollTo would throw the reader to another page.
FlingWithinLimits == fling # NoFling => fling = modelZoom

\* When the fingers are lifted the zoom is committed in the end, unless another
\* gesture begins, the pinch was cancelled or the roll was hidden.
EveryZoomIsCommitted ==
  (touch = "none" /\ invalidatedAt # modelZoom)
    ~> (invalidatedAt = modelZoom \/ touch # "none" \/ cancelled \/ rollView # "visible")
=============================================================================
