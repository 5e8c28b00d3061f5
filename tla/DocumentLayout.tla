--------------------------- MODULE DocumentLayout ---------------------------
(***************************************************************************)
(* Where DocumentView.java puts the pages of a document, where the reader  *)
(* is in it, and how BaseViewerActivity.java remembers that from one       *)
(* session to the next.                                                    *)
(*                                                                         *)
(* All of it runs on the UI thread; what happens later goes through the    *)
(* posted runnables.  Only the vertical direction is modelled.  Heights    *)
(* and tops are floats in the code: here they are counted in units of      *)
(* which there are U to a pixel, while the scroll is in whole pixels.      *)
(***************************************************************************)
EXTENDS Integers, Sequences

CONSTANTS
  MaxPages,    \* bound: pages of a document
  Ratios,      \* the heights of pages one pixel wide, in units
  Views,       \* the sizes of the view, records of w and h in pixels
  Zooms,       \* the zooms, 1 among them
  U,           \* units in a pixel
  Rank,        \* Rank[p]: when the iteration over the map of pages meets page p
  MaxPosted    \* bound: runnables posted before the reader moves again

ASSUME LayoutAssumption ==
  /\ MaxPages \in Nat \ {0} /\ MaxPosted \in Nat
  /\ U \in Nat \ {0}
  /\ Ratios \subseteq Nat \ {0} /\ Ratios # {}
  /\ Views \subseteq [w : Nat \ {0}, h : Nat \ {0}] /\ Views # {}
  /\ Zooms \subseteq Nat \ {0} /\ 1 \in Zooms
  /\ Rank \in [0 .. (MaxPages - 1) -> Nat]
  /\ \A p, q \in DOMAIN Rank : Rank[p] = Rank[q] => p = q

VARIABLES
  pageCount, size,      \* the document: its pages, and the true ratio of each
  isInitialized,
  aspect, tops,         \* Page.aspectRatio; Page.bounds, the last top is the end
  zoom, view, inZoom,
  scroll, viewRect,     \* getScrollY; DocumentView.viewRect
  shown,                \* the pages that the last visibility update found visible
  posted,               \* the runnables the main looper will run, oldest first
  currentPageIndex,     \* CurrentPageModel
  pageToGoTo,
  saved,                \* the page in the preferences of the document
  destroyed,            \* onDestroy has run, and decodeService is null
  crashed,              \* a null pointer ended the program
  moved,                \* a page was measured since the scroll last changed (history)
  asked,                \* the page gone to, if nothing moved since (history)
  leftAt,               \* the current page when the reader left at rest, until he is
                        \* back (history)
  noted                 \* the session, or the last one until the next has begun, saved
                        \* a change of the page (history)

document == <<pageCount, size>>
layout   == <<isInitialized, aspect, tops, zoom, view, inZoom>>
position == <<scroll, viewRect, shown, moved, asked>>
memory   == <<currentPageIndex, pageToGoTo, saved, leftAt, noted>>
vars == <<document, layout, position, memory, posted, destroyed, crashed>>

Pages  == 0 .. (pageCount - 1)
NoPage == MaxPages
NoRect == [top |-> 0, h |-> 0]

-----------------------------------------------------------------------------
(* Geometry *)

\* (int) of a float, and Math.round, of the fraction a / b.
Trunc(a, b) == IF a >= 0 THEN a \div b ELSE -((-a) \div b)
Round(a, b) == (2 * a + b) \div (2 * b)

\* The bounds invalidatePageSizes gives the pages.
Tops(a, v, z) ==
  LET t[p \in 0 .. pageCount] ==
        IF p = 0 THEN 0 ELSE t[p - 1] + v.w * a[p - 1] * z
  IN  t

BottomLimit(t, v) == Trunc(t[pageCount], U) - v.h

\* Mutant: nothing keeps the reader from the end of the document.
Clamp_TopOnly(y, t, v) == IF y < 0 THEN 0 ELSE y

\* What scrollTo makes of y: the limit of the bottom wins, even if it is negative.
Clamp(y, t, v) ==
  LET down == IF y < 0 THEN 0 ELSE y
  IN  IF down > BottomLimit(t, v) THEN BottomLimit(t, v) ELSE down

\* The pages that intersect the rectangle.
VisibleIn(r, t) ==
  {p \in Pages : r.top * U < t[p + 1] /\ t[p] < (r.top + r.h) * U}

\* getViewRect, which computes the rectangle only if there is none.
ViewRect == IF viewRect = NoRect THEN [top |-> scroll, h |-> view.h] ELSE viewRect

\* getCurrentPage: the first visible one in the order of the map, or 0.
FirstOf(ps) ==
  IF ps = {} THEN 0 ELSE CHOOSE p \in ps : \A q \in ps : Rank[p] <= Rank[q]

CurrentPage == FirstOf(VisibleIn(ViewRect, tops))
-----------------------------------------------------------------------------
(* Scrolling *)

\* Mutant: onScrollChanged does not ask for the current page during a zoom.
MoveTo_ZoomReturns(y, t, v, zooming) ==
  /\ scroll' = Clamp(y, t, v)
  /\ IF scroll' = scroll THEN UNCHANGED <<posted, moved>>
     ELSE /\ posted' = posted \o (IF zooming THEN <<>> ELSE <<"page", "visibility">>)
          /\ moved' = FALSE

\* The scroll within the limits, and onScrollChanged if that is another one.
MoveTo(y, t, v, zooming) ==
  /\ scroll' = Clamp(y, t, v)
  /\ IF scroll' = scroll THEN UNCHANGED <<posted, moved>>
     ELSE /\ posted' = Append(posted, "page") \o (IF zooming THEN <<>> ELSE <<"visibility">>)
          /\ moved' = FALSE

\* Mutant: the rectangle of the view is kept.
ScrollTo_KeepsRect(y, t, v, zooming) == MoveTo(y, t, v, zooming) /\ UNCHANGED viewRect

\* scrollTo.
ScrollTo(y, t, v, zooming) == MoveTo(y, t, v, zooming) /\ viewRect' = NoRect

Running == isInitialized /\ ~destroyed /\ ~crashed /\ Len(posted) <= MaxPosted

\* A drag, a fling or a key of the pad.
Scroll(y) ==
  /\ Running
  /\ ScrollTo(y, tops, view, inZoom)
  /\ asked' = NoPage
  /\ UNCHANGED <<document, layout, memory, shown, destroyed, crashed>>

\* Mutant: the page is looked for in the document as it was before the zoom.
GoToPage_Unzoomed(p) ==
  /\ Running
  /\ p \in Pages
  /\ ScrollTo(Round(tops[p], U * zoom), tops, view, inZoom)
  /\ asked' = p
  /\ UNCHANGED <<document, layout, memory, shown, destroyed, crashed>>

\* goToPage, which GoToPageDialog calls for a page of the document.
GoToPage(p) ==
  /\ Running
  /\ p \in Pages
  /\ ScrollTo(Round(tops[p], U), tops, view, inZoom)
  /\ asked' = p
  /\ UNCHANGED <<document, layout, memory, shown, destroyed, crashed>>

\* zoomChanged: the middle of the view stays where it was.
ZoomChanged(z) ==
  /\ Running
  /\ z # zoom
  /\ zoom' = z /\ inZoom' = TRUE
  /\ tops' = Tops(aspect, view, z)
  /\ LET half == view.h \div 2
     IN  ScrollTo(Trunc((scroll + half) * z - half * zoom, zoom), tops', view, TRUE)
  /\ asked' = NoPage
  /\ UNCHANGED <<document, isInitialized, aspect, view, memory, shown, destroyed, crashed>>

\* Mutant: the pages are not told which of them are visible.
CommitZoom_NotTold ==
  /\ Running
  /\ inZoom
  /\ inZoom' = FALSE
  /\ UNCHANGED <<document, isInitialized, aspect, tops, zoom, view, position, memory, posted,
                 destroyed, crashed>>

\* commitZoom updates the visibility of every page.
CommitZoom ==
  /\ Running
  /\ inZoom
  /\ inZoom' = FALSE
  /\ viewRect' = ViewRect
  /\ shown' = VisibleIn(viewRect', tops)
  /\ UNCHANGED <<document, isInitialized, aspect, tops, zoom, view, scroll, moved, asked,
                 memory, posted, destroyed, crashed>>

\* onLayout, for a view of another size: the scroll keeps its share of the width,
\* and the zoom is committed.  Before init there are no pages.
Layout(v) ==
  /\ Running
  /\ v # view
  /\ view' = v /\ inZoom' = FALSE
  /\ tops' = Tops(aspect, v, zoom)
  /\ MoveTo(Trunc(scroll * v.w, view.w), tops', v, inZoom)
  /\ asked' = NoPage
  /\ viewRect' = [top |-> scroll', h |-> v.h]
  /\ shown' = VisibleIn(viewRect', tops')
  /\ UNCHANGED <<document, isInitialized, aspect, zoom, memory, destroyed, crashed>>

\* setAspectRatio, when the first slice of a page was decoded: the pages after it
\* move under the reader, and nobody is told.
PageMeasured(p) ==
  /\ isInitialized /\ ~crashed
  /\ p \in Pages
  /\ aspect[p] # size[p]
  /\ aspect' = [aspect EXCEPT ![p] = size[p]]
  /\ tops' = Tops(aspect', view, zoom)
  /\ moved' = TRUE
  /\ UNCHANGED <<document, isInitialized, zoom, view, inZoom, scroll, viewRect, shown,
                 asked, memory, posted, destroyed, crashed>>
-----------------------------------------------------------------------------
(* What the main looper runs *)

\* The runnable of showDocument: init goes to the page remembered, which the
\* document may not have any more, and the visibility is updated.
RunInit ==
  /\ ~crashed
  /\ posted # <<>> /\ Head(posted) = "init"
  /\ isInitialized' = TRUE
  /\ tops' = Tops(aspect, view, zoom)
  /\ IF pageToGoTo \in Pages
     THEN /\ LET s == Clamp(Round(tops'[pageToGoTo], U), tops', view)
             IN  /\ scroll' = s
                 /\ posted' = IF s = 0 THEN <<>> ELSE <<"page", "visibility">>
                 /\ viewRect' = [top |-> s, h |-> view.h]
                 /\ shown' = VisibleIn(viewRect', tops')
          /\ asked' = pageToGoTo
          /\ UNCHANGED crashed
     ELSE /\ crashed' = TRUE
          /\ posted' = Tail(posted)
          /\ UNCHANGED <<scroll, viewRect, shown, asked>>
  /\ leftAt' = NoPage /\ noted' = FALSE
  /\ UNCHANGED <<document, aspect, zoom, view, inZoom, moved, currentPageIndex, pageToGoTo, saved,
                 destroyed>>

\* Mutant: the page is saved before it is known.
RunPage_SavesOld ==
  /\ ~crashed
  /\ posted # <<>> /\ Head(posted) = "page"
  /\ posted' = Tail(posted)
  /\ viewRect' = ViewRect
  /\ currentPageIndex' = CurrentPage
  /\ saved' = IF CurrentPage # currentPageIndex /\ ~destroyed THEN currentPageIndex ELSE saved
  /\ crashed' = (CurrentPage # currentPageIndex /\ destroyed)
  /\ noted' = (noted \/ (CurrentPage # currentPageIndex /\ ~destroyed))
  /\ UNCHANGED <<document, layout, scroll, shown, moved, asked, pageToGoTo, leftAt, destroyed>>

\* The current page is looked up when the runnable runs, and saved when it is
\* another one; after onDestroy there is no decodeService to ask for the count.
RunPage ==
  /\ ~crashed
  /\ posted # <<>> /\ Head(posted) = "page"
  /\ posted' = Tail(posted)
  /\ viewRect' = ViewRect
  /\ currentPageIndex' = CurrentPage
  /\ saved' = IF CurrentPage # currentPageIndex /\ ~destroyed THEN CurrentPage ELSE saved
  /\ crashed' = (CurrentPage # currentPageIndex /\ destroyed)
  /\ noted' = (noted \/ (CurrentPage # currentPageIndex /\ ~destroyed))
  /\ UNCHANGED <<document, layout, scroll, shown, moved, asked, pageToGoTo, leftAt, destroyed>>

\* updatePageVisibility.
RunVisibility ==
  /\ ~crashed
  /\ posted # <<>> /\ Head(posted) = "visibility"
  /\ posted' = Tail(posted)
  /\ viewRect' = ViewRect
  /\ shown' = VisibleIn(viewRect', tops)
  /\ UNCHANGED <<document, layout, scroll, moved, asked, memory, destroyed, crashed>>

\* draw asks every page whether it is visible.
Draw ==
  /\ isInitialized /\ ~crashed
  /\ viewRect' = ViewRect
  /\ UNCHANGED <<document, layout, scroll, shown, moved, asked, memory, posted, destroyed, crashed>>
-----------------------------------------------------------------------------
(* Sessions *)

\* onDestroy.
Destroy ==
  /\ isInitialized /\ ~destroyed /\ ~crashed
  /\ destroyed' = TRUE
  /\ leftAt' = IF posted = <<>> /\ ~moved THEN CurrentPage ELSE NoPage
  /\ UNCHANGED <<document, layout, position, currentPageIndex, pageToGoTo, saved, noted, posted,
                 crashed>>

\* The document is opened: onCreate takes the page from the preferences and posts
\* the runnable of showDocument, which finds the view laid out.
Session(count, sizes) ==
  /\ isInitialized' = FALSE
  /\ zoom' = 1 /\ inZoom' = FALSE
  /\ view' \in Views
  /\ aspect' = [p \in 0 .. (count - 1) |-> sizes[0]]
  /\ tops' = [p \in 0 .. count |-> 0]
  /\ scroll' = 0 /\ viewRect' = NoRect /\ shown' = {}
  /\ posted' = <<"init">>
  /\ currentPageIndex' = 0
  /\ pageToGoTo' = saved
  /\ destroyed' = FALSE /\ crashed' = FALSE
  /\ moved' = FALSE /\ asked' = NoPage
  /\ UNCHANGED <<saved, noted>>

Closed == crashed \/ (destroyed /\ posted = <<>>)

OpenAgain ==
  /\ Closed
  /\ Session(pageCount, size)
  /\ UNCHANGED <<document, leftAt>>

\* The file was replaced by another document since.
OpenReplaced(count) ==
  /\ Closed
  /\ pageCount' = count
  /\ size' \in [0 .. (count - 1) -> Ratios]
  /\ Session(count, size')
  /\ leftAt' = NoPage

Init ==
  /\ pageCount \in 1 .. MaxPages
  /\ size \in [Pages -> Ratios]
  /\ isInitialized = FALSE
  /\ zoom = 1 /\ inZoom = FALSE
  /\ view \in Views
  /\ aspect = [p \in Pages |-> size[0]]
  /\ tops = [p \in 0 .. pageCount |-> 0]
  /\ scroll = 0 /\ viewRect = NoRect /\ shown = {}
  /\ posted = <<"init">>
  /\ currentPageIndex = 0
  /\ pageToGoTo = 0 /\ saved = 0 /\ leftAt = NoPage /\ noted = FALSE
  /\ destroyed = FALSE /\ crashed = FALSE
  /\ moved = FALSE /\ asked = NoPage

Targets == 0 .. BottomLimit(tops, view)

Next ==
  \/ \E y \in Targets : Scroll(y)
  \/ \E p \in Pages : GoToPage(p) \/ PageMeasured(p)
  \/ \E z \in Zooms : ZoomChanged(z)
  \/ \E v \in Views : Layout(v)
  \/ CommitZoom \/ Draw
  \/ RunInit \/ RunPage \/ RunVisibility
  \/ Destroy \/ OpenAgain
  \/ \E n \in 1 .. MaxPages : OpenReplaced(n)

Spec == Init /\ [][Next]_vars
-----------------------------------------------------------------------------
(* Properties *)

\* Type correctness of the layout, the position and what is remembered of it.
TypeOK ==
  /\ pageCount \in 1 .. MaxPages /\ size \in [Pages -> Ratios]
  /\ aspect \in [Pages -> Ratios] /\ tops \in [0 .. pageCount -> Nat]
  /\ zoom \in Zooms /\ view \in Views
  /\ scroll \in Int
  /\ viewRect \in [top : Int, h : Nat]
  /\ shown \subseteq Pages
  /\ posted \in Seq({"init", "page", "visibility"})
  /\ {currentPageIndex, pageToGoTo, saved} \subseteq 0 .. (MaxPages - 1)
  /\ {asked, leftAt} \subseteq 0 .. MaxPages
  /\ {isInitialized, inZoom, destroyed, crashed, moved, noted} \subseteq BOOLEAN

\* The rectangle that decides what is drawn and decoded is that of the view as it
\* is scrolled and laid out now, whichever call computed it and when.
ViewRectIsFresh ==
  viewRect # NoRect => viewRect = [top |-> scroll, h |-> view.h]

\* The view never shows anything beyond the end of the document, nor before its
\* beginning unless it is shorter than the view, until a page is measured.
ScrollWithinLimits ==
  isInitialized /\ ~crashed /\ ~moved =>
    scroll <= BottomLimit(tops, view) /\ (scroll < 0 => scroll = BottomLimit(tops, view))

\* With no runnable to come that looks the page up, the page shown as the current
\* one is the first in sight, after any scrolls, zooms and layouts.
CurrentPageFollows ==
  isInitialized /\ ~crashed /\ ~moved /\ (\A i \in DOMAIN posted : posted[i] # "page") =>
    currentPageIndex = CurrentPage

\* With no update to come, and none put off by a zoom, the pages that were told
\* they are visible are those in sight.
VisibilityFollows ==
  isInitialized /\ ~crashed /\ ~moved /\ ~inZoom
    /\ (\A i \in DOMAIN posted : posted[i] # "visibility") =>
    shown = VisibleIn(ViewRect, tops)

\* The page the reader or the preferences asked for is in sight, and begins within
\* a pixel of the top of the view unless the document ends there.
AskedPageIsShown ==
  asked # NoPage /\ ~moved =>
    /\ asked \in VisibleIn(ViewRect, tops)
    /\ \/ scroll = BottomLimit(tops, view)
       \/ tops[asked] - U < scroll * U /\ scroll * U < tops[asked] + U

\* A reader who left at rest returns to the page he left.  The one exception is the
\* first page, when no change of the page was noticed in the session: CurrentPageModel
\* begins at page 0, so that nothing was saved, and the page of an earlier session
\* comes back.  A reader who came to the first page from another one returns to it.
LeftPageReturns ==
  ~destroyed /\ leftAt # NoPage /\ (leftAt # 0 \/ noted) => pageToGoTo = leftAt
=============================================================================
