------------------------------ MODULE PageTree ------------------------------
(***************************************************************************)
(* The tree of slices of one page (PageTreeNode.java) and the calls of     *)
(* DocumentView.java that drive it.                                        *)
(*                                                                         *)
(* Everything here runs on the UI thread, one event at a time; the decode  *)
(* service is the environment, and keeps to DecodeContract: requests are   *)
(* answered in order, and one that was withdrawn may be dropped or, when   *)
(* the withdrawal came too late, answered all the same.                    *)
(*                                                                         *)
(* A node is visible or not and a bitmap is the request that produced it;  *)
(* coordinates and pixels are left out.  The operators from StopDecoding   *)
(* to Invalidate are the methods of PageTreeNode, from the state before    *)
(* the call to the state after it; those that call themselves on the       *)
(* children are recursive functions on the nodes.                          *)
(***************************************************************************)
EXTENDS Integers, Sequences, FiniteSets, SequencesExt

CONSTANTS
  Root, Node,    \* the slices of the page; a leaf's children never exist
  Kids,          \* the sequence of the slices a node is divided into
  Level,         \* the largest zoom at which a node is below the threshold
  Zoom,          \* the zoom levels
  Views,         \* sets of nodes that intersect the view rectangle together
  MaxRequests,   \* bound: how many decode requests are made
  MaxHandler     \* bound: how many runnables wait in the UI thread's handler

\* A node is created by the parent that has it among its children, and no
\* division of a page goes on for ever.  A slice lies within its parent's: what
\* shows a node shows the node it is a part of.
ASSUME TreeAssumption ==
  /\ Root \in Node
  /\ IsFiniteSet(Node)
  /\ Kids \in [Node -> Seq(Node)]
  /\ \A p, q \in Node : \A i \in DOMAIN Kids[p], j \in DOMAIN Kids[q] :
       Kids[p][i] = Kids[q][j] => p = q /\ i = j
  /\ \A n \in Node : Root \notin Range(Kids[n])
  /\ \A S \in SUBSET Node :
       (\A n \in Node : Range(Kids[n]) \subseteq S => n \in S) => S = Node
  /\ \A S \in SUBSET Node :
       Root \in S /\ (\A n \in S : Range(Kids[n]) \subseteq S) => S = Node
  /\ Level \in [Node -> Nat]
  /\ Zoom \subseteq Nat /\ 1 \in Zoom
  /\ \A n \in Node, z \in Zoom : Kids[n] = <<>> => z <= Level[n]
  /\ Views \subseteq SUBSET Node
  /\ \A v \in Views, n \in Node : Range(Kids[n]) \cap v # {} => n \in v
  /\ MaxRequests \in Nat
  /\ MaxHandler \in Nat

None       == 0     \* no bitmap; a bitmap is the number of its request
Visibility == 0     \* the runnable that calls updatePageVisibility

VARIABLES
  s,            \* the tree, and what its methods read and write (see Init)
  line,         \* requests the service has still to answer, oldest first
  handler,      \* runnables posted to the UI thread: Visibility or an answer
  aspectKnown,  \* page.setAspectRatio has had the page's own size
  fresh         \* visibility was updated since the view or the zoom changed

vars == <<s, line, handler, aspectKnown, fresh>>

NewNode == [bitmap |-> None, weak |-> None, invalid |-> FALSE,
            decoding |-> FALSE, expanded |-> FALSE]

Slice == [bitmap : Nat, weak : Nat, invalid : BOOLEAN,
          decoding : BOOLEAN, expanded : BOOLEAN]

Request == [node : Node, zoom : Zoom]

\* What the record s may be, before and after each method.
State ==
  [tree : [Node -> Slice],
   view : SUBSET Node, zoom : Zoom, inZoom : BOOLEAN, made : Seq(Request),
   withdrawn : SUBSET Nat, orphan : SUBSET Nat, late : SUBSET Nat,
   recycled : SUBSET Nat, progress : Int]

\* s.made lists [node, zoom] of each request, s.orphan those whose node object
\* has been cut off the tree, s.recycled the bitmaps that were recycled.  s.late
\* is history: the requests whose answer a node got after it had withdrawn them.
Init ==
  /\ s \in [tree : {[n \in Node |-> NewNode]}, view : Views, zoom : {1},
            inZoom : {FALSE}, made : {<<>>}, withdrawn : {{}}, orphan : {{}},
            late : {{}}, recycled : {{}}, progress : {0}]
  /\ line = <<>>
  /\ handler = <<Visibility>>
  /\ aspectKnown = FALSE
  /\ fresh = FALSE
-----------------------------------------------------------------------------
(* The methods of PageTreeNode. *)

Visible(st, n)      == n \in st.view
ThresholdHit(st, n) == st.zoom > Level[n]
GetBitmap(st, n)    == st.tree[n].weak

\* The requests made by the present node object n.
Own(st, n) == {i \in DOMAIN st.made : st.made[i].node = n} \ st.orphan

Below[n \in Node] == UNION {{c} \cup Below[c] : c \in Range(Kids[n])}

\* for (PageTreeNode child : children): a method of each child of n, in turn.
OfKids(method, n) == [i \in DOMAIN Kids[n] |-> method[Kids[n][i]]]

ForEach(calls, st) ==
  LET run[i \in 0 .. Len(calls)] == IF i = 0 THEN st ELSE calls[i][run[i - 1]]
  IN run[Len(calls)]

StopDecoding(st, n) ==
  IF ~st.tree[n].decoding THEN st
  ELSE [st EXCEPT !.tree[n].decoding = FALSE,
                  !.progress = @ - 1,
                  !.withdrawn = @ \cup Own(st, n)]

Decode(st, n) ==
  IF st.tree[n].decoding THEN st
  ELSE [st EXCEPT !.tree[n].decoding = TRUE,
                  !.progress = @ + 1,
                  !.withdrawn = @ \cup Own(st, n),
                  !.made = Append(@, [node |-> n, zoom |-> st.zoom])]

\* Mutant: the soft reference is set only once.
SetBitmap_OldReference(st, n, b) ==
  LET old == st.tree[n].bitmap IN
  IF b = old THEN st
  ELSE IF b = None THEN [st EXCEPT !.tree[n].bitmap = None]
  ELSE [st EXCEPT !.tree[n].bitmap = b,
                  !.tree[n].weak = IF @ = None THEN b ELSE @,
                  !.recycled = @ \cup ({old} \ {None})]

SetBitmap(st, n, b) ==
  LET old == st.tree[n].bitmap IN
  IF b = old THEN st
  ELSE IF b = None THEN [st EXCEPT !.tree[n].bitmap = None]
  ELSE [st EXCEPT !.tree[n] = [@ EXCEPT !.bitmap = b, !.weak = b],
                  !.recycled = @ \cup ({old} \ {None})]

\* Mutant: recycle leaves the decode running.
RecycleNode_StillDecoding(st, n) == SetBitmap(st, n, None)

\* What recycle does to the node itself.
RecycleNode(st, n) == SetBitmap(StopDecoding(st, n), n, None)

Recycle[n \in Node] ==
  [st \in State |->
     LET st1 == RecycleNode(st, n) IN
     IF st1.tree[n].expanded THEN ForEach(OfKids(Recycle, n), st1) ELSE st1]

ChildrenContainBitmaps(st, n) == \E c \in Below[n] : GetBitmap(st, c) # None

\* children = null: the objects below n are cut off, and what is still on its
\* way to them no longer reaches the tree.
Detach(st, n) ==
  [st EXCEPT !.tree = [c \in Node |-> IF c \in Below[n] THEN NewNode ELSE @[c]],
             !.tree[n].expanded = FALSE,
             !.orphan = @ \cup UNION {Own(st, c) : c \in Below[n]}]

RecycleChildren(st, n) ==
  IF ~st.tree[n].expanded THEN st
  ELSE LET st1 == ForEach(OfKids(Recycle, n), st) IN
       IF ChildrenContainBitmaps(st1, n) THEN st1 ELSE Detach(st1, n)

InvalidateChildren(st, n) ==
  LET st1 == IF ThresholdHit(st, n) /\ Visible(st, n)
             THEN [st EXCEPT !.tree[n].expanded = TRUE] ELSE st
  IN IF \/ ~ThresholdHit(st, n) /\ GetBitmap(st, n) # None
        \/ ~Visible(st, n)
     THEN RecycleChildren(st1, n) ELSE st1

HiddenByChildren(st, n) ==
  /\ st.tree[n].expanded
  /\ \A c \in Range(Kids[n]) : GetBitmap(st, c) # None

\* Mutant: a node that is out of sight goes on being decoded.
Settle_StillDecoding(st, n) ==
  IF Visible(st, n) /\ ~HiddenByChildren(st, n) THEN st ELSE SetBitmap(st, n, None)

\* The end of updateVisibility: what is out of sight or hidden is given up.
Settle(st, n) ==
  IF Visible(st, n) /\ ~HiddenByChildren(st, n) THEN st
  ELSE SetBitmap(StopDecoding(st, n), n, None)

\* The middle of updateVisibility: a visible slice below the threshold gets its
\* bitmap back or is decoded.
Show(st, n) ==
  IF ~Visible(st, n) \/ ThresholdHit(st, n) THEN st
  ELSE IF GetBitmap(st, n) # None /\ ~st.tree[n].invalid
  THEN SetBitmap(st, n, GetBitmap(st, n))
  ELSE Decode(st, n)

UpdateVisibility[n \in Node] ==
  [st \in State |->
     LET st1 == InvalidateChildren(st, n)
         st2 == IF st1.tree[n].expanded
                THEN ForEach(OfKids(UpdateVisibility, n), st1) ELSE st1
     IN Settle(Show(st2, n), n)]

InvalidateRecursive[n \in Node] ==
  [st \in State |->
     LET st1 == [st EXCEPT !.tree[n].invalid = TRUE]
         st2 == IF st1.tree[n].expanded
                THEN ForEach(OfKids(InvalidateRecursive, n), st1) ELSE st1
     IN StopDecoding(st2, n)]

\* Mutant: the bitmaps are not marked as out of date.
Invalidate_NoFlag(st, n) == UpdateVisibility[n][InvalidateChildren(st, n)]

Invalidate(st, n) ==
  UpdateVisibility[n][InvalidateRecursive[n][InvalidateChildren(st, n)]]

\* Mutant: the bitmap of a withdrawn request is not used, the flags are cleared.
Receive_IgnoresLate(st, i, v) ==
  LET n   == st.made[i].node
      st1 == IF i \in st.withdrawn THEN st ELSE SetBitmap(st, n, i)
      st2 == [st1 EXCEPT !.tree[n].invalid = FALSE,
                         !.tree[n].decoding = FALSE,
                         !.progress = IF st.tree[n].decoding THEN @ - 1 ELSE @,
                         !.view = v]
  IN IF i \in st.orphan THEN [st EXCEPT !.view = v]
     ELSE InvalidateChildren([st2 EXCEPT !.late = @ \cup ({i} \cap st.withdrawn)], n)

\* The runnable of decodeComplete: setBitmap, both flags, setAspectRatio (which
\* may move the page in the view), invalidateChildren.
Receive(st, i, v) ==
  LET n   == st.made[i].node
      st1 == SetBitmap(st, n, i)
      st2 == [st1 EXCEPT !.tree[n].invalid = FALSE,
                         !.tree[n].decoding = FALSE,
                         !.progress = IF st.tree[n].decoding THEN @ - 1 ELSE @,
                         !.view = v]
  IN IF i \in st.orphan THEN [st EXCEPT !.view = v]
     ELSE InvalidateChildren([st2 EXCEPT !.late = @ \cup ({i} \cap st.withdrawn)], n)
-----------------------------------------------------------------------------
(* Events on the UI thread. *)

\* What the methods asked of the service goes to the end of its line.
Call(st) ==
  /\ Len(st.made) <= MaxRequests
  /\ s' = st
  /\ line' = line \o [i \in 1 .. Len(st.made) - Len(s.made) |-> Len(s.made) + i]

\* scrollTo, onScrollChanged: the update of the visibility is posted, but not
\* while a zoom is under way.
Scroll(v) ==
  /\ v # s.view
  /\ s' = [s EXCEPT !.view = v]
  /\ IF s.inZoom THEN UNCHANGED handler
     ELSE Len(handler) < MaxHandler /\ handler' = Append(handler, Visibility)
  /\ fresh' = FALSE
  /\ UNCHANGED <<line, aspectKnown>>

\* zoomChanged: the view follows the zoom, and visibility waits for the commit.
ZoomChanged(z, v) ==
  /\ z # s.zoom
  /\ s' = [s EXCEPT !.zoom = z, !.view = v, !.inZoom = TRUE]
  /\ fresh' = FALSE
  /\ UNCHANGED <<line, handler, aspectKnown>>

\* commitZoom, called by ZoomModel.commit and, after it moved the pages, by
\* onLayout.
CommitZoom(v) ==
  /\ Call([Invalidate([s EXCEPT !.view = v], Root) EXCEPT !.inZoom = FALSE])
  /\ fresh' = TRUE
  /\ UNCHANGED <<handler, aspectKnown>>

\* Another page of the document got its aspect ratio: this page moves in the
\* view, and nobody updates its visibility.
OtherPageMeasured(v) ==
  /\ v # s.view
  /\ s' = [s EXCEPT !.view = v]
  /\ fresh' = FALSE
  /\ UNCHANGED <<line, handler, aspectKnown>>

RunVisibility ==
  /\ handler # <<>>
  /\ Head(handler) = Visibility
  /\ handler' = Tail(handler)
  /\ Call(UpdateVisibility[Root][s])
  /\ fresh' = TRUE
  /\ UNCHANGED aspectKnown

RunAnswer(v) ==
  /\ handler # <<>>
  /\ Head(handler) # Visibility
  /\ aspectKnown => v = s.view
  /\ handler' = Tail(handler)
  /\ s' = Receive(s, Head(handler), v)
  /\ aspectKnown' = TRUE
  /\ fresh' = (fresh /\ v = s.view)
  /\ UNCHANGED line

\* The collector clears a SoftReference nobody backs with a strong one.
ClearReference(n) ==
  /\ GetBitmap(s, n) # None
  /\ s.tree[n].bitmap = None
  /\ s' = [s EXCEPT !.tree[n].weak = None]
  /\ UNCHANGED <<line, handler, aspectKnown, fresh>>
-----------------------------------------------------------------------------
(* The decode service. *)

Answer ==
  /\ line # <<>>
  /\ Len(handler) < MaxHandler
  /\ handler' = Append(handler, Head(line))
  /\ line' = Tail(line)
  /\ UNCHANGED <<s, aspectKnown, fresh>>

Drop(i) ==
  /\ i \in DOMAIN line
  /\ line[i] \in s.withdrawn
  /\ line' = RemoveAt(line, i)
  /\ UNCHANGED <<s, handler, aspectKnown, fresh>>

\* The codec throws: the service forgets the request and tells nobody.
Fail ==
  /\ line # <<>>
  /\ line' = Tail(line)
  /\ UNCHANGED <<s, handler, aspectKnown, fresh>>

Next ==
  \/ \E v \in Views :
       \/ Scroll(v) \/ CommitZoom(v) \/ OtherPageMeasured(v) \/ RunAnswer(v)
       \/ \E z \in Zoom : ZoomChanged(z, v)
  \/ RunVisibility
  \/ \E n \in Node : ClearReference(n)
  \/ Answer
  \/ Fail
  \/ \E i \in DOMAIN line : Drop(i)

Spec == Init /\ [][Next]_vars
-----------------------------------------------------------------------------
(* Properties *)

\* Type correctness of the tree and of the two queues.
TypeOK ==
  /\ s \in State
  /\ s.view \in Views
  /\ s.withdrawn \cup s.late \cup s.orphan \cup s.recycled \subseteq DOMAIN s.made
  /\ s.progress \in Nat
  /\ line \in Seq(DOMAIN s.made)
  /\ handler \in Seq(DOMAIN s.made \cup {Visibility})

\* The nodes that draw() reaches.
Attached(n) == \A p \in Node : n \in Below[p] => s.tree[p].expanded

\* The progress indicator counts the nodes of the tree that are being decoded:
\* no answer, late, repeated or sent to a node that was cut off, is counted
\* twice, and no node is cut off while it counts.
ProgressCountsDecoding ==
  s.progress = Cardinality({n \in Node : Attached(n) /\ s.tree[n].decoding})

\* draw() never gets a recycled bitmap from a node: the reference it follows is
\* renewed by every setBitmap that recycles what it pointed to.
DrawsNoRecycledBitmap ==
  \A n \in Node : GetBitmap(s, n) \notin s.recycled

\* Once visibility has been updated for the view as it is, only visible slices
\* are being decoded, whatever answers arrive in the meantime.
OnlyVisibleDecode ==
  fresh => \A n \in Node : s.tree[n].decoding => Visible(s, n)

\* Nothing is on its way that could still change the tree.
AtRest == fresh /\ ~s.inZoom /\ line = <<>> /\ handler = <<>>

Above(n) == {n} \cup {p \in Node : n \in Below[p]}

\* When all answers are in, no visible part of the page is left blank, except
\* where a decode threw, and there the node still counts as being decoded.
NothingBlankAtRest ==
  AtRest =>
    \A n \in Node : Kids[n] = <<>> /\ Visible(s, n) =>
      \E p \in Above(n) :
        Attached(p) /\ (GetBitmap(s, p) # None \/ s.tree[p].decoding)

\* ... and what a visible slice below the threshold keeps was decoded at the
\* present zoom, unless its decode threw or the node got a late answer, to a
\* request it had withdrawn: the callback does not tell such an answer from the
\* one the node waits for, and clears invalidateFlag and decodingNow all the same.
SharpAtRest ==
  AtRest =>
    \A n \in Node :
      /\ Attached(n) /\ Visible(s, n) /\ ~ThresholdHit(s, n)
      /\ s.tree[n].bitmap # None
      => \/ s.made[s.tree[n].bitmap].zoom = s.zoom
         \/ \E i \in s.late : s.made[i].node = n
         \/ s.tree[n].decoding
=============================================================================
