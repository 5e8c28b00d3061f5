--------------------------- MODULE PagePoolProofs ---------------------------
(***************************************************************************)
(* Proofs about PagePool, for documents and pools of any size, with the    *)
(* reads of the UI thread at any moment.  The races of getPage may lose,   *)
(* repeat and strand entries, but the eviction queue cannot grow through   *)
(* them: each thread polls what it has offered too much before it offers   *)
(* again.  Nor do they give a page two indices (HandInv), or leave a page  *)
(* open and reachable after a sweep that no read disturbs (SweepInv).      *)
(*                                                                         *)
(* As long as no two calls of getPage have overlapped (Unraced), map and   *)
(* queue agree but for the one index in transit (AloneInv), and a page     *)
(* that is in hand and open is in the map (HandsInv).                      *)
(***************************************************************************)
EXTENDS PagePool, FiniteSetTheorems, SequenceTheorems, QueueLemmas, TLAPS

\* LinkedList.remove(Object) takes out at most one element and adds none.
LEMMA RemoveShortens ==
  ASSUME NEW S, NEW q \in Seq(S), NEW i
  PROVE  /\ RemoveFirst(q, i) \in Seq(S)
         /\ Len(RemoveFirst(q, i)) <= Len(q)
<1> DEFINE at == {p \in DOMAIN q : q[p] = i}
<1>0. DOMAIN q = 1 .. Len(q) /\ Len(q) \in Nat /\ \A p \in 1 .. Len(q) : q[p] \in S
  OBVIOUS
<1>1. CASE at = {}
  BY <1>1, <1>0 DEF RemoveFirst
<1>2. CASE at # {}
  <2> DEFINE first == CHOOSE p \in DOMAIN q :
                        q[p] = i /\ \A r \in DOMAIN q : q[r] = i => p <= r
             a == SubSeq(q, 1, first - 1)
             b == SubSeq(q, first + 1, Len(q))
  <2>1. at \in SUBSET Nat
    BY <1>0
  <2>2. \E p \in at : \A r \in at : p <= r
    BY <1>2, <2>1, SmallestExists
  <2>3. first \in DOMAIN q
    BY <2>2
  <2>4. RemoveFirst(q, i) = a \o b
    BY <1>2 DEF RemoveFirst
  <2> HIDE DEF first, at
  <2>5. first \in 1 .. Len(q)
    BY <2>3, <1>0
  <2>6. a \in Seq(S) /\ Len(a) = first - 1
    <3>1. first - 1 \in Int /\ 1 \in Int /\ \A p \in 1 .. (first - 1) : q[p] \in S
      BY <1>0, <2>5
    <3>2. /\ a \in Seq(S)
          /\ Len(a) = IF 1 <= first - 1 THEN (first - 1) - 1 + 1 ELSE 0
      BY <3>1, SubSeqProperties
    <3> QED BY <3>2, <2>5
  <2>7. b \in Seq(S) /\ Len(b) = Len(q) - first
    <3>1. /\ first + 1 \in Int /\ Len(q) \in Int
          /\ \A p \in (first + 1) .. Len(q) : q[p] \in S
      BY <1>0, <2>5
    <3>2. /\ b \in Seq(S)
          /\ Len(b) = IF first + 1 <= Len(q) THEN Len(q) - (first + 1) + 1 ELSE 0
      BY <3>1, SubSeqProperties
    <3>3. Len(q) \in Nat /\ first \in Nat /\ first <= Len(q)
      BY <2>5, <1>0
    <3>4. (IF first + 1 <= Len(q) THEN Len(q) - (first + 1) + 1 ELSE 0) = Len(q) - first
      BY <3>3
    <3> QED BY <3>2, <3>4
  <2> HIDE DEF a, b
  <2>8. a \o b \in Seq(S) /\ Len(a \o b) = Len(a) + Len(b)
    BY <2>6, <2>7, ConcatProperties
  <2> QED
    BY <2>4, <2>5, <2>6, <2>7, <2>8, <1>0
<1> QED BY <1>1, <1>2

\* How many of the two threads there are for which something is so.
LEMMA ThreadsAreCounted ==
  ASSUME NEW A \in SUBSET Thread
  PROVE  Cardinality(A) = (IF "worker" \in A THEN 1 ELSE 0) + (IF "ui" \in A THEN 1 ELSE 0)
<1>1. Cardinality({}) = 0 /\ IsFiniteSet({})
  BY FS_EmptySet
<1>2. /\ IsFiniteSet({"worker"}) /\ Cardinality({"worker"}) = 1
      /\ Cardinality({"ui"}) = 1
  BY FS_Singleton
<1>3. Cardinality({"worker"} \cup {"ui"}) = 2
  <2>1. "ui" \notin {"worker"}
    OBVIOUS
  <2>2. Cardinality({"worker"} \cup {"ui"}) = Cardinality({"worker"}) + 1
    BY <1>2, <2>1, FS_AddElement, Zenon
  <2> QED BY <1>2, <2>2
<1>4. CASE "worker" \in A /\ "ui" \in A
  <2>1. A = {"worker"} \cup {"ui"}
    BY <1>4 DEF Thread
  <2> QED BY <1>3, <1>4, <2>1
<1>5. CASE "worker" \in A /\ "ui" \notin A
  <2>1. A = {"worker"}
    BY <1>5 DEF Thread
  <2> QED BY <1>2, <1>5, <2>1
<1>6. CASE "worker" \notin A /\ "ui" \in A
  <2>1. A = {"ui"}
    BY <1>6 DEF Thread
  <2> QED BY <1>2, <1>6, <2>1
<1>7. CASE "worker" \notin A /\ "ui" \notin A
  <2>1. A = {}
    BY <1>7 DEF Thread
  <2> QED BY <1>1, <1>7, <2>1
<1> QED BY <1>4, <1>5, <1>6, <1>7
-----------------------------------------------------------------------------
LEMMA InitTypes == Init => TypeOK
<1> SUFFICES ASSUME Init PROVE TypeOK
  OBVIOUS
<1>1. <<>> \in Seq(PageIndex) /\ 0 \in PageIndex
  BY PoolAssumption DEF PageIndex
<1>2. /\ pages \in [PageIndex -> Handle \cup {None, Absent}]
      /\ evictionQueue \in Seq(PageIndex) /\ opened \in 0 .. MaxHandles /\ open \subseteq Handle
  BY <1>1, PoolAssumption DEF Init
<1>3. /\ pc \in [Thread -> Pc] /\ index \in [Thread -> PageIndex]
      /\ evicted \in [Thread -> PageIndex] /\ hand \in [Thread -> Handle \cup {None}]
      /\ using \in [Thread -> Handle \cup {None}]
  BY <1>1 DEF Init, Pc
<1> QED
  BY <1>1, <1>2, <1>3 DEF Init, TypeOK

\* No access to the pool, the references or the native pages leaves the types.
LEMMA StepTypes == TypeOK /\ [Next]_vars => TypeOK'
<1> SUFFICES ASSUME TypeOK, [Next]_vars PROVE TypeOK'
  OBVIOUS
<1> USE PoolAssumption DEF poolVars, nativeVars, workVars, InGetPage, Pc, Goto, Throw
<1>1. ASSUME NEW i \in PageIndex,
             Decode(i) \/ Measure(i) \/ RecyclePage(i) \/ ClearReference(i)
      PROVE  TypeOK'
  <2>1. CASE Decode(i) \/ Measure(i)
    <3>1. raced' \subseteq {"getPage", "sweep"}
      BY <2>1 DEF Decode, Measure, TypeOK
    <3>2. /\ UNCHANGED <<poolVars, nativeVars, toRecycle, modified, evicted, hand, using>>
          /\ decoding' \in PageIndex
      BY <2>1 DEF Decode, Measure, TypeOK
    <3>3. \E t \in Thread : index' = [index EXCEPT ![t] = i] /\ Goto(t, "contains")
      BY <2>1 DEF Decode, Measure, Thread
    <3> QED BY <3>1, <3>2, <3>3 DEF TypeOK
  <2>2. CASE RecyclePage(i) \/ ClearReference(i)
    BY <2>2 DEF RecyclePage, ClearReference, TypeOK, None
  <2> QED BY <1>1, <2>1, <2>2
<1>2. ASSUME NEW t \in Thread, GetPage(t) PROVE TypeOK'
  <2>1. CASE CheckContains(t) \/ CheckDeref(t) \/ CheckSize(t)
    BY <2>1 DEF CheckContains, CheckDeref, CheckSize, TypeOK, None
  <2>2. CASE Fill(t)
    <3>1. CASE opened' = opened + 1
      <4>1. opened \in Nat /\ opened' # opened
        BY <3>1 DEF TypeOK
      <4>2. /\ opened < MaxHandles /\ open' = open \cup {opened'}
            /\ pages' = [pages EXCEPT ![index[t]] = opened']
            /\ modified' = (modified \/ ~Contains(index[t]))
            /\ Goto(t, "requeue") /\ UNCHANGED hand
        BY <2>2, <4>1 DEF Fill
      <4>3. opened' \in Handle /\ opened' \in 0 .. MaxHandles /\ modified' \in BOOLEAN
        BY <3>1, <4>1, <4>2 DEF TypeOK, Handle
      <4> QED BY <2>2, <4>2, <4>3 DEF Fill, TypeOK
    <3>2. CASE Throw(t) /\ UNCHANGED <<opened, open, pages, modified>>
      BY <2>2, <3>2 DEF Fill, TypeOK, None
    <3> QED BY <2>2, <3>1, <3>2 DEF Fill
  <2>3. CASE Requeue(t)
    <3>1. RemoveFirst(evictionQueue, index[t]) \in Seq(PageIndex)
      BY RemoveShortens DEF TypeOK
    <3> QED BY <2>3, <3>1 DEF Requeue, TypeOK
  <2>4. CASE Offer(t)
    <3>1. Append(evictionQueue, index[t]) \in Seq(PageIndex)
      BY PutLast DEF TypeOK
    <3> QED BY <2>4, <3>1 DEF Offer, TypeOK
  <2>5. CASE Poll(t)
    <3>1. evictionQueue # <<>> =>
            Head(evictionQueue) \in PageIndex /\ Tail(evictionQueue) \in Seq(PageIndex)
      BY TakeFirst DEF TypeOK
    <3> QED BY <2>5, <3>1 DEF Poll, TypeOK, None
  <2>6. CASE Evict(t)
    BY <2>6 DEF Evict, TypeOK, None, Contains
  <2>7. CASE Lookup(t)
    <3>1. decoding + 1 < NumPages => decoding + 1 \in PageIndex
      BY DEF TypeOK, PageIndex
    <3>2. Contains(index[t]) => pages[index[t]] \in Handle \cup {None}
      BY DEF TypeOK, Contains
    <3>3. hand' \in [Thread -> Handle \cup {None}]
      BY <2>7, <3>2 DEF Lookup, TypeOK, None
    <3>4. index' \in [Thread -> PageIndex] /\ pc' \in [Thread -> Pc]
      BY <2>7, <3>1 DEF Lookup, TypeOK
    <3> QED BY <2>7, <3>3, <3>4 DEF Lookup, TypeOK
  <2> QED
    BY <1>2, <2>1, <2>2, <2>3, <2>4, <2>5, <2>6, <2>7 DEF GetPage
<1>3. ASSUME NEW t \in Thread, EnterNative(t) \/ LeaveNative(t) PROVE TypeOK'
  BY <1>3 DEF EnterNative, LeaveNative, TypeOK, None
<1>4. ASSUME BeginRecycle \/ RecycleThrows \/ RecycleDocument PROVE TypeOK'
  BY <1>4 DEF BeginRecycle, RecycleThrows, RecycleDocument, TypeOK, Thread
<1>5. ASSUME NEW h \in Handle, Finalize(h) PROVE TypeOK'
  BY <1>5 DEF Finalize, TypeOK
<1>6. CASE UNCHANGED vars
  BY <1>6 DEF vars, TypeOK
<1> QED
  BY <1>1, <1>2, <1>3, <1>4, <1>5, <1>6 DEF Next
-----------------------------------------------------------------------------
\* Has the thread offered an index without having looked at the size since?
Over(t) == IF pc[t] \in {"size", "poll"} THEN 1 ELSE 0

\* QueueBounded, with the threads counted one by one.
LEMMA QueueCount ==
  QueueBounded <=> Len(evictionQueue) <= PoolSize + (Over("worker") + Over("ui"))
<1> DEFINE A == {t \in Thread : pc[t] \in {"size", "poll"}}
<1>1. Cardinality(A) = (IF "worker" \in A THEN 1 ELSE 0) + (IF "ui" \in A THEN 1 ELSE 0)
  BY ThreadsAreCounted
<1> QED
  BY <1>1 DEF QueueBounded, Over, Thread

\* The same of the next state.
LEMMA QueueCountNext ==
  QueueBounded' <=> Len(evictionQueue') <= PoolSize + (Over("worker")' + Over("ui")')
<1> DEFINE A == {t \in Thread : pc'[t] \in {"size", "poll"}}
<1>1. Cardinality(A) = (IF "worker" \in A THEN 1 ELSE 0) + (IF "ui" \in A THEN 1 ELSE 0)
  BY ThreadsAreCounted
<1> QED
  BY <1>1 DEF QueueBounded, Over, Thread

\* A step of one thread leaves the other where it is.
LEMMA StepBounded == TypeOK /\ QueueBounded /\ [Next]_vars => QueueBounded'
<1> SUFFICES ASSUME TypeOK, QueueBounded, [Next]_vars PROVE QueueBounded'
  OBVIOUS
<1> USE PoolAssumption DEF poolVars, nativeVars, workVars
<1>0. /\ evictionQueue \in Seq(PageIndex) /\ Len(evictionQueue) \in Nat
      /\ pc \in [Thread -> Pc] /\ index \in [Thread -> PageIndex]
      /\ Len(evictionQueue) <= PoolSize + (Over("worker") + Over("ui"))
  BY QueueCount DEF TypeOK
<1>1. SUFFICES Len(evictionQueue') <= PoolSize + (Over("worker")' + Over("ui")')
  BY QueueCountNext
<1>2. ASSUME NEW t \in Thread, NEW l, Goto(t, l),
             Len(evictionQueue') \in Nat,
             \/ /\ pc[t] \notin {"size", "poll"} /\ l \notin {"size", "poll"}
                /\ Len(evictionQueue') <= Len(evictionQueue)
             \/ /\ pc[t] \notin {"size", "poll"} /\ l = "size"
                /\ Len(evictionQueue') <= Len(evictionQueue) + 1
             \/ /\ pc[t] \in {"size", "poll"} /\ l \in {"size", "poll"}
                /\ Len(evictionQueue') <= Len(evictionQueue)
             \/ /\ pc[t] \in {"size", "poll"}
                /\ \/ Len(evictionQueue') <= Len(evictionQueue) - 1
                   \/ Len(evictionQueue') <= PoolSize
      PROVE  Len(evictionQueue') <= PoolSize + (Over("worker")' + Over("ui")')
  BY <1>0, <1>2 DEF Goto, Over, Thread
<1>3. ASSUME NEW i \in PageIndex,
             Decode(i) \/ Measure(i) \/ RecyclePage(i) \/ ClearReference(i)
      PROVE  Len(evictionQueue') <= PoolSize + (Over("worker")' + Over("ui")')
  BY <1>0, <1>3 DEF Decode, Measure, RecyclePage, ClearReference, Goto, Over, Thread
<1>4. ASSUME NEW t \in Thread, GetPage(t)
      PROVE  Len(evictionQueue') <= PoolSize + (Over("worker")' + Over("ui")')
  <2>1. CASE CheckContains(t) \/ CheckDeref(t) \/ Fill(t) \/ Evict(t) \/ Lookup(t)
    <3>1. PICK l : Goto(t, l) /\ l \notin {"size", "poll"}
      BY <2>1 DEF CheckContains, CheckDeref, Fill, Evict, Lookup, Throw
    <3>2. pc[t] \notin {"size", "poll"} /\ evictionQueue' = evictionQueue
      BY <2>1 DEF CheckContains, CheckDeref, Fill, Evict, Lookup
    <3> QED BY <1>0, <1>2, <3>1, <3>2
  <2>2. CASE Requeue(t)
    <3>1. /\ Len(evictionQueue') <= Len(evictionQueue)
          /\ Len(evictionQueue') \in Nat
      BY <1>0, <2>2, RemoveShortens DEF Requeue
    <3> QED BY <1>2, <2>2, <3>1 DEF Requeue
  <2>3. CASE Offer(t)
    <3>1. index[t] \in PageIndex /\ evictionQueue' = Append(evictionQueue, index[t])
      BY <1>0, <2>3 DEF Offer
    <3>2. Len(evictionQueue') = Len(evictionQueue) + 1
      BY <1>0, <3>1, PutLast
    <3> QED BY <1>0, <1>2, <2>3, <3>2 DEF Offer
  <2>4. CASE CheckSize(t)
    <3>1. evictionQueue' = evictionQueue /\ pc[t] = "size"
      BY <2>4 DEF CheckSize
    <3>2. CASE Len(evictionQueue) > PoolSize
      <4>1. Goto(t, "poll")
        BY <2>4, <3>2 DEF CheckSize
      <4> QED BY <1>0, <1>2, <3>1, <4>1
    <3>3. CASE ~(Len(evictionQueue) > PoolSize)
      <4>1. Goto(t, "lookup")
        BY <2>4, <3>3 DEF CheckSize
      <4>2. Len(evictionQueue') <= PoolSize
        BY <1>0, <3>1, <3>3
      <4> QED BY <1>0, <1>2, <3>1, <4>1, <4>2
    <3> QED BY <3>2, <3>3
  <2>5. CASE Poll(t)
    <3>1. pc[t] = "poll"
      BY <2>5 DEF Poll
    <3>2. CASE evictionQueue = <<>>
      <4>1. PICK l : Goto(t, l) /\ l \notin {"size", "poll"}
        BY <2>5, <3>2 DEF Poll, Throw
      <4>2. evictionQueue' = <<>> /\ Len(evictionQueue') = 0
        BY <2>5, <3>2 DEF Poll
      <4> QED BY <1>0, <1>2, <3>1, <4>1, <4>2
    <3>3. CASE evictionQueue # <<>>
      <4>1. Goto(t, "evict") /\ evictionQueue' = Tail(evictionQueue)
        BY <2>5, <3>3 DEF Poll
      <4>2. Len(evictionQueue') = Len(evictionQueue) - 1 /\ Len(evictionQueue') \in Nat
        BY <1>0, <3>3, <4>1
      <4> QED BY <1>0, <1>2, <3>1, <4>1, <4>2
    <3> QED BY <3>2, <3>3
  <2> QED
    BY <1>4, <2>1, <2>2, <2>3, <2>4, <2>5 DEF GetPage
<1>5. ASSUME NEW t \in Thread, EnterNative(t) \/ LeaveNative(t)
      PROVE  Len(evictionQueue') <= PoolSize + (Over("worker")' + Over("ui")')
  <2>1. PICK l : Goto(t, l) /\ l \notin {"size", "poll"}
    BY <1>5 DEF EnterNative, LeaveNative, Throw
  <2>2. pc[t] \notin {"size", "poll"} /\ evictionQueue' = evictionQueue
    BY <1>5 DEF EnterNative, LeaveNative
  <2> QED BY <1>0, <1>2, <2>1, <2>2
<1>6. ASSUME BeginRecycle \/ RecycleThrows \/ RecycleDocument
      PROVE  Len(evictionQueue') <= PoolSize + (Over("worker")' + Over("ui")')
  BY <1>0, <1>6 DEF BeginRecycle, RecycleThrows, RecycleDocument, Goto, Over, Thread
<1>7. ASSUME NEW h \in Handle, Finalize(h)
      PROVE  Len(evictionQueue') <= PoolSize + (Over("worker")' + Over("ui")')
  BY <1>0, <1>7 DEF Finalize, Over
<1>8. CASE UNCHANGED vars
  BY <1>0, <1>8 DEF vars, Over
<1> QED
  BY <1>3, <1>4, <1>5, <1>6, <1>7, <1>8 DEF Next
-----------------------------------------------------------------------------
\* The pool, the native pages and the two threads keep their types.
THEOREM TypeCorrect == Spec => []TypeOK
BY InitTypes, StepTypes, PTL DEF Spec

\* Whatever the two threads do to each other in getPage, and however large the
\* document, pageEvictionQueue holds at most PAGE_POOL_SIZE + 2 indexes, and
\* PAGE_POOL_SIZE when neither thread is between offer and poll.
THEOREM QueueStaysBounded == Spec => []QueueBounded
<1>1. Init => QueueBounded
  <2>1. ASSUME Init PROVE Len(evictionQueue) <= PoolSize + (Over("worker") + Over("ui"))
    BY <2>1, PoolAssumption DEF Init, Over, Thread
  <2> QED BY <2>1, QueueCount
<1>2. TypeOK /\ QueueBounded /\ [Next]_vars => QueueBounded'
  BY StepBounded
<1> QED
  BY <1>1, <1>2, TypeCorrect, PTL DEF Spec
-----------------------------------------------------------------------------
(* The executor alone: map and queue in step. *)

Once(q)  == \A p, r \in DOMAIN q : q[p] = q[r] => p = r
Items(q) == {q[p] : p \in DOMAIN q}

\* What remove(Object) leaves of a list without repetitions.
LEMMA RemoveTakesOut ==
  ASSUME NEW S, NEW q \in Seq(S), NEW i, Once(q)
  PROVE  /\ Items(RemoveFirst(q, i)) = Items(q) \ {i}
         /\ Once(RemoveFirst(q, i))
<1>0. DOMAIN q = 1 .. Len(q) /\ Len(q) \in Nat /\ \A p \in 1 .. Len(q) : q[p] \in S
  OBVIOUS
<1>1. CASE \A p \in DOMAIN q : q[p] # i
  <2>1. RemoveFirst(q, i) = q
    BY <1>1 DEF RemoveFirst
  <2> QED BY <1>1, <2>1 DEF Items
<1>2. CASE \E p \in DOMAIN q : q[p] = i
  <2>1. PICK f \in DOMAIN q : q[f] = i
    BY <1>2
  <2>2. \A p \in DOMAIN q : q[p] = i => p = f
    BY <2>1 DEF Once
  <2> DEFINE first == CHOOSE p \in DOMAIN q :
                        q[p] = i /\ \A r \in DOMAIN q : q[r] = i => p <= r
             a == SubSeq(q, 1, f - 1)
             b == SubSeq(q, f + 1, Len(q))
  <2>3. first = f
    <3>1. f <= f
      BY <1>0
    <3>2. q[f] = i /\ \A r \in DOMAIN q : q[r] = i => f <= r
      BY <2>1, <2>2, <3>1
    <3> QED BY <2>2, <3>2
  <2>4. RemoveFirst(q, i) = a \o b
    BY <1>2, <2>3 DEF RemoveFirst
  <2>5. f \in 1 .. Len(q)
    BY <1>0
  <2>6. /\ a \in Seq(S) /\ Len(a) = f - 1
        /\ \A p \in 1 .. (f - 1) : a[p] = q[p]
    <3>1. f - 1 \in Int /\ 1 \in Int /\ \A p \in 1 .. (f - 1) : q[p] \in S
      BY <1>0, <2>5
    <3>2. /\ a \in Seq(S)
          /\ Len(a) = IF 1 <= f - 1 THEN (f - 1) - 1 + 1 ELSE 0
          /\ \A p \in 1 .. ((f - 1) - 1 + 1) : a[p] = q[1 + p - 1]
      BY <3>1, SubSeqProperties
    <3> QED BY <3>2, <2>5, <1>0
  <2>7. /\ b \in Seq(S) /\ Len(b) = Len(q) - f
        /\ \A p \in 1 .. (Len(q) - f) : b[p] = q[f + p]
    <3>1. /\ f + 1 \in Int /\ Len(q) \in Int
          /\ \A p \in (f + 1) .. Len(q) : q[p] \in S
      BY <1>0, <2>5
    <3>2. /\ b \in Seq(S)
          /\ Len(b) = IF f + 1 <= Len(q) THEN Len(q) - (f + 1) + 1 ELSE 0
          /\ \A p \in 1 .. (Len(q) - (f + 1) + 1) : b[p] = q[(f + 1) + p - 1]
      BY <3>1, SubSeqProperties
    <3>3. Len(q) \in Nat /\ f \in Nat /\ f <= Len(q)
      BY <2>5, <1>0
    <3> QED BY <3>2, <3>3
  <2> HIDE DEF a, b
  <2> DEFINE c == a \o b
  <2>8. /\ DOMAIN c = 1 .. (Len(q) - 1)
        /\ \A p \in DOMAIN c : c[p] = IF p < f THEN q[p] ELSE q[p + 1]
    <3>1. /\ Len(c) = Len(a) + Len(b) /\ c \in Seq(S)
          /\ \A p \in 1 .. (Len(a) + Len(b)) :
               c[p] = IF p <= Len(a) THEN a[p] ELSE b[p - Len(a)]
      BY <2>6, <2>7, ConcatProperties
    <3>2. Len(a) + Len(b) = Len(q) - 1 /\ f \in Nat /\ Len(q) \in Nat
      BY <1>0, <2>5, <2>6, <2>7
    <3>3. ASSUME NEW p \in 1 .. (Len(q) - 1)
          PROVE  c[p] = IF p < f THEN q[p] ELSE q[p + 1]
      <4>1. CASE p < f
        BY <1>0, <2>5, <2>6, <3>1, <3>2, <4>1
      <4>2. CASE ~(p < f)
        <5>1. p - (f - 1) \in 1 .. (Len(q) - f) /\ f + (p - (f - 1)) = p + 1
          BY <1>0, <2>5, <4>2
        <5>2. c[p] = b[p - (f - 1)]
          BY <1>0, <2>5, <2>6, <3>1, <3>2, <4>2
        <5> QED BY <2>7, <4>2, <5>1, <5>2
      <4> QED BY <4>1, <4>2
    <3> QED BY <3>1, <3>2, <3>3
  <2> HIDE DEF c
  <2>9. \A p \in DOMAIN c :
          \E r \in DOMAIN q : /\ c[p] = q[r] /\ r # f
                              /\ r = IF p < f THEN p ELSE p + 1
    BY <1>0, <2>5, <2>8
  <2>10. ASSUME NEW r \in DOMAIN q, r # f PROVE \E p \in DOMAIN c : c[p] = q[r]
    <3>1. CASE r < f
      <4>1. r \in DOMAIN c
        BY <1>0, <2>5, <2>8, <3>1
      <4> QED BY <2>8, <3>1, <4>1
    <3>2. CASE r > f
      <4>1. r - 1 \in DOMAIN c /\ ~(r - 1 < f) /\ (r - 1) + 1 = r
        BY <1>0, <2>5, <2>8, <3>2
      <4> QED BY <2>8, <4>1
    <3> QED BY <1>0, <2>5, <2>10, <3>1, <3>2
  <2>11. Items(c) = Items(q) \ {i}
    BY <2>1, <2>2, <2>9, <2>10 DEF Items
  <2>12. Once(c)
    <3> SUFFICES ASSUME NEW p \in DOMAIN c, NEW r \in DOMAIN c, c[p] = c[r] PROVE p = r
      BY DEF Once
    <3>1. (IF p < f THEN p ELSE p + 1) = (IF r < f THEN r ELSE r + 1)
      BY <2>9 DEF Once
    <3> QED BY <1>0, <2>5, <2>8, <3>1
  <2> QED BY <2>4, <2>11, <2>12 DEF c
<1> QED BY <1>1, <1>2

\* What offer and poll leave of one.
LEMMA OfferAdds ==
  ASSUME NEW S, NEW q \in Seq(S), NEW x \in S, Once(q), x \notin Items(q)
  PROVE  /\ Items(Append(q, x)) = Items(q) \cup {x}
         /\ Once(Append(q, x))
<1>1. \A p \in DOMAIN q : q[p] # x
  BY DEF Items
<1> QED
  BY <1>1, PutLast DEF Items, Once

LEMMA PollTakes ==
  ASSUME NEW S, NEW q \in Seq(S), q # <<>>, Once(q)
  PROVE  /\ Items(Tail(q)) = Items(q) \ {Head(q)}
         /\ Once(Tail(q))
         /\ Head(q) \in Items(q)
         /\ Len(q) > 1 => Head(q) # q[Len(q)]
<1>1. /\ DOMAIN q = 1 .. Len(q) /\ Len(q) \in Nat \ {0} /\ Head(q) = q[1]
      /\ DOMAIN Tail(q) = 1 .. (Len(q) - 1)
      /\ \A p \in DOMAIN Tail(q) : Tail(q)[p] = q[p + 1] /\ p + 1 \in DOMAIN q /\ p + 1 # 1
  BY TakeFirst
<1>2. \A r \in DOMAIN q : r # 1 => r - 1 \in DOMAIN Tail(q) /\ Tail(q)[r - 1] = q[r]
  BY <1>1
<1>3. Items(Tail(q)) = Items(q) \ {Head(q)}
  <2>1. \A r \in DOMAIN q : q[r] = q[1] => r = 1
    BY <1>1 DEF Once
  <2> QED BY <1>1, <1>2, <2>1 DEF Items
<1>4. Once(Tail(q))
  BY <1>1 DEF Once
<1>5. Head(q) \in Items(q) /\ (Len(q) > 1 => Head(q) # q[Len(q)])
  BY <1>1 DEF Items, Once
<1> QED BY <1>3, <1>4, <1>5
-----------------------------------------------------------------------------
(* One call of getPage at a time: map and queue in step. *)

\* The thread inside getPage, if there is one.
Turn   == IF pc["ui"] \in InGetPage THEN "ui" ELSE "worker"
At     == pc[Turn]
Asked  == index[Turn]
Polled == evicted[Turn]
Mapped == {i \in PageIndex : Contains(i)}

\* What the map has and the queue lacks in the middle of getPage: the page just
\* filled, or the one just polled.
Unqueued ==
  IF At \in {"requeue", "offer"} THEN {Asked} ELSE IF At = "evict" THEN {Polled} ELSE {}

OneAtATime == pc["ui"] \in InGetPage => pc["worker"] \notin InGetPage

InStep ==
  /\ Once(evictionQueue)
  /\ Mapped = Items(evictionQueue) \cup Unqueued
  /\ At \in {"offer", "evict"} => Items(evictionQueue) \cap Unqueued = {}

AskedIsMapped ==
  /\ At \in {"deref", "requeue", "offer", "size", "poll", "evict", "lookup"} => Contains(Asked)
  /\ At = "evict" => Polled # Asked

\* The page asked for is the last of the queue until its head is polled.
QueueFits ==
  /\ Len(evictionQueue) <= PoolSize + (IF At \in {"size", "poll"} THEN 1 ELSE 0)
  /\ At \in {"size", "poll"} => evictionQueue # <<>> /\ evictionQueue[Len(evictionQueue)] = Asked
  /\ At = "poll" => Len(evictionQueue) = PoolSize + 1

AloneInv == TypeOK /\ OneAtATime /\ InStep /\ AskedIsMapped /\ QueueFits

\* Calls that have overlapped stay in the history.
LEMMA StayRaced == [Next]_vars /\ Unraced' => Unraced
BY DEF Next, vars, Unraced, Decode, Measure, RecyclePage, ClearReference, GetPage,
   CheckContains, CheckDeref, Fill, Requeue, Offer, CheckSize, Poll, Evict, Lookup,
   EnterNative, LeaveNative, BeginRecycle, RecycleThrows, RecycleDocument, Finalize

LEMMA InitAlone == Init => AloneInv
<1> SUFFICES ASSUME Init PROVE AloneInv
  OBVIOUS
<1>1. TypeOK
  BY InitTypes
<1>2. At = "idle" /\ OneAtATime /\ evictionQueue = <<>> /\ Unqueued = {}
  BY DEF Init, At, Turn, OneAtATime, Unqueued, Thread, InGetPage
<1>3. Mapped = {} /\ Items(evictionQueue) = {} /\ Once(evictionQueue)
  BY <1>2 DEF Init, Mapped, Contains, Items, Once
<1> QED
  BY <1>1, <1>2, <1>3, PoolAssumption DEF AloneInv, InStep, AskedIsMapped, QueueFits

\* A step that leaves the queue and what the map knows alone, to a place where
\* nothing is half done.
LEMMA ElsewhereAlone ==
  ASSUME AloneInv, TypeOK', OneAtATime', UNCHANGED evictionQueue,
         \A i \in PageIndex : pages'[i] # Absent <=> pages[i] # Absent,
         Unqueued = {}, Unqueued' = {},
         At' \notin {"offer", "size", "poll", "evict"},
         Len(evictionQueue) <= PoolSize,
         At' \in {"deref", "requeue", "lookup"} => Contains(Asked)'
  PROVE  AloneInv'
<1>1. Mapped' = Mapped
  BY DEF Mapped, Contains
<1>2. InStep'
  BY <1>1 DEF AloneInv, InStep
<1>3. QueueFits'
  BY PoolAssumption DEF QueueFits
<1> QED
  BY <1>2, <1>3 DEF AloneInv, AskedIsMapped

\* A step outside getPage, of whichever thread.
LEMMA OutsideAlone ==
  ASSUME AloneInv, TypeOK', UNCHANGED <<evictionQueue, index, evicted>>,
         \A i \in PageIndex : pages'[i] # Absent <=> pages[i] # Absent,
         \A t \in Thread : \/ pc'[t] = pc[t]
                           \/ pc[t] \notin InGetPage /\ pc'[t] \notin InGetPage
  PROVE  AloneInv'
<1>1. OneAtATime' /\ Turn' = Turn
  BY DEF AloneInv, OneAtATime, Turn, Thread
<1>2. UNCHANGED <<Asked, Polled>>
  BY <1>1 DEF Asked, Polled
<1>3. At' = At \/ (At \notin InGetPage /\ At' \notin InGetPage)
  BY <1>1 DEF At, Turn, Thread
<1>4. CASE At' = At
  <2>1. Mapped' = Mapped /\ Unqueued' = Unqueued
    BY <1>2, <1>4 DEF Mapped, Contains, Unqueued
  <2>2. Contains(Asked)' = Contains(Asked)
    <3>1. Asked \in PageIndex
      BY DEF AloneInv, TypeOK, Asked, Turn, Thread
    <3> QED BY <1>2, <3>1 DEF Contains
  <2>3. InStep'
    BY <1>4, <2>1 DEF AloneInv, InStep
  <2>4. AskedIsMapped'
    BY <1>2, <1>4, <2>2 DEF AloneInv, AskedIsMapped
  <2>5. QueueFits'
    BY <1>2, <1>4 DEF AloneInv, QueueFits
  <2> QED BY <1>1, <2>3, <2>4, <2>5 DEF AloneInv
<1>5. CASE At \notin InGetPage /\ At' \notin InGetPage
  <2>1. Unqueued = {} /\ Unqueued' = {}
    BY <1>5 DEF Unqueued, InGetPage
  <2>2. Len(evictionQueue) <= PoolSize
    <3>1. Len(evictionQueue) \in Nat
      BY DEF AloneInv, TypeOK
    <3> QED BY <1>5, <3>1, PoolAssumption DEF AloneInv, QueueFits, InGetPage
  <2>3. At' \notin {"offer", "size", "poll", "evict", "deref", "requeue", "lookup"}
    BY <1>5 DEF InGetPage
  <2> QED BY <1>1, <2>1, <2>2, <2>3, ElsewhereAlone
<1> QED BY <1>3, <1>4, <1>5

LEMMA StepAlone == AloneInv /\ [Next]_vars /\ Unraced' => AloneInv'
<1> SUFFICES ASSUME AloneInv, [Next]_vars, Unraced' PROVE AloneInv'
  OBVIOUS
<1> USE PoolAssumption DEF poolVars, nativeVars, workVars
<1>t. TypeOK /\ TypeOK'
  BY StepTypes DEF AloneInv
<1>u. "worker" \in Thread /\ "ui" \in Thread /\ Turn \in Thread
  BY DEF Thread, Turn
<1>a. /\ evictionQueue \in Seq(PageIndex) /\ Len(evictionQueue) \in Nat
      /\ pc \in [Thread -> Pc] /\ index \in [Thread -> PageIndex]
      /\ evicted \in [Thread -> PageIndex]
      /\ pages \in [PageIndex -> Handle \cup {None, Absent}]
      /\ OneAtATime /\ Asked \in PageIndex
  BY <1>t, <1>u DEF TypeOK, AloneInv, Asked
<1>b. None # Absent /\ Absent \notin Handle
  BY DEF None, Absent, Handle
<1>c. At \notin {"size", "poll"} => Len(evictionQueue) <= PoolSize
  BY <1>a DEF AloneInv, QueueFits
<1>1. ASSUME NEW i \in PageIndex, Decode(i) PROVE AloneInv'
  <2>1. /\ pc["worker"] = "idle" /\ pc["ui"] \notin InGetPage
        /\ pc' = [pc EXCEPT !["worker"] = "contains"] /\ UNCHANGED <<pages, evictionQueue>>
    BY <1>1 DEF Decode, Goto, Unraced
  <2>2. At = "idle" /\ At' = "contains" /\ OneAtATime'
    BY <1>a, <1>u, <2>1 DEF At, Turn, OneAtATime
  <2> QED BY <1>t, <1>c, <2>1, <2>2, ElsewhereAlone DEF Unqueued
<1>2. ASSUME NEW i \in PageIndex, Measure(i) PROVE AloneInv'
  <2>1. /\ pc["ui"] = "idle" /\ pc["worker"] \notin InGetPage
        /\ pc' = [pc EXCEPT !["ui"] = "contains"] /\ UNCHANGED <<pages, evictionQueue>>
    BY <1>2 DEF Measure, Goto, Unraced
  <2>2. At \notin InGetPage /\ At' = "contains" /\ OneAtATime'
    BY <1>a, <1>u, <2>1 DEF At, Turn, OneAtATime, InGetPage
  <2>3. Unqueued = {} /\ Unqueued' = {} /\ Len(evictionQueue) <= PoolSize
    BY <1>c, <2>2 DEF Unqueued, InGetPage
  <2> QED BY <1>t, <2>1, <2>2, <2>3, ElsewhereAlone
<1>3. ASSUME NEW i \in PageIndex, RecyclePage(i) \/ ClearReference(i) PROVE AloneInv'
  <2>1. /\ UNCHANGED <<evictionQueue, index, evicted, pc>>
        /\ \A j \in PageIndex : pages'[j] # Absent <=> pages[j] # Absent
    BY <1>3, <1>a, <1>b DEF RecyclePage, ClearReference
  <2> QED BY <1>t, <2>1, OutsideAlone
<1>5. ASSUME NEW t \in Thread, GetPage(t) PROVE AloneInv'
  <2>0. t = Turn /\ At \in InGetPage /\ pc[t] = At /\ index[t] = Asked /\ evicted[t] = Polled
    <3>1. pc[t] \in InGetPage
      BY <1>5 DEF GetPage, CheckContains, CheckDeref, Fill, Requeue, Offer, CheckSize, Poll,
         Evict, Lookup, InGetPage
    <3>2. t = Turn
      BY <1>a, <3>1 DEF Thread, Turn, OneAtATime
    <3> QED BY <3>1, <3>2 DEF At, Asked, Polled
  <2>o. ASSUME NEW l \in InGetPage, Goto(t, l) PROVE At' = l /\ Turn' = t /\ OneAtATime'
    BY <1>a, <1>u, <2>0, <2>o DEF Goto, At, Turn, OneAtATime, Thread
  <2>x. ASSUME NEW l, l \notin InGetPage, Goto(t, l) PROVE At' \notin InGetPage /\ OneAtATime'
    BY <1>a, <1>u, <2>0, <2>x DEF Goto, At, Turn, OneAtATime, Thread
  \* A way out of getPage, with nothing half done.
  <2>y. ASSUME NEW l, l \notin InGetPage, Goto(t, l), UNCHANGED <<pages, evictionQueue>>,
               Unqueued = {}, At \notin {"size", "poll"}
        PROVE  AloneInv'
    <3>1. At' \notin InGetPage /\ OneAtATime'
      BY <2>x, <2>y
    <3>2. Unqueued' = {} /\ At' \notin {"offer", "size", "poll", "evict", "deref", "requeue",
                                       "lookup"}
      BY <3>1 DEF Unqueued, InGetPage
    <3> QED BY <1>t, <1>c, <2>y, <3>1, <3>2, ElsewhereAlone
  <2>z. "idle" \notin InGetPage /\ "crashed" \notin InGetPage /\ "native" \notin InGetPage
    BY DEF InGetPage
  <2>1. CASE CheckContains(t)
    <3>1. /\ At = "contains" /\ UNCHANGED <<pages, evictionQueue, index>>
          /\ Goto(t, IF Contains(Asked) THEN "deref" ELSE "fill")
      BY <2>0, <2>1 DEF CheckContains
    <3>2. /\ At' = (IF Contains(Asked) THEN "deref" ELSE "fill")
          /\ OneAtATime' /\ Asked' = Asked
      BY <2>0, <2>o, <3>1 DEF InGetPage, Asked
    <3>3. Contains(Asked)' = Contains(Asked)
      BY <3>1, <3>2 DEF Contains
    <3> QED BY <1>t, <1>c, <3>1, <3>2, <3>3, ElsewhereAlone DEF Unqueued
  <2>2. CASE CheckDeref(t)
    <3>1. /\ At = "deref" /\ UNCHANGED <<pages, evictionQueue, index>> /\ Contains(Asked)
      BY <2>0, <2>2 DEF CheckDeref, AloneInv, AskedIsMapped
    <3>2. PICK l \in {"fill", "lookup"} : Goto(t, l)
      BY <2>0, <2>2, <3>1 DEF CheckDeref
    <3>3. At' \in {"fill", "lookup"} /\ OneAtATime' /\ Asked' = Asked
      BY <2>0, <2>o, <3>1, <3>2 DEF InGetPage, Asked
    <3>4. Contains(Asked)' = Contains(Asked)
      BY <3>1, <3>3 DEF Contains
    <3> QED BY <1>t, <1>c, <3>1, <3>3, <3>4, ElsewhereAlone DEF Unqueued
  <2>3. CASE Fill(t)
    <3>1. At = "fill" /\ UNCHANGED <<evictionQueue, index>>
      BY <2>0, <2>3 DEF Fill
    <3>2. CASE /\ Goto(t, "requeue") /\ opened < MaxHandles
               /\ pages' = [pages EXCEPT ![index[t]] = opened']
               /\ opened' = opened + 1
      <4>1. pages' = [pages EXCEPT ![Asked] = opened + 1] /\ opened + 1 # Absent
        BY <1>t, <2>0, <3>2 DEF Absent, TypeOK
      <4>2. At' = "requeue" /\ OneAtATime' /\ Asked' = Asked
        BY <2>0, <2>o, <3>1, <3>2 DEF Asked, InGetPage
      <4>3. Mapped' = Mapped \cup {Asked} /\ Contains(Asked)'
        BY <1>a, <4>1, <4>2 DEF Mapped, Contains
      <4>4. Mapped = Items(evictionQueue) /\ Once(evictionQueue)
        BY <3>1 DEF AloneInv, InStep, Unqueued
      <4>5. Unqueued' = {Asked}
        BY <4>2 DEF Unqueued
      <4>6. InStep'
        BY <3>1, <4>2, <4>3, <4>4, <4>5 DEF InStep
      <4>7. QueueFits'
        BY <1>c, <3>1, <4>2 DEF QueueFits
      <4> QED BY <1>t, <4>2, <4>3, <4>6, <4>7 DEF AloneInv, AskedIsMapped
    <3>3. CASE Throw(t) /\ UNCHANGED pages
      <4>1. PICK l \in {"idle", "crashed"} : Goto(t, l)
        BY <3>3 DEF Throw
      <4>2. Unqueued = {}
        BY <3>1 DEF Unqueued
      <4> QED BY <2>y, <2>z, <3>1, <3>3, <4>1, <4>2
    <3> QED BY <2>3, <3>2, <3>3 DEF Fill
  <2>4. CASE Requeue(t)
    <3>1. /\ At = "requeue" /\ Goto(t, "offer")
          /\ evictionQueue' = RemoveFirst(evictionQueue, Asked)
          /\ UNCHANGED <<pages, index>>
      BY <2>0, <2>4 DEF Requeue
    <3>2. At' = "offer" /\ OneAtATime' /\ Asked' = Asked
      BY <2>0, <2>o, <3>1 DEF Asked, InGetPage
    <3>3. /\ Once(evictionQueue) /\ Contains(Asked)
          /\ Mapped = Items(evictionQueue) \cup {Asked}
      BY <3>1 DEF AloneInv, InStep, Unqueued, AskedIsMapped
    <3>4. /\ Items(evictionQueue') = Items(evictionQueue) \ {Asked}
          /\ Once(evictionQueue')
          /\ Len(evictionQueue') <= Len(evictionQueue) /\ Len(evictionQueue') \in Nat
      BY <1>a, <3>1, <3>3, RemoveTakesOut, RemoveShortens
    <3>5. Unqueued' = {Asked} /\ Mapped' = Mapped /\ Contains(Asked)'
      BY <3>1, <3>2, <3>3 DEF Unqueued, Mapped, Contains
    <3>6. Items(evictionQueue)' = Items(evictionQueue') /\ Once(evictionQueue)' = Once(evictionQueue')
      BY DEF Items, Once
    <3>7. InStep'
      BY <3>2, <3>3, <3>4, <3>5, <3>6 DEF InStep
    <3>8. QueueFits'
      BY <1>a, <1>c, <3>1, <3>2, <3>4 DEF QueueFits
    <3> QED BY <1>t, <3>2, <3>5, <3>7, <3>8 DEF AloneInv, AskedIsMapped
  <2>5. CASE Offer(t)
    <3>1. /\ At = "offer" /\ Goto(t, "size")
          /\ evictionQueue' = Append(evictionQueue, Asked)
          /\ UNCHANGED <<pages, index>>
      BY <2>0, <2>5 DEF Offer
    <3>2. At' = "size" /\ OneAtATime' /\ Asked' = Asked
      BY <2>0, <2>o, <3>1 DEF Asked, InGetPage
    <3>3. /\ Once(evictionQueue) /\ Contains(Asked) /\ Asked \notin Items(evictionQueue)
          /\ Mapped = Items(evictionQueue) \cup {Asked}
      BY <3>1 DEF AloneInv, InStep, Unqueued, AskedIsMapped
    <3>4. /\ Items(evictionQueue') = Items(evictionQueue) \cup {Asked}
          /\ Once(evictionQueue')
          /\ Len(evictionQueue') = Len(evictionQueue) + 1
          /\ evictionQueue'[Len(evictionQueue')] = Asked
      BY <1>a, <3>1, <3>3, OfferAdds, PutLast
    <3>5. Unqueued' = {} /\ Mapped' = Mapped /\ Contains(Asked)'
      BY <3>1, <3>2, <3>3 DEF Unqueued, Mapped, Contains
    <3>6. Items(evictionQueue)' = Items(evictionQueue') /\ Once(evictionQueue)' = Once(evictionQueue')
      BY DEF Items, Once
    <3>7. InStep'
      BY <3>2, <3>3, <3>4, <3>5, <3>6 DEF InStep
    <3>8. QueueFits'
      <4>1. evictionQueue' # <<>>
        BY <1>a, <3>1
      <4> QED BY <1>a, <1>c, <3>1, <3>2, <3>4, <4>1 DEF QueueFits
    <3> QED BY <1>t, <3>2, <3>5, <3>7, <3>8 DEF AloneInv, AskedIsMapped
  <2>6. CASE CheckSize(t)
    <3>1. /\ At = "size" /\ UNCHANGED <<pages, evictionQueue, index>>
          /\ Goto(t, IF Len(evictionQueue) > PoolSize THEN "poll" ELSE "lookup")
      BY <2>0, <2>6 DEF CheckSize
    <3>2. /\ At' = (IF Len(evictionQueue) > PoolSize THEN "poll" ELSE "lookup")
          /\ OneAtATime' /\ Asked' = Asked
      BY <2>0, <2>o, <3>1 DEF InGetPage, Asked
    <3>3. Unqueued = {} /\ Unqueued' = {}
      BY <3>1, <3>2 DEF Unqueued
    <3>4. Contains(Asked) /\ Contains(Asked)' /\ Mapped' = Mapped
      BY <3>1, <3>2 DEF AloneInv, AskedIsMapped, Contains, Mapped
    <3>5. /\ Len(evictionQueue) <= PoolSize + 1 /\ evictionQueue # <<>>
          /\ evictionQueue[Len(evictionQueue)] = Asked
      BY <3>1 DEF AloneInv, QueueFits
    <3>6. InStep'
      BY <3>1, <3>2, <3>3, <3>4 DEF AloneInv, InStep
    <3>7. QueueFits'
      <4>1. CASE Len(evictionQueue) > PoolSize
        <5>1. At' = "poll"
          BY <3>2, <4>1
        <5> QED BY <1>a, <3>1, <3>2, <3>5, <4>1, <5>1 DEF QueueFits
      <4>2. CASE ~(Len(evictionQueue) > PoolSize)
        <5>1. At' = "lookup"
          BY <3>2, <4>2
        <5> QED BY <1>a, <3>1, <4>2, <5>1 DEF QueueFits
      <4> QED BY <4>1, <4>2
    <3> QED BY <1>t, <3>2, <3>4, <3>6, <3>7 DEF AloneInv, AskedIsMapped
  <2>7. CASE Poll(t)
    <3>1. /\ At = "poll" /\ UNCHANGED <<pages, index>>
          /\ evictionQueue # <<>> /\ Len(evictionQueue) = PoolSize + 1
          /\ evictionQueue[Len(evictionQueue)] = Asked /\ Contains(Asked)
          /\ Once(evictionQueue) /\ Mapped = Items(evictionQueue)
      BY <2>0, <2>7 DEF Poll, AloneInv, QueueFits, InStep, Unqueued, AskedIsMapped
    <3>2. /\ Goto(t, "evict") /\ evictionQueue' = Tail(evictionQueue)
          /\ evicted' = [evicted EXCEPT ![t] = Head(evictionQueue)]
      BY <2>7, <3>1 DEF Poll
    <3>3. At' = "evict" /\ OneAtATime' /\ Asked' = Asked /\ Turn' = t
      BY <2>0, <2>o, <3>1, <3>2 DEF Asked, InGetPage
    <3>4. /\ Items(evictionQueue') = Items(evictionQueue) \ {Head(evictionQueue)}
          /\ Once(evictionQueue') /\ Head(evictionQueue) \in Items(evictionQueue)
          /\ Head(evictionQueue) # Asked
      BY <1>a, <3>1, <3>2, PollTakes
    <3>5. Polled' = Head(evictionQueue)
      BY <1>a, <3>2, <3>3 DEF Polled
    <3>6. Unqueued' = {Head(evictionQueue)} /\ Mapped' = Mapped /\ Contains(Asked)'
      BY <3>1, <3>3, <3>5 DEF Unqueued, Mapped, Contains
    <3>7. Items(evictionQueue)' = Items(evictionQueue') /\ Once(evictionQueue)' = Once(evictionQueue')
      BY DEF Items, Once
    <3>8. InStep'
      BY <3>1, <3>3, <3>4, <3>6, <3>7 DEF InStep
    <3>9. QueueFits'
      <4>1. Len(evictionQueue') = PoolSize
        BY <1>a, <3>1, <3>2
      <4> QED BY <3>3, <4>1 DEF QueueFits
    <3> QED BY <1>t, <3>3, <3>4, <3>5, <3>6, <3>8, <3>9 DEF AloneInv, AskedIsMapped
  <2>8. CASE Evict(t)
    <3>1. /\ At = "evict" /\ UNCHANGED <<evictionQueue, index>>
          /\ pages' = [pages EXCEPT ![Polled] = Absent]
          /\ Polled \in PageIndex /\ Polled # Asked /\ Contains(Asked) /\ Once(evictionQueue)
          /\ Mapped = Items(evictionQueue) \cup {Polled} /\ Polled \notin Items(evictionQueue)
      BY <1>a, <2>0, <2>8 DEF Evict, AloneInv, InStep, Unqueued, AskedIsMapped
    <3>2. Contains(Polled)
      BY <3>1 DEF Mapped
    <3>3. Goto(t, "lookup")
      BY <2>0, <2>8, <3>2 DEF Evict
    <3>4. At' = "lookup" /\ OneAtATime' /\ Asked' = Asked
      BY <2>0, <2>o, <3>1, <3>3 DEF Asked, InGetPage
    <3>5. Mapped' = Items(evictionQueue) /\ Contains(Asked)' /\ Unqueued' = {}
      <4>1. Mapped' = Mapped \ {Polled}
        BY <1>a, <3>1 DEF Mapped, Contains
      <4>2. Contains(Asked)'
        BY <1>a, <3>1, <3>4 DEF Contains
      <4>3. Unqueued' = {}
        BY <3>4 DEF Unqueued
      <4> QED BY <3>1, <4>1, <4>2, <4>3
    <3>6. InStep'
      BY <3>1, <3>4, <3>5 DEF InStep, Items, Once
    <3>7. QueueFits'
      BY <1>c, <3>1, <3>4 DEF QueueFits
    <3> QED BY <1>t, <3>4, <3>5, <3>6, <3>7 DEF AloneInv, AskedIsMapped
  <2>9. CASE Lookup(t)
    <3>1. At = "lookup" /\ UNCHANGED <<pages, evictionQueue>> /\ Unqueued = {}
      BY <2>0, <2>9 DEF Lookup, Unqueued
    <3>2. PICK l \in {"idle", "crashed", "native", "contains"} : Goto(t, l)
      BY <2>9 DEF Lookup, Throw
    <3>3. CASE l = "contains"
      <4>1. At' = "contains" /\ OneAtATime'
        BY <2>o, <3>2, <3>3 DEF InGetPage
      <4> QED BY <1>t, <1>c, <3>1, <4>1, ElsewhereAlone DEF Unqueued
    <3> QED BY <2>y, <2>z, <3>1, <3>2, <3>3
  <2> QED
    BY <1>5, <2>1, <2>2, <2>3, <2>4, <2>5, <2>6, <2>7, <2>8, <2>9 DEF GetPage
<1>6. ASSUME NEW t \in Thread, EnterNative(t) \/ LeaveNative(t) PROVE AloneInv'
  <2>1. /\ pc[t] \notin InGetPage /\ UNCHANGED <<pages, evictionQueue, index, evicted>>
        /\ \E l \in {"inNative", "idle", "crashed"} : Goto(t, l)
    BY <1>6 DEF EnterNative, LeaveNative, Throw, InGetPage
  <2>2. \A r \in Thread : \/ pc'[r] = pc[r]
                          \/ pc[r] \notin InGetPage /\ pc'[r] \notin InGetPage
    BY <1>a, <2>1 DEF Goto, InGetPage
  <2> QED BY <1>t, <2>1, <2>2, OutsideAlone
<1>7. ASSUME BeginRecycle \/ RecycleThrows \/ RecycleDocument PROVE AloneInv'
  <2>1. /\ pc["worker"] \notin InGetPage /\ UNCHANGED <<pages, evictionQueue, index, evicted>>
        /\ \E l \in {"recycle", "done"} : Goto("worker", l)
    BY <1>7 DEF BeginRecycle, RecycleThrows, RecycleDocument, InGetPage
  <2>2. \A r \in Thread : \/ pc'[r] = pc[r]
                          \/ pc[r] \notin InGetPage /\ pc'[r] \notin InGetPage
    BY <1>a, <2>1 DEF Goto, InGetPage
  <2> QED BY <1>t, <2>1, <2>2, OutsideAlone
<1>8. ASSUME (\E h \in Handle : Finalize(h)) \/ UNCHANGED vars PROVE AloneInv'
  <2>1. UNCHANGED <<pages, evictionQueue, pc, index, evicted>>
    BY <1>8 DEF Finalize, vars
  <2> QED BY <1>t, <2>1, OutsideAlone
<1> QED
  BY <1>1, <1>2, <1>3, <1>5, <1>6, <1>7, <1>8 DEF Next

LEMMA AloneUntilRaced == Spec => [](Unraced => AloneInv)
<1>1. Init => (Unraced => AloneInv)
  BY InitAlone
<1>2. (Unraced => AloneInv) /\ [Next]_vars => (Unraced => AloneInv)'
  BY StepAlone, StayRaced
<1> QED
  BY <1>1, <1>2, PTL DEF Spec

\* Until two calls of getPage overlap, whichever threads make them and in which
\* order, map and queue tell of the same pages, each once, and getPage never
\* dereferences an entry that is not there, for any number of pages, any pool and
\* whatever the collector clears.
THEOREM PoolStaysConsistent == Spec => []PoolConsistent
<1>1. (Unraced => AloneInv) => PoolConsistent
  <2> SUFFICES ASSUME AloneInv PROVE MapMatchesQueue /\ NoMissingEntry
    BY DEF PoolConsistent
  <2>1. ASSUME NEW t \in Thread, pc[t] \in InGetPage PROVE t = Turn
    BY <2>1 DEF AloneInv, OneAtATime, Turn, Thread
  <2>2. NoMissingEntry
    <3> SUFFICES ASSUME NEW t \in Thread
                 PROVE  /\ pc[t] \in {"deref", "lookup"} => Contains(index[t])
                        /\ pc[t] = "evict" => Contains(evicted[t])
      BY DEF NoMissingEntry
    <3>1. At = "evict" => Polled \in Mapped
      BY DEF AloneInv, InStep, Unqueued
    <3> QED BY <2>1, <3>1 DEF AloneInv, AskedIsMapped, At, Asked, Polled, Mapped, InGetPage
  <2>3. ASSUME At \notin InGetPage
        PROVE  /\ Len(evictionQueue) <= PoolSize /\ Once(evictionQueue)
               /\ Mapped = Items(evictionQueue)
    BY <2>3, PoolAssumption DEF AloneInv, QueueFits, InStep, Unqueued, InGetPage
  <2>4. (\A t \in Thread : pc[t] \notin InGetPage) => At \notin InGetPage
    BY DEF At, Turn, Thread
  <2> QED
    BY <2>2, <2>3, <2>4 DEF MapMatchesQueue, Mapped, Once, Items
<1> QED
  BY <1>1, AloneUntilRaced, PTL
-----------------------------------------------------------------------------
(* Which page goes by which index, in every race of the two threads. *)

\* A native page gets a number of its own, and goes by one index.
HandlesDiffer ==
  /\ \A i \in PageIndex : pages[i] \in Handle => pages[i] <= opened
  /\ \A t \in Thread : hand[t] <= opened
  /\ \A i, j \in PageIndex : pages[i] \in Handle /\ pages[i] = pages[j] => i = j

\* The page in the worker's hand is that of its task, and was got first.
HandIsDecoding ==
  /\ \A i \in PageIndex : hand["worker"] \in Handle /\ pages[i] = hand["worker"] => i = decoding
  /\ pc["worker"] \in InGetPage /\ ~Preloading("worker") => hand["worker"] = None

\* A thread that does nothing holds nothing.
RestIsEmpty ==
  \A t \in Thread : pc[t] \in {"idle", "crashed", "recycle", "done"} => hand[t] = None

HandInv == HandlesDiffer /\ HandIsDecoding /\ RestIsEmpty

LEMMA InitHand == Init => HandInv
<1> SUFFICES ASSUME Init PROVE HandInv
  OBVIOUS
<1>1. /\ \A t \in Thread : hand[t] = None /\ pc[t] = "idle"
      /\ opened = 0 /\ \A i \in PageIndex : pages[i] \notin Handle
  BY PoolAssumption DEF Init, Absent, Handle
<1> QED
  BY <1>1 DEF HandInv, HandlesDiffer, HandIsDecoding, RestIsEmpty, None, Handle, InGetPage,
     Thread

LEMMA StepHand == TypeOK /\ HandInv /\ [Next]_vars => HandInv'
<1> SUFFICES ASSUME TypeOK, HandInv, [Next]_vars PROVE HandInv'
  OBVIOUS
<1> USE PoolAssumption DEF poolVars, nativeVars, workVars
<1>u. "worker" \in Thread /\ "ui" \in Thread /\ "worker" # "ui"
  BY DEF Thread
<1>a. /\ pc \in [Thread -> Pc] /\ index \in [Thread -> PageIndex]
      /\ hand \in [Thread -> Handle \cup {None}]
      /\ pages \in [PageIndex -> Handle \cup {None, Absent}]
      /\ evicted \in [Thread -> PageIndex]
      /\ opened \in Nat /\ decoding \in PageIndex /\ PageIndex \subseteq Nat
  BY DEF TypeOK, PageIndex
<1>b. None \notin Handle /\ Absent \notin Handle /\ None # Absent /\ Handle \subseteq Nat
  BY DEF None, Absent, Handle
<1>c. HandlesDiffer /\ HandIsDecoding /\ RestIsEmpty
  BY DEF HandInv
\* A step that opens nothing, hands out nothing, and puts nothing into the map.
<1>d. ASSUME UNCHANGED <<opened, decoding, index>>,
             \A i \in PageIndex : pages'[i] = pages[i] \/ pages'[i] \in {None, Absent},
             NEW t \in Thread, NEW l, Goto(t, l) \/ UNCHANGED pc,
             \/ UNCHANGED hand
                /\ (UNCHANGED pc \/ l \notin {"idle", "crashed", "recycle", "done"}
                    \/ pc[t] \in {"idle", "crashed", "recycle", "done"})
             \/ hand' = [hand EXCEPT ![t] = None] /\ Goto(t, l),
             UNCHANGED pc \/ l \notin InGetPage \/ pc[t] \in InGetPage
      PROVE  HandInv'
  <2>1. \A r \in Thread : hand'[r] = hand[r] \/ hand'[r] = None
    BY <1>a, <1>d
  <2>2. \A r \in Thread : pc'[r] = pc[r] \/ (r = t /\ pc'[r] = l /\ Goto(t, l))
    BY <1>a, <1>d DEF Goto
  <2>3. HandlesDiffer'
    <3>1. \A i \in PageIndex : pages'[i] \in Handle => pages'[i] = pages[i]
      BY <1>b, <1>d
    <3>2. \A r \in Thread : hand'[r] <= opened'
      BY <1>a, <1>c, <1>d, <2>1 DEF HandlesDiffer, None
    <3>3. \A i \in PageIndex : pages'[i] \in Handle => pages'[i] <= opened'
      BY <1>c, <1>d, <3>1 DEF HandlesDiffer
    <3>4. \A i, j \in PageIndex : pages'[i] \in Handle /\ pages'[i] = pages'[j] => i = j
      BY <1>c, <3>1 DEF HandlesDiffer
    <3> QED BY <3>2, <3>3, <3>4 DEF HandlesDiffer
  <2>4. HandIsDecoding'
    <3>1. ASSUME NEW i \in PageIndex, hand'["worker"] \in Handle, pages'[i] = hand'["worker"]
          PROVE  i = decoding'
      <4>1. hand'["worker"] = hand["worker"] /\ pages'[i] = pages[i]
        BY <1>b, <1>d, <1>u, <2>1, <3>1
      <4> QED BY <1>c, <1>d, <3>1, <4>1 DEF HandIsDecoding
    <3>2. ASSUME pc'["worker"] \in InGetPage, ~Preloading("worker")'
          PROVE  hand'["worker"] = None
      <4>1. pc["worker"] \in InGetPage
        BY <1>d, <1>u, <2>2, <3>2
      <4>2. ~Preloading("worker")
        BY <1>d, <3>2 DEF Preloading
      <4> QED BY <1>c, <1>u, <2>1, <4>1, <4>2 DEF HandIsDecoding
    <3> QED BY <3>1, <3>2 DEF HandIsDecoding
  <2>5. RestIsEmpty'
    <3> SUFFICES ASSUME NEW r \in Thread,
                        pc'[r] \in {"idle", "crashed", "recycle", "done"}
                 PROVE  hand'[r] = None
      BY DEF RestIsEmpty
    <3>1. CASE pc'[r] = pc[r]
      BY <1>c, <2>1, <3>1 DEF RestIsEmpty
    <3>2. CASE r = t /\ pc'[r] = l /\ Goto(t, l) /\ pc'[r] # pc[r]
      <4>1. CASE hand' = [hand EXCEPT ![t] = None]
        BY <1>a, <3>2, <4>1
      <4>2. CASE UNCHANGED hand /\ pc[t] \in {"idle", "crashed", "recycle", "done"}
        BY <1>c, <3>2, <4>2 DEF RestIsEmpty
      <4> QED BY <1>d, <3>2, <4>1, <4>2
    <3> QED BY <2>2, <3>1, <3>2
  <2> QED BY <2>3, <2>4, <2>5 DEF HandInv
<1>e. "worker" \in Thread /\ \A l : Goto("worker", l) => pc'["ui"] = pc["ui"] /\ pc'["worker"] = l
  BY <1>a, <1>u DEF Goto
<1>1. ASSUME NEW i \in PageIndex, Decode(i) PROVE HandInv'
  <2>1. /\ UNCHANGED <<pages, opened, hand>> /\ pc["worker"] = "idle"
        /\ pc'["worker"] = "contains" /\ pc'["ui"] = pc["ui"]
        /\ decoding' = i /\ index'["worker"] = i
    BY <1>1, <1>a, <1>e, <1>u DEF Decode
  <2>2. hand["worker"] = None
    BY <1>c, <1>u, <2>1 DEF RestIsEmpty
  <2>3. RestIsEmpty'
    BY <1>c, <2>1, <2>2 DEF RestIsEmpty, Thread
  <2> QED BY <1>b, <1>c, <2>1, <2>2, <2>3 DEF HandInv, HandlesDiffer, HandIsDecoding
<1>2. ASSUME NEW i \in PageIndex, Measure(i) PROVE HandInv'
  <2>1. /\ UNCHANGED <<pages, opened, hand, decoding>> /\ pc["ui"] = "idle"
        /\ pc'["ui"] = "contains" /\ pc'["worker"] = pc["worker"]
        /\ index'["worker"] = index["worker"]
    BY <1>2, <1>a, <1>u DEF Measure, Goto
  <2>2. RestIsEmpty'
    BY <1>c, <2>1 DEF RestIsEmpty, Thread
  <2> QED BY <1>c, <2>1, <2>2 DEF HandInv, HandlesDiffer, HandIsDecoding, Preloading
<1>3. ASSUME NEW i \in PageIndex, RecyclePage(i) \/ ClearReference(i) PROVE HandInv'
  <2>1. /\ UNCHANGED <<opened, decoding, index, pc, hand>>
        /\ \A j \in PageIndex : pages'[j] = pages[j] \/ pages'[j] \in {None, Absent}
    BY <1>3, <1>a DEF RecyclePage, ClearReference
  <2> QED BY <1>d, <1>u, <2>1
<1>5. ASSUME NEW t \in Thread, GetPage(t) PROVE HandInv'
  <2>0. pc[t] \in InGetPage
    BY <1>5 DEF GetPage, CheckContains, CheckDeref, Fill, Requeue, Offer, CheckSize, Poll,
       Evict, Lookup, InGetPage
  <2>1. CASE CheckContains(t) \/ CheckDeref(t) \/ Requeue(t) \/ Offer(t) \/ CheckSize(t)
             \/ Poll(t) \/ Evict(t)
    <3>1. /\ UNCHANGED <<opened, decoding, index>>
          /\ \A j \in PageIndex : pages'[j] = pages[j] \/ pages'[j] \in {None, Absent}
      BY <2>1, <1>a DEF CheckContains, CheckDeref, Requeue, Offer, CheckSize, Poll, Evict
    <3>2. \/ \E l \in InGetPage : UNCHANGED hand /\ Goto(t, l)
          \/ \E l : hand' = [hand EXCEPT ![t] = None] /\ Goto(t, l)
      BY <2>1 DEF CheckContains, CheckDeref, Requeue, Offer, CheckSize, Poll, Evict, Throw,
         InGetPage
    <3>3. InGetPage \cap {"idle", "crashed", "recycle", "done"} = {}
      BY DEF InGetPage
    <3> QED BY <1>d, <2>0, <3>1, <3>2, <3>3
  <2>2. CASE Fill(t)
    <3>1. CASE Throw(t) /\ UNCHANGED <<opened, open, pages, modified>>
      BY <1>d, <2>0, <2>2, <3>1 DEF Fill, Throw
    <3>2. CASE /\ Goto(t, "requeue") /\ UNCHANGED hand /\ opened' = opened + 1
               /\ pages' = [pages EXCEPT ![index[t]] = opened']
      <4>1. UNCHANGED <<decoding, index>> /\ index[t] \in PageIndex
        BY <1>a, <2>2 DEF Fill
      <4>2. \A j \in PageIndex : pages'[j] = IF j = index[t] THEN opened + 1 ELSE pages[j]
        BY <1>a, <3>2, <4>1
      <4>3. /\ \A j \in PageIndex : pages[j] \in Handle => pages[j] <= opened /\ pages[j] # opened + 1
            /\ \A r \in Thread : hand[r] <= opened /\ hand[r] # opened + 1 /\ hand[r] \in Nat
        <5>1. ASSUME NEW j \in PageIndex, pages[j] \in Handle
              PROVE  pages[j] <= opened /\ pages[j] # opened + 1
          <6>1. pages[j] <= opened /\ pages[j] \in Nat
            BY <1>b, <1>c, <5>1 DEF HandlesDiffer
          <6> QED BY <1>a, <6>1
        <5>2. ASSUME NEW r \in Thread
              PROVE  hand[r] <= opened /\ hand[r] # opened + 1 /\ hand[r] \in Nat
          <6>1. hand[r] \in Handle \/ hand[r] = 0
            BY <1>a DEF None
          <6>2. hand[r] \in Nat
            <7>1. CASE hand[r] \in Handle
              BY <1>b, <7>1
            <7>2. CASE hand[r] = 0
              BY <7>2
            <7> QED BY <6>1, <7>1, <7>2
          <6>3. hand[r] <= opened
            BY <1>c DEF HandlesDiffer
          <6> QED BY <1>a, <6>2, <6>3
        <5> QED BY <5>1, <5>2
      <4>4. HandlesDiffer'
        <5>1. \A r \in Thread : hand'[r] <= opened'
          BY <1>a, <3>2, <4>3
        <5>2. \A j \in PageIndex : pages'[j] \in Handle => pages'[j] <= opened'
          <6> SUFFICES ASSUME NEW j \in PageIndex, pages'[j] \in Handle
                       PROVE  pages'[j] <= opened'
            OBVIOUS
          <6>1. CASE j = index[t]
            BY <1>a, <3>2, <4>2, <6>1
          <6>2. CASE j # index[t]
            <7>1. pages[j] \in Nat /\ pages[j] <= opened /\ pages'[j] = pages[j]
              BY <1>b, <4>2, <4>3, <6>2
            <7> QED BY <1>a, <3>2, <7>1
          <6> QED BY <6>1, <6>2
        <5>3. ASSUME NEW j \in PageIndex, NEW k \in PageIndex,
                     pages'[j] \in Handle, pages'[j] = pages'[k]
              PROVE  j = k
          BY <1>c, <4>2, <4>3, <5>3 DEF HandlesDiffer
        <5> QED BY <5>1, <5>2, <5>3 DEF HandlesDiffer
      <4>5. HandIsDecoding'
        <5>1. pc["worker"] \in InGetPage \/ pc'["worker"] = pc["worker"]
          BY <1>a, <1>u, <2>0, <3>2 DEF Goto
        <5>2. pc'["worker"] \in InGetPage => pc["worker"] \in InGetPage
          BY <5>1
        <5>3. \A j \in PageIndex : hand'["worker"] \in Handle /\ pages'[j] = hand'["worker"]
                                     => j = decoding'
          BY <1>c, <1>u, <3>2, <4>1, <4>2, <4>3 DEF HandIsDecoding
        <5> QED BY <1>c, <3>2, <4>1, <5>2, <5>3 DEF HandIsDecoding, Preloading
      <4>6. RestIsEmpty'
        <5>1. \A r \in Thread : pc'[r] = IF r = t THEN "requeue" ELSE pc[r]
          BY <1>a, <3>2 DEF Goto
        <5> QED BY <1>c, <3>2, <5>1 DEF RestIsEmpty
      <4> QED BY <4>4, <4>5, <4>6 DEF HandInv
    <3> QED BY <2>2, <3>1, <3>2 DEF Fill
  <2>3. CASE Lookup(t)
    <3>1. UNCHANGED <<pages, opened, decoding>>
      BY <2>3 DEF Lookup
    <3>2. CASE Throw(t) /\ UNCHANGED index
      BY <1>d, <2>0, <3>1, <3>2 DEF Throw
    <3>3. CASE Goto(t, "native") /\ UNCHANGED <<index, hand>>
      <4>1. "native" \notin InGetPage
        BY DEF InGetPage
      <4> QED BY <1>d, <3>1, <3>3, <4>1
    <3>4. CASE /\ Contains(index[t]) /\ ~Preloading(t)
               /\ hand' = [hand EXCEPT ![t] = pages[index[t]]]
               /\ IF t = "worker" /\ decoding + 1 < NumPages
                  THEN Goto(t, "contains") /\ index' = [index EXCEPT ![t] = decoding + 1]
                  ELSE Goto(t, "native") /\ UNCHANGED index
      <4> DEFINE page == pages[index[t]]
      <4>1. index[t] \in PageIndex /\ page \in Handle \cup {None}
        BY <1>a, <3>4 DEF Contains
      <4>2. page <= opened
        <5>1. page \in Handle => page <= opened
          BY <1>c, <4>1 DEF HandlesDiffer
        <5>2. page = None => page <= opened
          BY <1>a DEF None
        <5> QED BY <4>1, <5>1, <5>2
      <4>3. \A r \in Thread : hand'[r] = IF r = t THEN page ELSE hand[r]
        BY <1>a, <3>4
      <4>4. \A r \in Thread : (r # t /\ pc'[r] = pc[r])
                             \/ (r = t /\ pc'[r] \in {"contains", "native"})
        BY <1>a, <3>4 DEF Goto
      <4>5. HandlesDiffer'
        BY <1>c, <3>1, <4>2, <4>3 DEF HandlesDiffer
      <4>6. RestIsEmpty'
        BY <1>c, <4>3, <4>4 DEF RestIsEmpty
      <4> HIDE DEF page
      <4>7. HandIsDecoding'
        <5> USE DEF page
        <5>1. CASE t = "worker"
          <6>1. index[t] = decoding
            BY <3>4, <5>1 DEF Preloading
          <6>2. \A i \in PageIndex : page \in Handle /\ pages[i] = page => i = decoding
            BY <1>c, <4>1, <6>1 DEF HandlesDiffer
          <6>3. pc'["worker"] \in InGetPage => Preloading("worker")'
            <7>1. CASE decoding + 1 < NumPages
              BY <1>a, <3>1, <3>4, <5>1, <7>1 DEF Preloading
            <7>2. CASE ~(decoding + 1 < NumPages)
              BY <1>e, <3>4, <5>1, <7>2 DEF InGetPage
            <7> QED BY <7>1, <7>2
          <6> QED BY <3>1, <4>3, <5>1, <6>2, <6>3, <1>u DEF HandIsDecoding
        <5>2. CASE t # "worker"
          <6>1. hand'["worker"] = hand["worker"] /\ pc'["worker"] = pc["worker"] /\ UNCHANGED index
            BY <1>u, <3>4, <4>3, <4>4, <5>2
          <6> QED BY <1>c, <3>1, <6>1 DEF HandIsDecoding, Preloading
        <5> QED BY <5>1, <5>2
      <4> QED BY <4>5, <4>6, <4>7 DEF HandInv
    <3> QED BY <2>3, <3>2, <3>3, <3>4 DEF Lookup
  <2> QED BY <1>5, <2>1, <2>2, <2>3 DEF GetPage
<1>6. ASSUME NEW t \in Thread, EnterNative(t) \/ LeaveNative(t) PROVE HandInv'
  <2>1. UNCHANGED <<pages, opened, decoding, index>>
    BY <1>6 DEF EnterNative, LeaveNative
  <2>2. \E l \in {"inNative", "idle", "crashed"} :
           /\ Goto(t, l)
           /\ hand' = [hand EXCEPT ![t] = None] \/ (UNCHANGED hand /\ l = "inNative")
    BY <1>6 DEF EnterNative, LeaveNative, Throw
  <2>3. InGetPage \cap {"inNative", "idle", "crashed"} = {}
    BY DEF InGetPage
  <2> QED BY <1>d, <2>1, <2>2, <2>3
<1>7. ASSUME BeginRecycle \/ RecycleThrows \/ RecycleDocument PROVE HandInv'
  <2>1. UNCHANGED <<pages, opened, decoding, index, hand>> /\ pc["worker"] \in {"idle", "recycle"}
    BY <1>7 DEF BeginRecycle, RecycleThrows, RecycleDocument
  <2>2. \E l \in {"recycle", "done"} : Goto("worker", l)
    BY <1>7 DEF BeginRecycle, RecycleThrows, RecycleDocument
  <2>3. InGetPage \cap {"recycle", "done"} = {}
    BY DEF InGetPage
  <2> QED BY <1>d, <1>u, <2>1, <2>2, <2>3
<1>8. ASSUME (\E h \in Handle : Finalize(h)) \/ UNCHANGED vars PROVE HandInv'
  <2>1. UNCHANGED <<pages, opened, decoding, index, hand, pc>>
    BY <1>8 DEF Finalize, vars
  <2> QED BY <1>d, <1>u, <2>1
<1> QED
  BY <1>1, <1>2, <1>3, <1>5, <1>6, <1>7, <1>8 DEF Next

LEMMA HandsHold == Spec => [](TypeOK /\ HandInv)
<1>1. (Init => TypeOK /\ HandInv)
      /\ (TypeOK /\ HandInv /\ [Next]_vars => (TypeOK /\ HandInv)')
  BY InitTypes, InitHand, StepTypes, StepHand
<1> QED
  BY <1>1, PTL DEF Spec

\* In every race of the two threads, only the eviction of its own index closes the
\* page in the worker's hand, by the preload of the task or by a read of the UI.
THEOREM OnlyEvictionCloses == Spec => InHandClosedOnlyByEviction
<1> DEFINE A == \A h \in open \ open' :
                  h = hand["worker"] =>
                    \E t \in Thread :
                      /\ pc[t] = "evict"
                      /\ evicted[t] = decoding
                      /\ t = "ui" \/ Preloading(t)
<1>1. TypeOK /\ HandInv /\ [Next]_vars => [A]_vars
  <2> SUFFICES ASSUME TypeOK, HandInv, Next, NEW h \in open \ open', h = hand["worker"]
               PROVE  \E t \in Thread : /\ pc[t] = "evict"
                                        /\ evicted[t] = decoding
                                        /\ t = "ui" \/ Preloading(t)
    BY DEF vars
  <2>0. h \in Handle /\ h # None /\ "worker" \in Thread /\ open \subseteq Handle
    BY DEF TypeOK, Handle, None, Thread
  <2>1. pc["worker"] \notin {"idle", "recycle", "done"}
    BY <2>0 DEF HandInv, RestIsEmpty
  <2>2. ASSUME NEW i \in PageIndex,
               Decode(i) \/ Measure(i) \/ RecyclePage(i) \/ ClearReference(i)
        PROVE  FALSE
    BY <2>1, <2>2 DEF Decode, Measure, RecyclePage, ClearReference, nativeVars
  <2>3. ASSUME NEW g \in Handle, Finalize(g) PROVE FALSE
    BY <2>0, <2>3 DEF Finalize, Reachable, Held
  <2>4. ASSUME NEW t \in Thread, GetPage(t) \/ EnterNative(t) \/ LeaveNative(t)
        PROVE  Evict(t)
    <3>1. CASE Fill(t)
      <4>1. open \subseteq open'
        BY <3>1 DEF Fill
      <4> QED BY <4>1
    <3>2. CASE UNCHANGED open
      BY <3>2
    <3> QED
      BY <2>4, <3>1, <3>2 DEF GetPage, CheckContains, CheckDeref, Requeue, Offer,
         CheckSize, Poll, Lookup, EnterNative, LeaveNative, nativeVars
  <2>5. ASSUME NEW t \in Thread, Evict(t)
        PROVE  pc[t] = "evict" /\ evicted[t] = decoding /\ (t = "ui" \/ Preloading(t))
    <3>1. pc[t] = "evict" /\ open' = open \ {pages[evicted[t]]}
      BY <2>5 DEF Evict
    <3>2. pages[evicted[t]] = hand["worker"] /\ evicted[t] \in PageIndex
      BY <3>1 DEF TypeOK
    <3>3. evicted[t] = decoding
      BY <2>0, <3>2 DEF HandInv, HandIsDecoding
    <3>4. t = "worker" => Preloading(t)
      BY <2>0, <3>1 DEF HandInv, HandIsDecoding, InGetPage
    <3> QED BY <3>1, <3>3, <3>4 DEF Thread
  <2>6. ASSUME BeginRecycle \/ RecycleThrows \/ RecycleDocument PROVE FALSE
    BY <2>6 DEF BeginRecycle, RecycleThrows, RecycleDocument, nativeVars
  <2> QED
    BY <2>2, <2>3, <2>4, <2>5, <2>6 DEF Next
<1> HIDE DEF A
<1>2. Spec => [][A]_vars
  BY <1>1, HandsHold, PTL DEF Spec
<1> QED
  BY <1>2 DEF A, InHandClosedOnlyByEviction
-----------------------------------------------------------------------------
(* A sweep that no read of the UI thread disturbs. *)

\* The freeing runnable closes what it has visited; the document goes last, and
\* then nothing can be opened any more.
SweepInv ==
  "sweep" \notin raced =>
    /\ pc["worker"] = "recycle" =>
         /\ documentOpen
         /\ pc["ui"] \in {"idle", "crashed"}
         /\ \A i \in PageIndex \ toRecycle : pages[i] \notin open
    /\ ~documentOpen =>
         /\ pc["worker"] = "done"
         /\ \A i \in PageIndex : pages[i] \notin open
         /\ \A t \in Thread : hand[t] \notin open

LEMMA InitSweep == Init => SweepInv
BY DEF Init, SweepInv, Thread

LEMMA StepSweep == TypeOK /\ HandInv /\ SweepInv /\ [Next]_vars => SweepInv'
<1> SUFFICES ASSUME TypeOK, HandInv, SweepInv, [Next]_vars, "sweep" \notin raced'
             PROVE  SweepInv'
  BY DEF SweepInv
<1> USE PoolAssumption DEF poolVars, nativeVars, workVars
<1>u. Thread = {"worker", "ui"} /\ "worker" # "ui"
  BY DEF Thread
<1>a. /\ pc \in [Thread -> Pc] /\ index \in [Thread -> PageIndex]
      /\ hand \in [Thread -> Handle \cup {None}] /\ open \subseteq Handle
      /\ pages \in [PageIndex -> Handle \cup {None, Absent}]
      /\ evicted \in [Thread -> PageIndex]
  BY DEF TypeOK
<1>b. None \notin open /\ Absent \notin open
  BY <1>a DEF None, Absent, Handle
<1>c. "sweep" \notin raced
  BY DEF Next, vars, Decode, Measure, RecyclePage, ClearReference, GetPage, CheckContains,
     CheckDeref, Fill, Requeue, Offer, CheckSize, Poll, Evict, Lookup, EnterNative,
     LeaveNative, BeginRecycle, RecycleThrows, RecycleDocument, Finalize
<1>d. /\ pc["worker"] = "recycle" =>
           /\ documentOpen
           /\ pc["ui"] \in {"idle", "crashed"}
           /\ \A i \in PageIndex \ toRecycle : pages[i] \notin open
      /\ ~documentOpen =>
           /\ pc["worker"] = "done"
           /\ \A i \in PageIndex : pages[i] \notin open
           /\ \A t \in Thread : hand[t] \notin open
  BY <1>c DEF SweepInv
\* A step of the reader's threads while no sweep is under way, which opens nothing
\* once the document is gone.
<1>e. ASSUME UNCHANGED documentOpen, pc'["worker"] # "recycle",
             pc["worker"] = "done" => pc'["worker"] = "done",
             ~documentOpen =>
               /\ open' \subseteq open
               /\ \A i \in PageIndex : pages'[i] = pages[i] \/ pages'[i] \in {None, Absent}
               /\ \A t \in Thread : \/ hand'[t] = hand[t] \/ hand'[t] = None
                                    \/ \E i \in PageIndex : hand'[t] = pages[i]
      PROVE  SweepInv'
  BY <1>b, <1>d, <1>e DEF SweepInv
<1>1. ASSUME NEW i \in PageIndex, Decode(i) \/ Measure(i) PROVE SweepInv'
  <2>1. UNCHANGED <<documentOpen, open, pages, hand>>
    BY <1>1 DEF Decode, Measure
  <2>2. CASE Decode(i)
    <3>1. pc["worker"] = "idle" /\ pc'["worker"] = "contains"
      BY <1>a, <1>u, <2>2 DEF Decode, Goto
    <3> QED BY <1>e, <2>1, <3>1
  <2>3. CASE Measure(i)
    <3>1. pc["worker"] # "recycle"
      BY <2>3 DEF Measure
    <3>2. pc'["worker"] = pc["worker"]
      BY <1>a, <1>u, <2>3 DEF Measure, Goto
    <3> QED BY <1>e, <2>1, <3>1, <3>2
  <2> QED BY <1>1, <2>2, <2>3
<1>2. ASSUME NEW i \in PageIndex, RecyclePage(i) PROVE SweepInv'
  <2>1. /\ UNCHANGED <<pages, documentOpen, pc, hand>> /\ pc["worker"] = "recycle"
        /\ toRecycle' = toRecycle \ {i} /\ open' = open \ {pages[i]}
    BY <1>2 DEF RecyclePage
  <2> QED BY <1>d, <2>1 DEF SweepInv
<1>3. ASSUME NEW i \in PageIndex, ClearReference(i) PROVE SweepInv'
  <2>1. /\ UNCHANGED <<open, documentOpen, pc, hand, toRecycle>>
        /\ \A j \in PageIndex : pages'[j] = pages[j] \/ pages'[j] = None
    BY <1>3, <1>a DEF ClearReference
  <2> QED BY <1>b, <1>d, <2>1 DEF SweepInv
<1>5. ASSUME NEW t \in Thread, GetPage(t) \/ EnterNative(t) \/ LeaveNative(t) PROVE SweepInv'
  <2>0. /\ pc[t] \in InGetPage \cup {"native", "inNative"} /\ UNCHANGED documentOpen
    BY <1>5 DEF GetPage, CheckContains, CheckDeref, Fill, Requeue, Offer, CheckSize, Poll,
       Evict, Lookup, EnterNative, LeaveNative, InGetPage
  <2>1. PICK l : Goto(t, l) /\ l \notin {"recycle", "done"}
    BY <1>5 DEF GetPage, CheckContains, CheckDeref, Fill, Requeue, Offer, CheckSize, Poll,
       Evict, Lookup, EnterNative, LeaveNative, Throw
  <2>2. pc'["worker"] # "recycle" /\ (pc["worker"] = "done" => pc'["worker"] = "done")
    <3>1. CASE t = "worker"
      BY <1>a, <1>u, <2>0, <2>1, <3>1 DEF Goto, InGetPage
    <3>2. CASE t = "ui"
      <4>1. pc'["worker"] = pc["worker"] /\ pc["ui"] \notin {"idle", "crashed"}
        BY <1>a, <1>u, <2>0, <2>1, <3>2 DEF Goto, InGetPage
      <4> QED BY <1>d, <4>1
    <3> QED BY <1>u, <3>1, <3>2
  <2>3. ~documentOpen => open' \subseteq open
    BY <1>5 DEF GetPage, CheckContains, CheckDeref, Fill, Requeue, Offer, CheckSize, Poll,
       Evict, Lookup, EnterNative, LeaveNative
  <2>4. ASSUME ~documentOpen
        PROVE  \A i \in PageIndex : pages'[i] = pages[i] \/ pages'[i] \in {None, Absent}
    <3>1. CASE UNCHANGED pages
      BY <3>1
    <3>2. CASE Evict(t)
      BY <1>a, <3>2 DEF Evict
    <3> QED
      BY <1>5, <2>4, <3>1, <3>2 DEF GetPage, CheckContains, CheckDeref, Fill, Requeue, Offer,
         CheckSize, Poll, Lookup, EnterNative, LeaveNative
  <2>5. \A r \in Thread : \/ hand'[r] = hand[r] \/ hand'[r] = None
                          \/ \E i \in PageIndex : hand'[r] = pages[i]
    <3>1. CASE UNCHANGED hand \/ hand' = [hand EXCEPT ![t] = None]
      BY <1>a, <3>1
    <3>2. CASE hand' = [hand EXCEPT ![t] = pages[index[t]]]
      BY <1>a, <3>2
    <3> QED
      BY <1>5, <3>1, <3>2 DEF GetPage, CheckContains, CheckDeref, Fill, Requeue, Offer,
         CheckSize, Poll, Evict, Lookup, EnterNative, LeaveNative, Throw
  <2> QED BY <1>e, <2>0, <2>2, <2>3, <2>4, <2>5
<1>6. ASSUME BeginRecycle PROVE SweepInv'
  <2>1. /\ UNCHANGED <<pages, open, documentOpen, hand>> /\ pc["worker"] = "idle"
        /\ pc'["worker"] = "recycle" /\ pc'["ui"] = pc["ui"]
        /\ toRecycle' = {i \in PageIndex : Contains(i)}
    BY <1>6, <1>a, <1>u DEF BeginRecycle, Goto
  <2>2. pc["ui"] \in {"idle", "crashed"}
    BY <1>6 DEF BeginRecycle
  <2>3. \A i \in PageIndex \ toRecycle' : pages[i] \notin open
    BY <1>b, <2>1 DEF Contains
  <2> QED BY <1>d, <2>1, <2>2, <2>3 DEF SweepInv
<1>7. ASSUME RecycleThrows PROVE SweepInv'
  <2>1. /\ UNCHANGED <<pages, open, documentOpen, hand>> /\ pc["worker"] = "recycle"
        /\ pc'["worker"] = "done"
    BY <1>7, <1>a, <1>u DEF RecycleThrows, Goto
  <2> QED BY <1>d, <2>1 DEF SweepInv
<1>8. ASSUME RecycleDocument PROVE SweepInv'
  <2>1. /\ UNCHANGED <<pages, open, hand>> /\ pc["worker"] = "recycle" /\ toRecycle = {}
        /\ pc'["worker"] = "done"
    BY <1>8, <1>a, <1>u DEF RecycleDocument, Goto
  <2>2. \A t \in Thread : hand[t] = None
    BY <1>d, <1>u, <2>1 DEF HandInv, RestIsEmpty
  <2> QED BY <1>b, <1>d, <2>1, <2>2 DEF SweepInv
<1>9. ASSUME (\E h \in Handle : Finalize(h)) \/ UNCHANGED vars PROVE SweepInv'
  <2>1. UNCHANGED <<pages, documentOpen, toRecycle, hand, pc>> /\ open' \subseteq open
    BY <1>9 DEF Finalize, vars
  <2> QED BY <1>d, <2>1 DEF SweepInv
<1> QED
  BY <1>1, <1>2, <1>3, <1>5, <1>6, <1>7, <1>8, <1>9 DEF Next

\* recycle() frees the document after every page that can still be reached, in
\* whatever state the races of getPage have left the pool, unless the UI thread
\* uses a page during the sweep itself.
THEOREM PagesGoFirst == Spec => []PagesAreFreedFirst
<1>1. TypeOK /\ SweepInv => PagesAreFreedFirst
  <2> SUFFICES ASSUME TypeOK, SweepInv, ~documentOpen, "sweep" \notin raced, NEW h \in open
               PROVE  ~Reachable(h)
    BY DEF PagesAreFreedFirst
  <2> QED BY DEF SweepInv, Reachable, Held
<1>2. Init => SweepInv
  BY InitSweep
<1>3. TypeOK /\ HandInv /\ SweepInv /\ [Next]_vars => SweepInv'
  BY StepSweep
<1> QED
  BY <1>1, <1>2, <1>3, HandsHold, PTL DEF Spec
-----------------------------------------------------------------------------
(* One call of getPage at a time: what is open. *)

\* A page that is in hand and open is in the map, and getPage opens another page
\* only for an index that has none.
HandsInv ==
  /\ \A t \in Thread : hand[t] \in open => \E i \in PageIndex : pages[i] = hand[t]
  /\ At = "fill" => pages[Asked] \notin Handle

LEMMA InitHands == Init => HandsInv
BY DEF Init, HandsInv, At, Turn, Thread, InGetPage

LEMMA StepHands ==
  AloneInv /\ HandInv /\ HandsInv /\ [Next]_vars /\ Unraced' => HandsInv'
<1> SUFFICES ASSUME AloneInv, HandInv, HandsInv, [Next]_vars, Unraced' PROVE HandsInv'
  OBVIOUS
<1> USE PoolAssumption DEF poolVars, nativeVars, workVars
<1>u. Thread = {"worker", "ui"} /\ "worker" # "ui" /\ Turn \in Thread
  BY DEF Thread, Turn
<1>a. /\ pc \in [Thread -> Pc] /\ index \in [Thread -> PageIndex]
      /\ hand \in [Thread -> Handle \cup {None}] /\ open \subseteq Handle
      /\ pages \in [PageIndex -> Handle \cup {None, Absent}]
      /\ evicted \in [Thread -> PageIndex] /\ Asked \in PageIndex
      /\ opened \in Nat /\ OneAtATime
  BY <1>u DEF AloneInv, TypeOK, Asked
<1>b. None \notin Handle /\ Absent \notin Handle /\ None # Absent /\ Handle \subseteq Nat
  BY DEF None, Absent, Handle
<1>c. /\ \A t \in Thread : hand[t] \in open => \E i \in PageIndex : pages[i] = hand[t]
      /\ At = "fill" => pages[Asked] \notin Handle
  BY DEF HandsInv
\* A step that keeps the map, opens nothing and lets nobody in to fill.
<1>d. ASSUME UNCHANGED pages, open' \subseteq open,
             \A t \in Thread : hand'[t] = hand[t] \/ hand'[t] = None
                               \/ \E i \in PageIndex : hand'[t] = pages[i],
             \A t \in Thread : pc'[t] = "fill" =>
               \/ pc[t] = "fill" /\ index'[t] = index[t]
               \/ pages[index'[t]] \notin Handle
      PROVE  HandsInv'
  <2>1. \A t \in Thread : hand'[t] \in open' => \E i \in PageIndex : pages'[i] = hand'[t]
    BY <1>a, <1>b, <1>c, <1>d
  <2>2. ASSUME At' = "fill" PROVE pages'[Asked'] \notin Handle
    <3>1. PICK t \in Thread : pc'[t] = "fill" /\ Asked' = index'[t]
      BY <1>u, <2>2 DEF At, Asked, Turn
    <3>2. CASE pc[t] = "fill" /\ index'[t] = index[t]
      <4>1. t = Turn
        BY <1>a, <1>u, <3>2 DEF Turn, OneAtATime, InGetPage
      <4> QED BY <1>c, <1>d, <3>1, <3>2, <4>1 DEF At, Asked
    <3> QED BY <1>d, <3>1, <3>2
  <2> QED BY <2>1, <2>2 DEF HandsInv
<1>1. ASSUME NEW i \in PageIndex, Decode(i) \/ Measure(i) PROVE HandsInv'
  <2>1. UNCHANGED <<pages, open, hand>>
    BY <1>1 DEF Decode, Measure
  <2>2. \A t \in Thread : pc'[t] = "fill" => pc[t] = "fill" /\ index'[t] = index[t]
    BY <1>1, <1>a, <1>u DEF Decode, Measure, Goto
  <2> QED BY <1>d, <2>1, <2>2
<1>2. ASSUME NEW i \in PageIndex, RecyclePage(i) PROVE HandsInv'
  <2>1. UNCHANGED <<pages, pc, index, hand>> /\ open' \subseteq open
    BY <1>2 DEF RecyclePage
  <2> QED BY <1>d, <2>1
<1>3. ASSUME NEW i \in PageIndex, ClearReference(i) PROVE HandsInv'
  <2>1. /\ UNCHANGED <<open, pc, hand, index>> /\ ~Held(pages[i])
        /\ \A j \in PageIndex : pages'[j] = IF j = i THEN None ELSE pages[j]
    BY <1>3, <1>a DEF ClearReference
  <2>2. \A t \in Thread : hand[t] # pages[i]
    BY <2>1 DEF Held
  <2>3. At' = At /\ Asked' = Asked
    BY <2>1 DEF At, Asked, Turn
  <2> QED BY <1>a, <1>b, <1>c, <2>1, <2>2, <2>3 DEF HandsInv
<1>5. ASSUME NEW t \in Thread, GetPage(t) PROVE HandsInv'
  <2>0. t = Turn /\ At \in InGetPage /\ pc[t] = At /\ index[t] = Asked /\ evicted[t] = Polled
    <3>1. pc[t] \in InGetPage
      BY <1>5 DEF GetPage, CheckContains, CheckDeref, Fill, Requeue, Offer, CheckSize, Poll,
         Evict, Lookup, InGetPage
    <3>2. t = Turn
      BY <1>a, <3>1 DEF Thread, Turn, OneAtATime
    <3> QED BY <3>1, <3>2 DEF At, Asked, Polled
  \* A step of getPage that does not lead to the opening of a page.
  <2>o. ASSUME NEW l, l # "fill", Goto(t, l) PROVE At' # "fill"
    BY <1>a, <1>u, <2>0, <2>o DEF Goto, At, Turn, OneAtATime, InGetPage
  <2>p. ASSUME UNCHANGED <<pages, open>>,
               \A r \in Thread : hand'[r] = hand[r] \/ hand'[r] = None
                                 \/ \E i \in PageIndex : hand'[r] = pages[i],
               At' # "fill"
        PROVE  HandsInv'
    BY <1>a, <1>b, <1>c, <2>p DEF HandsInv
  <2>q. UNCHANGED hand \/ hand' = [hand EXCEPT ![t] = None]
          => \A r \in Thread : hand'[r] = hand[r] \/ hand'[r] = None
    BY <1>a
  <2>1. CASE CheckContains(t) \/ CheckDeref(t)
    <3>1. UNCHANGED <<pages, open, index>>
      BY <2>1 DEF CheckContains, CheckDeref
    <3>2. UNCHANGED hand \/ hand' = [hand EXCEPT ![t] = None]
      BY <2>1 DEF CheckContains, CheckDeref, Throw
    <3>3. \A r \in Thread : pc'[r] = "fill" =>
             \/ pc[r] = "fill" /\ index'[r] = index[r]
             \/ pages[index'[r]] \notin Handle
      <4>1. \A r \in Thread : r # t => pc'[r] = pc[r]
        BY <1>a, <2>1 DEF CheckContains, CheckDeref, Goto, Throw
      <4>2. pc'[t] = "fill" => pages[index[t]] \in {None, Absent}
        BY <1>a, <2>1 DEF CheckContains, CheckDeref, Goto, Throw, Contains
      <4> QED BY <1>b, <3>1, <4>1, <4>2
    <3> QED BY <1>d, <2>q, <3>1, <3>2, <3>3
  <2>2. CASE Requeue(t) \/ Offer(t) \/ CheckSize(t) \/ Poll(t)
    <3>1. UNCHANGED <<pages, open>>
      BY <2>2 DEF Requeue, Offer, CheckSize, Poll
    <3>2. UNCHANGED hand \/ hand' = [hand EXCEPT ![t] = None]
      BY <2>2 DEF Requeue, Offer, CheckSize, Poll, Throw
    <3>3. \E l : l # "fill" /\ Goto(t, l)
      BY <2>2 DEF Requeue, Offer, CheckSize, Poll, Throw
    <3> QED BY <2>o, <2>p, <2>q, <3>1, <3>2, <3>3
  <2>3. CASE Lookup(t)
    <3>1. UNCHANGED <<pages, open>>
      BY <2>3 DEF Lookup
    <3>2. \E l : l # "fill" /\ Goto(t, l)
      BY <2>3 DEF Lookup, Throw
    <3>3. \A r \in Thread : hand'[r] = hand[r] \/ hand'[r] = None
                            \/ \E i \in PageIndex : hand'[r] = pages[i]
      BY <1>a, <2>3 DEF Lookup, Throw
    <3> QED BY <2>o, <2>p, <3>1, <3>2, <3>3
  <2>4. CASE Fill(t)
    <3>1. CASE Throw(t) /\ UNCHANGED <<opened, open, pages, modified>>
      <4>1. \E l : l # "fill" /\ Goto(t, l)
        BY <3>1 DEF Throw
      <4>2. hand' = [hand EXCEPT ![t] = None]
        BY <3>1 DEF Throw
      <4> QED BY <2>o, <2>p, <2>q, <3>1, <4>1, <4>2
    <3>2. CASE /\ opened' = opened + 1 /\ open' = open \cup {opened'}
               /\ pages' = [pages EXCEPT ![index[t]] = opened']
               /\ Goto(t, "requeue") /\ UNCHANGED hand
      <4>1. At' # "fill"
        BY <2>o, <3>2
      <4>2. pages[Asked] \notin Handle
        BY <1>c, <2>0, <2>4 DEF Fill
      <4>3. \A j \in PageIndex : pages'[j] = IF j = Asked THEN opened + 1 ELSE pages[j]
        BY <1>a, <2>0, <3>2
      <4>4. ASSUME NEW r \in Thread, hand'[r] \in open'
            PROVE  \E i \in PageIndex : pages'[i] = hand'[r]
        <5>1. CASE hand[r] = opened + 1
          BY <1>a, <3>2, <4>3, <5>1
        <5>2. CASE hand[r] # opened + 1
          <6>1. hand[r] \in open /\ hand[r] \in Handle
            BY <1>a, <3>2, <4>4, <5>2
          <6>2. PICK i \in PageIndex : pages[i] = hand[r]
            BY <1>c, <6>1
          <6> QED BY <3>2, <4>2, <4>3, <6>1, <6>2
        <5> QED BY <5>1, <5>2
      <4> QED BY <4>1, <4>4 DEF HandsInv
    <3> QED BY <2>4, <3>1, <3>2 DEF Fill
  <2>5. CASE Evict(t)
    <3>1. /\ pages' = [pages EXCEPT ![Polled] = Absent] /\ open' = open \ {pages[Polled]}
          /\ Polled \in PageIndex
      BY <1>a, <2>0, <2>5 DEF Evict
    <3>2. \E l : l # "fill" /\ Goto(t, l)
      BY <2>5 DEF Evict, Throw
    <3>3. At' # "fill"
      BY <2>o, <3>2
    <3>4. \A r \in Thread : hand'[r] = hand[r] \/ hand'[r] = None
      BY <2>5, <2>q DEF Evict, Throw
    <3>5. \A j \in PageIndex : j # Polled => pages'[j] = pages[j]
      BY <1>a, <3>1
    <3> HIDE DEF Polled
    <3>6. ASSUME NEW r \in Thread, hand'[r] \in open'
          PROVE  \E i \in PageIndex : pages'[i] = hand'[r]
      <4>1. hand'[r] = hand[r] /\ hand[r] \in open /\ hand[r] # pages[Polled]
        BY <1>a, <1>b, <3>1, <3>4, <3>6
      <4>2. PICK i \in PageIndex : pages[i] = hand[r]
        BY <1>c, <4>1
      <4> QED BY <3>5, <4>1, <4>2
    <3> QED BY <3>3, <3>6 DEF HandsInv
  <2> QED BY <1>5, <2>1, <2>2, <2>3, <2>4, <2>5 DEF GetPage
<1>6. ASSUME NEW t \in Thread, EnterNative(t) \/ LeaveNative(t) PROVE HandsInv'
  <2>1. UNCHANGED <<pages, open, index>>
    BY <1>6 DEF EnterNative, LeaveNative
  <2>2. \A r \in Thread : hand'[r] = hand[r] \/ hand'[r] = None
    BY <1>6, <1>a DEF EnterNative, LeaveNative, Throw
  <2>3. \A r \in Thread : pc'[r] = "fill" => pc[r] = "fill" /\ index'[r] = index[r]
    BY <1>6, <1>a DEF EnterNative, LeaveNative, Throw, Goto
  <2> QED BY <1>d, <2>1, <2>2, <2>3
<1>7. ASSUME BeginRecycle \/ RecycleThrows \/ RecycleDocument PROVE HandsInv'
  <2>1. UNCHANGED <<pages, open, hand, index>>
    BY <1>7 DEF BeginRecycle, RecycleThrows, RecycleDocument
  <2>2. \A r \in Thread : pc'[r] = "fill" => pc[r] = "fill" /\ index'[r] = index[r]
    BY <1>7, <1>a DEF BeginRecycle, RecycleThrows, RecycleDocument, Goto
  <2> QED BY <1>d, <2>1, <2>2
<1>8. ASSUME (\E h \in Handle : Finalize(h)) \/ UNCHANGED vars PROVE HandsInv'
  <2>1. UNCHANGED <<pages, pc, index, hand>> /\ open' \subseteq open
    BY <1>8 DEF Finalize, vars
  <2> QED BY <1>d, <2>1
<1> QED
  BY <1>1, <1>2, <1>3, <1>5, <1>6, <1>7, <1>8 DEF Next

LEMMA OpenUntilRaced == Spec => [](Unraced => AloneInv /\ HandsInv)
<1>1. Init => (Unraced => HandsInv)
  BY InitHands
<1>2. /\ (Unraced => AloneInv) /\ TypeOK /\ HandInv /\ (Unraced => HandsInv) /\ [Next]_vars
      => (Unraced => HandsInv)'
  BY StepHands, StayRaced
<1> QED
  BY <1>1, <1>2, AloneUntilRaced, HandsHold, PTL DEF Spec

\* Among the values of a function on 1 .. n there are no more than n.
LEMMA AtMostAsMany ==
  ASSUME NEW n \in Nat, NEW f, NEW T,
         \A h \in T : \E p \in 1 .. n : h = f[p]
  PROVE  IsFiniteSet(T) /\ Cardinality(T) \in Nat /\ Cardinality(T) <= n
<1> DEFINE V == {f[p] : p \in 1 .. n}
           g == [p \in 1 .. n |-> f[p]]
<1>1. g \in Surjection(1 .. n, V)
  BY DEF Surjection
<1>2. IsFiniteSet(1 .. n) /\ Cardinality(1 .. n) = n
  BY FS_Interval
<1> HIDE DEF g
<1>3. IsFiniteSet(V) /\ Cardinality(V) <= n
  BY <1>1, <1>2, FS_Surjection
<1>4. T \subseteq V
  OBVIOUS
<1> HIDE DEF V
<1>5. IsFiniteSet(T) /\ Cardinality(T) <= Cardinality(V)
  BY <1>3, <1>4, FS_Subset
<1>6. Cardinality(T) \in Nat /\ Cardinality(V) \in Nat
  BY <1>3, <1>5, FS_CardinalityType
<1> QED BY <1>3, <1>5, <1>6

\* Until two calls of getPage overlap, the pool keeps no more pages open than its
\* size, and one in the middle of getPage.
THEOREM OpenPagesStayBounded == Spec => []OpenPagesBounded
<1>1. (Unraced => AloneInv /\ HandsInv) => OpenPagesBounded
  <2> SUFFICES ASSUME AloneInv, HandsInv
               PROVE  Cardinality({h \in open : Reachable(h)})
                        <= PoolSize + Cardinality({t \in Thread : pc[t] \in Filling})
    BY DEF OpenPagesBounded
  <2> DEFINE T == {h \in open : Reachable(h)}
             F == {t \in Thread : pc[t] \in Filling}
             q == evictionQueue
  <2>1. /\ q \in Seq(PageIndex) /\ Len(q) \in Nat /\ DOMAIN q = 1 .. Len(q)
        /\ open \subseteq Handle /\ Asked \in PageIndex /\ Polled \in PageIndex
    BY DEF AloneInv, TypeOK, Asked, Polled, Turn, Thread
  <2>2. Cardinality(F) = IF At \in Filling THEN 1 ELSE 0
    <3>1. Cardinality(F) = (IF "worker" \in F THEN 1 ELSE 0) + (IF "ui" \in F THEN 1 ELSE 0)
      BY ThreadsAreCounted
    <3>2. Filling \subseteq InGetPage
      BY DEF Filling, InGetPage
    <3>3. CASE pc["ui"] \in InGetPage
      BY <3>1, <3>2, <3>3 DEF At, Turn, Thread, AloneInv, OneAtATime
    <3>4. CASE pc["ui"] \notin InGetPage
      BY <3>1, <3>2, <3>4 DEF At, Turn, Thread
    <3> QED BY <3>3, <3>4
  <2>3. ASSUME NEW h \in T PROVE \E i \in Mapped : h = pages[i]
    <3>1. h \in Handle /\ h # None /\ h # Absent
      <4>1. h \in Handle
        BY <2>1
      <4> QED BY <4>1, PoolAssumption DEF Handle, None, Absent
    <3>2. PICK i \in PageIndex : pages[i] = h
      BY DEF Reachable, Held, HandsInv
    <3> QED BY <3>1, <3>2 DEF Mapped, Contains
  <2>4. Mapped = Items(q) \cup Unqueued
    BY DEF AloneInv, InStep
  <2>5. CASE Unqueued = {}
    <3> DEFINE f == [p \in 1 .. Len(q) |-> pages[q[p]]]
    <3>1. ASSUME NEW h \in T PROVE \E p \in 1 .. Len(q) : h = f[p]
      <4>1. PICK i \in Items(q) : h = pages[i]
        BY <2>3, <2>4, <2>5
      <4>2. PICK p \in 1 .. Len(q) : i = q[p]
        BY <2>1, <4>1 DEF Items
      <4> QED BY <4>1, <4>2
    <3> HIDE DEF T, f
    <3>2. Cardinality(T) <= Len(q) /\ Cardinality(T) \in Nat
      BY <2>1, <3>1, AtMostAsMany
    <3>3. Len(q) <= PoolSize + (IF At \in Filling THEN 1 ELSE 0)
      <4>1. Len(q) <= PoolSize + (IF At \in {"size", "poll"} THEN 1 ELSE 0)
        BY DEF AloneInv, QueueFits
      <4>2. At \in {"size", "poll"} => At \in Filling
        BY DEF Filling
      <4> QED BY <2>1, <4>1, <4>2, PoolAssumption
    <3> QED BY <2>1, <2>2, <3>2, <3>3, PoolAssumption DEF T
  <2>6. CASE Unqueued # {}
    <3> DEFINE x == IF At = "evict" THEN Polled ELSE Asked
               c == Append(q, x)
               f == [p \in 1 .. Len(c) |-> pages[c[p]]]
    <3>0. Unqueued = {x} /\ At \in {"requeue", "offer", "evict"}
      BY <2>6 DEF Unqueued
    <3>1. x \in PageIndex
      BY <2>1
    <3> HIDE DEF x
    <3>2. /\ Len(c) = Len(q) + 1 /\ c[Len(q) + 1] = x
          /\ \A p \in 1 .. Len(q) : c[p] = q[p]
      BY <2>1, <3>1, PutLast
    <3> HIDE DEF c
    <3>3. \A i \in Mapped : \E p \in 1 .. Len(c) : c[p] = i
      BY <2>1, <2>4, <3>0, <3>2 DEF Items
    <3>4. ASSUME NEW h \in T PROVE \E p \in 1 .. Len(c) : h = f[p]
      <4>1. PICK i \in Mapped : h = pages[i]
        BY <2>3
      <4>2. PICK p \in 1 .. Len(c) : c[p] = i
        BY <3>3
      <4> QED BY <4>1, <4>2
    <3> HIDE DEF T, f
    <3>5. Cardinality(T) <= Len(c) /\ Cardinality(T) \in Nat
      <4>1. Len(c) \in Nat
        BY <2>1, <3>2
      <4> QED BY <3>4, <4>1, AtMostAsMany
    <3>6. Len(q) <= PoolSize /\ At \in Filling
      <4>1. Len(q) <= PoolSize + (IF At \in {"size", "poll"} THEN 1 ELSE 0)
        BY DEF AloneInv, QueueFits
      <4>2. At \notin {"size", "poll"} /\ At \in Filling
        BY <3>0 DEF Filling
      <4> QED BY <2>1, <4>1, <4>2, PoolAssumption
    <3> QED BY <2>1, <2>2, <3>2, <3>5, <3>6, PoolAssumption DEF T
  <2> QED BY <2>5, <2>6
<1> QED
  BY <1>1, OpenUntilRaced, PTL
=============================================================================
