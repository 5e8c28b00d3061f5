------------------------------ MODULE PagePool ------------------------------
(***************************************************************************)
(* The pool of codec pages in DecodeServiceBase.java: getPage, the FIFO    *)
(* eviction queue, preloadNextPage, the use of the page that performDecode *)
(* keeps in hand, and the runnable with which recycle() frees everything.  *)
(*                                                                         *)
(* getPage takes no lock.  The executor thread calls it while it decodes,  *)
(* and the UI thread calls it too: getPageWidth and getPageHeight are what *)
(* a decode callback asks for.  A step of the model is one access to the   *)
(* map or to the queue.  Each access is taken to be atomic: the corruption *)
(* that HashMap and LinkedList allow under a data race is left out.        *)
(*                                                                         *)
(* The map holds its pages by SoftReference only.  The collector may clear *)
(* a reference whose page no thread holds, and the finalizer closes it.    *)
(***************************************************************************)
EXTENDS Naturals, Sequences, FiniteSets

CONSTANTS
  NumPages,    \* document.getPageCount()
  PoolSize,    \* PAGE_POOL_SIZE, 16 in the code
  MaxHandles   \* bound: how many native pages a behaviour opens

ASSUME PoolAssumption ==
  /\ NumPages \in Nat \ {0}
  /\ PoolSize \in Nat \ {0}
  /\ MaxHandles \in Nat

PageIndex == 0 .. (NumPages - 1)
Handle    == 1 .. MaxHandles
None      == 0                 \* no page; a native handle that is zero
Absent    == MaxHandles + 1    \* the map has no entry for the index
Thread    == {"worker", "ui"}

VARIABLES
  pages,         \* the HashMap: what the entry of each index refers to
  evictionQueue, \* pageEvictionQueue
  opened,        \* how many native pages were opened so far
  open,          \* the native pages that are open
  documentOpen,  \* document.recycle() has not run
  pc,            \* where each thread is
  index,         \* pageIndex of the getPage call a thread is in
  evicted,       \* evictedPageIndex of that call
  hand,          \* the page a thread will use: vuPage, or the one it measures
  using,         \* the native page a thread is inside a native call with
  decoding,      \* pageNumber of the worker's task
  toRecycle,     \* what the recycler has still to visit
  modified,      \* the map gained or lost an entry since it began
  raced          \* history: what calls of getPage have overlapped so far

poolVars   == <<pages, evictionQueue>>
nativeVars == <<opened, open, documentOpen>>
workVars   == <<decoding, toRecycle, modified>>
vars == <<poolVars, nativeVars, workVars, pc, index, evicted, hand, using, raced>>

InGetPage == {"contains", "deref", "fill", "requeue", "offer", "size", "poll",
              "evict", "lookup"}
Pc == {"idle", "native", "inNative", "recycle", "done", "crashed"} \cup InGetPage

Init ==
  /\ pages = [i \in PageIndex |-> Absent]
  /\ evictionQueue = <<>>
  /\ opened = 0
  /\ open = {}
  /\ documentOpen = TRUE
  /\ pc = [t \in Thread |-> "idle"]
  /\ index = [t \in Thread |-> 0]
  /\ evicted = [t \in Thread |-> 0]
  /\ hand = [t \in Thread |-> None]
  /\ using = [t \in Thread |-> None]
  /\ decoding = 0
  /\ toRecycle = {}
  /\ modified = FALSE
  /\ raced = {}

-----------------------------------------------------------------------------
Contains(i) == pages[i] # Absent
Goto(t, l)  == pc' = [pc EXCEPT ![t] = l]

\* An exception, of a null reference or of native code: FutureTask swallows it on
\* the executor thread, where the task just ends; on the UI thread it ends the
\* application.
Throw(t) ==
  /\ Goto(t, IF t = "worker" THEN "idle" ELSE "crashed")
  /\ hand' = [hand EXCEPT ![t] = None]

\* performDecode: getPage(currentDecodeTask.pageNumber).
Decode(i) ==
  /\ pc["worker"] = "idle"
  /\ decoding' = i
  /\ index' = [index EXCEPT !["worker"] = i]
  /\ Goto("worker", "contains")
  /\ raced' = raced \cup {c \in {"getPage"} : pc["ui"] \in InGetPage}
  /\ UNCHANGED <<poolVars, nativeVars, toRecycle, modified, evicted, hand, using>>

\* getPageWidth(i) or getPageHeight(i), from a callback on the UI thread.
Measure(i) ==
  /\ pc["ui"] = "idle"
  /\ index' = [index EXCEPT !["ui"] = i]
  /\ Goto("ui", "contains")
  /\ raced' = raced \cup {c \in {"getPage"} : pc["worker"] \in InGetPage}
                   \cup {c \in {"sweep"} : pc["worker"] = "recycle"}
  /\ UNCHANGED <<poolVars, nativeVars, workVars, evicted, hand, using>>
-----------------------------------------------------------------------------
(* getPage(pageIndex), one access at a time. *)

\* !pages.containsKey(pageIndex) || ...
CheckContains(t) ==
  /\ pc[t] = "contains"
  /\ Goto(t, IF Contains(index[t]) THEN "deref" ELSE "fill")
  /\ UNCHANGED <<poolVars, nativeVars, workVars, index, evicted, hand, using, raced>>

\* ... pages.get(pageIndex).get() == null
CheckDeref(t) ==
  /\ pc[t] = "deref"
  /\ IF ~Contains(index[t]) THEN Throw(t)
     ELSE /\ Goto(t, IF pages[index[t]] = None THEN "fill" ELSE "lookup")
          /\ UNCHANGED hand
  /\ UNCHANGED <<poolVars, nativeVars, workVars, index, evicted, using, raced>>

\* pages.put(pageIndex, new SoftReference(document.getPage(pageIndex))).  The
\* native open may fail with an exception, and the map is left as it was; after
\* recycle() the document's native handle is zero, which native code does not
\* survive.
Fill(t) ==
  /\ pc[t] = "fill"
  /\ \/ /\ documentOpen
        /\ opened < MaxHandles
        /\ opened' = opened + 1
        /\ open' = open \cup {opened'}
        /\ pages' = [pages EXCEPT ![index[t]] = opened']
        /\ modified' = (modified \/ ~Contains(index[t]))
        /\ Goto(t, "requeue")
        /\ UNCHANGED hand
     \/ Throw(t) /\ UNCHANGED <<opened, open, pages, modified>>
  /\ UNCHANGED <<evictionQueue, documentOpen, decoding, toRecycle, index, evicted,
                 using, raced>>

\* pageEvictionQueue.remove(pageIndex): the first occurrence, if there is one.
RemoveFirst(q, i) ==
  IF \A p \in DOMAIN q : q[p] # i THEN q
  ELSE LET first == CHOOSE p \in DOMAIN q :
                      q[p] = i /\ \A r \in DOMAIN q : q[r] = i => p <= r
       IN  SubSeq(q, 1, first - 1) \o SubSeq(q, first + 1, Len(q))

\* Mutant: the index is offered without being removed first.
Requeue_Keeps(t) ==
  /\ pc[t] = "requeue"
  /\ Goto(t, "offer")
  /\ UNCHANGED <<poolVars, nativeVars, workVars, index, evicted, hand, using, raced>>

Requeue(t) ==
  /\ pc[t] = "requeue"
  /\ evictionQueue' = RemoveFirst(evictionQueue, index[t])
  /\ Goto(t, "offer")
  /\ UNCHANGED <<pages, nativeVars, workVars, index, evicted, hand, using, raced>>

Offer(t) ==
  /\ pc[t] = "offer"
  /\ evictionQueue' = Append(evictionQueue, index[t])
  /\ Goto(t, "size")
  /\ UNCHANGED <<pages, nativeVars, workVars, index, evicted, hand, using, raced>>

\* Mutant: the pool grows one page too large.
CheckSize_Late(t) ==
  /\ pc[t] = "size"
  /\ Goto(t, IF Len(evictionQueue) > PoolSize + 1 THEN "poll" ELSE "lookup")
  /\ UNCHANGED <<poolVars, nativeVars, workVars, index, evicted, hand, using, raced>>

CheckSize(t) ==
  /\ pc[t] = "size"
  /\ Goto(t, IF Len(evictionQueue) > PoolSize THEN "poll" ELSE "lookup")
  /\ UNCHANGED <<poolVars, nativeVars, workVars, index, evicted, hand, using, raced>>

\* poll() of an empty queue gives null, which the map does not contain.  Only
\* the races of the two threads bring that about.
Poll(t) ==
  /\ pc[t] = "poll"
  /\ IF evictionQueue = <<>>
     THEN Throw(t) /\ UNCHANGED <<evictionQueue, evicted>>
     ELSE /\ evicted' = [evicted EXCEPT ![t] = Head(evictionQueue)]
          /\ evictionQueue' = Tail(evictionQueue)
          /\ Goto(t, "evict")
          /\ UNCHANGED hand
  /\ UNCHANGED <<pages, nativeVars, workVars, index, using, raced>>

\* pages.remove(evictedPageIndex).get(), and recycle() of what it finds.
Evict(t) ==
  /\ pc[t] = "evict"
  /\ pages' = [pages EXCEPT ![evicted[t]] = Absent]
  /\ open' = open \ {pages[evicted[t]]}
  /\ modified' = (modified \/ Contains(evicted[t]))
  /\ IF Contains(evicted[t]) THEN Goto(t, "lookup") /\ UNCHANGED hand ELSE Throw(t)
  /\ UNCHANGED <<evictionQueue, opened, documentOpen, decoding, toRecycle, index,
                 evicted, using, raced>>

\* preloadNextPage asks for the page after that of the task.
Preloading(t) == t = "worker" /\ index[t] # decoding

\* return pages.get(pageIndex).get(), and what the caller does with it: null is
\* kept as any page is, and the result of the preload is not looked at.
Lookup(t) ==
  /\ pc[t] = "lookup"
  /\ \/ /\ ~Contains(index[t])
        /\ Throw(t)
        /\ UNCHANGED index
     \/ /\ Contains(index[t])
        /\ Preloading(t)
        /\ Goto(t, "native")
        /\ UNCHANGED <<index, hand>>
     \/ /\ Contains(index[t])
        /\ ~Preloading(t)
        /\ hand' = [hand EXCEPT ![t] = pages[index[t]]]
        /\ IF t = "worker" /\ decoding + 1 < NumPages
           THEN Goto(t, "contains") /\ index' = [index EXCEPT ![t] = decoding + 1]
           ELSE Goto(t, "native") /\ UNCHANGED index
  /\ UNCHANGED <<poolVars, nativeVars, workVars, evicted, using, raced>>

GetPage(t) ==
  \/ CheckContains(t) \/ CheckDeref(t) \/ Fill(t) \/ Requeue(t) \/ Offer(t)
  \/ CheckSize(t) \/ Poll(t) \/ Evict(t) \/ Lookup(t)
-----------------------------------------------------------------------------
\* renderBitmap or getWidth: the field pageHandle is read and passed to native
\* code; recycle() has set it to zero.  A null page throws, and a task that died
\* during the preload ends here too.
EnterNative(t) ==
  /\ pc[t] = "native"
  /\ \/ /\ hand[t] # None
        /\ using' = [using EXCEPT ![t] = IF hand[t] \in open THEN hand[t] ELSE None]
        /\ Goto(t, "inNative")
        /\ UNCHANGED hand
     \/ /\ hand[t] = None \/ t = "worker"
        /\ Throw(t)
        /\ UNCHANGED using
  /\ UNCHANGED <<poolVars, nativeVars, workVars, index, evicted, raced>>

LeaveNative(t) ==
  /\ pc[t] = "inNative"
  /\ using' = [using EXCEPT ![t] = None]
  /\ hand' = [hand EXCEPT ![t] = None]
  /\ Goto(t, "idle")
  /\ UNCHANGED <<poolVars, nativeVars, workVars, index, evicted, raced>>
-----------------------------------------------------------------------------
(* The runnable that recycle() submits, the last one on the executor. *)

BeginRecycle ==
  /\ pc["worker"] = "idle"
  /\ toRecycle' = {i \in PageIndex : Contains(i)}
  /\ modified' = FALSE
  /\ Goto("worker", "recycle")
  /\ raced' = raced \cup {c \in {"sweep"} : pc["ui"] \notin {"idle", "crashed"}}
  /\ UNCHANGED <<poolVars, nativeVars, decoding, index, evicted, hand, using>>

\* The next value of pages.values(): the page is closed if it is still there.
RecyclePage(i) ==
  /\ pc["worker"] = "recycle"
  /\ i \in toRecycle
  /\ ~modified
  /\ toRecycle' = toRecycle \ {i}
  /\ open' = open \ {pages[i]}
  /\ UNCHANGED <<poolVars, opened, documentOpen, decoding, modified, pc, index,
                 evicted, hand, using, raced>>

\* ConcurrentModificationException: the runnable ends and nothing else is freed.
RecycleThrows ==
  /\ pc["worker"] = "recycle"
  /\ toRecycle # {}
  /\ modified
  /\ Goto("worker", "done")
  /\ UNCHANGED <<poolVars, nativeVars, workVars, index, evicted, hand, using, raced>>

\* Mutant: the document is freed before all of its pages.
RecycleDocument_Early ==
  /\ pc["worker"] = "recycle"
  /\ documentOpen' = FALSE
  /\ Goto("worker", "done")
  /\ UNCHANGED <<poolVars, opened, open, workVars, index, evicted, hand, using,
                 raced>>

RecycleDocument ==
  /\ pc["worker"] = "recycle"
  /\ toRecycle = {}
  /\ documentOpen' = FALSE
  /\ Goto("worker", "done")
  /\ UNCHANGED <<poolVars, opened, open, workVars, index, evicted, hand, using,
                 raced>>
-----------------------------------------------------------------------------
(* The garbage collector and the finalizer thread. *)

\* Mutant: a caller keeps the native handle of a page and not the page object.
Held_Never(h) == FALSE

Held(h) == \E t \in Thread : hand[t] = h

ClearReference(i) ==
  /\ pages[i] \in Handle
  /\ ~Held(pages[i])
  /\ pages' = [pages EXCEPT ![i] = None]
  /\ UNCHANGED <<evictionQueue, nativeVars, workVars, pc, index, evicted, hand,
                 using, raced>>

Reachable(h) == Held(h) \/ \E i \in PageIndex : pages[i] = h

Finalize(h) ==
  /\ h \in open
  /\ ~Reachable(h)
  /\ open' = open \ {h}
  /\ UNCHANGED <<poolVars, opened, documentOpen, workVars, pc, index, evicted,
                 hand, using, raced>>
-----------------------------------------------------------------------------
Next ==
  \/ \E i \in PageIndex :
       Decode(i) \/ Measure(i) \/ RecyclePage(i) \/ ClearReference(i)
  \/ \E t \in Thread : GetPage(t) \/ EnterNative(t) \/ LeaveNative(t)
  \/ BeginRecycle
  \/ RecycleThrows
  \/ RecycleDocument
  \/ \E h \in Handle : Finalize(h)

Spec == Init /\ [][Next]_vars
-----------------------------------------------------------------------------
(* Properties *)

\* Type correctness of the pool, of the native pages and of the two threads.
TypeOK ==
  /\ pages \in [PageIndex -> Handle \cup {None, Absent}]
  /\ evictionQueue \in Seq(PageIndex)
  /\ opened \in 0 .. MaxHandles
  /\ open \subseteq Handle
  /\ documentOpen \in BOOLEAN
  /\ pc \in [Thread -> Pc]
  /\ index \in [Thread -> PageIndex]
  /\ evicted \in [Thread -> PageIndex]
  /\ hand \in [Thread -> Handle \cup {None}]
  /\ using \in [Thread -> Handle \cup {None}]
  /\ decoding \in PageIndex
  /\ toRecycle \subseteq PageIndex
  /\ modified \in BOOLEAN
  /\ raced \subseteq {"getPage", "sweep"}

\* The two threads have never been inside getPage at the same time.
Unraced == "getPage" \notin raced

\* A bound for TLC: once they have, one handle less is opened.
FewerWhenRaced == Unraced \/ opened < MaxHandles

\* Whenever no thread is inside getPage, the map and the eviction queue tell of
\* the same pages, each once, and of no more than the pool may hold: an index in
\* the map that the queue lacks would be a page that is never evicted.
MapMatchesQueue ==
  (\A t \in Thread : pc[t] \notin InGetPage) =>
    /\ Len(evictionQueue) <= PoolSize
    /\ \A p, q \in DOMAIN evictionQueue :
         evictionQueue[p] = evictionQueue[q] => p = q
    /\ {i \in PageIndex : Contains(i)}
         = {evictionQueue[p] : p \in DOMAIN evictionQueue}

\* getPage never meets a missing entry where the code dereferences one: the
\* entry it has just checked, the one it evicts, the one it returns.
NoMissingEntry ==
  \A t \in Thread :
    /\ pc[t] \in {"deref", "lookup"} => Contains(index[t])
    /\ pc[t] = "evict" => Contains(evicted[t])

\* The map and the queue are in step, at rest and where getPage relies on it,
\* until the two threads have once been inside getPage at the same time.
PoolConsistent == Unraced => MapMatchesQueue /\ NoMissingEntry

\* recycle() frees the document last, whatever the two threads have done to the
\* pool before: what it leaves open are pages that nobody can reach any more, and
\* that only await their finalizer.  Only a UI thread that uses a page while the
\* freeing runnable runs can undo that.
PagesAreFreedFirst ==
  ~documentOpen /\ "sweep" \notin raced => \A h \in open : ~Reachable(h)

\* Until recycle() runs, no native call is under way on a page that has been
\* released.  ddjvuapi.h says of ddjvu_page_release that the calling program
\* should no longer reference the object.
NativeCallOnOpenPage ==
  pc["worker"] \notin {"recycle", "done"} =>
    \A t \in Thread : using[t] # None => using[t] \in open

\* However long the reader scrolls and whatever the collector clears, the pool
\* keeps no more pages open than its size, and one more while getPage has opened
\* a page and not yet evicted another, until two calls of getPage have overlapped.
Filling == {"requeue", "offer", "size", "poll", "evict"}
OpenPagesBounded ==
  Unraced =>
    Cardinality({h \in open : Reachable(h)})
      <= PoolSize + Cardinality({t \in Thread : pc[t] \in Filling})

\* Whatever the two threads do to each other, the eviction queue holds at most
\* one index too many for each thread that has offered one and not yet polled:
\* the page pool cannot grow without limit through its races.
QueueBounded ==
  Len(evictionQueue)
    <= PoolSize + Cardinality({t \in Thread : pc[t] \in {"size", "poll"}})

\* In every race, the page that a task will render is closed by one thing only:
\* an eviction that found its index to be the oldest of the queue, made by the
\* task's own preload or by a read of the UI thread.  Neither the collector nor
\* the freeing runnable closes it, and no eviction of another index.
InHandClosedOnlyByEviction ==
  [][\A h \in open \ open' :
       h = hand["worker"] =>
         \E t \in Thread :
           /\ pc[t] = "evict"
           /\ evicted[t] = decoding
           /\ t = "ui" \/ Preloading(t)]_vars
=============================================================================
