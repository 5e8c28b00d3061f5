# A TLA+ model of vudroid

vudroid is a viewer of PDF and DjVu documents for Android. Its own code is about
2800 lines of Java under `src/src/main/java/org/vudroid` and two JNI bridges
under `src/jni/vudroid`; `src/jni/djvudroid` (ddjvulibre) and `src/jni/mupdf` are
third-party libraries. The program has no tests. What is hard in it is the
meeting of three threads: the UI thread, which scrolls, zooms and draws; the
single executor thread, which decodes; and the thread that pumps the messages of
a DjVu context. The garbage collector and its finalizers are a fourth party.

Paths below are relative to `src/src/main/java/org/vudroid`.

## Inventory

| Component | State | Operations | What makes it correct |
|---|---|---|---|
| Decode service (`core/DecodeServiceBase.java`) | `decodingFutures`, `isRecycled`, the executor and its queue | `decodePage`, `stopDecoding`, `performDecode` with three `isTaskDead`, `finishDecoding`, `recycle` | no request is lost, no backlog builds up, the document is freed after the last decode |
| Page pool (same file) | `pages` (soft references), `pageEvictionQueue` | `getPage`, `preloadNextPage`, `getPageWidth/Height` | map and queue agree, open pages are bounded, nobody uses a closed page |
| Tree of slices (`core/PageTreeNode.java`) | bitmap, soft reference, `decodingNow`, `invalidateFlag`, `children` | `updateVisibility`, `invalidate`, `recycle`, the decode callback | what is visible is filled, sharp and drawable; the progress count is right |
| Document view (`core/DocumentView.java`, `core/Page.java`) | page bounds, scroll, `inZoom`, posted runnables | `onScrollChanged`, `zoomChanged`, `commitZoom`, `showDocument`, touch and fling | visibility follows the view; the scroll stays in its limits |
| Decoding progress (`core/models/DecodingProgressModel.java`) | one counter | `increase`, `decrease` | it counts the nodes being decoded |
| DjVu context (`djvudroid/codec/DjvuContext.java`, `jni/vudroid/DjvuDroidBridge.cpp`) | context handle, `docSemaphore`, the native message queue | `openDocument`, `run`, `recycle` | opening returns; a freed context is not used |
| Codec handles (`djvudroid/codec`, `pdfdroid/codec`) | native handles of pages and documents | open, use, `recycle`, `finalize` | freed once, not used afterwards, pages before documents |
| Zoom (`core/models/ZoomModel.java`, `core/multitouch`, `core/views/ZoomRoll.java`) | `zoom`, `isCommited`, last pinch distance, roll value | `setZoom`, `commit`, pinch, roll and fling | every zoom is committed in the end |
| Viewer activity (`core/BaseViewerActivity.java`, `core/GoToPageDialog.java`) | the services, the saved page | `onCreate`, `onDestroy`, `currentPageChanged` | the page is restored; nothing runs on after `onDestroy` |
| PDF bridge (`jni/vudroid/pdfdroidbridge.c`, with mupdf's object table) | counted objects, the table that caches them, the store, the position of the file | `PdfDocument_open/free/getPageCount`, `PdfPage_open/free` | nothing is freed that is in use, everything when all is closed; streams are read from their place |
| Recent files and browser (`core/ViewerPreferences.java`, `core/BaseBrowserActivity.java`, `core/presentation`) | the entries with their times, the directory shown | `addRecent`, `getRecent`, `setCurrentDirectory`, clicks, `onResume` | the list is the history of what was opened |
| Events, shells, utilities | none or a list that is filled once | see the files | - |

How they meet. `DocumentView` runs `PageTreeNode` on the UI thread. A node asks
`DecodeServiceBase` for a bitmap under its own identity as key; the service hands
a task to the executor and keeps its future. The task opens pages through the
pool, preloads the next one, renders, and calls back; the callback is posted to
the UI thread, where it changes the node and asks the service for the size of the
page, and so enters the pool from a second thread. A scroll posts an update of
the visibility; a zoom changes bounds at once and defers everything else to its
commit. `onDestroy` recycles the service: what is registered is cancelled, and a
last runnable frees pages, document and context.

The hard behaviours are listed as `hazards` in `PROJECT.json`, each with its line
and the properties that watch over it.

## Modules

| Module | Models | Used by |
|---|---|---|
| `DecodeContract` | what a decode service promises, without futures, lock or executor | refined by `DecodeService`; the environment of `PageTree` keeps to it |
| `DecodeService` | the service with the client protocol of `PageTreeNode`, two threads | `MCDecodeService` for TLC, `DecodeServiceProofs` |
| `DecodeServiceProofs` | the proofs of its invariants, and that it implements `DecodeContract` | - |
| `DecodeContractProofs` | the proof that the contract keeps its promise | `DecodeServiceProofs`, by `INSTANCE` |
| `QueueLemmas` | lemmas on queues, least numbers, induction over an interval and recursive functions | the modules of proofs |
| `PagePool` | `getPage` one access at a time, the use of pages, freeing, the collector | `PagePoolProofs`, its proofs |
| `PageTree` | the methods of `PageTreeNode` and the events that drive them | `MCPageTree` for TLC, `PageTreeProofs` |
| `PageTreeProofs` | the proofs of its invariants | - |
| `ZoomGesture` | the zoom model, the pinch, the roll and what the view does with them | `ViewerProofs` |
| `DocumentLayout` | bounds, scroll, current page, posted runnables, sessions | `MCDocumentLayout` for TLC, `ViewerProofs` |
| `ViewerProofs` | the proofs about the view, `DocumentLayout` and `ZoomGesture`, and about `Browser` | - |
| `DjvuContext` | opening a DjVu document, the message pump, freeing the context | `DjvuProofs` |
| `DjvuHandles` | the Java objects that hold native handles of DjVu, the counted native objects and the messages that name them | `DjvuProofs`, the proofs about both |
| `PdfBridge` | the PDF bridge and the counted objects of a mupdf document | `MCPdfBridge` for TLC, `PdfBridgeProofs`, its proofs |
| `Browser` | recent files, the directory listing, the activities that show them and start viewers | `MCBrowser` for TLC, `ViewerProofs` |

### DecodeService

A step is one access to what the threads share. `decodePage` becomes
`DecodePageSubmit` (the flag of the node, the test of `isRecycled` and `submit`),
`DecodePagePut` and `DecodePageCancel`; between them `uiPc` is `put` or `cancel`,
which is when the UI thread holds the monitor of `decodingFutures` (`LockFree`).
`stopDecoding` takes no monitor: `StopDecoding`, `StopDecodingCancel`. `recycle`
is `BeginRecycle`, a loop of `RecycleKey` and `RecycleCancel`, `SubmitRecycler`,
`Shutdown`. The executor's thread is `TakeTask` (a cancelled future is skipped),
`CheckDead` three times, `Codec` or `CodecThrows`, `Publish` (the callback is
posted) and `Finish`. `Finish` removes the *page number* from the map, as
`finishDecoding` does (line 154), although futures are registered under the node:
the entry of an answered task stays until it is replaced, stopped or recycled.
`RunCallback` is the part of the posted runnable that concerns the service. The
freeing runnable is `BeginSweep`, then `RecycleDocument`, or `SweepThrows` when a
callback that was posted before reached the map of pages meanwhile (`disturbed`).

`status` joins the state of a future and of its run: `queued`, `cancelled`,
`running`, then `answered`, `dropped` (found dead) or `failed` (threw).

`ImplementsContract` maps this state to `DecodeContract`. A task is a request
once it is registered; it is `withdrawn` when it is pending and no longer the
registered future of its node. The mapping says what the service really gives:
answers in the order of the requests, possibly of requests that were withdrawn
while they ran, and none dropped that nobody withdrew.

### PagePool

`getPage` is split into its accesses to `pages` and `pageEvictionQueue`
(`CheckContains`, `CheckDeref`, `Fill`, `Requeue`, `Offer`, `CheckSize`, `Poll`,
`Evict`, `Lookup`), run by the threads `worker` and `ui`. The worker calls it for its
page, keeps that page in `hand`, calls it for the next page (also if the first is
null), and then enters native code. A value of `Handle` is one native page; `open` is
the set of those not freed. `ClearReference` is the collector: it may clear any
reference whose page no thread holds in its hand, and `Finalize` then frees the
handle. Each access is atomic in the model; `HashMap` and `LinkedList` promise less,
and what a data race inside them does is left out. `Fill` opens the page, which may
throw, and puts it into the map in one step. The runnable of `recycle` is
`BeginRecycle`, `RecyclePage`, `RecycleDocument`, or `RecycleThrows` when the map
changed under its iterator. `raced` is history: whether two calls of `getPage` have
overlapped, and whether the UI thread was using a page during the sweep.

### PageTree

Everything runs on the UI thread, so a whole event is one step. The methods of
`PageTreeNode` are functions from the record `s` to its next value, with their names;
they are composed as the methods call each other. Those that call themselves on the
children (`Recycle`, `UpdateVisibility`, `InvalidateRecursive`) are recursive functions
on the nodes, and `ForEach` is the loop over the children, which hands the state from
one call to the next. Pixels and coordinates are left out: a node is visible or not
according to `s.view`, which is one of `Views`, and a bitmap is the number of the
request that made it. `s.made` lists the requests with their node and zoom. `Scroll`
posts `RunVisibility` unless `inZoom`; `ZoomChanged` and `CommitZoom` come from the zoom
model; `OtherPageMeasured` is another page's `setAspectRatio`, which moves this page and
updates nobody. The service is the environment: `Answer`, `Drop`, `Fail`. `s.late` is
history: requests answered to a node after it withdrew them.

`TreeAssumption` says which trees these are. Nodes are finitely many and each but the
root is a child of one node (`createChildren` makes the objects anew). Whatever holds
of a node as soon as it holds of its children holds of all, and whatever passes from
the root to children reaches all: divisions end, and there is nothing outside the
tree. A leaf is below its threshold at every zoom of the model, which is where the
code would go on dividing. A view that shows a slice shows the slice it is part of,
because a child's bounds lie within its parent's. `ZoomModel` starts at 1.

### ZoomGesture

Everything runs on the UI thread; what is free is the order of touches, frames and
layouts. `SetZoom` and `Commit` are the methods of `ZoomModel` together with what
`DocumentView` does when it is told: `zoomChanged` sets `inZoom` and stops the
scroller, `commitZoom` invalidates every page at the present zoom
(`invalidatedAt`). The touch events of the view are `Down`, `PointerDown`,
`PointerUp`, `PinchMove`, `ScrollMove`, `Up`, `Cancel`, as `MultiTouchZoomImpl` and
then the view handle them; those of the roll are `RollDown`, `RollMove`, `RollUp`,
`RollCancel`, and its frames `RollFrame` and `RollRest` (`computeScroll` with and
without an offset). `pinch` is the pair of fingers whose distance
`lastZoomDistance` is, `lastPoint` the finger whose position `lastX` and `lastY`
are; distances and positions themselves are left out, so a pinch may set any zoom.
`fling` is the zoom under which the scroller of the view was started. `ToggleZoomControls`
hides the roll in an animation (`leaving`), during which it still gets frames.
`modelZoom` is `ZoomModel.zoom` and `viewInZoom` is `DocumentView.inZoom`: the modules
about the view name their state apart, so that `ViewerProofs` can prove things about
each of them.

### DocumentLayout

Only the vertical direction: a page always spans the width. Heights are counted
in units of 1/`U` pixel, so that `Math.round` of a top and the casts to `int` do
what they do to the floats; `Clamp` is `scrollTo`, where the limit of the bottom
wins even when it is negative. `posted` is the queue of the main looper: `init`
(the runnable of `showDocument`), `page` and `visibility` (those of
`onScrollChanged`), which look at the state in which they run. `PageMeasured` is
`setAspectRatio` from a decode callback. `Destroy`, `OpenAgain` and `OpenReplaced`
are sessions: `saved` is the preference of the document and all that survives.
`Rank` is the order in which the map of pages is iterated; `Draw` is there because
it may be what fills the cached rectangle. `crashed` is a null pointer on the UI
thread, of which the code has two: a page remembered that the document no longer
has, and a current page that changes after `onDestroy`. `noted` is history: whether the
session has saved a change of the page.

### DjvuContext

ddjvulibre is built without threads, so the UI thread runs the whole initialisation
inside the native open, and the pump takes messages meanwhile. `OpenDocument` begins it,
`OpenFails` is a native open that gives null. `FileFails` is an error of an included
file, before the initialisation ends. `Initialised` posts `DDJVU_DOCINFO`, for a sound
document and for one that is corrupt (`notify_doc_flags_changed` tells neither from the
other); the error of the corrupt one comes after it, `NotifyError`. `Acquire` is
`docSemaphore`; the pump is `EnterMonitor`, one of `HandleOther`, `HandleDocInfo`,
`HandleError`, then `Wait` and `WakeUp`. `RecycleContext` needs the monitor.

### DjvuHandles

The Java objects are the pages, `"doc"` and `"ctx"`; `handle` holds those whose
native handle is not zero, `own` counts what the bridge holds of each native
object. `recycle` is `Enter` (the monitor and the test), `Mark`, `Clean`, `CleanPeeked`
and `Unref` (what `ddjvu_job_release` does, in its order) and `Zero`; the executor, the
UI thread and the finalizer run it. `ReadDocument` and `CreatePage` are
`DjvuDocument.getPage`, which takes no monitor, `Evict` and `KeepAll` what the pool
does next. A Java thread that makes a page decodes it in the same call, and posts messages
as it does: `Notify` is the test of `msg_push`, that nothing the message names was
released, and `MsgPush` the append. `GMonitorLock` locks nothing in this build
(`Android.mk:6`, `GThreads.h:443`), so other threads run in between. `late` is history: a
message was appended after something it names was released. `Peek` and `Pop`
are the pump. The steps on the list of messages are atomic: what data races inside
`GList` do is left out. The freeing runnable is `BeginSweep`, `SweepPage`,
`SweepDocument`, `SweepContext`, or `SweepThrows`; after `Drop` the service itself is
garbage and finalizers come in any order. `CreatePage` may also fail in the library
and give the handle 0.

### PdfBridge

`xref` is what the threads share of a document: which objects of the file are in its
table, how often each is counted, which indirect references have found their object and
so keep it, the resource store, and where the file is positioned. `DropAll` is
`fz_dropobj` with all that follows from it: `Freed` visits the objects in the order
`Descending`, containers before what they refer to, and what the freed ones had found is
counted once less (`Left`, `Loose`). Loops of the code (`Flush`, `Repaired`,
`ResolveAll`, `UseFonts`) are recursive functions on an interval. A step is one call of
mupdf: `PdfPage_open` is `FlushXref`, `FindPage`, `LoadPage` (the annotations and their
link, the store, the resources, the contents), then for each content stream
`CacheStream`, `SeekStream` (which reads the length, and if that is an object of its own
moves the file) and `ReadStream`, at last `Interpret`, which puts fonts in the store.
It may fail at the page tree (`PageMissing`), for want of bounds (`BoundsMissing`), at a
stream (`StreamFails`) or in an operator (`InterpretFails`); the last two go through
`GiveUp`, the error path of `pdf_loadpage`, which lets the resources go and nothing
else. What is lost is in `natives`. Objects in `Broken` cannot be read: a reference to one finds
no object (in the code it keeps itself), and a page whose one content stream is broken
is blank. The threads are the executor and the UI thread, with no lock between them, and
`PdfDocument_free` may come while a thread is inside `PdfPage_open`; what that thread
does from then on, in freed memory, is not followed. `raced` is history: a page was
opened while another thread was opening one. A document may be repaired when it is
opened, which corrects stream lengths in memory, and `getPageCount` corrects a wrong
`Count` in memory. Objects are numbered as in the file and have no contents but what
they refer to.

### Browser

`recent` is the preferences' time of each document; `GetRecent` is the `TreeMap` from
times to documents, so one of two equal times is lost, whichever the iteration comes
to first. `Listing` is `setCurrentDirectory` with the filter and the order of the
comparator. `Open` is the viewer's `onCreate`, from the browser (`ShowDocument`),
from another application, or again by the full screen toggle. `Kill` takes an
activity that is not on screen, `FileChanges` deletes files and brings them back,
`SetClock` moves the clock either way. `history` and `steady` are history variables:
what was opened, and whether the clock advanced between any two openings. Its state is
named apart from that of the modules about the view, like that of `ZoomGesture`.

## Runs

| Run | Bounds | Shows |
|---|---|---|
| `service` | 2 nodes, 1 page, 3 tasks | safety, `NoSubmitAfterShutdown`, the refinement and the contract's promise; under `FairSpec` also `EveryTaskSettles`, `ProgressEnds`, `DocumentIsFreed` |
| `pool` | 3 pages, pool of 2, 4 handles, and 3 once two `getPage` have overlapped | map, queue and open pages agree until two `getPage` overlap; and what holds in every race: the bound of the queue, the order of freeing, who closes the page in hand |
| `pool_release` | 3 pages, pool of 2, 4 handles | a finding, see below |
| `tree` | root and two slices, 2 zooms, 3 requests, 2 posted runnables | the tree through scrolls, zooms, late and missing answers |
| `zoom` | 3 fingers, zooms 1 to 3, the roll ends at 2 | pinch, roll and layout in any order: safety and `EveryZoomIsCommitted` |
| `layout` | 3 pages of 2 ratios, portrait and landscape, 2 zooms, thirds of a pixel, at most 3 posted runnables | bounds, limits, current page and the page remembered |
| `djvu_open` | 3 messages | the pump and the opening of a document |
| `djvu_status` | 3 messages | a finding, see below |
| `djvu_handles` | 2 pages | every order of eviction, freeing, finalizers and pump releases each object once, and no message names what is gone until one is appended late |
| `pdf_objects` | 2 threads, 2 pages, 3 streams, a link, a shared font and a broken one, each page open at most twice | counts, flushes, repairs, failed loads and closing |
| `pdf_file` | the same, pages counted before one is opened | a finding, see below |
| `browser` | 3 documents, 3 directories, times up to 3 | the recent list across viewers, kills, deletions and clocks |

Why the bounds are enough. Three tasks on two nodes are a request, one that
supersedes it and one of another node between them, which is all that
`decodingFutures` can tell apart: each task touches only the entry of its node,
and of its page. One page for both nodes makes the wrong key in `Finish` common
to both. The proofs below do without the bound. In the pool, three pages and a
pool of two make hits, fills, refills of a cleared entry, evictions and an
eviction of the page in hand; four handles let a page that was evicted or cleared be
opened again. `PoolConsistent` and `OpenPagesBounded` say nothing of a state after two
calls of `getPage` have overlapped, so four handles matter before that; beyond it the
constraint `FewerWhenRaced` keeps to three, one for each page, and the other three
properties are about queue, sweep and hands rather than refills. In the tree,
the root is below the threshold at zoom 1 and above it at zoom 2, where its two
slices are used, so that going in and out expands, hides, collapses and detaches;
three requests fill the root and both slices or repeat one of them. The tree of
the code has four children per node and more levels; no method looks at siblings
other than through "all" and "any", for which two are enough; the proofs below hold for
any number of children and levels.

Three fingers are the fewest with which a pinch can lose a finger and go on; a zoom
beyond the end of the roll is one that only a pinch reaches and the roll clamps.
In `layout` heights are thirds of a pixel. A single page is shorter than the view in
portrait at zoom 1 and taller in landscape and at zoom 2; ratio 3 gives whole pixels and
ratio 4 pages that begin within one, so that documents shorter than the view, rounded
tops and jumps at the end occur; three pages have one that moves because the one
before it was measured. These views and ratios meet the hypotheses `PixelHigh`,
`Turns` and `Ascending` of the proofs below.

Two DjVu pages are one that is released while the other is being made, measured or
posted from; a third would repeat the second. In `pdf_objects` one page has a link and a
stream of its own and the other an array of two, one length is a reference, one is wrong
and one is direct, both pages share a font, one has a font that cannot be read, and
`Count` is too small: each case of the code occurs, and a page open twice keeps one
reference by two keepers. Its two threads are interchangeable, so it is run up to their
symmetry (`MCSymmetry`). The constraint of `pdf_file` has the order of the viewer, where
`DocumentView.init` asks for the page count before any page is decoded.
Three documents in `browser` are one that is renewed, one that is overtaken and one
the browser knows no activity for; three times allow two equal ones and a clock set
back.

Runs that turn off the deadlock check do so because the reader may stop and the
bounds end every behaviour; each configuration says so.

### Fairness

`FairSpec` of `DecodeService` has weak fairness for the UI thread inside a call
and for the executor thread: threads that can run do run. `RunCallback` has strong
fairness: the main looper is first-in-first-out, so a posted runnable is reached
although other events disable it again and again. Nothing forces the reader to
scroll, zoom or leave. `DjvuContext` is fair to its pump, whose waits time out, and
to the only thread that acquires the semaphore. In `ZoomGesture` a fling of the roll
ends, because a scroller has a duration, and a roll that was invalidated is drawn
while it can be; nobody has to touch anything.

## What the runs found

1. `djvu_status`: `ddjvuapi.h:630` asks the caller to determine by
   `ddjvu_document_decoding_status` whether the operation that `m_docinfo`
   reports was successful. `handleDocInfo` does not: a document that failed to
   initialise is returned as open. Its `DDJVU_ERROR` comes after its `DDJVU_DOCINFO`
   and is only logged.
2. `pool_release`: `ddjvuapi.h:834` says a released page should no longer be
   referenced. The eviction of one thread releases a page that the other thread is
   inside a native call with.
3. `pdf_file`: `pdf_stream.c:349` calls it a bad idea to use the file while a stream is
   open. The executor and the UI thread open pages of one document without a lock, and
   one moves the file between the other's seek and read. (One may also flush the
   dictionary of the other's stream between `CacheStream` and `SeekStream`.)

Met while modelling, and without a run of their own:

- The late callback of a decode asks for a page and may have read the document's
  handle (`ReadDocument`) when the freeing runnable destroys it; `ddjvuapi.h:523`
  says that a released document should no longer be referenced.
- `ddjvuapi.h:419` says that the fields of a message are cleared, or the message removed
  from the queue, when the object is released. The library is built without threads and
  so without locks, but several Java threads call it: a message of the document that the
  UI thread is about to append (`MsgPush`) goes into the queue after the executor has
  cleaned it and released the document. `MessagesNameOwnedJobs` is stated until then
  (`late`).
- A repair puts a "corrected stream length" (`pdf_repair.c:290`) in the objects in
  memory; the flush at every `PdfPage_open` discards them (`Flush` drops them from
  `corrected`), and the wrong length is read from the file again.
- The manifest lets the viewers open a document by its type (`AndroidManifest.xml:13`),
  and the recent list shows it; chosen there, it has no activity unless its URI ends in
  a known extension, and the browser throws (`ShowDocument`).
- Once two calls of `getPage` have overlapped, `PoolConsistent` and `OpenPagesBounded`
  fail, even for a document that fits in the pool: a page may be in the map and not in
  the queue, `poll()` may meet an empty queue, and an entry may be missing where it is
  dereferenced. Both are stated until then; `QueueBounded`, `PagesAreFreedFirst` and
  `InHandClosedOnlyByEviction` hold beyond.
- The freeing runnable may end in a `ConcurrentModificationException`, after which
  neither document nor context is freed: `DocumentIsFreed` excludes a sweep that a late
  callback disturbs. Such a callback may also put a page into the pool that the sweep
  does not visit (`PagesAreFreedFirst`).
- In a document larger than the pool the preload, or the UI thread, may evict the page
  in hand (`InHandClosedOnlyByEviction` says that nothing else closes it).
- A native open that gives no document leaves `openDocument` waiting for ever:
  `OpenReturns` excludes it.
- A late answer clears `invalidateFlag` and `decodingNow`, so a slice may keep the
  resolution of the zoom before: `SharpAtRest` names that case.
- A decode that throws leaves the flag of its node and the progress indicator on
  until the node goes out of sight: `ProgressEnds`, `NothingBlankAtRest`.
- A cancelled pinch is not committed, and keeps its distance: the next move of one
  finger asks for the position of a second, which throws (`crashed`).
- A roll that is hidden in mid-fling gets no frames, so its zoom waits for the next
  commit; shown again, it goes on and overwrites the zoom a pinch has set since.
  The roll also pulls a zoom beyond its end back to its end when it is touched, and
  its frames commit in the middle of a pinch, which costs decodes only.
- Nobody clamps the scroll or looks up the current page when a page is measured. A
  document that shrinks by more than the view leaves nothing in sight; a runnable
  that runs then finds page 0 and saves it (`FirstOf`).
- A page asked for may begin up to half a pixel below the top of the view, because
  `getTop` rounds; then the one before it is the current page, and is saved: a
  document may open one page earlier at each start.
- `CurrentPageModel` begins at page 0, so a first lookup that finds page 0 is no change
  and is not saved: a reader who at once goes back to the beginning and leaves returns
  to the page of an earlier session. `LeftPageReturns` names that one exception.
- A remembered page beyond the end of a document that became shorter throws at
  every start.
- After `recycle` a request is refused without a word and `decodingNow` is set.
- A DjVu context that was not recycled, because the freeing runnable threw, is kept
  reachable by its own pump thread: neither is ever freed.
- A late callback that reads a handle already zeroed passes 0 to native code, which
  does not survive it; `recycle` zeroes handles under the monitor, uses do not test.
- A `PdfDocument_open` or `PdfPage_open` that fails leaks what it had allocated. A page
  that could not be loaded loses the bridge's struct, and its links with all that their
  URIs hold (`pdf_page.c:202`); what is lost so stays when the document is closed, which
  is what `CloseFreesEverything` allows for. A reference that could not be resolved keeps
  itself (`obj_simple.c:247`) and is never freed.
- With two threads in `PdfPage_open` the flush of one may free the dictionary of a stream
  that the other is about to position. Its Length is then resolved in a dictionary that
  nobody holds: in the code this reads freed memory, in the model its object is left
  when all is closed. `CloseFreesEverything` is stated of threads that open one page at a
  time.
- `pdf_closexref` warns of a store that someone forgot to empty although the bridge
  has freed it. Nothing ages the store, so fonts stay until the document is closed.
- A `Count` that is too small makes pages unfindable until `getPageCount` has
  corrected it, and the viewer happens to ask for it first: `CountedPagesAreFound`
  is stated from then on.
- Recent files of one time hide each other, and a clock set back disorders them:
  `RecentIsHistory` excludes both. A directory deleted since it was listed is taken
  for a document when it is clicked, and there is no activity for it either.

## Proofs

`DecodeServiceProofs` holds for all sets of nodes and pages and any number of
tasks, from `ServiceAssumption` alone (nodes and page numbers are different keys,
every node has a page). The theorems:

- `TypeCorrect`: `Spec => []TypeOK`.
- `RequestsAreNotLost`: `Spec => []NoLostRequest`.
- `QueuedTasksAreReachable`: `Spec => []QueuedIsReachable`.
- `DocumentOutlives`: `Spec => []DocumentOutlivesTasks`.
- `NothingAfterShutdown`: `Spec => NoSubmitAfterShutdown`, an action property.

All rest on one inductive invariant, `IInv` (`InitInv`, `StepInv`,
`InvariantHolds`). None of the properties is inductive by itself.
`NoLostRequest` needs to know that a task whose future is being registered has
not passed the first `isTaskDead` (`UiInv`): this is the lock, and dropping
`LockFree` from `CheckDead` breaks exactly this part. It also needs that a future
is registered under the node of its own task (`FutureInv`), or an answer to one
node could be the last foundation of another, and what the executor runs at each
place (`WorkerInv`). `QueuedIsReachable` speaks of the moments between two calls;
`ReachInv` adds the futures in the UI thread's hand inside one. The last two
theorems need that the freeing runnable is the last in the queue and that nothing
is accepted from `isRecycled` on (`RecyclerInv`). `StepInv` has one step per
action, and under it one per part of `IInv` that the action can disturb.
`QueueLemmas` states what `Head`, `Tail` and `Append` do to the queues, that some
numbers have a least one, and that a function defined by recursion on an interval is
what its definition says, by induction on the interval: with these the proofs about the
other modules treat sequences and loops.

`DecodeContractProofs` proves `PromiseHolds`, `Spec => []PromiseIsKept`, for any
nodes and any set of request numbers; its hypothesis, `ContractAssumption`, follows
from `ServiceAssumption` where the theorem is used. The invariant adds that
requests are made in order (`MadeInOrder`) and that an answer in the inbox is older
than every pending request (`InboxIsOlder`), without which a new answer could be
older than one that is on its way.

The second part of `DecodeServiceProofs` proves `Implements`, `Spec =>
ImplementsContract`, from the same `ServiceAssumption`. To `IInv` it adds `RInv`: what
waits to run is in the executor's queue, in the order of submission, and younger than
what runs (`QueueInv`, `OrderInv`), which is why answers and failures come from the
front; and nothing is being registered once the service is recycled (`NewInv`).
`StepRefines` gives for each action the step of the contract it is: `DecodePageSubmit`
is a stutter and `DecodePagePut` the `Accept`, `StopDecoding` and `RecycleKey` are
`Withdraw`, the cancels and a task found dead are `Drop`. Through the same mapping
`NodesAreAnswered` carries `PromiseIsKept` over to the service, where it is
`NodesKeepThePromise`.

`DjvuProofs` proves `OwnedOnce` for any number of pages. A thread past the test of the
handle holds the monitor until the handle is zero (`Locked`, `Held`), so that only one
gives up the count, and a page that was not made has no handle (`Fresh`). It also proves
`MessagesNameOwned`, `Spec => []MessagesNameOwnedJobs`. `MessageInv` says that a job is
marked before its count is given up (`Gone`), that what is named and not marked is still
counted (`StillOwned`), and that what is marked is named only while the thread that
marked it has still to clean (`BeingCleaned`), which a late message breaks.

The second part of `DjvuProofs` is about `DjvuContext`: `PumpIsSafe`, `ContextSpec =>
[]PumpUsesLiveContext`, holds because the pump has the monitor exactly between its
test of the handle and its wait (`ContextLives`), and `recycle()` needs it.

`PagePoolProofs` has no hypothesis but `PoolAssumption`, and both threads. It proves
`TypeCorrect` and `QueueStaysBounded`, `Spec => []QueueBounded`, for any number of pages
and any pool: the bound is inductive with the types, given what `remove` does to a list
(`RemoveShortens`) and a count of two threads (`ThreadsAreCounted`).

The other four theorems have no other hypothesis: what a race spoils is named in the
property. `PoolStaysConsistent` and `OpenPagesStayBounded` speak of the time until two
calls of `getPage` overlap (`Unraced`), whichever threads make them; TLC finds both
false beyond, by the races described under "What the runs found". Until then at most
one thread is in `getPage` (`OneAtATime`), and `AloneInv` holds (`AloneUntilRaced`): the
map holds what the queue holds and the one index in transit (`InStep`, `Unqueued`), the
queue repeats nothing, what is about to be dereferenced is in the map
(`AskedIsMapped`), and where the pool has grown too large the page asked for is the
last of the queue, so the pool does not evict it (`QueueFits`). `HandsInv` adds that a
page in hand and open is in the map; with a count of the values of a finite function
(`AtMostAsMany`) this bounds the open pages.

`OnlyEvictionCloses`, `Spec => InHandClosedOnlyByEviction`, and `PagesGoFirst`, `Spec =>
[]PagesAreFreedFirst`, hold in every race. The first rests on `HandInv`: a native page
goes by one index (`HandlesDiffer`), the page in the worker's hand is that of its task
(`HandIsDecoding`), and a thread that does nothing holds nothing (`RestIsEmpty`). The
second rests on `SweepInv`: the freeing runnable has closed what it has visited, as long
as no read of the UI thread meets the sweep, which is the exception the property makes.

The first part of `ViewerProofs` holds for documents of any length, pages of any height, any
views and zooms, and any `U`. `RectIsFresh`, `ScrollStaysWithin` and
`VisibilityIsTold` need `LayoutAssumption` alone. The last two rest on `IInv`, which
says what is true once the pages are laid out, and on what a move of the scroll does
(`Scrolls`). The other three have hypotheses:

- `AskedComesInSight`, `[]AskedPageIsShown`, assumes `PixelHigh`: no page is less than
  a pixel high. Without it `scrollTo`, which rounds to a pixel, can pass a page over.
- `PageFollows`, `[]CurrentPageFollows`, and `LeftPageIsKept`, `[]LeftPageReturns`,
  assume besides `Ascending` and `Turns`. `Ascending`: the map of pages is iterated in
  the order of their numbers, as a `HashMap` of up to 16 pages is; in a larger one
  Android's `HashMap` swaps neighbours, the lookup may find the second page in sight,
  and the theorems say nothing. `Turns`: of two views the wider is not the higher, and
  is wider by enough that every page is at least a pixel higher in it. This is a screen
  that is turned; with a view that grows in height by more than in width, a layout can
  bring the page before into sight, and nobody looks it up.

TLC finds `AskedPageIsShown` violated without `PixelHigh`, and `CurrentPageFollows`
without `Ascending` and with a view of 2 by 2 pixels that becomes one of 3 by 5.

The argument is about one number: the page at the top of the view (`AtTop`). A zoom
multiplies tops and scroll by the same factor and a turn by the quotient of the widths,
rounded or cut to a pixel; `ZoomKeepsPage` and `TurnKeepsPage` show that the same page
is then at the top, also where the end of the document stops the scroll
(`LimitGrows`, `ClampedDown`). `LeftInv` follows the saved page from `onDestroy` to the
next `onCreate`. `LeftPageReturns` has one exception, a session that never looked up
another page than the first (`noted`) and is left there: nothing is saved in it, and the
page of an earlier session returns.

The second part of `ViewerProofs` is about `ZoomGesture`, for any number of
fingers and any zooms, from `ZoomAssumption` alone:

- `GesturesTypeCorrect`: `GestureSpec => []GestureTypeOK`, which is not model-checked
  by itself.
- `CommitsAreNotSwallowed`: `GestureSpec => []NoCommitSwallowed`.
- `RestsSharp`: `GestureSpec => []RestIsSharp`.
- `GesturesKeepTheirFingers`: `GestureSpec => []GesturesKeepFingers`.
- `FlingsStayWithinLimits`: `GestureSpec => []FlingWithinLimits`.

`RestIsSharp` is not inductive: a state at rest follows one in which a finger was
down. `UncommittedIsWatched` says who holds a zoom the pages do not have, a pinch
or the roll, and that a pinch which is not cancelled belongs to the gesture of the
document; that the last of its fingers cannot be lifted as if it were alone comes
from `PinchComparesItsFingers`. The lemmas say which finger is first
(`FirstIsAmong`), what `setZoom` and `commit` keep
whoever calls them, and what a step elsewhere than on the document must show.

The third part of `ViewerProofs` is about `Browser`: `ListIsHistory`, `BrowserSpec =>
[]RecentIsHistory`, for any files, documents and clock. As long as the clock advances
between two openings, the times of the entries order the documents as `history` does
(`HistoryInv`, which `AddRecentKeeps` preserves), so no two entries have the same time
and the `TreeMap` of `getRecent` has no choice: two descending lists of the same times
are one list (`SameNumbersSameList`). What the browser shows is then what it read when
it last came to the screen, and no document is opened while it is there
(`NoOpeningKeeps`).

`PdfBridgeProofs` holds for any document that meets `PdfAssumption`: a reference leads
to an entry of the table, none leads back to what contains it (`Descending`), and pages
and annotations are dictionaries of their own. What a reference leads to may be
`Broken`, but for the page tree and the streams that have a length object or that
`pdf_repairxref` measures. The theorems hold
for any number of threads in one document, and `PdfDocument_free` may come at any moment:

- `TypeCorrect`: `Spec => []TypeOK`.
- `NothingDangles`: `Spec => []NoDanglingReference`.
- `CountStaysRight`: `Spec => []CountedPagesAreFound`.
- `ClosingFrees`: `Spec => []CloseFreesEverything`, which speaks of threads that have not
  opened pages at the same time (`raced`), and allows for links that a load has lost.

The first rest on books (`Counts`): an object is counted once for each resolved
reference that leads to it, once for the table if it is cached, and once for each root
the bridge holds (`Roots`). `DropAll` keeps these books because the objects are visited
before what they refer to: what is freed is counted by nothing that is left. The other
mupdf calls are compositions of a few steps that keep them, the loops by induction
(`Recursion`, `UpTo` in `QueueLemmas`). A count is never negative because it is a sum.
The page tree is not lost by a flush (`Tree`): the catalog is counted from outside, the
tree by the catalog, and a page by the tree, so none of them has a count of 1.

`CloseFreesEverything` needs in addition that a resolved reference has a container that
is alive or somebody who keeps it (`Alive`), and that those who keep references are the
open pages, the pages being opened, the store and the loads that have lost a link
(`KeepersInv`, with a count of threads per page). `Alive` holds as long as one thread
at a time is in `PdfPage_open` (`OneInside`): what that thread uses next is then still
there, the page in the tree (`InTree`) and the stream in the table (`StreamsInTable`).
When pages, store and lost links are gone and the table is empty (`Emptied`), an object
that is left would be counted by a reference of another that is left, before it in
`Descending`: of those the first is counted by nothing (`NothingIsLeft`).

`PageTreeProofs` holds for every page that meets `TreeAssumption`, however deep and into
however many slices it is divided, and for any number of requests and posted runnables:

- `TypeCorrect`: `Spec => []TypeOK`, which is not model-checked by itself.
- `ProgressCounts`: `Spec => []ProgressCountsDecoding`.
- `DrawsLiveBitmaps`: `Spec => []DrawsNoRecycledBitmap`.
- `DecodesVisible`: `Spec => []OnlyVisibleDecode`.
- `NothingBlank`: `Spec => []NothingBlankAtRest`.
- `SharpWhenAtRest`: `Spec => []SharpAtRest`.

A recursive function in TLA+ is a `CHOOSE`, so the first part shows that those of
`PageTree` exist and are what their definitions say (`RecycleIs`, `UpdateVisibilityIs`,
`InvalidateRecursiveIs`). They do, because a value at a node needs only values at its
children (`TreeRecursion`, by `TreeInduction` from the leaves up), and so does the loop
over the children (`Loop`).

The second part says what each method does, again by induction on the tree. `Good` is
what every method preserves: nodes exist only below divided ones (`Rooted`), a bitmap is
what its soft reference refers to and is not recycled (`Drawable`), at most one request
of a node can still be answered as expected (`Expected`), and the progress counts the
nodes being decoded. A call `Follows` if it keeps `Good`, leaves view and zoom alone,
changes no node outside its subtree and only adds requests. What a method leaves behind
is a relation of a node to the state: `Recycled` (nothing decoded, no bitmap held),
`Outdated` (nothing decoded, every bitmap marked), `Updated` (only what is visible is
decoded, nothing out of date is shown without being decoded, each visible leaf is covered
by itself or by a slice above). Each is `Local`, a matter of the subtree, so the call
for one child does not undo what the call for the child before it did
(`ForEachFollows`, with `KidsApart`).

The inductive invariant, `IInv`, joins this to the queues, which name each request at
most once (`QueuesOf`). `Good` speaks of the requests that are done, those in no queue
(`DoneOf`). None of the six properties is inductive:

- `OnlyVisibleDecode` and `NothingBlankAtRest` follow from `Rested`: since the last
  update the root is `Updated`. A bitmap that arrives keeps this, because the node that
  receives it is covered by it, and because the `invalidateChildren` that follows gives
  up only children of a node that has its bitmap or is out of sight (`ReceiveFollows`).
  The collector takes no bitmap that is held.
- `DrawsNoRecycledBitmap` needs that a bitmap was made for the node that refers to it
  and by a request that is done: a request is answered once, so what a node receives is
  not what it or another has given up.
- `ProgressCountsDecoding` needs that a node which is cut off was recycled before
  (`DetachFollows`), and then it does not count; and that what was cut off is `Rooted`,
  so that the nodes counted are those `draw()` reaches.
- `SharpAtRest` needs `Sharp`, which speaks of the soft references also of nodes out of
  sight, since they come back into sight without a decode, and `Current`, which says
  that what is on its way was asked for at the present zoom. Neither holds during a
  zoom. `CommitZoom` brings them back: `invalidateRecursive` withdraws everything and
  marks every bitmap (`Outdated`), so by `Expected` nothing unmarked is on its way but
  what a late answer has hidden (`InvalidatedSharp`), and `updateVisibility` then asks
  anew.

Every safety property of a passing run is thereby stated by a theorem. Only
model-checked are the liveness properties, `EveryTaskSettles`, `ProgressEnds`,
`DocumentIsFreed`, `OpenReturns`, `PumpStops`, `EveryZoomIsCommitted`, which need
fairness and `ENABLED`; and the three findings, which are counterexamples.

## Not modelled

- Geometry: slice bounds, the cached target rectangle, the horizontal direction,
  velocities, drawing.
- Layouts and touches before the runnable of `showDocument` has run, when there are
  no pages.
- Of the PDF bridge: the password, the media box, rendering. The races of two
  threads within one call of mupdf, such as of two increments of one count, which
  are data races in C, or two insertions of one resource into the store. Objects in
  object streams, of which one read fills the table with many; entries of the table
  that lead to the place of another object; links to places in the same document; the
  counts of the references themselves; what a thread does in a document that was freed
  under it.
- A file that vanishes while a listing is sorted, which makes the comparator
  intransitive; the full screen flag; menus; dispatch of events; utilities.
- Data races inside Java collections and inside `GList` of ddjvulibre; out-of-memory
  errors.
- The interior of ddjvulibre and mupdf beyond what the bridges rest on. By lines the
  repository is almost entirely theirs: 720000 lines, most of them tables of fonts
  and character maps written as C arrays, the rest decoders, parsers and renderers of
  third parties. The models cover vudroid's own Java and bridges, and of the
  libraries the counting, the object table, the streams' positions and the message
  queue, so that their share of all lines is small and cannot become large.

## Plan

Done: `DecodeContract`, `DecodeService`, the refinement between them, `PagePool`,
`PageTree`, `ZoomGesture`, `DocumentLayout`, `DjvuContext`, `DjvuHandles`,
`PdfBridge`, `Browser`, and proofs about each of them, of every safety property a run
checks.

Left are compositions: `PageTree` with the zoom protocol of `ZoomGesture` in place of
free zoom events, which would need `SharpAtRest` in terms of the gestures only;
`DecodeService` with `PagePool`, for callbacks after `onDestroy`.
