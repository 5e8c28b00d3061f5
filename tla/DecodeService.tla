--------------------------- MODULE DecodeService ---------------------------
(***************************************************************************)
(* The decode service of the viewer (DecodeServiceBase.java) together with *)
(* the protocol its only client, PageTreeNode, follows when it calls it.   *)
(*                                                                         *)
(* Two threads act here.  The UI thread issues decodePage, stopDecoding    *)
(* and recycle and runs the callbacks that were posted to it.  The single  *)
(* thread of executorService takes runnables in FIFO order and runs        *)
(* performDecode.  They share the map decodingFutures, the flag isRecycled *)
(* and the futures themselves.  A step of the model is one access to that  *)
(* shared state, so every interleaving of the two threads is a behaviour.  *)
(*                                                                         *)
(* getPage, preloadNextPage and renderBitmap are the points where a task   *)
(* may throw; what they do to the page pool is the subject of PagePool.    *)
(***************************************************************************)
EXTENDS Naturals, Sequences

CONSTANTS
  Node,      \* the PageTreeNode objects, used as decode keys
  NoNode,    \* the key of a task that does not exist yet
  Page,      \* page numbers, which finishDecoding also uses as a key
  PageOf,    \* the page a node is a slice of
  MaxTasks   \* bound: how many DecodeTasks are created in a behaviour

ASSUME ServiceAssumption ==
  /\ Node \cap Page = {}
  /\ NoNode \notin Node
  /\ PageOf \in [Node -> Page]
  /\ MaxTasks \in Nat

Task     == 1 .. MaxTasks
NoTask   == 0
Recycler == MaxTasks + 1      \* the runnable that recycle() submits
Key      == Node \cup Page

VARIABLES
  decodingNow,      \* PageTreeNode.decodingNow, one flag per node
  decodingFutures,  \* the ConcurrentHashMap: key -> future, NoTask if absent
  isRecycled,       \* set by recycle()
  isShutdown,       \* executorService.shutdown() was called
  submitted,        \* number of tasks submitted so far
  key,              \* decodeKey of each task
  status,           \* life of each task, from its future and its run
  queue,            \* the executor's queue of runnables
  workerPc,         \* where the executor thread is in performDecode
  workerTask,       \* the task it runs
  documentOpen,     \* FALSE once document.recycle() has run
  disturbed,        \* the UI thread reached the map of pages during its sweep
  posted,           \* tasks whose callback waits in the UI thread's handler
  uiPc,             \* where the UI thread is in the call it is making
  uiTask            \* the future that call is working on

serviceVars == <<decodingFutures, isRecycled, isShutdown, submitted, key>>
workerVars  == <<workerPc, workerTask, documentOpen, disturbed>>
uiVars      == <<uiPc, uiTask>>
vars == <<serviceVars, workerVars, uiVars, decodingNow, status, queue, posted>>

Status   == {"new", "queued", "cancelled", "running",
             "answered", "dropped", "failed"}
UiPc     == {"idle", "put", "cancel", "stopCancel", "recycleKeys",
             "recycleCancel", "shutdown"}
WorkerPc == {"idle", "check1", "load", "check2", "render", "check3",
             "publish", "finish", "sweep"}

Init ==
  /\ decodingNow = [n \in Node |-> FALSE]
  /\ decodingFutures = [k \in Key |-> NoTask]
  /\ isRecycled = FALSE
  /\ isShutdown = FALSE
  /\ submitted = 0
  /\ key = [t \in Task |-> NoNode]
  /\ status = [t \in Task |-> "new"]
  /\ queue = <<>>
  /\ workerPc = "idle"
  /\ workerTask = NoTask
  /\ documentOpen = TRUE
  /\ disturbed = FALSE
  /\ posted = <<>>
  /\ uiPc = "idle"
  /\ uiTask = NoTask

-----------------------------------------------------------------------------
(* Pieces shared by the actions. *)

\* The monitor of decodingFutures: decodePage holds it from submit to cancel.
LockFree == uiPc \notin {"put", "cancel"}

\* status after future.cancel(false): a task that has started is not disturbed.
Cancelled(future) ==
  [t \in Task |->
     IF t = future /\ status[t] = "queued" THEN "cancelled" ELSE status[t]]
-----------------------------------------------------------------------------
(* The UI thread. *)

\* Mutant: decodePage does not look at isRecycled.
DecodePageSubmit_Recycled(n) ==
  /\ uiPc = "idle"
  /\ ~decodingNow[n]
  /\ submitted < MaxTasks
  /\ submitted' = submitted + 1
  /\ key' = [key EXCEPT ![submitted'] = n]
  /\ status' = [status EXCEPT ![submitted'] = "queued"]
  /\ queue' = Append(queue, submitted')
  /\ uiTask' = submitted'
  /\ decodingNow' = [decodingNow EXCEPT ![n] = TRUE]
  /\ uiPc' = "put"
  /\ UNCHANGED <<decodingFutures, isRecycled, isShutdown, workerVars, posted>>

\* decodePageTreeNode when the service accepts the request: decodingNow is set
\* and, under the monitor, a runnable is handed to the executor.
DecodePageSubmit(n) ==
  /\ uiPc = "idle"
  /\ ~decodingNow[n]
  /\ ~isRecycled
  /\ submitted < MaxTasks
  /\ LET t == submitted + 1 IN
       /\ submitted' = t
       /\ key' = [key EXCEPT ![t] = n]
       /\ status' = [status EXCEPT ![t] = "queued"]
       /\ queue' = Append(queue, t)
       /\ uiTask' = t
  /\ decodingNow' = [decodingNow EXCEPT ![n] = TRUE]
  /\ uiPc' = "put"
  /\ UNCHANGED <<decodingFutures, isRecycled, isShutdown, workerVars, posted>>

\* decodePageTreeNode after recycle(): decodePage returns without a word, and
\* the node still believes that it is decoding.
DecodePageRefused(n) ==
  /\ uiPc = "idle"
  /\ ~decodingNow[n]
  /\ isRecycled
  /\ decodingNow' = [decodingNow EXCEPT ![n] = TRUE]
  /\ UNCHANGED <<serviceVars, workerVars, uiVars, status, queue, posted>>

\* Mutant: the future that put replaced is not cancelled.
DecodePagePut_NoCancel ==
  /\ uiPc = "put"
  /\ decodingFutures' = [decodingFutures EXCEPT ![key[uiTask]] = uiTask]
  /\ uiTask' = NoTask
  /\ uiPc' = "idle"
  /\ UNCHANGED <<isRecycled, isShutdown, submitted, key, workerVars,
                 decodingNow, status, queue, posted>>

\* decodingFutures.put; a future it replaces is cancelled by the next step.
DecodePagePut ==
  /\ uiPc = "put"
  /\ LET n == key[uiTask]
         removed == decodingFutures[n] IN
       /\ decodingFutures' = [decodingFutures EXCEPT ![n] = uiTask]
       /\ uiTask' = removed
       /\ uiPc' = IF removed = NoTask THEN "idle" ELSE "cancel"
  /\ UNCHANGED <<isRecycled, isShutdown, submitted, key, workerVars,
                 decodingNow, status, queue, posted>>

\* removed.cancel(false), the last thing decodePage does under the monitor.
DecodePageCancel ==
  /\ uiPc = "cancel"
  /\ status' = Cancelled(uiTask)
  /\ uiPc' = "idle"
  /\ uiTask' = NoTask
  /\ UNCHANGED <<serviceVars, workerVars, decodingNow, queue, posted>>

\* stopDecodingThisNode: decodingFutures.remove, outside the monitor.
StopDecoding(n) ==
  /\ uiPc = "idle"
  /\ decodingNow[n]
  /\ decodingNow' = [decodingNow EXCEPT ![n] = FALSE]
  /\ decodingFutures' = [decodingFutures EXCEPT ![n] = NoTask]
  /\ uiTask' = decodingFutures[n]
  /\ uiPc' = IF decodingFutures[n] = NoTask THEN "idle" ELSE "stopCancel"
  /\ UNCHANGED <<isRecycled, isShutdown, submitted, key, workerVars,
                 status, queue, posted>>

\* stopDecoding: future.cancel(false).
StopDecodingCancel ==
  /\ uiPc = "stopCancel"
  /\ status' = Cancelled(uiTask)
  /\ uiPc' = "idle"
  /\ uiTask' = NoTask
  /\ UNCHANGED <<serviceVars, workerVars, decodingNow, queue, posted>>

\* recycle, up to the loop over decodingFutures.keySet().  onDestroy is the
\* only caller and calls it once.
BeginRecycle ==
  /\ uiPc = "idle"
  /\ ~isRecycled
  /\ isRecycled' = TRUE
  /\ uiPc' = "recycleKeys"
  /\ UNCHANGED <<decodingFutures, isShutdown, submitted, key, workerVars,
                 decodingNow, uiTask, status, queue, posted>>

\* One turn of that loop: the remove in stopDecoding(k).
RecycleKey(k) ==
  /\ uiPc = "recycleKeys"
  /\ decodingFutures[k] # NoTask
  /\ decodingFutures' = [decodingFutures EXCEPT ![k] = NoTask]
  /\ uiTask' = decodingFutures[k]
  /\ uiPc' = "recycleCancel"
  /\ UNCHANGED <<isRecycled, isShutdown, submitted, key, workerVars,
                 decodingNow, status, queue, posted>>

\* The same turn: the cancel in stopDecoding(k).
RecycleCancel ==
  /\ uiPc = "recycleCancel"
  /\ status' = Cancelled(uiTask)
  /\ uiPc' = "recycleKeys"
  /\ uiTask' = NoTask
  /\ UNCHANGED <<serviceVars, workerVars, decodingNow, queue, posted>>

\* Mutant: recycle() frees the document itself.
SubmitRecycler_Directly ==
  /\ uiPc = "recycleKeys"
  /\ \A k \in Key : decodingFutures[k] = NoTask
  /\ documentOpen' = FALSE
  /\ uiPc' = "shutdown"
  /\ UNCHANGED <<serviceVars, workerPc, workerTask, disturbed, decodingNow, uiTask, status,
                 queue, posted>>

\* After the loop: the runnable that frees the document goes to the executor.
SubmitRecycler ==
  /\ uiPc = "recycleKeys"
  /\ \A k \in Key : decodingFutures[k] = NoTask
  /\ queue' = Append(queue, Recycler)
  /\ uiPc' = "shutdown"
  /\ UNCHANGED <<serviceVars, workerVars, decodingNow, uiTask, status, posted>>

\* Mutant: shutdownNow(), which drops what is queued.
Shutdown_Now ==
  /\ uiPc = "shutdown"
  /\ isShutdown' = TRUE
  /\ queue' = <<>>
  /\ uiPc' = "idle"
  /\ UNCHANGED <<decodingFutures, isRecycled, submitted, key, workerVars,
                 decodingNow, uiTask, status, posted>>

\* executorService.shutdown(): what is queued still runs.
Shutdown ==
  /\ uiPc = "shutdown"
  /\ isShutdown' = TRUE
  /\ uiPc' = "idle"
  /\ UNCHANGED <<decodingFutures, isRecycled, submitted, key, workerVars,
                 decodingNow, uiTask, status, queue, posted>>

\* The Runnable that decodeComplete posted.  It does not ask whether the answer
\* is the one the node waits for.  It asks for the size of the page, which may put a
\* page into the map that the runnable of recycle() is iterating over.
RunCallback ==
  /\ uiPc = "idle"
  /\ posted # <<>>
  /\ decodingNow' = [decodingNow EXCEPT ![key[Head(posted)]] = FALSE]
  /\ posted' = Tail(posted)
  /\ disturbed' = (disturbed \/ workerPc = "sweep")
  /\ UNCHANGED <<serviceVars, workerPc, workerTask, documentOpen, uiVars, status, queue>>
-----------------------------------------------------------------------------
(* The executor thread. *)

\* Mutant: a cancelled runnable stays at the head of the queue.
TakeTask_KeepsCancelled ==
  /\ workerPc = "idle"
  /\ queue # <<>>
  /\ Head(queue) # Recycler
  /\ status[Head(queue)] = "queued"
  /\ queue' = Tail(queue)
  /\ status' = [status EXCEPT ![Head(queue)] = "running"]
  /\ workerTask' = Head(queue)
  /\ workerPc' = "check1"
  /\ UNCHANGED <<serviceVars, uiVars, documentOpen, disturbed, decodingNow, posted>>

\* ThreadPoolExecutor takes the next runnable; FutureTask.run goes on only if
\* the future was not cancelled.
TakeTask ==
  /\ workerPc = "idle"
  /\ queue # <<>>
  /\ Head(queue) # Recycler
  /\ queue' = Tail(queue)
  /\ IF status[Head(queue)] = "queued"
     THEN /\ status' = [status EXCEPT ![Head(queue)] = "running"]
          /\ workerTask' = Head(queue)
          /\ workerPc' = "check1"
     ELSE UNCHANGED <<status, workerTask, workerPc>>
  /\ UNCHANGED <<serviceVars, uiVars, documentOpen, disturbed, decodingNow, posted>>

\* The runnable of recycle() begins to recycle the pages of the map.
BeginSweep ==
  /\ workerPc = "idle"
  /\ queue # <<>>
  /\ Head(queue) = Recycler
  /\ queue' = Tail(queue)
  /\ workerPc' = "sweep"
  /\ UNCHANGED <<serviceVars, uiVars, workerTask, documentOpen, disturbed,
                 decodingNow, status, posted>>

\* When all are recycled, the document and the context are.
RecycleDocument ==
  /\ workerPc = "sweep"
  /\ documentOpen' = FALSE
  /\ workerPc' = "idle"
  /\ UNCHANGED <<serviceVars, uiVars, workerTask, disturbed, decodingNow, status,
                 queue, posted>>

\* The iterator may find that the map was modified: ConcurrentModificationException
\* ends the runnable before it reaches the document.
SweepThrows ==
  /\ workerPc = "sweep"
  /\ disturbed
  /\ workerPc' = "idle"
  /\ UNCHANGED <<serviceVars, uiVars, workerTask, documentOpen, disturbed,
                 decodingNow, status, queue, posted>>

\* isTaskDead: is there any future under the task's key?
IsTaskDead(t) == decodingFutures[key[t]] = NoTask

\* What the worker goes on to when isTaskDead said no.
AfterCheck == [check1 |-> "load", check2 |-> "render", check3 |-> "publish"]

\* Mutant: isTaskDead does not take the monitor.
CheckDead_NoLock ==
  /\ workerPc \in DOMAIN AfterCheck
  /\ IF IsTaskDead(workerTask)
     THEN /\ status' = [status EXCEPT ![workerTask] = "dropped"]
          /\ workerTask' = NoTask
          /\ workerPc' = "idle"
     ELSE /\ workerPc' = AfterCheck[workerPc]
          /\ UNCHANGED <<status, workerTask>>
  /\ UNCHANGED <<serviceVars, uiVars, documentOpen, disturbed, decodingNow, queue, posted>>

\* One of the three calls of isTaskDead in performDecode, under the monitor.
CheckDead ==
  /\ workerPc \in DOMAIN AfterCheck
  /\ LockFree
  /\ IF IsTaskDead(workerTask)
     THEN /\ status' = [status EXCEPT ![workerTask] = "dropped"]
          /\ workerTask' = NoTask
          /\ workerPc' = "idle"
     ELSE /\ workerPc' = AfterCheck[workerPc]
          /\ UNCHANGED <<status, workerTask>>
  /\ UNCHANGED <<serviceVars, uiVars, documentOpen, disturbed, decodingNow, queue, posted>>

\* getPage and preloadNextPage, then renderBitmap: each may succeed.
Codec ==
  /\ \/ workerPc = "load"   /\ workerPc' = "check2"
     \/ workerPc = "render" /\ workerPc' = "check3"
  /\ UNCHANGED <<serviceVars, uiVars, workerTask, documentOpen, disturbed, decodingNow,
                 status, queue, posted>>

\* ... or throw: FutureTask keeps a RuntimeException to itself and the Runnable
\* logs an IOException, so decodeComplete is never called.
CodecThrows ==
  /\ workerPc \in {"load", "render"}
  /\ status' = [status EXCEPT ![workerTask] = "failed"]
  /\ workerTask' = NoTask
  /\ workerPc' = "idle"
  /\ UNCHANGED <<serviceVars, uiVars, documentOpen, disturbed, decodingNow, queue, posted>>

\* Mutant: the callback is forgotten.
Publish_Forgotten ==
  /\ workerPc = "publish"
  /\ status' = [status EXCEPT ![workerTask] = "answered"]
  /\ workerPc' = "finish"
  /\ UNCHANGED <<serviceVars, uiVars, workerTask, documentOpen, disturbed, decodingNow,
                 queue, posted>>

\* updateImage: decodeComplete posts the bitmap to the UI thread.
Publish ==
  /\ workerPc = "publish"
  /\ posted' = Append(posted, workerTask)
  /\ status' = [status EXCEPT ![workerTask] = "answered"]
  /\ workerPc' = "finish"
  /\ UNCHANGED <<serviceVars, uiVars, workerTask, documentOpen, disturbed, decodingNow, queue>>

\* Mutant: the decode key is what finishDecoding removes.
Finish_DecodeKey ==
  /\ workerPc = "finish"
  /\ LET k == key[workerTask] IN
       /\ status' = Cancelled(decodingFutures[k])
       /\ decodingFutures' = [decodingFutures EXCEPT ![k] = NoTask]
  /\ workerTask' = NoTask
  /\ workerPc' = "idle"
  /\ UNCHANGED <<isRecycled, isShutdown, submitted, key, uiVars, documentOpen, disturbed,
                 decodingNow, queue, posted>>

\* stopDecoding(currentDecodeTask.pageNumber): the page number is the key that
\* is removed, and the node is the key the future is registered under.
Finish ==
  /\ workerPc = "finish"
  /\ LET k == PageOf[key[workerTask]] IN
       /\ status' = Cancelled(decodingFutures[k])
       /\ decodingFutures' = [decodingFutures EXCEPT ![k] = NoTask]
  /\ workerTask' = NoTask
  /\ workerPc' = "idle"
  /\ UNCHANGED <<isRecycled, isShutdown, submitted, key, uiVars, documentOpen, disturbed,
                 decodingNow, queue, posted>>
-----------------------------------------------------------------------------
\* The UI thread inside a call: nothing else runs on it until the call returns.
UiContinue ==
  \/ DecodePagePut \/ DecodePageCancel \/ StopDecodingCancel
  \/ \E k \in Key : RecycleKey(k)
  \/ RecycleCancel \/ SubmitRecycler \/ Shutdown

Worker ==
  \/ TakeTask \/ BeginSweep \/ RecycleDocument \/ SweepThrows \/ CheckDead
  \/ Codec \/ CodecThrows \/ Publish \/ Finish

Next ==
  \/ \E n \in Node : DecodePageSubmit(n) \/ DecodePageRefused(n) \/ StopDecoding(n)
  \/ BeginRecycle
  \/ RunCallback
  \/ UiContinue
  \/ Worker

Spec == Init /\ [][Next]_vars

\* Threads that can run do run; the main looper is FIFO, so a posted callback
\* gets its turn however many other events the UI thread serves.
FairSpec ==
  /\ Spec
  /\ WF_vars(UiContinue)
  /\ WF_vars(Worker)
  /\ SF_vars(RunCallback)
-----------------------------------------------------------------------------
(* Properties *)

\* Type correctness of the decode service and of the nodes' flags.
TypeOK ==
  /\ decodingNow \in [Node -> BOOLEAN]
  /\ decodingFutures \in [Key -> Task \cup {NoTask}]
  /\ isRecycled \in BOOLEAN
  /\ isShutdown \in BOOLEAN
  /\ submitted \in 0 .. MaxTasks
  /\ key \in [Task -> Node \cup {NoNode}]
  /\ status \in [Task -> Status]
  /\ queue \in Seq(Task \cup {Recycler})
  /\ workerPc \in WorkerPc
  /\ workerTask \in Task \cup {NoTask}
  /\ documentOpen \in BOOLEAN
  /\ disturbed \in BOOLEAN
  /\ posted \in Seq(Task)
  /\ uiPc \in UiPc
  /\ uiTask \in Task \cup {NoTask}

\* The request of n is being registered, or its registered future is yet to run,
\* runs, threw, or has answered and the answer waits in the handler.
Founded(n) ==
  \/ uiPc = "put" /\ key[uiTask] = n
  \/ LET t == decodingFutures[n] IN
       /\ t # NoTask
       /\ \/ status[t] \in {"queued", "running", "failed"}
          \/ \E i \in DOMAIN posted : posted[i] = t

\* As long as the service is open, a node whose decodingNow flag is set has a
\* future registered under its key that the executor will still run, is running
\* or has answered; only a decode that threw leaves the flag set for nothing.
\* The monitor around submit and put in decodePage and around the lookup in
\* isTaskDead is there for this: a task must not be found dead before its future
\* is registered.
NoLostRequest ==
  \A n \in Node : decodingNow[n] /\ ~isRecycled => Founded(n)

\* Whenever the UI thread is between two calls, each task that waits in the
\* executor is the registered future of its node: stopDecoding can reach it, and
\* no node has more than one task in line however often it is invalidated.
QueuedIsReachable ==
  uiPc = "idle" =>
    \A t \in Task : status[t] = "queued" => decodingFutures[key[t]] = t

\* The executor thread never runs a decode after the runnable of recycle() has
\* freed the pages, the document and the context.
DocumentOutlivesTasks == workerPc # "idle" => documentOpen

\* Nothing is handed to the executor once it was shut down: submit would throw
\* RejectedExecutionException in the middle of updateVisibility.
NoSubmitAfterShutdown == [][Len(queue') > Len(queue) => ~isShutdown]_vars

\* Every task handed to the executor is eventually cancelled, dropped, answered
\* or failed; in particular the lock of decodePage never starves the worker.
EveryTaskSettles ==
  \A t \in Task :
    status[t] = "queued" ~> status[t] \in {"cancelled", "dropped", "answered", "failed"}

\* A node that is being decoded does not stay so for ever, unless its decode
\* threw or the service was recycled: this is what the progress indicator needs.
ProgressEnds ==
  \A n \in Node :
    decodingNow[n] ~> \/ ~decodingNow[n]
                      \/ isRecycled
                      \/ \E t \in Task : key[t] = n /\ status[t] = "failed"

\* recycle() leads to the release of the document, behind what is queued, unless a
\* callback that was already posted reached the pages while they were recycled: the
\* iteration may then have thrown, and the document is never freed.
DocumentIsFreed == isRecycled ~> ~documentOpen \/ disturbed

-----------------------------------------------------------------------------
(* Refinement: futures, cancellation and the executor implement the promise. *)

\* A task between submit and put is not a request yet.
Registering(t) == uiPc = "put" /\ t = uiTask

PendingTask(t) == status[t] \in {"queued", "running"} /\ ~Registering(t)

OutcomeOf(t) ==
  IF status[t] = "new" \/ Registering(t) THEN "none"
  ELSE IF PendingTask(t) THEN "pending"
  ELSE IF status[t] = "cancelled" THEN "dropped"
  ELSE status[t]

\* Between submit and put the flag of the node is set, and nothing asked for yet.
Waiting == [n \in Node |-> decodingNow[n] /\ ~(uiPc = "put" /\ key[uiTask] = n)]
Owner == [t \in Task |-> IF Registering(t) THEN NoNode ELSE key[t]]
Outcomes == [t \in Task |-> OutcomeOf(t)]

\* A pending task that is not the registered future of its node.
Withdrawn == {t \in Task : PendingTask(t) /\ decodingFutures[key[t]] # t}

Contract == INSTANCE DecodeContract WITH
  Request   <- Task,
  waiting   <- Waiting,
  owner     <- Owner,
  outcome   <- Outcomes,
  withdrawn <- Withdrawn,
  inbox     <- posted,
  closed    <- isRecycled

\* Every behaviour of the two threads is one of the contract: answers come in
\* the order of the requests, a request is dropped only after it was withdrawn
\* or superseded, and none is accepted after recycle().
ImplementsContract == Contract!Spec

\* What the contract promises the nodes, of the two threads that implement it:
\* callbacks are posted in the order of the requests, and a node that shows that
\* it is being decoded in an open service has a newest request that is under
\* way, or answered with its callback still posted, or that the codec failed.
NodesKeepThePromise == Contract!PromiseIsKept
=============================================================================
