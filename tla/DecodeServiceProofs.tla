------------------------ MODULE DecodeServiceProofs ------------------------
(***************************************************************************)
(* Proofs about DecodeService, for every set of nodes and pages and every  *)
(* number of tasks.                                                        *)
(*                                                                         *)
(* NoLostRequest and QueuedIsReachable are not inductive.  IInv adds what  *)
(* they rest on: which tasks exist, that a future is registered under its  *)
(* own node, what the UI thread holds in its hand inside a call, and that  *)
(* a task between submit and put cannot get past the first isTaskDead.     *)
(***************************************************************************)
EXTENDS DecodeService, QueueLemmas, TLAPS

\* Tasks are numbered as they are submitted, and a submitted task has a node.
TaskInv ==
  \A t \in Task :
    /\ status[t] = "new" <=> t > submitted
    /\ status[t] # "new" => key[t] \in Node

\* A future is registered under the node of its task, and none under a page.
FutureInv ==
  /\ \A n \in Node : decodingFutures[n] # NoTask =>
       /\ status[decodingFutures[n]] # "new"
       /\ key[decodingFutures[n]] = n
  /\ \A p \in Page : decodingFutures[p] = NoTask

\* The pcs at which the UI thread holds a future that is not registered.
InHand == {"put", "cancel", "stopCancel", "recycleCancel"}

\* What the UI thread holds is submitted and registered under no key; between
\* submit and put its node already counts on it, and at most the first check of
\* performDecode has been reached.
UiInv ==
  /\ uiPc \in InHand =>
       /\ uiTask \in Task
       /\ status[uiTask] # "new"
       /\ \A k \in Key : decodingFutures[k] # uiTask
  /\ uiPc = "put" =>
       /\ decodingNow[key[uiTask]]
       /\ \/ status[uiTask] = "queued"
          \/ status[uiTask] = "running" /\ workerTask = uiTask /\ workerPc = "check1"

\* What the executor thread runs, at each place in performDecode.
WorkerInv ==
  IF workerPc \in {"idle", "sweep"} THEN workerTask = NoTask
  ELSE /\ workerTask \in Task
       /\ status[workerTask] = IF workerPc = "finish" THEN "answered" ELSE "running"

\* A task that waits in the executor is registered or in the UI thread's hand.
ReachInv ==
  \A t \in Task : status[t] = "queued" =>
    \/ decodingFutures[key[t]] = t
    \/ uiPc \in InHand /\ uiTask = t

\* Where the UI thread can be once recycle() has handed over its runnable.
Done == {"idle", "shutdown", "stopCancel"}

\* The runnable of recycle() is the last one ever submitted.
RecyclerInv ==
  /\ \A i \in DOMAIN queue : queue[i] = Recycler =>
       i = Len(queue) /\ isRecycled /\ uiPc \in Done
  /\ ~documentOpen => queue = <<>> /\ isRecycled /\ uiPc \in Done /\ workerPc = "idle"
  /\ workerPc = "sweep" => queue = <<>> /\ isRecycled /\ uiPc \in Done /\ documentOpen
  /\ uiPc \in {"recycleKeys", "recycleCancel", "shutdown"} => isRecycled
  /\ isShutdown => isRecycled /\ uiPc \in Done \ {"shutdown"}

IInv ==
  /\ TypeOK /\ TaskInv /\ FutureInv /\ UiInv /\ WorkerInv
  /\ ReachInv /\ NoLostRequest /\ RecyclerInv
-----------------------------------------------------------------------------
\* The viewer starts with no task, no future and an open document.
LEMMA InitInv == Init => IInv
<1> SUFFICES ASSUME Init PROVE IInv
  OBVIOUS
<1> USE ServiceAssumption DEF Init, Task, NoTask, Recycler, Key
<1>1. TypeOK
  <2>1. <<>> \in Seq(Task) /\ <<>> \in Seq(Task \cup {Recycler})
    OBVIOUS
  <2>2. /\ decodingNow \in [Node -> BOOLEAN]
        /\ decodingFutures \in [Key -> Task \cup {NoTask}]
        /\ key \in [Task -> Node \cup {NoNode}]
        /\ status \in [Task -> Status]
    BY DEF Status
  <2>3. submitted \in 0 .. MaxTasks
    OBVIOUS
  <2> QED BY <2>1, <2>2, <2>3 DEF TypeOK, UiPc, WorkerPc
<1>2. TaskInv
  BY DEF TaskInv
<1>3. FutureInv
  BY DEF FutureInv
<1>4. UiInv
  BY DEF UiInv, InHand
<1>5. WorkerInv
  BY DEF WorkerInv
<1>6. ReachInv
  BY DEF ReachInv
<1>7. NoLostRequest
  BY DEF NoLostRequest
<1>8. RecyclerInv
  BY DEF RecyclerInv
<1> QED BY <1>1, <1>2, <1>3, <1>4, <1>5, <1>6, <1>7, <1>8 DEF IInv

\* No access of either thread to the shared state breaks the invariant.  There
\* is one step per action, and under it one per part the action can disturb.
LEMMA StepInv == IInv /\ [Next]_vars => IInv'
<1> SUFFICES ASSUME IInv, [Next]_vars PROVE IInv'
  OBVIOUS
<1> USE ServiceAssumption DEF IInv, Task, NoTask, Recycler, Key
<1>1. ASSUME NEW n \in Node, DecodePageSubmit(n) PROVE IInv'
  <2>1. TypeOK'
    BY <1>1 DEF DecodePageSubmit, TypeOK, Status, UiPc, workerVars
  <2>2. TaskInv'
    BY <1>1 DEF DecodePageSubmit, TaskInv, TypeOK
  <2>3. FutureInv'
    BY <1>1 DEF DecodePageSubmit, FutureInv, TypeOK, TaskInv
  <2>4. UiInv'
    BY <1>1 DEF DecodePageSubmit, UiInv, TypeOK, TaskInv, FutureInv
  <2>5. WorkerInv'
    BY <1>1 DEF DecodePageSubmit, WorkerInv, TypeOK, TaskInv, workerVars
  <2>6. ReachInv'
    BY <1>1 DEF DecodePageSubmit, ReachInv, InHand
  <2>7. NoLostRequest'
    BY <1>1 DEF DecodePageSubmit, NoLostRequest, TypeOK, Founded
  <2>8. RecyclerInv'
    BY <1>1 DEF DecodePageSubmit, RecyclerInv, TypeOK, workerVars
  <2> QED BY <2>1, <2>2, <2>3, <2>4, <2>5, <2>6, <2>7, <2>8 DEF IInv
<1>2. ASSUME NEW n \in Node, DecodePageRefused(n) PROVE IInv'
  <2>1. TypeOK'
    BY <1>2 DEF DecodePageRefused, TypeOK, serviceVars, workerVars, uiVars
  <2>2. UiInv'
    BY <1>2 DEF DecodePageRefused, UiInv, serviceVars, uiVars
  <2>3. NoLostRequest'
    BY <1>2 DEF DecodePageRefused, NoLostRequest, serviceVars
  <2> QED BY <1>2, <2>1, <2>2, <2>3 DEF DecodePageRefused, TaskInv,
      FutureInv, WorkerInv, ReachInv, RecyclerInv, serviceVars, workerVars,
      uiVars
<1>3. ASSUME NEW n \in Node, StopDecoding(n) PROVE IInv'
  <2>1. TypeOK'
    BY <1>3 DEF StopDecoding, TypeOK, UiPc, workerVars
  <2>2. FutureInv'
    BY <1>3 DEF StopDecoding, FutureInv
  <2>3. UiInv'
    BY <1>3 DEF StopDecoding, UiInv, TypeOK, FutureInv, InHand
  <2>4. ReachInv'
    BY <1>3 DEF StopDecoding, ReachInv, InHand
  <2>5. NoLostRequest'
    BY <1>3 DEF StopDecoding, NoLostRequest, TypeOK, Founded
  <2>6. RecyclerInv'
    BY <1>3 DEF StopDecoding, RecyclerInv, Done, workerVars
  <2> QED BY <1>3, <2>1, <2>2, <2>3, <2>4, <2>5, <2>6 DEF StopDecoding,
      TaskInv, WorkerInv, serviceVars, workerVars, uiVars
<1>4. ASSUME BeginRecycle PROVE IInv'
  <2>1. TypeOK'
    BY <1>4 DEF BeginRecycle, TypeOK, UiPc, workerVars
  <2>2. UiInv'
    BY <1>4 DEF BeginRecycle, UiInv, InHand
  <2>3. ReachInv'
    BY <1>4 DEF BeginRecycle, ReachInv, InHand
  <2>4. NoLostRequest'
    BY <1>4 DEF BeginRecycle, NoLostRequest
  <2>5. RecyclerInv'
    BY <1>4 DEF BeginRecycle, RecyclerInv, workerVars
  <2> QED BY <1>4, <2>1, <2>2, <2>3, <2>4, <2>5 DEF BeginRecycle, TaskInv,
      FutureInv, WorkerInv, serviceVars, workerVars, uiVars
<1>5. ASSUME RunCallback PROVE IInv'
  <2>1. TypeOK'
    BY <1>5, TakeFirst DEF RunCallback, TypeOK, serviceVars, workerVars,
      uiVars
  <2>2. UiInv'
    BY <1>5 DEF RunCallback, UiInv, serviceVars, uiVars
  <2>3. NoLostRequest'
    <3> SUFFICES ASSUME NEW m \in Node, decodingNow'[m], ~isRecycled'
                 PROVE  Founded(m)'
      BY DEF NoLostRequest
    <3>1. posted \in Seq(Task) /\ posted # <<>> /\ posted' = Tail(posted)
      BY <1>5 DEF RunCallback, TypeOK
    <3>2. decodingNow[m] /\ m # key[Head(posted)] /\ Founded(m)
      BY <1>5 DEF RunCallback, TypeOK, NoLostRequest, serviceVars
    <3>3. CASE uiPc = "put"
      BY <1>5, <3>3 DEF RunCallback
    <3>4. CASE uiPc # "put"
      <4>1. decodingFutures[m] # NoTask => decodingFutures[m] # Head(posted)
        BY <3>2 DEF FutureInv
      <4>2. ASSUME NEW i \in DOMAIN posted, posted[i] = decodingFutures[m],
                   decodingFutures[m] # Head(posted)
            PROVE  \E j \in DOMAIN posted' : posted'[j] = decodingFutures[m]
        BY <3>1, <4>2, StaysBehind
      <4> QED BY <1>5, <3>2, <3>4, <4>1, <4>2 DEF RunCallback, Founded, serviceVars
    <3> QED BY <3>3, <3>4
  <2> QED BY <1>5, <2>1, <2>2, <2>3 DEF RunCallback, TaskInv, FutureInv,
      WorkerInv, ReachInv, RecyclerInv, serviceVars, workerVars, uiVars
<1>6. ASSUME DecodePagePut PROVE IInv'
  <2>1. TypeOK'
    BY <1>6 DEF DecodePagePut, TypeOK, TaskInv, UiInv, InHand, UiPc,
      workerVars
  <2>2. FutureInv'
    BY <1>6 DEF DecodePagePut, FutureInv, TaskInv, UiInv, InHand
  <2>3. UiInv'
    BY <1>6 DEF DecodePagePut, UiInv, TypeOK, TaskInv, FutureInv, InHand
  <2>4. ReachInv'
    BY <1>6 DEF DecodePagePut, ReachInv, TypeOK, TaskInv, InHand
  <2>5. NoLostRequest'
    BY <1>6 DEF DecodePagePut, NoLostRequest, TypeOK, UiInv, Founded, InHand
  <2>6. RecyclerInv'
    BY <1>6 DEF DecodePagePut, RecyclerInv, Done, workerVars
  <2> QED BY <1>6, <2>1, <2>2, <2>3, <2>4, <2>5, <2>6 DEF DecodePagePut,
      TaskInv, WorkerInv, serviceVars, workerVars, uiVars
<1>7. ASSUME DecodePageCancel PROVE IInv'
  <2>1. TypeOK'
    BY <1>7 DEF DecodePageCancel, Cancelled, TypeOK, Status, UiPc,
      serviceVars, workerVars
  <2>2. TaskInv'
    BY <1>7 DEF DecodePageCancel, Cancelled, TaskInv, serviceVars
  <2>3. FutureInv'
    BY <1>7 DEF DecodePageCancel, Cancelled, FutureInv, TypeOK, serviceVars
  <2>4. UiInv'
    BY <1>7 DEF DecodePageCancel, UiInv, InHand
  <2>5. WorkerInv'
    BY <1>7 DEF DecodePageCancel, Cancelled, WorkerInv, workerVars
  <2>6. ReachInv'
    BY <1>7 DEF DecodePageCancel, Cancelled, ReachInv, serviceVars
  <2>7. NoLostRequest'
    BY <1>7 DEF DecodePageCancel, Cancelled, NoLostRequest, TypeOK, UiInv,
      Founded, InHand, serviceVars
  <2>8. RecyclerInv'
    BY <1>7 DEF DecodePageCancel, RecyclerInv, Done, serviceVars, workerVars
  <2> QED BY <2>1, <2>2, <2>3, <2>4, <2>5, <2>6, <2>7, <2>8 DEF IInv
<1>8. ASSUME StopDecodingCancel PROVE IInv'
  <2>1. TypeOK'
    BY <1>8 DEF StopDecodingCancel, Cancelled, TypeOK, Status, UiPc,
      serviceVars, workerVars
  <2>2. TaskInv'
    BY <1>8 DEF StopDecodingCancel, Cancelled, TaskInv, serviceVars
  <2>3. FutureInv'
    BY <1>8 DEF StopDecodingCancel, Cancelled, FutureInv, TypeOK, serviceVars
  <2>4. UiInv'
    BY <1>8 DEF StopDecodingCancel, UiInv, InHand
  <2>5. WorkerInv'
    BY <1>8 DEF StopDecodingCancel, Cancelled, WorkerInv, workerVars
  <2>6. ReachInv'
    BY <1>8 DEF StopDecodingCancel, Cancelled, ReachInv, serviceVars
  <2>7. NoLostRequest'
    BY <1>8 DEF StopDecodingCancel, Cancelled, NoLostRequest, TypeOK, UiInv,
      Founded, InHand, serviceVars
  <2>8. RecyclerInv'
    BY <1>8 DEF StopDecodingCancel, RecyclerInv, Done, serviceVars,
      workerVars
  <2> QED BY <2>1, <2>2, <2>3, <2>4, <2>5, <2>6, <2>7, <2>8 DEF IInv
<1>9. ASSUME NEW k \in Key, RecycleKey(k) PROVE IInv'
  <2>1. TypeOK'
    BY <1>9 DEF RecycleKey, TypeOK, UiPc, workerVars
  <2>2. FutureInv'
    BY <1>9 DEF RecycleKey, FutureInv
  <2>3. UiInv'
    BY <1>9 DEF RecycleKey, UiInv, TypeOK, FutureInv
  <2>4. ReachInv'
    BY <1>9 DEF RecycleKey, ReachInv, InHand
  <2>5. NoLostRequest'
    BY <1>9 DEF RecycleKey, NoLostRequest, RecyclerInv
  <2>6. RecyclerInv'
    BY <1>9 DEF RecycleKey, RecyclerInv, Done, workerVars
  <2> QED BY <1>9, <2>1, <2>2, <2>3, <2>4, <2>5, <2>6 DEF RecycleKey,
      TaskInv, WorkerInv, serviceVars, workerVars, uiVars
<1>10. ASSUME RecycleCancel PROVE IInv'
  <2>1. TypeOK'
    BY <1>10 DEF RecycleCancel, Cancelled, TypeOK, Status, UiPc, serviceVars,
      workerVars
  <2>2. TaskInv'
    BY <1>10 DEF RecycleCancel, Cancelled, TaskInv, serviceVars
  <2>3. FutureInv'
    BY <1>10 DEF RecycleCancel, Cancelled, FutureInv, TypeOK, serviceVars
  <2>4. UiInv'
    BY <1>10 DEF RecycleCancel, UiInv, InHand
  <2>5. WorkerInv'
    BY <1>10 DEF RecycleCancel, Cancelled, WorkerInv, workerVars
  <2>6. ReachInv'
    BY <1>10 DEF RecycleCancel, Cancelled, ReachInv, serviceVars
  <2>7. NoLostRequest'
    BY <1>10 DEF RecycleCancel, NoLostRequest, RecyclerInv, serviceVars
  <2>8. RecyclerInv'
    BY <1>10 DEF RecycleCancel, RecyclerInv, Done, serviceVars, workerVars
  <2> QED BY <2>1, <2>2, <2>3, <2>4, <2>5, <2>6, <2>7, <2>8 DEF IInv
<1>11. ASSUME SubmitRecycler PROVE IInv'
  <2>1. TypeOK'
    BY <1>11, PutLast DEF SubmitRecycler, TypeOK, UiPc, serviceVars,
      workerVars
  <2>2. UiInv'
    BY <1>11 DEF SubmitRecycler, UiInv, InHand
  <2>3. ReachInv'
    BY <1>11 DEF SubmitRecycler, ReachInv, InHand, serviceVars
  <2>4. NoLostRequest'
    BY <1>11 DEF SubmitRecycler, NoLostRequest, Founded, serviceVars
  <2>5. RecyclerInv'
    BY <1>11, PutLast DEF SubmitRecycler, RecyclerInv, Done, serviceVars,
      workerVars
  <2> QED BY <1>11, <2>1, <2>2, <2>3, <2>4, <2>5 DEF SubmitRecycler, TaskInv,
      FutureInv, WorkerInv, serviceVars, workerVars, uiVars
<1>12. ASSUME Shutdown PROVE IInv'
  <2>1. TypeOK'
    BY <1>12 DEF Shutdown, TypeOK, UiPc, workerVars
  <2>2. UiInv'
    BY <1>12 DEF Shutdown, UiInv, InHand
  <2>3. ReachInv'
    BY <1>12 DEF Shutdown, ReachInv, InHand
  <2>4. NoLostRequest'
    BY <1>12 DEF Shutdown, NoLostRequest, Founded
  <2>5. RecyclerInv'
    BY <1>12 DEF Shutdown, RecyclerInv, Done, workerVars
  <2> QED BY <1>12, <2>1, <2>2, <2>3, <2>4, <2>5 DEF Shutdown, TaskInv,
      FutureInv, WorkerInv, serviceVars, workerVars, uiVars
<1>13. ASSUME TakeTask PROVE IInv'
  <2>1. TypeOK'
    <3>1. queue' \in Seq(Task \cup {Recycler}) /\ Head(queue) \in Task
      BY <1>13, TakeFirst DEF TakeTask, TypeOK
    <3> QED
      BY <1>13, <3>1 DEF TakeTask, TypeOK, Status, WorkerPc, serviceVars, uiVars
  <2>2. TaskInv'
    BY <1>13 DEF TakeTask, TaskInv, TypeOK, serviceVars
  <2>3. FutureInv'
    BY <1>13 DEF TakeTask, FutureInv, TypeOK, serviceVars
  <2>4. UiInv'
    BY <1>13 DEF TakeTask, UiInv, TypeOK, InHand, serviceVars, uiVars
  <2>5. WorkerInv'
    BY <1>13 DEF TakeTask, WorkerInv, TypeOK
  <2>6. ReachInv'
    BY <1>13 DEF TakeTask, ReachInv, TypeOK, serviceVars, uiVars
  <2>7. NoLostRequest'
    BY <1>13 DEF TakeTask, NoLostRequest, TypeOK, Founded, serviceVars,
      uiVars
  <2>8. RecyclerInv'
    BY <1>13 DEF TakeTask, RecyclerInv, TypeOK, serviceVars, uiVars
  <2> QED BY <2>1, <2>2, <2>3, <2>4, <2>5, <2>6, <2>7, <2>8 DEF IInv
<1>14. ASSUME BeginSweep \/ RecycleDocument \/ SweepThrows PROVE IInv'
  <2>1. TypeOK'
    <3>1. queue' \in Seq(Task \cup {Recycler})
      <4>1. CASE BeginSweep
        BY <4>1, TakeFirst DEF BeginSweep, TypeOK
      <4>2. CASE RecycleDocument \/ SweepThrows
        BY <4>2 DEF RecycleDocument, SweepThrows, TypeOK
      <4> QED
        BY <1>14, <4>1, <4>2
    <3> QED
      BY <1>14, <3>1 DEF BeginSweep, RecycleDocument, SweepThrows, TypeOK, WorkerPc,
        serviceVars, uiVars
  <2>2. RecyclerInv'
    BY <1>14 DEF BeginSweep, RecycleDocument, SweepThrows, RecyclerInv, TypeOK,
      serviceVars, uiVars
  <2> QED BY <1>14, <2>1, <2>2 DEF BeginSweep, RecycleDocument, SweepThrows, TaskInv, FutureInv, UiInv,
      WorkerInv, ReachInv, NoLostRequest, Founded, serviceVars, workerVars,
      uiVars
<1>15. ASSUME CheckDead PROVE IInv'
  <2>1. TypeOK'
    BY <1>15 DEF CheckDead, AfterCheck, TypeOK, ReachInv, Status, WorkerPc,
      serviceVars, uiVars
  <2>2. TaskInv'
    BY <1>15 DEF CheckDead, TaskInv, TypeOK, WorkerInv, serviceVars
  <2>3. FutureInv'
    BY <1>15 DEF CheckDead, FutureInv, TypeOK, serviceVars
  <2>4. UiInv'
    BY <1>15 DEF CheckDead, LockFree, UiInv, TypeOK, serviceVars, uiVars
  <2>5. WorkerInv'
    <3>1. /\ workerPc \in {"check1", "check2", "check3"}
          /\ AfterCheck[workerPc] \in {"load", "render", "publish"}
      BY <1>15 DEF CheckDead, AfterCheck
    <3> QED
      BY <1>15, <3>1 DEF CheckDead, WorkerInv
  <2>6. ReachInv'
    BY <1>15 DEF CheckDead, ReachInv, TypeOK, serviceVars, uiVars
  <2>7. NoLostRequest'
    <3> SUFFICES ASSUME NEW m \in Node, decodingNow'[m], ~isRecycled'
                 PROVE  Founded(m)'
      BY DEF NoLostRequest
    <3>1. /\ UNCHANGED <<decodingNow, decodingFutures, isRecycled, key, uiPc, uiTask, posted>>
          /\ uiPc # "put"
      BY <1>15 DEF CheckDead, LockFree, serviceVars, uiVars
    <3> DEFINE t == decodingFutures[m]
    <3>2. /\ t \in Task /\ key[t] = m
          /\ \/ status[t] \in {"queued", "running", "failed"}
             \/ \E i \in DOMAIN posted : posted[i] = t
      BY <3>1 DEF NoLostRequest, Founded, FutureInv, TypeOK, Key, NoTask
    <3>3. status'[t] = status[t]
      BY <1>15, <3>2 DEF CheckDead, IsTaskDead, TypeOK, NoTask, Task
    <3> QED
      BY <3>1, <3>2, <3>3 DEF Founded, NoTask, Task
  <2>8. RecyclerInv'
    BY <1>15 DEF CheckDead, AfterCheck, RecyclerInv, serviceVars, uiVars
  <2> QED BY <2>1, <2>2, <2>3, <2>4, <2>5, <2>6, <2>7, <2>8 DEF IInv
<1>16. ASSUME Codec PROVE IInv'
  <2>1. TypeOK'
    BY <1>16 DEF Codec, TypeOK, WorkerPc, serviceVars, uiVars
  <2>2. UiInv'
    BY <1>16 DEF Codec, UiInv, serviceVars, uiVars
  <2>3. WorkerInv'
    BY <1>16 DEF Codec, WorkerInv
  <2>4. RecyclerInv'
    BY <1>16 DEF Codec, RecyclerInv, serviceVars, uiVars
  <2> QED BY <1>16, <2>1, <2>2, <2>3, <2>4 DEF Codec, TaskInv, FutureInv,
      ReachInv, NoLostRequest, Founded, serviceVars, workerVars, uiVars
<1>17. ASSUME CodecThrows PROVE IInv'
  <2>1. TypeOK'
    BY <1>17 DEF CodecThrows, TypeOK, Status, WorkerPc, serviceVars, uiVars
  <2>2. TaskInv'
    BY <1>17 DEF CodecThrows, TaskInv, WorkerInv, serviceVars
  <2>3. FutureInv'
    BY <1>17 DEF CodecThrows, FutureInv, serviceVars
  <2>4. UiInv'
    BY <1>17 DEF CodecThrows, UiInv, WorkerInv, serviceVars, uiVars
  <2>5. WorkerInv'
    BY <1>17 DEF CodecThrows, WorkerInv
  <2>6. ReachInv'
    BY <1>17 DEF CodecThrows, ReachInv, serviceVars, uiVars
  <2>7. NoLostRequest'
    BY <1>17 DEF CodecThrows, NoLostRequest, Founded, serviceVars, uiVars
  <2>8. RecyclerInv'
    BY <1>17 DEF CodecThrows, RecyclerInv, serviceVars, uiVars
  <2> QED BY <2>1, <2>2, <2>3, <2>4, <2>5, <2>6, <2>7, <2>8 DEF IInv
<1>18. ASSUME Publish PROVE IInv'
  <2>1. TypeOK'
    BY <1>18, PutLast DEF Publish, TypeOK, WorkerInv, Status, WorkerPc,
      serviceVars, uiVars
  <2>2. TaskInv'
    BY <1>18 DEF Publish, TaskInv, WorkerInv, serviceVars
  <2>3. FutureInv'
    BY <1>18 DEF Publish, FutureInv, serviceVars
  <2>4. UiInv'
    BY <1>18 DEF Publish, UiInv, WorkerInv, serviceVars, uiVars
  <2>5. WorkerInv'
    BY <1>18 DEF Publish, WorkerInv, TypeOK
  <2>6. ReachInv'
    BY <1>18 DEF Publish, ReachInv, serviceVars, uiVars
  <2>7. NoLostRequest'
    <3> SUFFICES ASSUME NEW m \in Node, decodingNow'[m], ~isRecycled'
                 PROVE  Founded(m)'
      BY DEF NoLostRequest
    <3>1. Founded(m)
      BY <1>18 DEF Publish, NoLostRequest, serviceVars
    <3>2. posted \in Seq(Task) /\ workerTask \in Task
      BY <1>18 DEF Publish, TypeOK, WorkerInv
    <3>3. \E i \in DOMAIN posted' : posted'[i] = workerTask
      <4>1. posted' = Append(posted, workerTask)
        BY <1>18 DEF Publish
      <4> QED
        BY <3>2, <4>1, PutLast
    <3>4. ASSUME NEW t, \E i \in DOMAIN posted : posted[i] = t
          PROVE  \E i \in DOMAIN posted' : posted'[i] = t
      BY <1>18, <3>2, <3>4, PutLast DEF Publish
    <3>5. UNCHANGED <<decodingFutures, uiPc, uiTask, key>>
          /\ status' = [status EXCEPT ![workerTask] = "answered"]
      BY <1>18 DEF Publish, serviceVars, uiVars
    <3>6. CASE uiPc = "put" /\ key[uiTask] = m
      BY <3>5, <3>6 DEF Founded
    <3>7. CASE decodingFutures[m] = workerTask
      BY <3>2, <3>3, <3>5, <3>7 DEF Founded
    <3>8. CASE decodingFutures[m] # workerTask /\ ~(uiPc = "put" /\ key[uiTask] = m)
      BY <3>1, <3>4, <3>5, <3>8 DEF Founded, TypeOK
    <3> QED BY <3>6, <3>7, <3>8
  <2>8. RecyclerInv'
    BY <1>18 DEF Publish, RecyclerInv, serviceVars, uiVars
  <2> QED BY <2>1, <2>2, <2>3, <2>4, <2>5, <2>6, <2>7, <2>8 DEF IInv
<1>19. ASSUME Finish PROVE IInv'
  <2>1. TypeOK'
    BY <1>19 DEF Finish, Cancelled, TypeOK, Status, WorkerPc, uiVars
  <2>2. TaskInv'
    BY <1>19 DEF Finish, Cancelled, TaskInv
  <2>3. FutureInv'
    BY <1>19 DEF Finish, Cancelled, FutureInv, TypeOK
  <2>4. UiInv'
    BY <1>19 DEF Finish, Cancelled, UiInv, TaskInv, WorkerInv, InHand, uiVars
  <2>5. WorkerInv'
    BY <1>19 DEF Finish, WorkerInv
  <2>6. ReachInv'
    BY <1>19 DEF Finish, Cancelled, ReachInv, uiVars
  <2>7. NoLostRequest'
    BY <1>19 DEF Finish, Cancelled, NoLostRequest, TypeOK, TaskInv,
      FutureInv, WorkerInv, Founded, uiVars
  <2>8. RecyclerInv'
    BY <1>19 DEF Finish, RecyclerInv, uiVars
  <2> QED BY <2>1, <2>2, <2>3, <2>4, <2>5, <2>6, <2>7, <2>8 DEF IInv
<1>20. CASE UNCHANGED vars
  BY <1>20 DEF vars, serviceVars, workerVars, uiVars, TypeOK, TaskInv, FutureInv,
      UiInv, WorkerInv, ReachInv, NoLostRequest, Founded, RecyclerInv
<1> QED
  BY <1>1, <1>2, <1>3, <1>4, <1>5, <1>6, <1>7, <1>8, <1>9, <1>10, <1>11, <1>12,
     <1>13, <1>14, <1>15, <1>16, <1>17, <1>18, <1>19, <1>20
  DEF Next, UiContinue, Worker
-----------------------------------------------------------------------------
\* The strengthened invariant holds in every reachable state of the two threads.
THEOREM InvariantHolds == Spec => []IInv
BY InitInv, StepInv, PTL DEF Spec

\* The service and the flags of the nodes keep their types.
THEOREM TypeCorrect == Spec => []TypeOK
<1>1. IInv => TypeOK
  BY DEF IInv
<1> QED BY <1>1, InvariantHolds, PTL

\* However decodePage, stopDecoding, recycle and the executor interleave, a node
\* that waits in an open service waits for a future that is still going to be
\* answered, or whose decode threw.
THEOREM RequestsAreNotLost == Spec => []NoLostRequest
<1>1. IInv => NoLostRequest
  BY DEF IInv
<1> QED BY <1>1, InvariantHolds, PTL

\* Between two calls of the UI thread every task in line is a registered future,
\* so that the executor's queue holds at most one live task per node.
THEOREM QueuedTasksAreReachable == Spec => []QueuedIsReachable
<1>1. IInv => QueuedIsReachable
  BY DEF IInv, ReachInv, InHand, QueuedIsReachable
<1> QED BY <1>1, InvariantHolds, PTL

\* No decode runs after the runnable of recycle() has freed the document.
THEOREM DocumentOutlives == Spec => []DocumentOutlivesTasks
<1>1. IInv => DocumentOutlivesTasks
  BY DEF IInv, RecyclerInv, DocumentOutlivesTasks
<1> QED BY <1>1, InvariantHolds, PTL

\* A step that lengthens the executor's queue is a submit of decodePage or of
\* recycle(), and neither is made after shutdown().
LEMMA SubmitsBeforeShutdown ==
  IInv /\ [Next]_vars => [Len(queue') > Len(queue) => ~isShutdown]_vars
<1> SUFFICES ASSUME IInv, Next, Len(queue') > Len(queue)
             PROVE  ~isShutdown
  OBVIOUS
<1> USE DEF IInv, RecyclerInv, Done
<1>1. queue \in Seq(Task \cup {Recycler})
  BY DEF TypeOK
<1>2. queue' # queue
  BY <1>1
<1>3. ~(queue # <<>> /\ queue' = Tail(queue))
  BY <1>1
<1>4. ASSUME NEW n \in Node,
             DecodePageSubmit(n) \/ DecodePageRefused(n) \/ StopDecoding(n)
      PROVE  ~isShutdown
  BY <1>2, <1>4 DEF DecodePageSubmit, DecodePageRefused, StopDecoding
<1>5. CASE UiContinue
  BY <1>2, <1>5 DEF UiContinue, DecodePagePut, DecodePageCancel,
     StopDecodingCancel, RecycleKey, RecycleCancel, SubmitRecycler, Shutdown
<1>6. CASE BeginRecycle \/ RunCallback
  BY <1>2, <1>6 DEF BeginRecycle, RunCallback
<1>7. CASE Worker
  BY <1>2, <1>3, <1>7 DEF Worker, TakeTask, BeginSweep, RecycleDocument, SweepThrows, CheckDead, Codec,
     CodecThrows, Publish, Finish
<1> QED BY <1>4, <1>5, <1>6, <1>7 DEF Next

\* Nothing is handed to the executor after executorService.shutdown().
THEOREM NothingAfterShutdown == Spec => NoSubmitAfterShutdown
BY InvariantHolds, SubmitsBeforeShutdown, PTL DEF Spec, NoSubmitAfterShutdown
-----------------------------------------------------------------------------
(***************************************************************************)
(* DecodeService implements DecodeContract.                                *)
(*                                                                         *)
(* The mapping is that of DecodeService: a task is a request from put on.  *)
(* To IInv it adds what the order of the answers rests on: the executor's  *)
(* queue is in the order of submission, every task that may still run is   *)
(* in it, and the one that runs is older than all of them.                 *)
(***************************************************************************)

\* What waits to run stands in the queue, which is in the order of submission.
QueueInv ==
  /\ \A t \in Task : status[t] = "queued" => \E i \in DOMAIN queue : queue[i] = t
  /\ \A i, j \in DOMAIN queue : i < j => queue[i] < queue[j]
  /\ \A i \in DOMAIN queue : queue[i] # Recycler => queue[i] <= submitted

\* One task runs, and those that wait are younger.
OrderInv ==
  /\ \A t \in Task : status[t] = "queued" => workerTask < t
  /\ \A t \in Task : status[t] = "running" => t = workerTask

\* A task that was not submitted has no node, and none is being registered once
\* the service is recycled.
NewInv ==
  /\ \A t \in Task : status[t] = "new" => key[t] = NoNode
  /\ uiPc = "put" => ~isRecycled

RInv == QueueInv /\ OrderInv /\ NewInv
-----------------------------------------------------------------------------
LEMMA InitOrder == Init => RInv
  BY ServiceAssumption DEF Init, RInv, QueueInv, OrderInv, NewInv, Task

\* A step that cancels a future, or leaves the queue and the tasks alone.
LEMMA CancelOrder ==
  ASSUME IInv, RInv, NEW f \in Task \cup {NoTask},
         status' = Cancelled(f) \/ status' = status,
         UNCHANGED <<queue, submitted, key, workerTask>>
  PROVE  /\ QueueInv' /\ OrderInv'
         /\ \A t \in Task : status'[t] = "new" => key'[t] = NoNode
<1>1. \A t \in Task : status'[t] = status[t] \/ status'[t] = "cancelled"
  BY DEF Cancelled
<1>2. QueueInv'
  BY <1>1 DEF RInv, QueueInv
<1>3. OrderInv'
  BY <1>1 DEF RInv, OrderInv
<1>4. \A t \in Task : status'[t] = "new" => key'[t] = NoNode
  BY <1>1 DEF RInv, NewInv
<1> QED
  BY <1>2, <1>3, <1>4

\* A step with which the running task settles.
LEMMA SettleOrder ==
  ASSUME IInv, RInv, workerTask \in Task, NEW s \in {"dropped", "failed", "answered"},
         status' = [status EXCEPT ![workerTask] = s],
         status[workerTask] = "running",
         workerTask' \in {workerTask, NoTask},
         UNCHANGED <<queue, submitted, key, uiPc, isRecycled>>
  PROVE  RInv'
<1> USE DEF IInv, TypeOK
<1>1. \A t \in Task : t # workerTask => status'[t] = status[t]
  OBVIOUS
<1>2. status'[workerTask] = s
  OBVIOUS
<1>3. QueueInv'
  BY <1>1, <1>2 DEF RInv, QueueInv
<1>4. OrderInv'
  BY <1>1, <1>2 DEF RInv, OrderInv, NoTask, Task
<1>5. NewInv'
  BY <1>1, <1>2 DEF RInv, NewInv
<1> QED
  BY <1>3, <1>4, <1>5 DEF RInv

LEMMA StepOrder == IInv /\ RInv /\ [Next]_vars => RInv'
<1> SUFFICES ASSUME IInv, RInv, [Next]_vars PROVE RInv'
  OBVIOUS
<1> USE ServiceAssumption
<1>0. /\ uiTask \in Task \cup {NoTask}
      /\ \A k \in Key : decodingFutures[k] \in Task \cup {NoTask}
      /\ queue \in Seq(Task \cup {Recycler})
  BY DEF IInv, TypeOK
<1>1. ASSUME NEW n \in Node, DecodePageSubmit(n) PROVE RInv'
  <2> DEFINE t == submitted + 1
  <2>1. t \in Task /\ t \in Nat /\ status[t] = "new" /\ ~isRecycled
    BY <1>1 DEF DecodePageSubmit, IInv, TypeOK, TaskInv, Task
  <2>2. \A i \in DOMAIN queue : queue[i] <= submitted /\ queue[i] \in Nat
    <3> SUFFICES ASSUME NEW i \in DOMAIN queue PROVE queue[i] <= submitted /\ queue[i] \in Nat
      OBVIOUS
    <3>1. queue[i] \in Task \cup {Recycler}
      BY <1>0
    <3>2. queue[i] # Recycler
      BY <2>1 DEF IInv, RecyclerInv
    <3> QED
      BY <3>1, <3>2 DEF RInv, QueueInv, Task
  <2>3. /\ queue' = Append(queue, t)
        /\ DOMAIN queue = 1 .. Len(queue) /\ Len(queue) \in Nat
        /\ DOMAIN queue' = 1 .. (Len(queue) + 1)
        /\ queue'[Len(queue) + 1] = t
        /\ \A i \in DOMAIN queue : i \in DOMAIN queue' /\ queue'[i] = queue[i]
        /\ \A i \in DOMAIN queue' : i # Len(queue) + 1 => i \in DOMAIN queue
    <3>1. queue' = Append(queue, t) /\ t \in Task \cup {Recycler}
      BY <1>1, <2>1 DEF DecodePageSubmit
    <3> QED
      BY <1>0, <3>1, PutLast
  <2>4. /\ \A u \in Task : u # t => status'[u] = status[u] /\ key'[u] = key[u]
        /\ status'[t] = "queued" /\ key'[t] = n
        /\ submitted' = t /\ workerTask' = workerTask
    BY <1>1, <2>1 DEF DecodePageSubmit, IInv, TypeOK, workerVars
  <2>5. \A u \in Task : status'[u] = "queued" => \E i \in DOMAIN queue' : queue'[i] = u
    <3> SUFFICES ASSUME NEW u \in Task, status'[u] = "queued"
                 PROVE  \E i \in DOMAIN queue' : queue'[i] = u
      OBVIOUS
    <3>1. CASE u = t
      BY <3>1, <2>3
    <3>2. CASE u # t
      BY <3>2, <2>3, <2>4 DEF RInv, QueueInv
    <3> QED BY <3>1, <3>2
  <2>6. \A i, j \in DOMAIN queue' : i < j => queue'[i] < queue'[j]
    <3> SUFFICES ASSUME NEW i \in DOMAIN queue', NEW j \in DOMAIN queue', i < j
                 PROVE  queue'[i] < queue'[j]
      OBVIOUS
    <3>1. i # Len(queue) + 1 /\ i \in DOMAIN queue /\ queue'[i] = queue[i]
      BY <2>3
    <3>2. CASE j = Len(queue) + 1
      BY <3>1, <3>2, <2>1, <2>2, <2>3 DEF IInv, TypeOK
    <3>3. CASE j # Len(queue) + 1
      BY <3>1, <3>3, <2>3 DEF RInv, QueueInv
    <3> QED BY <3>2, <3>3
  <2>7. \A i \in DOMAIN queue' : queue'[i] # Recycler => queue'[i] <= submitted'
    <3> SUFFICES ASSUME NEW i \in DOMAIN queue' PROVE queue'[i] <= submitted'
      OBVIOUS
    <3>1. CASE i = Len(queue) + 1
      BY <3>1, <2>1, <2>3, <2>4
    <3>2. CASE i # Len(queue) + 1
      BY <3>2, <2>1, <2>2, <2>3, <2>4 DEF IInv, TypeOK
    <3> QED BY <3>1, <3>2
  <2>8. workerTask < t
    BY <2>1 DEF IInv, TypeOK, WorkerInv, TaskInv, NoTask, Task
  <2>9. OrderInv'
    BY <2>4, <2>8 DEF RInv, OrderInv
  <2>10. NewInv'
    BY <1>1, <2>1, <2>4 DEF RInv, NewInv, DecodePageSubmit
  <2> QED
    BY <2>5, <2>6, <2>7, <2>9, <2>10 DEF RInv, QueueInv
<1>2. ASSUME NEW n \in Node, DecodePageRefused(n) PROVE RInv'
  BY <1>2 DEF DecodePageRefused, RInv, QueueInv, OrderInv, NewInv, serviceVars, workerVars, uiVars
<1>3. ASSUME NEW n \in Node, StopDecoding(n) PROVE RInv'
  BY <1>3 DEF StopDecoding, RInv, QueueInv, OrderInv, NewInv, workerVars
<1>4. ASSUME BeginRecycle PROVE RInv'
  BY <1>4 DEF BeginRecycle, RInv, QueueInv, OrderInv, NewInv, workerVars
<1>5. ASSUME RunCallback PROVE RInv'
  BY <1>5 DEF RunCallback, RInv, QueueInv, OrderInv, NewInv, serviceVars, workerVars, uiVars
<1>6. ASSUME DecodePagePut PROVE RInv'
  BY <1>6 DEF DecodePagePut, RInv, QueueInv, OrderInv, NewInv, workerVars
<1>7. ASSUME DecodePageCancel \/ StopDecodingCancel \/ RecycleCancel PROVE RInv'
  <2>1. /\ status' = Cancelled(uiTask) /\ uiPc' # "put"
        /\ UNCHANGED <<queue, submitted, key, workerTask>>
    BY <1>7 DEF DecodePageCancel, StopDecodingCancel, RecycleCancel, serviceVars, workerVars
  <2> QED
    BY <2>1, <1>0, CancelOrder DEF RInv, NewInv
<1>8. ASSUME NEW k \in Key, RecycleKey(k) PROVE RInv'
  BY <1>8 DEF RecycleKey, RInv, QueueInv, OrderInv, NewInv, workerVars
<1>9. ASSUME SubmitRecycler PROVE RInv'
  <2>1. /\ queue' = Append(queue, Recycler)
        /\ DOMAIN queue = 1 .. Len(queue) /\ Len(queue) \in Nat
        /\ DOMAIN queue' = 1 .. (Len(queue) + 1)
        /\ queue'[Len(queue) + 1] = Recycler
        /\ \A i \in DOMAIN queue : i \in DOMAIN queue' /\ queue'[i] = queue[i]
        /\ \A i \in DOMAIN queue' : i # Len(queue) + 1 => i \in DOMAIN queue
    <3>1. queue' = Append(queue, Recycler)
      BY <1>9 DEF SubmitRecycler
    <3> QED
      BY <1>0, <3>1, PutLast
  <2>2. \A i \in DOMAIN queue : queue[i] < Recycler
    <3> SUFFICES ASSUME NEW i \in DOMAIN queue PROVE queue[i] < Recycler
      OBVIOUS
    <3>1. queue[i] \in Task \cup {Recycler}
      BY <1>0
    <3>2. queue[i] # Recycler
      BY <1>9 DEF SubmitRecycler, IInv, RecyclerInv, Done
    <3> QED
      BY <3>1, <3>2 DEF Task, Recycler
  <2>3. UNCHANGED <<status, submitted, key, workerTask, isRecycled>> /\ uiPc' # "put"
    BY <1>9 DEF SubmitRecycler, serviceVars, workerVars
  <2>4. QueueInv'
    BY <2>1, <2>2, <2>3 DEF RInv, QueueInv
  <2> QED
    BY <2>3, <2>4 DEF RInv, OrderInv, NewInv
<1>10. ASSUME Shutdown PROVE RInv'
  BY <1>10 DEF Shutdown, RInv, QueueInv, OrderInv, NewInv, workerVars
<1>11. ASSUME TakeTask \/ BeginSweep PROVE RInv'
  <2> DEFINE h == Head(queue)
  <2>1. queue # <<>> /\ queue' = Tail(queue)
    BY <1>11 DEF TakeTask, BeginSweep
  <2>2. /\ DOMAIN queue = 1 .. Len(queue) /\ Len(queue) \in Nat \ {0}
        /\ DOMAIN queue' = 1 .. (Len(queue) - 1)
        /\ h = queue[1]
        /\ \A i \in DOMAIN queue' : queue'[i] = queue[i + 1]
    BY <1>0, <2>1, TakeFirst
  <2>3. \A i \in DOMAIN queue' : i + 1 \in DOMAIN queue
    BY <2>2
  <2>4. \A i, j \in DOMAIN queue' : i < j => queue'[i] < queue'[j]
    <3> SUFFICES ASSUME NEW i \in DOMAIN queue', NEW j \in DOMAIN queue', i < j
                 PROVE  queue'[i] < queue'[j]
      OBVIOUS
    <3>1. i + 1 \in DOMAIN queue /\ j + 1 \in DOMAIN queue /\ i + 1 < j + 1
      BY <2>2
    <3> QED
      BY <3>1, <2>2 DEF RInv, QueueInv
  <2>5. \A u \in Task : status[u] = "queued" /\ u # h =>
          h < u /\ \E i \in DOMAIN queue' : queue'[i] = u
    <3> SUFFICES ASSUME NEW u \in Task, status[u] = "queued", u # h
                 PROVE  h < u /\ \E i \in DOMAIN queue' : queue'[i] = u
      OBVIOUS
    <3>1. PICK i \in DOMAIN queue : queue[i] = u
      BY DEF RInv, QueueInv
    <3>2. i # 1 /\ 1 \in DOMAIN queue /\ 1 < i
      BY <3>1, <2>2
    <3>3. i - 1 \in DOMAIN queue' /\ (i - 1) + 1 = i
      BY <3>2, <2>2
    <3>4. queue'[i - 1] = u
      BY <3>1, <3>3, <2>2
    <3>5. queue[1] < queue[i]
      BY <3>1, <3>2 DEF RInv, QueueInv
    <3> QED
      BY <3>1, <3>3, <3>4, <3>5, <2>2
  <2>6. UNCHANGED <<submitted, key, uiPc, isRecycled>>
    BY <1>11 DEF TakeTask, BeginSweep, serviceVars, uiVars
  <2>7. \A i \in DOMAIN queue' : queue'[i] # Recycler => queue'[i] <= submitted'
    BY <2>2, <2>3, <2>6 DEF RInv, QueueInv
  <2>8. CASE TakeTask /\ status[h] = "queued"
    <3>1. h \in Task
      BY <2>8, <1>0, <2>2, TakeFirst DEF TakeTask
    <3>2. /\ status' = [status EXCEPT ![h] = "running"] /\ workerTask' = h
          /\ workerPc = "idle"
      BY <2>8 DEF TakeTask
    <3>3. /\ \A u \in Task : u # h => status'[u] = status[u]
          /\ status'[h] = "running"
      BY <3>1, <3>2 DEF IInv, TypeOK
    <3>4. \A u \in Task : status[u] # "running"
      BY <3>2 DEF RInv, OrderInv, IInv, WorkerInv, NoTask, Task
    <3>5. QueueInv'
      BY <2>4, <2>5, <2>7, <3>3 DEF QueueInv
    <3>6. OrderInv'
      BY <2>5, <3>2, <3>3, <3>4 DEF OrderInv
    <3> QED
      BY <2>6, <3>3, <3>5, <3>6 DEF RInv, NewInv
  <2>9. CASE (TakeTask /\ status[h] # "queued") \/ BeginSweep
    <3>1. UNCHANGED <<status, workerTask>>
      BY <2>9 DEF TakeTask, BeginSweep
    <3>2. \A u \in Task : status[u] = "queued" => u # h
      BY <2>9 DEF BeginSweep, Task, Recycler
    <3>3. QueueInv'
      BY <2>4, <2>5, <2>7, <3>1, <3>2 DEF QueueInv
    <3> QED
      BY <2>6, <3>1, <3>3 DEF RInv, OrderInv, NewInv
  <2> QED
    BY <1>11, <2>8, <2>9
<1>12. ASSUME CheckDead PROVE RInv'
  <2>1. CASE IsTaskDead(workerTask)
    <3>1. /\ status' = [status EXCEPT ![workerTask] = "dropped"] /\ workerTask' = NoTask
          /\ UNCHANGED <<queue, submitted, key, uiPc, isRecycled>>
      BY <1>12, <2>1 DEF CheckDead, serviceVars, uiVars
    <3>2. workerTask \in Task /\ status[workerTask] = "running"
      BY <1>12 DEF CheckDead, AfterCheck, IInv, WorkerInv
    <3> QED
      BY <3>1, <3>2, SettleOrder
  <2>2. CASE ~IsTaskDead(workerTask)
    BY <1>12, <2>2 DEF CheckDead, RInv, QueueInv, OrderInv, NewInv, serviceVars, uiVars
  <2> QED BY <2>1, <2>2
<1>13. ASSUME Codec PROVE RInv'
  BY <1>13 DEF Codec, RInv, QueueInv, OrderInv, NewInv, serviceVars, uiVars
<1>14. ASSUME CodecThrows PROVE RInv'
  <2>1. /\ status' = [status EXCEPT ![workerTask] = "failed"] /\ workerTask' = NoTask
        /\ UNCHANGED <<queue, submitted, key, uiPc, isRecycled>>
    BY <1>14 DEF CodecThrows, serviceVars, uiVars
  <2>2. workerTask \in Task /\ status[workerTask] = "running"
    BY <1>14 DEF CodecThrows, IInv, WorkerInv
  <2> QED
    BY <2>1, <2>2, SettleOrder
<1>15. ASSUME Publish PROVE RInv'
  <2>1. /\ status' = [status EXCEPT ![workerTask] = "answered"] /\ workerTask' = workerTask
        /\ UNCHANGED <<queue, submitted, key, uiPc, isRecycled>>
    BY <1>15 DEF Publish, serviceVars, uiVars
  <2>2. workerTask \in Task /\ status[workerTask] = "running"
    BY <1>15 DEF Publish, IInv, WorkerInv
  <2> QED
    BY <2>1, <2>2, SettleOrder
<1>16. ASSUME Finish PROVE RInv'
  <2>1. UNCHANGED <<queue, submitted, key, uiPc, isRecycled>> /\ workerTask' = NoTask
    BY <1>16 DEF Finish, uiVars
  <2>2. workerTask \in Task /\ status[workerTask] = "answered"
    BY <1>16 DEF Finish, IInv, WorkerInv
  <2>3. \A t \in Task : status'[t] = status[t] \/ status'[t] = "cancelled"
    BY <1>16 DEF Finish, Cancelled
  <2>4. QueueInv'
    BY <2>1, <2>3 DEF RInv, QueueInv
  <2>5. OrderInv'
    BY <2>1, <2>2, <2>3 DEF RInv, OrderInv, NoTask, Task
  <2> QED
    BY <2>1, <2>3, <2>4, <2>5 DEF RInv, NewInv
<1>17. CASE RecycleDocument \/ SweepThrows \/ UNCHANGED vars
  BY <1>17 DEF RecycleDocument, SweepThrows, vars, serviceVars, workerVars, uiVars,
     RInv, QueueInv, OrderInv, NewInv
<1> QED
  BY <1>1, <1>2, <1>3, <1>4, <1>5, <1>6, <1>7, <1>8, <1>9, <1>10, <1>11, <1>12, <1>13,
     <1>14, <1>15, <1>16, <1>17 DEF Next, UiContinue, Worker

\* The order of the queue is kept in every behaviour.
THEOREM OrderHolds == Spec => [](IInv /\ RInv)
<1>1. Init => RInv
  BY InitOrder
<1>2. IInv /\ RInv /\ [Next]_vars => RInv'
  BY StepOrder
<1> QED
  BY <1>1, <1>2, InvariantHolds, PTL DEF Spec
-----------------------------------------------------------------------------
\* The contract's variables are those of the service through the mapping.
LEMMA MappingTypes ==
  ASSUME IInv
  PROVE  /\ status \in [Task -> Status] /\ key \in [Task -> Node \cup {NoNode}]
         /\ decodingNow \in [Node -> BOOLEAN]
         /\ decodingFutures \in [Key -> Task \cup {NoTask}]
         /\ submitted \in Nat
  BY ServiceAssumption DEF IInv, TypeOK

\* The states of a fresh service are initial states of the contract.
LEMMA InitRefines == Init => Contract!Init
  BY ServiceAssumption DEF Init, Contract!Init, Waiting, Owner, Outcomes, OutcomeOf,
     Withdrawn, PendingTask, Registering

\* A step that changes neither flags, futures nor outcomes is a stutter.
LEMMA QuietStep ==
  ASSUME UNCHANGED <<status, key, decodingNow, decodingFutures, posted, isRecycled>>,
         uiPc # "put", uiPc' # "put"
  PROVE  UNCHANGED Contract!vars
  BY DEF Contract!vars, Waiting, Owner, Outcomes, OutcomeOf, Withdrawn, PendingTask,
     Registering

\* A step that cancels a future drops a request that was withdrawn, or nothing.
LEMMA CancelRefines ==
  ASSUME IInv, uiTask \in Task, uiPc \in InHand \ {"put"}, uiPc' # "put",
         status' = Cancelled(uiTask),
         UNCHANGED <<key, decodingNow, decodingFutures, posted, isRecycled>>
  PROVE  Contract!Drop(uiTask) \/ UNCHANGED Contract!vars
<1> USE DEF InHand
<1>1. /\ status \in [Task -> Status]
      /\ key[uiTask] \in Node
      /\ \A k \in Key : decodingFutures[k] # uiTask
  BY MappingTypes DEF IInv, UiInv, TaskInv
<1>2. CASE status[uiTask] = "queued"
  <2>1. uiTask \in Withdrawn
    BY <1>1, <1>2 DEF Withdrawn, PendingTask, Registering, Key
  <2>2. /\ \A t \in Task : t # uiTask => status'[t] = status[t]
        /\ status'[uiTask] = "cancelled"
    BY <1>2 DEF Cancelled
  <2>3. Outcomes' = [Outcomes EXCEPT ![uiTask] = "dropped"]
    BY <2>2 DEF Outcomes, OutcomeOf, PendingTask, Registering
  <2>4. Withdrawn' = Withdrawn \ {uiTask}
    BY <2>2 DEF Withdrawn, PendingTask, Registering
  <2>5. UNCHANGED <<Waiting, Owner>>
    BY DEF Waiting, Owner, Registering
  <2> QED
    BY <2>1, <2>3, <2>4, <2>5 DEF Contract!Drop
<1>3. CASE status[uiTask] # "queued"
  <2>1. status' = status
    BY <1>1, <1>3 DEF Cancelled
  <2> QED
    BY <2>1, QuietStep
<1> QED BY <1>2, <1>3

\* A step with which the running task settles: it was the oldest one pending.
LEMMA SettleRefines ==
  ASSUME IInv, RInv, workerTask \in Task, NEW s \in {"dropped", "failed", "answered"},
         status[workerTask] = "running", workerPc # "check1" \/ uiPc # "put",
         status' = [status EXCEPT ![workerTask] = s],
         UNCHANGED <<key, decodingNow, decodingFutures, uiPc, uiTask, isRecycled>>
  PROVE  /\ Outcomes[workerTask] = "pending"
         /\ \A j \in Task : j < workerTask => Outcomes[j] # "pending"
         /\ Outcomes' = [Outcomes EXCEPT ![workerTask] = s]
         /\ Withdrawn' = Withdrawn \ {workerTask}
         /\ UNCHANGED <<Waiting, Owner>>
<1>1. \A t \in Task : t = workerTask => ~Registering(t) /\ ~Registering(t)'
  BY DEF Registering, IInv, UiInv, InHand
<1>2. /\ \A t \in Task : t # workerTask => status'[t] = status[t]
      /\ status'[workerTask] = s
  BY MappingTypes
<1>3. \A t \in Task : Registering(t)' = Registering(t)
  BY DEF Registering
<1>4. Outcomes[workerTask] = "pending"
  BY <1>1 DEF Outcomes, OutcomeOf, PendingTask
<1>5. \A j \in Task : j < workerTask => Outcomes[j] # "pending"
  <2> SUFFICES ASSUME NEW j \in Task, j < workerTask PROVE Outcomes[j] # "pending"
    OBVIOUS
  <2>1. ~(workerTask < j) /\ j # workerTask
    BY ServiceAssumption DEF Task
  <2>2. status[j] \notin {"queued", "running"} /\ status[j] \in Status
    BY <2>1, MappingTypes DEF RInv, OrderInv
  <2> QED
    BY <2>2 DEF Outcomes, OutcomeOf, PendingTask, Status
<1>6. Outcomes' = [Outcomes EXCEPT ![workerTask] = s]
  BY <1>1, <1>2, <1>3 DEF Outcomes, OutcomeOf, PendingTask
<1>7. Withdrawn' = Withdrawn \ {workerTask}
  BY <1>1, <1>2, <1>3 DEF Withdrawn, PendingTask
<1>8. UNCHANGED <<Waiting, Owner>>
  BY <1>3 DEF Waiting, Owner
<1> QED
  BY <1>4, <1>5, <1>6, <1>7, <1>8

\* Taking a future out of the map gives up what is pending for its node.
LEMMA ForgetWithdraws ==
  ASSUME IInv, NEW n \in Node, uiPc # "put", uiPc' # "put",
         decodingFutures' = [decodingFutures EXCEPT ![n] = NoTask],
         UNCHANGED <<status, key>>
  PROVE  Withdrawn' = Withdrawn \cup Contract!Pending(n)
<1> USE DEF Registering, PendingTask
<1>1. \A u \in Task : u \in Contract!Pending(n) <=>
        status[u] \in {"queued", "running"} /\ key[u] = n
  BY MappingTypes DEF Contract!Pending, Owner, Outcomes, OutcomeOf, Status
<1>2. \A u \in Task : status[u] \in {"queued", "running"} =>
        /\ key[u] \in Node /\ u # NoTask
        /\ decodingFutures'[key[u]] =
             IF key[u] = n THEN NoTask ELSE decodingFutures[key[u]]
  BY MappingTypes, ServiceAssumption DEF IInv, TaskInv, Key, Task, NoTask
<1>3. \A u \in Task : u \in Withdrawn' <=> u \in Withdrawn \/ u \in Contract!Pending(n)
  BY <1>1, <1>2 DEF Withdrawn
<1> QED
  BY <1>3 DEF Withdrawn, Contract!Pending

\* Every access of either thread to the shared state is a step of the contract
\* or one that it does not see.
LEMMA StepRefines ==
  IInv /\ RInv /\ [Next]_vars => [Contract!Next]_Contract!vars
<1> SUFFICES ASSUME IInv, RInv, [Next]_vars
             PROVE  Contract!Next \/ UNCHANGED Contract!vars
  OBVIOUS
<1> USE DEF Registering, PendingTask
<1>0. /\ status \in [Task -> Status] /\ key \in [Task -> Node \cup {NoNode}]
      /\ decodingNow \in [Node -> BOOLEAN]
      /\ decodingFutures \in [Key -> Task \cup {NoTask}]
      /\ submitted \in Nat
  BY MappingTypes
<1>1. ASSUME NEW n \in Node, DecodePageSubmit(n) PROVE UNCHANGED Contract!vars
  <2> DEFINE t == submitted + 1
  <2>1. t \in Task /\ status[t] = "new" /\ key[t] = NoNode
    BY <1>0, <1>1, ServiceAssumption
    DEF DecodePageSubmit, IInv, TypeOK, TaskInv, Task, RInv, NewInv
  <2>2. /\ \A u \in Task : u # t => status'[u] = status[u] /\ key'[u] = key[u]
        /\ status'[t] = "queued" /\ key'[t] = n
        /\ uiPc = "idle" /\ uiPc' = "put" /\ uiTask' = t
        /\ ~decodingNow[n] /\ decodingNow' = [decodingNow EXCEPT ![n] = TRUE]
        /\ UNCHANGED <<decodingFutures, posted, isRecycled>>
    BY <1>0, <1>1, <2>1 DEF DecodePageSubmit
  <2>3. UNCHANGED Waiting
    BY <1>0, <2>1, <2>2 DEF Waiting
  <2>4. UNCHANGED Owner
    BY <1>0, <2>1, <2>2 DEF Owner
  <2>5. UNCHANGED Outcomes
    BY <1>0, <2>1, <2>2 DEF Outcomes, OutcomeOf
  <2>6. UNCHANGED Withdrawn
    BY <1>0, <2>1, <2>2 DEF Withdrawn
  <2> QED
    BY <2>2, <2>3, <2>4, <2>5, <2>6 DEF Contract!vars
<1>2. ASSUME NEW n \in Node, DecodePageRefused(n) PROVE Contract!Refuse(n)
  <2>1. /\ uiPc = "idle" /\ isRecycled
        /\ decodingNow' = [decodingNow EXCEPT ![n] = TRUE]
        /\ UNCHANGED <<status, key, decodingFutures, posted, isRecycled, uiPc, uiTask>>
    BY <1>2 DEF DecodePageRefused, serviceVars, uiVars
  <2>2. Waiting' = [Waiting EXCEPT ![n] = TRUE]
    BY <1>0, <2>1 DEF Waiting
  <2>3. UNCHANGED <<Owner, Outcomes, Withdrawn>>
    BY <2>1 DEF Owner, Outcomes, OutcomeOf, Withdrawn
  <2> QED
    BY <2>1, <2>2, <2>3 DEF Contract!Refuse
<1>3. ASSUME NEW n \in Node, StopDecoding(n) PROVE Contract!Withdraw(n)
  <2>1. /\ uiPc = "idle" /\ uiPc' # "put" /\ decodingNow[n]
        /\ decodingNow' = [decodingNow EXCEPT ![n] = FALSE]
        /\ decodingFutures' = [decodingFutures EXCEPT ![n] = NoTask]
        /\ UNCHANGED <<status, key, posted, isRecycled>>
    BY <1>3 DEF StopDecoding
  <2>2. Waiting[n] /\ Waiting' = [Waiting EXCEPT ![n] = FALSE]
    BY <1>0, <2>1 DEF Waiting
  <2>3. UNCHANGED <<Owner, Outcomes>>
    BY <2>1 DEF Owner, Outcomes, OutcomeOf
  <2>4. Withdrawn' = Withdrawn \cup Contract!Pending(n)
    BY <1>0, <2>1, ForgetWithdraws
  <2> QED
    BY <2>1, <2>2, <2>3, <2>4 DEF Contract!Withdraw
<1>4. ASSUME BeginRecycle PROVE Contract!Close
  <2>1. /\ uiPc = "idle" /\ uiPc' # "put" /\ ~isRecycled /\ isRecycled'
        /\ UNCHANGED <<status, key, decodingNow, decodingFutures, posted>>
    BY <1>4 DEF BeginRecycle
  <2>2. UNCHANGED <<Waiting, Owner, Outcomes, Withdrawn>>
    BY <2>1 DEF Waiting, Owner, Outcomes, OutcomeOf, Withdrawn
  <2> QED
    BY <2>1, <2>2, <1>4 DEF Contract!Close, BeginRecycle
<1>5. ASSUME RunCallback PROVE Contract!Deliver
  <2>1. /\ uiPc = "idle" /\ posted # <<>> /\ posted' = Tail(posted)
        /\ decodingNow' = [decodingNow EXCEPT ![key[Head(posted)]] = FALSE]
        /\ UNCHANGED <<status, key, decodingFutures, isRecycled, uiPc, uiTask>>
    BY <1>5 DEF RunCallback, serviceVars, uiVars
  <2>2. Head(posted) \in Task
    BY <2>1, TakeFirst DEF IInv, TypeOK
  <2>3. Owner[Head(posted)] = key[Head(posted)]
    BY <2>1, <2>2 DEF Owner
  <2>4. Waiting' = [Waiting EXCEPT ![Owner[Head(posted)]] = FALSE]
    BY <1>0, <2>1, <2>3 DEF Waiting
  <2>5. UNCHANGED <<Owner, Outcomes, Withdrawn>>
    BY <2>1 DEF Owner, Outcomes, OutcomeOf, Withdrawn
  <2> QED
    BY <2>1, <2>4, <2>5 DEF Contract!Deliver
<1>6. ASSUME DecodePagePut PROVE Contract!Accept(key[uiTask], uiTask)
  <2> DEFINE t == uiTask
             n == key[uiTask]
  <2>1. /\ uiPc = "put" /\ uiPc' # "put"
        /\ decodingFutures' = [decodingFutures EXCEPT ![n] = t]
        /\ UNCHANGED <<status, key, decodingNow, posted, isRecycled>>
    BY <1>6 DEF DecodePagePut
  <2>2. /\ t \in Task /\ n \in Node /\ decodingNow[n] /\ ~isRecycled
        /\ status[t] \in {"queued", "running"}
    BY <2>1 DEF IInv, UiInv, TaskInv, InHand, RInv, NewInv
  <2>3. Outcomes[t] = "none"
    BY <2>1, <2>2 DEF Outcomes, OutcomeOf
  <2>4. \A j \in Task : j < t => Outcomes[j] # "none"
    <3> SUFFICES ASSUME NEW j \in Task, j < t PROVE Outcomes[j] # "none"
      OBVIOUS
    <3>1. status[j] # "new" /\ j # t /\ status[j] \in Status
      BY <1>0, <2>2, ServiceAssumption DEF IInv, TaskInv, Task
    <3> QED
      BY <3>1 DEF Outcomes, OutcomeOf, Status
  <2>5. Waiting' = [Waiting EXCEPT ![n] = TRUE]
    BY <1>0, <2>1, <2>2 DEF Waiting
  <2>6. Owner' = [Owner EXCEPT ![t] = n]
    BY <1>0, <2>1, <2>2 DEF Owner
  <2>7. Outcomes' = [Outcomes EXCEPT ![t] = "pending"]
    BY <1>0, <2>1, <2>2 DEF Outcomes, OutcomeOf
  <2>8. Withdrawn' = Withdrawn \cup Contract!Pending(n)
    <3>1. \A u \in Task : u \in Contract!Pending(n) <=>
            u # t /\ status[u] \in {"queued", "running"} /\ key[u] = n
      BY <1>0, <2>1, <2>2 DEF Contract!Pending, Owner, Outcomes, OutcomeOf, Status
    <3>2. \A u \in Task : u \in Withdrawn <=>
            /\ u # t /\ status[u] \in {"queued", "running"}
            /\ decodingFutures[key[u]] # u
      BY <2>1 DEF Withdrawn
    <3>3. \A u \in Task : u \in Withdrawn' <=>
            /\ status[u] \in {"queued", "running"}
            /\ decodingFutures'[key[u]] # u
      BY <2>1 DEF Withdrawn
    <3>4. \A u \in Task : status[u] \in {"queued", "running"} => key[u] \in Node
      BY DEF IInv, TaskInv
    <3>5. \A u \in Task : status[u] \in {"queued", "running"} =>
            decodingFutures'[key[u]] =
              IF key[u] = n THEN t ELSE decodingFutures[key[u]]
      BY <1>0, <2>1, <2>2, <3>4 DEF Key
    <3>6. decodingFutures[key[t]] # t
      BY <2>1, <2>2 DEF IInv, UiInv, InHand, Key
    <3>7. \A u \in Task : u \in Withdrawn' <=> u \in Withdrawn \/ u \in Contract!Pending(n)
      BY <2>2, <3>1, <3>2, <3>3, <3>5
    <3> QED
      BY <3>7 DEF Withdrawn, Contract!Pending
  <2> QED
    BY <2>1, <2>2, <2>3, <2>4, <2>5, <2>6, <2>7, <2>8 DEF Contract!Accept
<1>7. ASSUME DecodePageCancel \/ StopDecodingCancel \/ RecycleCancel
      PROVE  (Contract!Drop(uiTask) /\ uiTask \in Task) \/ UNCHANGED Contract!vars
  <2>1. /\ uiPc \in InHand \ {"put"} /\ uiPc' # "put" /\ status' = Cancelled(uiTask)
        /\ UNCHANGED <<key, decodingNow, decodingFutures, posted, isRecycled>>
    BY <1>7 DEF DecodePageCancel, StopDecodingCancel, RecycleCancel, InHand, serviceVars
  <2>2. uiTask \in Task
    BY <2>1 DEF IInv, UiInv
  <2> QED
    BY <2>1, <2>2, CancelRefines
<1>8. ASSUME NEW k \in Key, RecycleKey(k) PROVE k \in Node /\ Contract!Withdraw(k)
  <2>1. /\ uiPc = "recycleKeys" /\ uiPc' # "put" /\ decodingFutures[k] # NoTask
        /\ decodingFutures' = [decodingFutures EXCEPT ![k] = NoTask]
        /\ UNCHANGED <<status, key, posted, isRecycled, decodingNow>>
    BY <1>8 DEF RecycleKey
  <2>2. k \in Node /\ isRecycled
    BY <2>1 DEF IInv, FutureInv, RecyclerInv, Key
  <2>3. UNCHANGED <<Waiting, Owner, Outcomes>>
    BY <2>1 DEF Waiting, Owner, Outcomes, OutcomeOf
  <2>4. Withdrawn' = Withdrawn \cup Contract!Pending(k)
    BY <1>0, <2>1, <2>2, ForgetWithdraws
  <2> QED
    BY <2>1, <2>2, <2>3, <2>4 DEF Contract!Withdraw
<1>9. ASSUME \/ SubmitRecycler \/ Shutdown \/ Codec
              \/ BeginSweep \/ RecycleDocument \/ SweepThrows
      PROVE  UNCHANGED Contract!vars
  <2>1. /\ UNCHANGED <<status, key, decodingNow, decodingFutures, posted, isRecycled>>
        /\ (uiPc # "put" /\ uiPc' # "put") \/ UNCHANGED <<uiPc, uiTask>>
    BY <1>9 DEF SubmitRecycler, Shutdown, BeginSweep, RecycleDocument, SweepThrows, Codec, serviceVars, uiVars
  <2> QED
    BY <2>1, QuietStep DEF Contract!vars, Waiting, Owner, Outcomes, OutcomeOf, Withdrawn
<1>10. ASSUME TakeTask PROVE UNCHANGED Contract!vars
  <2>1. /\ UNCHANGED <<key, decodingNow, decodingFutures, posted, isRecycled, uiPc, uiTask>>
        /\ \A u \in Task : \/ status'[u] = status[u]
                           \/ status[u] = "queued" /\ status'[u] = "running"
    BY <1>0, <1>10 DEF TakeTask, serviceVars, uiVars
  <2>2. UNCHANGED <<Waiting, Owner>>
    BY <2>1 DEF Waiting, Owner
  <2>3. UNCHANGED <<Outcomes, Withdrawn>>
    BY <2>1 DEF Outcomes, OutcomeOf, Withdrawn
  <2> QED
    BY <2>1, <2>2, <2>3 DEF Contract!vars
<1>11. ASSUME CheckDead
       PROVE  (Contract!Drop(workerTask) /\ workerTask \in Task) \/ UNCHANGED Contract!vars
  <2>1. /\ UNCHANGED <<key, decodingNow, decodingFutures, posted, isRecycled, uiPc, uiTask>>
        /\ uiPc # "put"
    BY <1>11 DEF CheckDead, LockFree, serviceVars, uiVars
  <2>2. workerTask \in Task /\ status[workerTask] = "running"
    BY <1>11 DEF CheckDead, AfterCheck, IInv, WorkerInv
  <2>3. CASE IsTaskDead(workerTask)
    <3>1. status' = [status EXCEPT ![workerTask] = "dropped"]
      BY <1>11, <2>3 DEF CheckDead
    <3>2. workerTask \in Withdrawn
      BY <2>1, <2>2, <2>3, ServiceAssumption DEF IsTaskDead, Withdrawn, Task, NoTask
    <3> QED
      BY <2>1, <2>2, <3>1, <3>2, SettleRefines DEF Contract!Drop
  <2>4. CASE ~IsTaskDead(workerTask)
    BY <1>11, <2>1, <2>4, QuietStep DEF CheckDead
  <2> QED
    BY <2>3, <2>4
<1>12. ASSUME CodecThrows PROVE workerTask \in Task /\ Contract!Fail(workerTask)
  <2>1. /\ UNCHANGED <<key, decodingNow, decodingFutures, posted, isRecycled, uiPc, uiTask>>
        /\ status' = [status EXCEPT ![workerTask] = "failed"]
        /\ workerPc # "check1"
    BY <1>12 DEF CodecThrows, serviceVars, uiVars
  <2>2. workerTask \in Task /\ status[workerTask] = "running"
    BY <1>12 DEF CodecThrows, IInv, WorkerInv
  <2> QED
    BY <2>1, <2>2, SettleRefines DEF Contract!Fail
<1>13. ASSUME Publish PROVE workerTask \in Task /\ Contract!Answer(workerTask)
  <2>1. /\ UNCHANGED <<key, decodingNow, decodingFutures, isRecycled, uiPc, uiTask>>
        /\ status' = [status EXCEPT ![workerTask] = "answered"]
        /\ posted' = Append(posted, workerTask)
        /\ workerPc # "check1"
    BY <1>13 DEF Publish, serviceVars, uiVars
  <2>2. workerTask \in Task /\ status[workerTask] = "running"
    BY <1>13 DEF Publish, IInv, WorkerInv
  <2> QED
    BY <2>1, <2>2, SettleRefines DEF Contract!Answer
<1>14. ASSUME Finish PROVE UNCHANGED Contract!vars
  <2>1. PageOf[key[workerTask]] \in Page
    BY <1>14, ServiceAssumption DEF Finish, IInv, WorkerInv, TaskInv
  <2>2. decodingFutures[PageOf[key[workerTask]]] = NoTask
    BY <2>1 DEF IInv, FutureInv
  <2>3. decodingFutures' = decodingFutures
    BY <1>0, <1>14, <2>1, <2>2 DEF Finish, Key
  <2>4. status' = status
    BY <1>0, <1>14, <2>2, ServiceAssumption DEF Finish, Cancelled, Task, NoTask
  <2> QED
    BY <1>14, <2>3, <2>4
    DEF Finish, uiVars, Contract!vars, Waiting, Owner, Outcomes, OutcomeOf, Withdrawn
<1>15. CASE UNCHANGED vars
  BY <1>15 DEF vars, serviceVars, uiVars, Contract!vars, Waiting, Owner, Outcomes,
     OutcomeOf, Withdrawn
<1>16. ASSUME NEW n \in Node,
              DecodePageSubmit(n) \/ DecodePageRefused(n) \/ StopDecoding(n)
       PROVE  Contract!Next \/ UNCHANGED Contract!vars
  BY <1>1, <1>2, <1>3, <1>16 DEF Contract!Next
<1>17. CASE UiContinue
  <2>1. CASE DecodePagePut
    <3>1. key[uiTask] \in Node /\ uiTask \in Task
      BY <2>1 DEF DecodePagePut, IInv, UiInv, TaskInv, InHand
    <3> QED
      BY <2>1, <1>6, <3>1 DEF Contract!Next
  <2>2. CASE DecodePageCancel \/ StopDecodingCancel \/ RecycleCancel
    BY <2>2, <1>7 DEF Contract!Next
  <2>3. CASE \E k \in Key : RecycleKey(k)
    BY <2>3, <1>8 DEF Contract!Next
  <2>4. CASE SubmitRecycler \/ Shutdown
    BY <2>4, <1>9
  <2> QED
    BY <1>17, <2>1, <2>2, <2>3, <2>4 DEF UiContinue
<1>18. CASE Worker
  BY <1>18, <1>9, <1>10, <1>11, <1>12, <1>13, <1>14 DEF Worker, Contract!Next
<1> QED
  BY <1>4, <1>5, <1>15, <1>16, <1>17, <1>18 DEF Next, Contract!Next

\* The decode service implements the contract: in every behaviour answers come
\* in the order of the requests, only what was withdrawn or superseded is
\* dropped, and nothing is accepted after recycle().
THEOREM Implements == Spec => ImplementsContract
<1>1. IInv /\ RInv /\ [Next]_vars => [Contract!Next]_Contract!vars
  BY StepRefines
<1> QED
  BY <1>1, InitRefines, OrderHolds, PTL DEF Spec, ImplementsContract, Contract!Spec

-----------------------------------------------------------------------------
\* What is proved about the contract, read through the mapping.
Kept == INSTANCE DecodeContractProofs WITH
  Request   <- Task,
  waiting   <- Waiting,
  owner     <- Owner,
  outcome   <- Outcomes,
  withdrawn <- Withdrawn,
  inbox     <- posted,
  closed    <- isRecycled

\* The nodes of the tree get what the contract promises from the two threads:
\* callbacks reach the handler in the order of the requests, and a node that
\* waits in an open service waits for a request that is under way, answered and
\* undelivered, or failed.
THEOREM NodesAreAnswered == Spec => []NodesKeepThePromise
<1>0. Kept!ContractAssumption
  BY ServiceAssumption DEF Kept!ContractAssumption, Task
<1>1. Contract!Init => Kept!CInv
  <2>1. Contract!Init => Kept!Init
    BY DEF Contract!Init, Kept!Init
  <2> QED BY <1>0, <2>1, Kept!InitKept
<1>2. Kept!CInv /\ [Contract!Next]_Contract!vars => Kept!CInv'
  <2>1. Contract!Next => Kept!Next
    BY DEF Contract!Next, Contract!Accept, Contract!Refuse, Contract!Withdraw,
       Contract!Answer, Contract!Drop, Contract!Fail, Contract!Deliver, Contract!Close,
       Contract!Pending, Kept!Next, Kept!Accept, Kept!Refuse, Kept!Withdraw,
       Kept!Answer, Kept!Drop, Kept!Fail, Kept!Deliver, Kept!Close, Kept!Pending
  <2>2. UNCHANGED Contract!vars => UNCHANGED Kept!vars
    BY DEF Contract!vars, Kept!vars
  <2>3. Kept!CInv /\ [Kept!Next]_Kept!vars => Kept!CInv'
    BY <1>0, Kept!StepKept
  <2> QED BY <2>1, <2>2, <2>3
<1>3. Kept!CInv => NodesKeepThePromise
  BY DEF NodesKeepThePromise, Kept!CInv, Kept!PromiseIsKept, Contract!PromiseIsKept, Kept!WaitingIsFounded,
     Contract!WaitingIsFounded, Kept!AnswersInOrder, Contract!AnswersInOrder
<1> QED
  BY <1>1, <1>2, <1>3, Implements, PTL DEF ImplementsContract, Contract!Spec
=============================================================================
