---------------------------- MODULE DjvuContext ----------------------------
(***************************************************************************)
(* Opening a DjVu document (DjvuContext.java, DjvuDroidBridge.cpp).        *)
(*                                                                         *)
(* ddjvulibre reports through a message queue.  It is built without        *)
(* threads: the UI thread, which opens the document, runs the whole        *)
(* initialisation inside the native call and posts its messages there, and *)
(* then blocks on docSemaphore until the pump has met DDJVU_DOCINFO.  The  *)
(* pump thread runs meanwhile.  It takes one message at a time, under the  *)
(* monitor of the Java context, and waits 200 ms between two of them.  The *)
(* executor thread makes messages while it decodes and finally frees the   *)
(* context.  Names that DjvuHandles has too begin with "Context" here,     *)
(* because the proofs extend both modules.                                 *)
(***************************************************************************)
EXTENDS Naturals, Sequences

CONSTANT MaxMessages   \* bound: no file fails and nothing decodes while so many messages wait

ASSUME ContextAssumption == MaxMessages \in Nat \ {0, 1}

Message == {"DDJVU_ERROR", "DDJVU_DOCINFO", "other"}

VARIABLES
  messages,       \* the native queue of the context
  document,       \* what became of the native open
  contextHandle,  \* the handle is not zero
  contextMonitor, \* the thread that owns the monitor of the DjvuContext
  docSemaphore,
  pumpPc,         \* where run() is
  uiPc            \* where openDocument is

contextVars == <<messages, document, contextHandle, contextMonitor, docSemaphore, pumpPc, uiPc>>

ContextInit ==
  /\ messages = <<>>
  /\ document = "none"
  /\ contextHandle = TRUE
  /\ contextMonitor = "free"
  /\ docSemaphore = 0
  /\ pumpPc = "enter"
  /\ uiPc = "start"
-----------------------------------------------------------------------------
(* The UI thread: openDocument. *)

Post(m) == messages' = Append(messages, m)

\* The native open begins to read the file ...
OpenDocument ==
  /\ uiPc = "start"
  /\ uiPc' = "init"
  /\ UNCHANGED <<messages, document, contextHandle, contextMonitor, docSemaphore, pumpPc>>

\* ... or has none to read: it gives a null document, and there is no DDJVU_DOCINFO.
OpenFails ==
  /\ uiPc = "start"
  /\ Post("DDJVU_ERROR")
  /\ document' = "null"
  /\ uiPc' = "acquire"
  /\ UNCHANGED <<contextHandle, contextMonitor, docSemaphore, pumpPc>>

\* A file that the first page includes is not there: the error is reported, and the
\* initialisation goes on.
FileFails ==
  /\ uiPc = "init"
  /\ Len(messages) < MaxMessages
  /\ Post("DDJVU_ERROR")
  /\ UNCHANGED <<document, contextHandle, contextMonitor, docSemaphore, pumpPc, uiPc>>

\* The document is initialised, or it turns out to be corrupt.  DDJVU_DOCINFO tells
\* neither from the other; the error of a corrupt document comes after it.
Initialised ==
  /\ uiPc = "init"
  /\ Post("DDJVU_DOCINFO")
  /\ \/ document' = "ok" /\ uiPc' = "acquire"
     \/ document' = "corrupt" /\ uiPc' = "failed"
  /\ UNCHANGED <<contextHandle, contextMonitor, docSemaphore, pumpPc>>

NotifyError ==
  /\ uiPc = "failed"
  /\ Post("DDJVU_ERROR")
  /\ uiPc' = "acquire"
  /\ UNCHANGED <<document, contextHandle, contextMonitor, docSemaphore, pumpPc>>

Acquire ==
  /\ uiPc = "acquire"
  /\ docSemaphore > 0
  /\ docSemaphore' = docSemaphore - 1
  /\ uiPc' = "opened"
  /\ UNCHANGED <<messages, document, contextHandle, contextMonitor, pumpPc>>
-----------------------------------------------------------------------------
(* The pump thread: run. *)

\* synchronized (this), and the check that ends the thread.
EnterMonitor ==
  /\ pumpPc = "enter"
  /\ contextMonitor = "free"
  /\ IF contextHandle THEN contextMonitor' = "pump" /\ pumpPc' = "handle"
     ELSE pumpPc' = "stopped" /\ UNCHANGED contextMonitor
  /\ UNCHANGED <<messages, document, contextHandle, docSemaphore, uiPc>>

\* handleMessage when the queue is empty, or its head only needs to be popped.
HandleOther ==
  /\ pumpPc = "handle"
  /\ \/ messages = <<>> /\ UNCHANGED messages
     \/ /\ messages # <<>>
        /\ Head(messages) = "other"
        /\ messages' = Tail(messages)
  /\ pumpPc' = "wait"
  /\ UNCHANGED <<document, contextHandle, contextMonitor, docSemaphore, uiPc>>

\* handleDocInfo.
HandleDocInfo ==
  /\ pumpPc = "handle"
  /\ messages # <<>>
  /\ Head(messages) = "DDJVU_DOCINFO"
  /\ docSemaphore' = docSemaphore + 1
  /\ messages' = Tail(messages)
  /\ pumpPc' = "wait"
  /\ UNCHANGED <<document, contextHandle, contextMonitor, uiPc>>

\* Mutant: the exception ends the thread.
HandleError_EndsPump ==
  /\ pumpPc = "handle"
  /\ messages # <<>>
  /\ Head(messages) = "DDJVU_ERROR"
  /\ messages' = Tail(messages)
  /\ contextMonitor' = "free"
  /\ pumpPc' = "stopped"
  /\ UNCHANGED <<document, contextHandle, docSemaphore, uiPc>>

\* ThrowDjvuError: the message is popped, then the RuntimeException leaves the
\* synchronized block and is logged by the loop, which goes round again.
HandleError ==
  /\ pumpPc = "handle"
  /\ messages # <<>>
  /\ Head(messages) = "DDJVU_ERROR"
  /\ messages' = Tail(messages)
  /\ contextMonitor' = "free"
  /\ pumpPc' = "enter"
  /\ UNCHANGED <<document, contextHandle, docSemaphore, uiPc>>

\* wait(200) gives the monitor up ...
Wait ==
  /\ pumpPc = "wait"
  /\ contextMonitor' = "free"
  /\ pumpPc' = "waiting"
  /\ UNCHANGED <<messages, document, contextHandle, docSemaphore, uiPc>>

\* Mutant: wait() without a timeout; recycle() does not notify.
WakeUp_OnlyNotified ==
  /\ pumpPc = "waiting"
  /\ contextHandle
  /\ contextMonitor = "free"
  /\ pumpPc' = "enter"
  /\ UNCHANGED <<messages, document, contextHandle, contextMonitor, docSemaphore, uiPc>>

\* ... and needs it again to return; only the timeout ends the wait.
WakeUp ==
  /\ pumpPc = "waiting"
  /\ contextMonitor = "free"
  /\ pumpPc' = "enter"
  /\ UNCHANGED <<messages, document, contextHandle, contextMonitor, docSemaphore, uiPc>>
-----------------------------------------------------------------------------
(* The executor thread. *)

\* Decoding a page makes messages.
Produce(m) ==
  /\ uiPc = "opened"
  /\ contextHandle
  /\ Len(messages) < MaxMessages
  /\ Post(m)
  /\ UNCHANGED <<document, contextHandle, contextMonitor, docSemaphore, pumpPc, uiPc>>

\* Mutant: recycle() is not synchronized.
RecycleContext_NoMonitor ==
  /\ uiPc = "opened"
  /\ contextHandle
  /\ contextHandle' = FALSE
  /\ messages' = <<>>
  /\ UNCHANGED <<document, contextMonitor, docSemaphore, pumpPc, uiPc>>

\* recycle() is synchronized, and frees the context with its queue.
RecycleContext ==
  /\ uiPc = "opened"
  /\ contextMonitor = "free"
  /\ contextHandle
  /\ contextHandle' = FALSE
  /\ messages' = <<>>
  /\ UNCHANGED <<document, contextMonitor, docSemaphore, pumpPc, uiPc>>
-----------------------------------------------------------------------------
Open == OpenDocument \/ OpenFails \/ FileFails \/ Initialised \/ NotifyError \/ Acquire

RunPump == EnterMonitor \/ HandleOther \/ HandleDocInfo \/ HandleError \/ Wait \/ WakeUp

ContextNext ==
  \/ Open \/ RunPump
  \/ \E m \in {"DDJVU_ERROR", "other"} : Produce(m)
  \/ RecycleContext

ContextSpec == ContextInit /\ [][ContextNext]_contextVars

\* The pump is an ordinary thread whose waits time out, and a semaphore that has
\* a permit lets the only thread that asks for it go on.
ContextFairSpec == ContextSpec /\ WF_contextVars(RunPump) /\ WF_contextVars(Acquire)
-----------------------------------------------------------------------------
(* Properties *)

\* Type correctness of the context and of the threads that share it.
ContextTypeOK ==
  /\ messages \in Seq(Message)
  /\ document \in {"none", "null", "ok", "corrupt"}
  /\ contextHandle \in BOOLEAN
  /\ contextMonitor \in {"free", "pump"}
  /\ docSemaphore \in Nat
  /\ pumpPc \in {"enter", "handle", "wait", "waiting", "stopped"}
  /\ uiPc \in {"start", "init", "failed", "acquire", "opened"}

\* The pump never passes a freed context to native code: recycle() cannot come
\* between the check of the handle and the use of it.
PumpUsesLiveContext == pumpPc = "handle" => contextHandle

\* openDocument returns whenever the native open gave a document, however many
\* errors of its files the pump has to throw and to log before DDJVU_DOCINFO, and
\* whether it meets that message before or after the native open returns.  (A native
\* open that gives no document posts none, and the UI thread waits forever.)
OpenReturns ==
  (uiPc = "acquire" /\ document # "null") ~> uiPc = "opened"

\* Freeing the context ends the pump thread.
PumpStops == ~contextHandle ~> pumpPc = "stopped"

\* A document that openDocument has returned was initialised with success.
\* ddjvuapi.h asks for a call of ddjvu_document_decoding_status when m_docinfo
\* comes, to determine whether the operation was successful.
OpenedDocumentIsDecoded == uiPc = "opened" => document = "ok"
=============================================================================
