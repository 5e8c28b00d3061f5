----------------------------- MODULE DjvuHandles -----------------------------
(***************************************************************************)
(* The native objects of a DjVu document and the Java objects that hold    *)
(* their handles: DjvuPage, DjvuDocument and DjvuContext, and what their   *)
(* calls do in ddjvuapi.cpp.                                               *)
(*                                                                         *)
(* A native object is counted.  The bridge owns one count of each, which   *)
(* recycle gives up; a page also counts its document, and both count the   *)
(* context.  Messages name pages and documents by plain pointers: whoever  *)
(* releases one has to take its messages out of the queue.                 *)
(*                                                                         *)
(* recycle runs on the executor (a page evicted, the runnable of           *)
(* DecodeServiceBase.recycle), on the UI thread (a page evicted) and on    *)
(* the finalizer thread; its monitor is the Java object's.  The library is *)
(* built without threads and without locks: a Java thread that makes a     *)
(* page decodes it there and then, and posts the messages in between what  *)
(* other threads do.  The pump of DjvuContext takes them.                  *)
(***************************************************************************)
EXTENDS Integers, FiniteSets

CONSTANTS Page      \* the Java pages, each with at most one native page

Thread == {"ui", "executor", "finalizer"}
Pump   == "pump"
NoThread == "none"

ASSUME PageAssumption == Page \cap {"doc", "ctx"} = {}

Job == Page \cup {"doc"}
Obj == Job \cup {"ctx"}

VARIABLES
  handle,    \* the Java objects whose handle is not 0
  monitor,   \* who holds the monitor of each Java object
  own,       \* how often the bridge counts each native object
  released,  \* the jobs marked as released
  queue,     \* the jobs whose messages are in the queue of the context
  peeked,    \* the jobs that the message at hand names
  late,      \* history: a message was appended after something it names was released
  made,      \* the pages that were made
  pool,      \* the pages that the service reaches: in its map, reference not cleared
  finalized, \* the objects whose finalizer has begun
  phase,     \* the executor: decoding, pages, document, done or thrown
  sweep,     \* the pages its freeing runnable has still to visit
  modified,  \* the map was modified since that runnable began to iterate
  dropped,   \* the activity and its service are garbage
  pc, at     \* where each Java thread is, and with which object

javaVars    == <<handle, monitor, made, pool, finalized>>
nativeVars  == <<own, released, queue, peeked, late>>
serviceVars == <<phase, sweep, modified, dropped>>
vars == <<javaVars, nativeVars, serviceVars, pc, at>>

\* What a message of j points to: the page, which is its own job, and the document.
Names(j) == {j, "doc"}

Goto(t, l, o) == pc' = [pc EXCEPT ![t] = l] /\ at' = [at EXCEPT ![t] = o]
Idle(t) == pc[t] = "idle"
InHand(o) == \E t \in Thread : pc[t] \notin {"idle", "post"} /\ at[t] = o
-----------------------------------------------------------------------------
(* recycle of a page, a document or the context *)

\* Mutant: recycle is not synchronized.
Enter_Unlocked(t) ==
  /\ pc[t] = "enter"
  /\ IF at[t] \in handle
     THEN /\ monitor' = [monitor EXCEPT ![at[t]] = t]
          /\ Goto(t, IF at[t] = "ctx" THEN "unref" ELSE "mark", at[t])
     ELSE Goto(t, "idle", at[t]) /\ UNCHANGED monitor
  /\ UNCHANGED <<handle, made, pool, finalized, nativeVars, serviceVars>>

\* The monitor, and the test of the handle.
Enter(t) ==
  /\ pc[t] = "enter"
  /\ monitor[at[t]] = NoThread
  /\ IF at[t] \in handle
     THEN /\ monitor' = [monitor EXCEPT ![at[t]] = t]
          /\ Goto(t, IF at[t] = "ctx" THEN "unref" ELSE "mark", at[t])
     ELSE Goto(t, "idle", at[t]) /\ UNCHANGED monitor
  /\ UNCHANGED <<handle, made, pool, finalized, nativeVars, serviceVars>>

\* ddjvu_job_release: the image or document is let go, the job marked ...
Mark(t) ==
  /\ pc[t] = "mark"
  /\ released' = released \cup {at[t]}
  /\ Goto(t, "clean", at[t])
  /\ UNCHANGED <<javaVars, own, queue, peeked, late, serviceVars>>

\* Mutant: only its own messages are taken out, not those of its pages.
Clean_OwnOnly(t) ==
  /\ pc[t] = "clean"
  /\ queue' = queue \ {at[t]}
  /\ Goto(t, "forget", at[t])
  /\ UNCHANGED <<javaVars, own, released, peeked, late, serviceVars>>

\* ... the messages that name it are taken out of the queue, ...
Clean(t) ==
  /\ pc[t] = "clean"
  /\ queue' = {j \in queue : at[t] \notin Names(j)}
  /\ Goto(t, "forget", at[t])
  /\ UNCHANGED <<javaVars, own, released, peeked, late, serviceVars>>

\* ... and the message at hand names it no longer, ...
CleanPeeked(t) ==
  /\ pc[t] = "forget"
  /\ peeked' = peeked \ {at[t]}
  /\ Goto(t, "unref", at[t])
  /\ UNCHANGED <<javaVars, own, released, queue, late, serviceVars>>

\* ... and its count is given up, which is all that ddjvu_context_release does.
Unref(t) ==
  /\ pc[t] = "unref"
  /\ own' = [own EXCEPT ![at[t]] = @ - 1]
  /\ Goto(t, "zero", at[t])
  /\ UNCHANGED <<javaVars, released, queue, peeked, late, serviceVars>>

Zero(t) ==
  /\ pc[t] = "zero"
  /\ handle' = handle \ {at[t]}
  /\ monitor' = [monitor EXCEPT ![at[t]] = NoThread]
  /\ Goto(t, "idle", at[t])
  /\ UNCHANGED <<made, pool, finalized, nativeVars, serviceVars>>

Recycle(t) == Enter(t) \/ Mark(t) \/ Clean(t) \/ CleanPeeked(t) \/ Unref(t) \/ Zero(t)
-----------------------------------------------------------------------------
(* A page that is not in the pool *)

\* document.getPage reads the handle of the document without its monitor.  The UI
\* thread may do so after onDestroy, in a callback posted before; if the handle is 0
\* then, the native call ends the process and nothing follows.
ReadDocument(t) ==
  /\ Idle(t)
  /\ \/ t = "ui" /\ ~dropped
     \/ t = "executor" /\ phase = "decoding"
  /\ "doc" \in handle
  /\ Goto(t, "create", "doc")
  /\ UNCHANGED <<javaVars, nativeVars, serviceVars>>

\* ddjvu_page_create, which returns 0 when the library throws, or the document was
\* let go; the new page goes into the map, where it may replace an entry whose
\* reference was cleared.
CreatePage(t, p) ==
  /\ pc[t] = "create"
  /\ p \in Page \ made
  /\ made' = made \cup {p}
  /\ pool' = pool \cup {p}
  /\ \/ "doc" \notin released /\ handle' = handle \cup {p} /\ own' = [own EXCEPT ![p] = 1]
     \/ UNCHANGED <<handle, own>>
  /\ modified' \in {modified, TRUE}
  /\ Goto(t, "evict", p)
  /\ UNCHANGED <<monitor, finalized, released, queue, peeked, late, phase, sweep, dropped>>

\* The pool has room, or the entry evicted has a reference that was cleared.
KeepAll(t) ==
  /\ pc[t] = "evict"
  /\ modified' \in {modified, TRUE}
  /\ Goto(t, "idle", at[t])
  /\ UNCHANGED <<javaVars, nativeVars, phase, sweep, dropped>>

\* An older page is evicted and recycled.
Evict(t, p) ==
  /\ pc[t] = "evict"
  /\ p \in pool \ {at[t]}
  /\ pool' = pool \ {p}
  /\ modified' = TRUE
  /\ Goto(t, "enter", p)
  /\ UNCHANGED <<handle, monitor, made, finalized, nativeVars, phase, sweep, dropped>>
-----------------------------------------------------------------------------
(* The freeing runnable of DecodeServiceBase.recycle *)

BeginSweep ==
  /\ phase = "decoding"
  /\ Idle("executor")
  /\ phase' = "pages"
  /\ sweep' = pool
  /\ modified' = FALSE
  /\ UNCHANGED <<javaVars, nativeVars, dropped, pc, at>>

SweepPage(p) ==
  /\ phase = "pages"
  /\ Idle("executor")
  /\ p \in sweep
  /\ ~modified
  /\ sweep' = sweep \ {p}
  /\ IF p \in pool THEN Goto("executor", "enter", p) ELSE UNCHANGED <<pc, at>>
  /\ UNCHANGED <<javaVars, nativeVars, phase, modified, dropped>>

\* The iterator of the map fails fast, and nothing more is recycled.
SweepThrows ==
  /\ phase = "pages"
  /\ Idle("executor")
  /\ sweep # {}
  /\ modified
  /\ phase' = "thrown"
  /\ UNCHANGED <<javaVars, nativeVars, sweep, modified, dropped, pc, at>>

SweepDocument ==
  /\ phase = "pages"
  /\ Idle("executor")
  /\ sweep = {}
  /\ phase' = "document"
  /\ Goto("executor", "enter", "doc")
  /\ UNCHANGED <<javaVars, nativeVars, sweep, modified, dropped>>

SweepContext ==
  /\ phase = "document"
  /\ Idle("executor")
  /\ phase' = "done"
  /\ Goto("executor", "enter", "ctx")
  /\ UNCHANGED <<javaVars, nativeVars, sweep, modified, dropped>>

\* The last reference to the service is gone.
Drop ==
  /\ phase \in {"done", "thrown"}
  /\ Idle("executor")
  /\ Idle("ui")
  /\ ~dropped
  /\ dropped' = TRUE
  /\ UNCHANGED <<javaVars, nativeVars, phase, sweep, modified, pc, at>>
-----------------------------------------------------------------------------
(* Garbage collection *)

ClearReference(p) ==
  /\ p \in pool
  /\ ~InHand(p)
  /\ pool' = pool \ {p}
  /\ UNCHANGED <<handle, monitor, made, finalized, nativeVars, serviceVars, pc, at>>

\* finalize, once for each object that nobody reaches, in any order.  The context is
\* reached by its pump until it has been recycled.
Finalize(o) ==
  /\ Idle("finalizer")
  /\ o \notin finalized
  /\ \/ o \in made /\ (o \notin pool \/ dropped)
     \/ o = "doc" /\ dropped
     \/ o = "ctx" /\ dropped /\ o \notin handle
  /\ ~InHand(o)
  /\ finalized' = finalized \cup {o}
  /\ Goto("finalizer", "enter", o)
  /\ UNCHANGED <<handle, monitor, made, pool, nativeVars, serviceVars>>
-----------------------------------------------------------------------------
(* The queue of messages *)

\* The thread that decodes a new page notifies the document, of a file that fails,
\* or an older page that shares a file; one whose document or image was let go has
\* nothing to say.  msg_push finds that nothing it names was released ...
Notify(t, j) ==
  /\ pc[t] = "create"
  /\ own[j] > 0
  /\ Names(j) \cap released = {}
  /\ Goto(t, "post", j)
  /\ UNCHANGED <<javaVars, nativeVars, serviceVars>>

\* ... and appends the message: GMonitorLock locks nothing in this build, and a release
\* may have come in between.
MsgPush(t) ==
  /\ pc[t] = "post"
  /\ queue' = queue \cup {at[t]}
  /\ late' = (late \/ Names(at[t]) \cap released # {})
  /\ Goto(t, "create", "doc")
  /\ UNCHANGED <<javaVars, own, released, peeked, serviceVars>>

\* DjvuContext.run holds the monitor of the context from its test to its wait.
Peek(j) ==
  /\ "ctx" \in handle
  /\ monitor["ctx"] = NoThread
  /\ j \in queue
  /\ monitor' = [monitor EXCEPT !["ctx"] = Pump]
  /\ queue' = queue \ {j}
  /\ peeked' = Names(j)
  /\ UNCHANGED <<handle, made, pool, finalized, own, released, late, serviceVars, pc, at>>

Pop ==
  /\ monitor["ctx"] = Pump
  /\ monitor' = [monitor EXCEPT !["ctx"] = NoThread]
  /\ peeked' = {}
  /\ UNCHANGED <<handle, made, pool, finalized, own, released, queue, late, serviceVars, pc, at>>
-----------------------------------------------------------------------------
\* A document that has been opened, and no page of it.
Init ==
  /\ handle = {"doc", "ctx"}
  /\ monitor = [o \in Obj |-> NoThread]
  /\ own = [o \in Obj |-> IF o \in Page THEN 0 ELSE 1]
  /\ released = {} /\ queue = {} /\ peeked = {} /\ late = FALSE
  /\ made = {} /\ pool = {} /\ finalized = {}
  /\ phase = "decoding" /\ sweep = {} /\ modified = FALSE
  /\ dropped = FALSE
  /\ pc = [t \in Thread |-> "idle"]
  /\ at = [t \in Thread |-> "doc"]

Service ==
  \/ BeginSweep \/ SweepThrows \/ SweepDocument \/ SweepContext \/ Drop
  \/ \E p \in Page : SweepPage(p) \/ ClearReference(p)
  \/ \E o \in Obj : Finalize(o)

Fill(t) ==
  \/ ReadDocument(t) \/ KeepAll(t)
  \/ \E p \in Page : CreatePage(t, p) \/ Evict(t, p)

Messages ==
  \/ Pop
  \/ \E j \in Job : Peek(j) \/ \E t \in Thread : Notify(t, j)
  \/ \E t \in Thread : MsgPush(t)

Next == Service \/ Messages \/ \E t \in Thread : Recycle(t) \/ Fill(t)

Spec == Init /\ [][Next]_vars
-----------------------------------------------------------------------------
(* Properties *)

TypeOK ==
  /\ handle \subseteq Obj
  /\ monitor \in [Obj -> Thread \cup {Pump, NoThread}]
  /\ own \in [Obj -> Int]
  /\ released \subseteq Job /\ queue \subseteq Job /\ peeked \subseteq Job
  /\ late \in BOOLEAN
  /\ made \subseteq Page /\ pool \subseteq made /\ finalized \subseteq Obj
  /\ phase \in {"decoding", "pages", "document", "done", "thrown"}
  /\ sweep \subseteq Page /\ modified \in BOOLEAN /\ dropped \in BOOLEAN
  /\ pc \in [Thread -> {"idle", "create", "post", "evict",
                     "enter", "mark", "clean", "forget", "unref", "zero"}]
  /\ at \in [Thread -> Obj]

\* A native object is released once, by whichever of the executor, the UI thread and
\* the finalizer comes first, and until then its Java object has the handle to do it:
\* no count is given up twice, and none is lost to a handle that was forgotten.
OwnedByItsWrapper ==
  \A o \in Obj :
    /\ own[o] \in {0, 1}
    /\ own[o] = 1 <=> o \in handle /\ ~\E t \in Thread : pc[t] = "zero" /\ at[t] = o

\* No message, in the queue or at hand, names a page or a document that the bridge
\* has let go: ddjvuapi.h says that the fields are cleared when the object is
\* released, and a message not yet passed on is removed from the queue.  Stated until
\* a thread appends one after another thread has released what it names.
MessagesNameOwnedJobs ==
  ~ late => \A n \in Job : (n \in peeked \/ \E j \in queue : n \in Names(j)) => own[n] = 1
=============================================================================
