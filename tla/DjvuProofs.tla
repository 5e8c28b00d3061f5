----------------------------- MODULE DjvuProofs -----------------------------
(***************************************************************************)
(* Theorems about DjvuHandles, for any set of pages, and about             *)
(* DjvuContext, whatever messages ddjvulibre makes and however many.       *)
(*                                                                         *)
(* A thread that has entered recycle with a handle holds the monitor of    *)
(* its object until it has zeroed the handle (Locked), so one thread alone *)
(* gives up the count, and a page that was not made has no handle (Fresh). *)
(* What it releases is named by messages until it has cleaned them, unless *)
(* another thread appends one afterwards (MessageInv).                     *)
(***************************************************************************)
EXTENDS DjvuHandles, DjvuContext, QueueLemmas, TLAPS

Inside == {"mark", "clean", "forget", "unref", "zero"}

Locked ==
  \A t \in Thread, o \in Obj :
    monitor[o] = t <=> pc[t] \in Inside /\ at[t] = o

Held ==
  \A t \in Thread :
    /\ pc[t] \in Inside => at[t] \in handle
    /\ pc[t] \in {"mark", "clean", "forget", "post"} => at[t] \in Job

Fresh == \A p \in Page \ made : p \notin handle

IInv == TypeOK /\ Locked /\ Held /\ Fresh /\ OwnedByItsWrapper
-----------------------------------------------------------------------------
\* Every step keeps the types; Held tells that only a page or a document is marked.
LEMMA TypeStep ==
  ASSUME TypeOK, Held, [Next]_vars
  PROVE  TypeOK'
<1> USE PageAssumption DEF TypeOK, Held, Obj, Job, Thread, Names, Pump, NoThread, Inside, javaVars,
    nativeVars, serviceVars, Goto, Idle
<1>1. ASSUME NEW t \in Thread, Enter(t)
      PROVE  TypeOK'
  BY <1>1 DEF Enter
<1>2. ASSUME NEW t \in Thread, Mark(t)
      PROVE  TypeOK'
  BY <1>2 DEF Mark
<1>3. ASSUME NEW t \in Thread, Clean(t)
      PROVE  TypeOK'
  BY <1>3 DEF Clean
<1>4. ASSUME NEW t \in Thread, Unref(t)
      PROVE  TypeOK'
  BY <1>4 DEF Unref
<1>5. ASSUME NEW t \in Thread, Zero(t)
      PROVE  TypeOK'
  BY <1>5 DEF Zero
<1>6. ASSUME NEW t \in Thread, ReadDocument(t)
      PROVE  TypeOK'
  BY <1>6 DEF ReadDocument
<1>7. ASSUME NEW t \in Thread, KeepAll(t)
      PROVE  TypeOK'
  BY <1>7 DEF KeepAll
<1>8. ASSUME NEW t \in Thread, NEW p \in Page, CreatePage(t, p)
      PROVE  TypeOK'
  <2> USE <1>8 DEF CreatePage
  <2>1. pc' \in [Thread -> {"idle", "create", "post", "evict", "enter", "mark",
                           "clean", "forget", "unref", "zero"}]
       /\ at' \in [Thread -> Obj]
    OBVIOUS
  <2>2. handle' \subseteq Obj /\ own' \in [Obj -> Int]
    OBVIOUS
  <2>3. made' \subseteq Page /\ pool' \subseteq made'
    OBVIOUS
  <2>4. modified' \in BOOLEAN
    OBVIOUS
  <2> QED
    BY <2>1, <2>2, <2>3, <2>4
<1>9. ASSUME NEW t \in Thread, NEW p \in Page, Evict(t, p)
      PROVE  TypeOK'
  BY <1>9 DEF Evict
<1>10. CASE BeginSweep \/ SweepThrows \/ Drop
  BY <1>10 DEF BeginSweep, SweepThrows, Drop
<1>11. CASE SweepDocument
  BY <1>11 DEF SweepDocument
<1>12. CASE SweepContext
  BY <1>12 DEF SweepContext
<1>13. ASSUME NEW p \in Page, SweepPage(p)
      PROVE  TypeOK'
  BY <1>13 DEF SweepPage
<1>14. ASSUME NEW p \in Page, ClearReference(p)
      PROVE  TypeOK'
  BY <1>14 DEF ClearReference
<1>15. ASSUME NEW o \in Obj, Finalize(o)
      PROVE  TypeOK'
  BY <1>15 DEF Finalize
<1>16. ASSUME NEW t \in Thread, NEW j \in Job, Notify(t, j)
      PROVE  TypeOK'
  BY <1>16 DEF Notify
<1>17. ASSUME NEW t \in Thread, MsgPush(t)
      PROVE  TypeOK'
  BY <1>17 DEF MsgPush
<1>18. ASSUME NEW t \in Thread, CleanPeeked(t)
      PROVE  TypeOK'
  BY <1>18 DEF CleanPeeked
<1>19. ASSUME NEW j \in Job, Peek(j)
      PROVE  TypeOK'
  BY <1>19 DEF Peek
<1>20. CASE Pop
  BY <1>20 DEF Pop
<1>21. CASE UNCHANGED vars
  BY <1>21 DEF vars
<1> QED
  BY <1>1, <1>2, <1>3, <1>4, <1>5, <1>6, <1>7, <1>8, <1>9, <1>10, <1>11, <1>12,
     <1>13, <1>14, <1>15, <1>16, <1>17, <1>18, <1>19, <1>20, <1>21 DEF Next, Service,
     Messages, Recycle, Fill

\* Every step keeps the monitors with the threads that are inside recycle.
LEMMA LockedStep ==
  ASSUME TypeOK, Locked, Held, [Next]_vars
  PROVE  Locked'
<1> USE PageAssumption DEF TypeOK, Held, Locked, Obj, Job, Thread, Pump, NoThread, Inside, javaVars,
    nativeVars, serviceVars, Goto, Idle
<1>1. ASSUME NEW t \in Thread, Enter(t)
      PROVE  Locked'
  BY <1>1 DEF Enter
<1>2. ASSUME NEW t \in Thread, Mark(t)
      PROVE  Locked'
  BY <1>2 DEF Mark
<1>3. ASSUME NEW t \in Thread, Clean(t)
      PROVE  Locked'
  BY <1>3 DEF Clean
<1>4. ASSUME NEW t \in Thread, Unref(t)
      PROVE  Locked'
  BY <1>4 DEF Unref
<1>5. ASSUME NEW t \in Thread, Zero(t)
      PROVE  Locked'
  BY <1>5 DEF Zero
<1>6. ASSUME NEW t \in Thread, ReadDocument(t)
      PROVE  Locked'
  BY <1>6 DEF ReadDocument
<1>7. ASSUME NEW t \in Thread, KeepAll(t)
      PROVE  Locked'
  BY <1>7 DEF KeepAll
<1>8. ASSUME NEW t \in Thread, NEW p \in Page, CreatePage(t, p)
      PROVE  Locked'
  BY <1>8 DEF CreatePage
<1>9. ASSUME NEW t \in Thread, NEW p \in Page, Evict(t, p)
      PROVE  Locked'
  BY <1>9 DEF Evict
<1>10. CASE BeginSweep \/ SweepThrows \/ Drop
  BY <1>10 DEF BeginSweep, SweepThrows, Drop
<1>11. CASE SweepDocument
  BY <1>11 DEF SweepDocument
<1>12. CASE SweepContext
  BY <1>12 DEF SweepContext
<1>13. ASSUME NEW p \in Page, SweepPage(p)
      PROVE  Locked'
  BY <1>13 DEF SweepPage
<1>14. ASSUME NEW p \in Page, ClearReference(p)
      PROVE  Locked'
  BY <1>14 DEF ClearReference
<1>15. ASSUME NEW o \in Obj, Finalize(o)
      PROVE  Locked'
  BY <1>15 DEF Finalize
<1>16. ASSUME NEW t \in Thread, NEW j \in Job, Notify(t, j)
      PROVE  Locked'
  BY <1>16 DEF Notify
<1>17. ASSUME NEW t \in Thread, MsgPush(t)
      PROVE  Locked'
  BY <1>17 DEF MsgPush
<1>18. ASSUME NEW t \in Thread, CleanPeeked(t)
      PROVE  Locked'
  BY <1>18 DEF CleanPeeked
<1>19. ASSUME NEW j \in Job, Peek(j)
      PROVE  Locked'
  BY <1>19 DEF Peek
<1>20. CASE Pop
  BY <1>20 DEF Pop
<1>21. CASE UNCHANGED vars
  BY <1>21 DEF vars
<1> QED
  BY <1>1, <1>2, <1>3, <1>4, <1>5, <1>6, <1>7, <1>8, <1>9, <1>10, <1>11, <1>12,
     <1>13, <1>14, <1>15, <1>16, <1>17, <1>18, <1>19, <1>20, <1>21 DEF Next, Service,
     Messages, Recycle, Fill

\* Whoever is inside recycle has a handle, and has marked the job before letting go.
LEMMA HeldStep ==
  ASSUME TypeOK, Locked, Held, [Next]_vars
  PROVE  Held'
<1> USE PageAssumption DEF TypeOK, Held, Locked, Obj, Job, Thread, Pump, NoThread, Inside, javaVars,
    nativeVars, serviceVars, Goto, Idle
<1>1. ASSUME NEW t \in Thread, Enter(t)
      PROVE  Held'
  BY <1>1 DEF Enter
<1>2. ASSUME NEW t \in Thread, Mark(t)
      PROVE  Held'
  BY <1>2 DEF Mark
<1>3. ASSUME NEW t \in Thread, Clean(t)
      PROVE  Held'
  BY <1>3 DEF Clean
<1>4. ASSUME NEW t \in Thread, Unref(t)
      PROVE  Held'
  BY <1>4 DEF Unref
<1>5. ASSUME NEW t \in Thread, Zero(t)
      PROVE  Held'
  BY <1>5 DEF Zero
<1>6. ASSUME NEW t \in Thread, ReadDocument(t)
      PROVE  Held'
  BY <1>6 DEF ReadDocument
<1>7. ASSUME NEW t \in Thread, KeepAll(t)
      PROVE  Held'
  BY <1>7 DEF KeepAll
<1>8. ASSUME NEW t \in Thread, NEW p \in Page, CreatePage(t, p)
      PROVE  Held'
  BY <1>8 DEF CreatePage
<1>9. ASSUME NEW t \in Thread, NEW p \in Page, Evict(t, p)
      PROVE  Held'
  BY <1>9 DEF Evict
<1>10. CASE BeginSweep \/ SweepThrows \/ Drop
  BY <1>10 DEF BeginSweep, SweepThrows, Drop
<1>11. CASE SweepDocument
  BY <1>11 DEF SweepDocument
<1>12. CASE SweepContext
  BY <1>12 DEF SweepContext
<1>13. ASSUME NEW p \in Page, SweepPage(p)
      PROVE  Held'
  BY <1>13 DEF SweepPage
<1>14. ASSUME NEW p \in Page, ClearReference(p)
      PROVE  Held'
  BY <1>14 DEF ClearReference
<1>15. ASSUME NEW o \in Obj, Finalize(o)
      PROVE  Held'
  BY <1>15 DEF Finalize
<1>16. ASSUME NEW t \in Thread, NEW j \in Job, Notify(t, j)
      PROVE  Held'
  BY <1>16 DEF Notify
<1>17. ASSUME NEW t \in Thread, MsgPush(t)
      PROVE  Held'
  BY <1>17 DEF MsgPush
<1>18. ASSUME NEW t \in Thread, CleanPeeked(t)
      PROVE  Held'
  BY <1>18 DEF CleanPeeked
<1>19. ASSUME NEW j \in Job, Peek(j)
      PROVE  Held'
  BY <1>19 DEF Peek
<1>20. CASE Pop
  BY <1>20 DEF Pop
<1>21. CASE UNCHANGED vars
  BY <1>21 DEF vars
<1> QED
  BY <1>1, <1>2, <1>3, <1>4, <1>5, <1>6, <1>7, <1>8, <1>9, <1>10, <1>11, <1>12,
     <1>13, <1>14, <1>15, <1>16, <1>17, <1>18, <1>19, <1>20, <1>21 DEF Next, Service,
     Messages, Recycle, Fill

\* A page that was not made has no handle.
LEMMA FreshStep ==
  ASSUME TypeOK, Fresh, [Next]_vars
  PROVE  Fresh'
<1> USE PageAssumption DEF TypeOK, Fresh, Obj, Job, Thread, javaVars, nativeVars, serviceVars, Goto, Idle
<1>1. ASSUME NEW t \in Thread, Enter(t)
      PROVE  Fresh'
  BY <1>1 DEF Enter
<1>2. ASSUME NEW t \in Thread, Mark(t)
      PROVE  Fresh'
  BY <1>2 DEF Mark
<1>3. ASSUME NEW t \in Thread, Clean(t)
      PROVE  Fresh'
  BY <1>3 DEF Clean
<1>4. ASSUME NEW t \in Thread, Unref(t)
      PROVE  Fresh'
  BY <1>4 DEF Unref
<1>5. ASSUME NEW t \in Thread, Zero(t)
      PROVE  Fresh'
  BY <1>5 DEF Zero
<1>6. ASSUME NEW t \in Thread, ReadDocument(t)
      PROVE  Fresh'
  BY <1>6 DEF ReadDocument
<1>7. ASSUME NEW t \in Thread, KeepAll(t)
      PROVE  Fresh'
  BY <1>7 DEF KeepAll
<1>8. ASSUME NEW t \in Thread, NEW p \in Page, CreatePage(t, p)
      PROVE  Fresh'
  BY <1>8 DEF CreatePage
<1>9. ASSUME NEW t \in Thread, NEW p \in Page, Evict(t, p)
      PROVE  Fresh'
  BY <1>9 DEF Evict
<1>10. CASE BeginSweep \/ SweepThrows \/ Drop
  BY <1>10 DEF BeginSweep, SweepThrows, Drop
<1>11. CASE SweepDocument
  BY <1>11 DEF SweepDocument
<1>12. CASE SweepContext
  BY <1>12 DEF SweepContext
<1>13. ASSUME NEW p \in Page, SweepPage(p)
      PROVE  Fresh'
  BY <1>13 DEF SweepPage
<1>14. ASSUME NEW p \in Page, ClearReference(p)
      PROVE  Fresh'
  BY <1>14 DEF ClearReference
<1>15. ASSUME NEW o \in Obj, Finalize(o)
      PROVE  Fresh'
  BY <1>15 DEF Finalize
<1>16. ASSUME NEW t \in Thread, NEW j \in Job, Notify(t, j)
      PROVE  Fresh'
  BY <1>16 DEF Notify
<1>17. ASSUME NEW t \in Thread, MsgPush(t)
      PROVE  Fresh'
  BY <1>17 DEF MsgPush
<1>18. ASSUME NEW t \in Thread, CleanPeeked(t)
      PROVE  Fresh'
  BY <1>18 DEF CleanPeeked
<1>19. ASSUME NEW j \in Job, Peek(j)
      PROVE  Fresh'
  BY <1>19 DEF Peek
<1>20. CASE Pop
  BY <1>20 DEF Pop
<1>21. CASE UNCHANGED vars
  BY <1>21 DEF vars
<1> QED
  BY <1>1, <1>2, <1>3, <1>4, <1>5, <1>6, <1>7, <1>8, <1>9, <1>10, <1>11, <1>12,
     <1>13, <1>14, <1>15, <1>16, <1>17, <1>18, <1>19, <1>20, <1>21 DEF Next, Service,
     Messages, Recycle, Fill

\* Every step keeps one count for each handle that is not about to be zeroed.
LEMMA OwnedStep ==
  ASSUME TypeOK, Locked, Held, Fresh, OwnedByItsWrapper, [Next]_vars
  PROVE  OwnedByItsWrapper'
<1> USE PageAssumption DEF TypeOK, Held, Locked, Fresh, OwnedByItsWrapper, Obj, Job, Thread, Pump,
    NoThread, Inside, javaVars, nativeVars, serviceVars, Goto, Idle
<1>1. ASSUME NEW t \in Thread, Enter(t)
      PROVE  OwnedByItsWrapper'
  BY <1>1 DEF Enter
<1>2. ASSUME NEW t \in Thread, Mark(t)
      PROVE  OwnedByItsWrapper'
  BY <1>2 DEF Mark
<1>3. ASSUME NEW t \in Thread, Clean(t)
      PROVE  OwnedByItsWrapper'
  BY <1>3 DEF Clean
<1>4. ASSUME NEW t \in Thread, Unref(t)
      PROVE  OwnedByItsWrapper'
  BY <1>4 DEF Unref
<1>5. ASSUME NEW t \in Thread, Zero(t)
      PROVE  OwnedByItsWrapper'
  BY <1>5 DEF Zero
<1>6. ASSUME NEW t \in Thread, ReadDocument(t)
      PROVE  OwnedByItsWrapper'
  BY <1>6 DEF ReadDocument
<1>7. ASSUME NEW t \in Thread, KeepAll(t)
      PROVE  OwnedByItsWrapper'
  BY <1>7 DEF KeepAll
<1>8. ASSUME NEW t \in Thread, NEW p \in Page, CreatePage(t, p)
      PROVE  OwnedByItsWrapper'
  BY <1>8 DEF CreatePage
<1>9. ASSUME NEW t \in Thread, NEW p \in Page, Evict(t, p)
      PROVE  OwnedByItsWrapper'
  BY <1>9 DEF Evict
<1>10. CASE BeginSweep \/ SweepThrows \/ Drop
  BY <1>10 DEF BeginSweep, SweepThrows, Drop
<1>11. CASE SweepDocument
  BY <1>11 DEF SweepDocument
<1>12. CASE SweepContext
  BY <1>12 DEF SweepContext
<1>13. ASSUME NEW p \in Page, SweepPage(p)
      PROVE  OwnedByItsWrapper'
  BY <1>13 DEF SweepPage
<1>14. ASSUME NEW p \in Page, ClearReference(p)
      PROVE  OwnedByItsWrapper'
  BY <1>14 DEF ClearReference
<1>15. ASSUME NEW o \in Obj, Finalize(o)
      PROVE  OwnedByItsWrapper'
  BY <1>15 DEF Finalize
<1>16. ASSUME NEW t \in Thread, NEW j \in Job, Notify(t, j)
      PROVE  OwnedByItsWrapper'
  BY <1>16 DEF Notify
<1>17. ASSUME NEW t \in Thread, MsgPush(t)
      PROVE  OwnedByItsWrapper'
  BY <1>17 DEF MsgPush
<1>18. ASSUME NEW t \in Thread, CleanPeeked(t)
      PROVE  OwnedByItsWrapper'
  BY <1>18 DEF CleanPeeked
<1>19. ASSUME NEW j \in Job, Peek(j)
      PROVE  OwnedByItsWrapper'
  BY <1>19 DEF Peek
<1>20. CASE Pop
  BY <1>20 DEF Pop
<1>21. CASE UNCHANGED vars
  BY <1>21 DEF vars
<1> QED
  BY <1>1, <1>2, <1>3, <1>4, <1>5, <1>6, <1>7, <1>8, <1>9, <1>10, <1>11, <1>12,
     <1>13, <1>14, <1>15, <1>16, <1>17, <1>18, <1>19, <1>20, <1>21 DEF Next, Service,
     Messages, Recycle, Fill
-----------------------------------------------------------------------------
\* The inductive invariant holds in every state of a document's handles.
THEOREM InvariantHolds == Spec => []IInv
<1>1. ASSUME Init PROVE IInv
  <2> USE PageAssumption, <1>1 DEF Init, Obj, Job, Thread, Pump, NoThread
  <2>1. TypeOK
    <3>1. monitor \in [Obj -> Thread \cup {Pump, NoThread}] /\ own \in [Obj -> Int]
      OBVIOUS
    <3>2. at \in [Thread -> Obj]
      OBVIOUS
    <3>3. pc \in [Thread -> {"idle", "create", "post", "evict",
                            "enter", "mark", "clean", "forget", "unref", "zero"}]
      OBVIOUS
    <3> QED
      BY <3>1, <3>2, <3>3 DEF TypeOK
  <2>2. Locked /\ Held
    BY DEF Locked, Held, Inside
  <2>3. Fresh
    BY DEF Fresh
  <2>4. OwnedByItsWrapper
    BY DEF OwnedByItsWrapper
  <2> QED
    BY <2>1, <2>2, <2>3, <2>4 DEF IInv
<1>2. IInv /\ [Next]_vars => IInv'
  BY TypeStep, LockedStep, HeldStep, FreshStep, OwnedStep DEF IInv
<1> QED
  BY <1>1, <1>2, PTL DEF Spec

\* The handles, counts and messages keep their types, for any pages.
THEOREM TypeCorrect == Spec => []TypeOK
<1>1. IInv => TypeOK
  BY DEF IInv
<1> QED
  BY <1>1, InvariantHolds, PTL

\* No order of evictions, the freeing runnable and finalizers gives up a count twice
\* or forgets a handle whose object is still counted (DjvuPage.recycle).
THEOREM OwnedOnce == Spec => []OwnedByItsWrapper
<1>1. IInv => OwnedByItsWrapper
  BY DEF IInv
<1> QED
  BY <1>1, InvariantHolds, PTL
-----------------------------------------------------------------------------
(* The messages: a job that is released is named only until its messages are cleaned. *)

\* What is past the mark is marked as released.
Gone ==
  \A t \in Thread :
    pc[t] \in {"clean", "forget", "unref", "zero"} /\ at[t] \in Job => at[t] \in released

InQueue(n) == \E j \in queue : n \in Names(j)

\* What a message names, or one that is about to be appended, and the document.
Told(n) ==
  \/ n = "doc" \/ n \in peeked \/ InQueue(n)
  \/ \E t \in Thread : pc[t] = "post" /\ n \in Names(at[t])

StillOwned == \A n \in Job \ released : Told(n) => own[n] = 1

\* Until a message comes late, what was released is named only while the thread that
\* released it has still to clean.
BeingCleaned ==
  ~ late =>
    \A n \in released :
      /\ InQueue(n) => \E t \in Thread : pc[t] = "clean" /\ at[t] = n
      /\ n \in peeked => \E t \in Thread : pc[t] \in {"clean", "forget"} /\ at[t] = n

MessageInv == Gone /\ StillOwned /\ BeingCleaned

\* Every step but the mark leaves the marks alone.
LEMMA GoneStep ==
  ASSUME TypeOK, Held, Gone, [Next]_vars
  PROVE  Gone'
<1> USE PageAssumption DEF Gone, TypeOK, Held, Locked, Obj, Job, Thread, Pump,
    NoThread, Inside, javaVars, nativeVars, serviceVars, Goto, Idle
<1>1. ASSUME NEW t \in Thread, Enter(t)
      PROVE  Gone'
  BY <1>1 DEF Enter
<1>2. ASSUME NEW t \in Thread, Mark(t)
      PROVE  Gone'
  BY <1>2 DEF Mark
<1>3. ASSUME NEW t \in Thread, Clean(t)
      PROVE  Gone'
  BY <1>3 DEF Clean
<1>4. ASSUME NEW t \in Thread, Unref(t)
      PROVE  Gone'
  BY <1>4 DEF Unref
<1>5. ASSUME NEW t \in Thread, Zero(t)
      PROVE  Gone'
  BY <1>5 DEF Zero
<1>6. ASSUME NEW t \in Thread, ReadDocument(t)
      PROVE  Gone'
  BY <1>6 DEF ReadDocument
<1>7. ASSUME NEW t \in Thread, KeepAll(t)
      PROVE  Gone'
  BY <1>7 DEF KeepAll
<1>8. ASSUME NEW t \in Thread, NEW p \in Page, CreatePage(t, p)
      PROVE  Gone'
  BY <1>8 DEF CreatePage
<1>9. ASSUME NEW t \in Thread, NEW p \in Page, Evict(t, p)
      PROVE  Gone'
  BY <1>9 DEF Evict
<1>10. CASE BeginSweep \/ SweepThrows \/ Drop
  BY <1>10 DEF BeginSweep, SweepThrows, Drop
<1>11. CASE SweepDocument
  BY <1>11 DEF SweepDocument
<1>12. CASE SweepContext
  BY <1>12 DEF SweepContext
<1>13. ASSUME NEW p \in Page, SweepPage(p)
      PROVE  Gone'
  BY <1>13 DEF SweepPage
<1>14. ASSUME NEW p \in Page, ClearReference(p)
      PROVE  Gone'
  BY <1>14 DEF ClearReference
<1>15. ASSUME NEW o \in Obj, Finalize(o)
      PROVE  Gone'
  BY <1>15 DEF Finalize
<1>16. ASSUME NEW t \in Thread, NEW j \in Job, Notify(t, j)
      PROVE  Gone'
  BY <1>16 DEF Notify
<1>17. ASSUME NEW t \in Thread, MsgPush(t)
      PROVE  Gone'
  BY <1>17 DEF MsgPush
<1>18. ASSUME NEW t \in Thread, CleanPeeked(t)
      PROVE  Gone'
  BY <1>18 DEF CleanPeeked
<1>19. ASSUME NEW j \in Job, Peek(j)
      PROVE  Gone'
  BY <1>19 DEF Peek
<1>20. CASE Pop
  BY <1>20 DEF Pop
<1>21. CASE UNCHANGED vars
  BY <1>21 DEF vars
<1> QED
  BY <1>1, <1>2, <1>3, <1>4, <1>5, <1>6, <1>7, <1>8, <1>9, <1>10, <1>11, <1>12,
     <1>13, <1>14, <1>15, <1>16, <1>17, <1>18, <1>19, <1>20, <1>21 DEF Next, Service,
     Messages, Recycle, Fill

\* What is told of is owned until it is marked: nothing else gives it up.
LEMMA OwnedStillStep ==
  ASSUME TypeOK, Held, Fresh, OwnedByItsWrapper, Gone, StillOwned, [Next]_vars
  PROVE  StillOwned'
<1> USE PageAssumption DEF Gone, Fresh, OwnedByItsWrapper, StillOwned, Told, InQueue, Names, TypeOK, Held, Locked, Obj, Job, Thread, Pump,
    NoThread, Inside, javaVars, nativeVars, serviceVars, Goto, Idle
<1>1. ASSUME NEW t \in Thread, Enter(t)
      PROVE  StillOwned'
  BY <1>1 DEF Enter
<1>2. ASSUME NEW t \in Thread, Mark(t)
      PROVE  StillOwned'
  BY <1>2 DEF Mark
<1>3. ASSUME NEW t \in Thread, Clean(t)
      PROVE  StillOwned'
  BY <1>3 DEF Clean
<1>4. ASSUME NEW t \in Thread, Unref(t)
      PROVE  StillOwned'
  BY <1>4 DEF Unref
<1>5. ASSUME NEW t \in Thread, Zero(t)
      PROVE  StillOwned'
  BY <1>5 DEF Zero
<1>6. ASSUME NEW t \in Thread, ReadDocument(t)
      PROVE  StillOwned'
  BY <1>6 DEF ReadDocument
<1>7. ASSUME NEW t \in Thread, KeepAll(t)
      PROVE  StillOwned'
  BY <1>7 DEF KeepAll
<1>8. ASSUME NEW t \in Thread, NEW p \in Page, CreatePage(t, p)
      PROVE  StillOwned'
  BY <1>8 DEF CreatePage
<1>9. ASSUME NEW t \in Thread, NEW p \in Page, Evict(t, p)
      PROVE  StillOwned'
  BY <1>9 DEF Evict
<1>10. CASE BeginSweep \/ SweepThrows \/ Drop
  BY <1>10 DEF BeginSweep, SweepThrows, Drop
<1>11. CASE SweepDocument
  BY <1>11 DEF SweepDocument
<1>12. CASE SweepContext
  BY <1>12 DEF SweepContext
<1>13. ASSUME NEW p \in Page, SweepPage(p)
      PROVE  StillOwned'
  BY <1>13 DEF SweepPage
<1>14. ASSUME NEW p \in Page, ClearReference(p)
      PROVE  StillOwned'
  BY <1>14 DEF ClearReference
<1>15. ASSUME NEW o \in Obj, Finalize(o)
      PROVE  StillOwned'
  BY <1>15 DEF Finalize
<1>16. ASSUME NEW t \in Thread, NEW j \in Job, Notify(t, j)
      PROVE  StillOwned'
  BY <1>16 DEF Notify
<1>17. ASSUME NEW t \in Thread, MsgPush(t)
      PROVE  StillOwned'
  BY <1>17 DEF MsgPush
<1>18. ASSUME NEW t \in Thread, CleanPeeked(t)
      PROVE  StillOwned'
  BY <1>18 DEF CleanPeeked
<1>19. ASSUME NEW j \in Job, Peek(j)
      PROVE  StillOwned'
  BY <1>19 DEF Peek
<1>20. CASE Pop
  BY <1>20 DEF Pop
<1>21. CASE UNCHANGED vars
  BY <1>21 DEF vars
<1> QED
  BY <1>1, <1>2, <1>3, <1>4, <1>5, <1>6, <1>7, <1>8, <1>9, <1>10, <1>11, <1>12,
     <1>13, <1>14, <1>15, <1>16, <1>17, <1>18, <1>19, <1>20, <1>21 DEF Next, Service,
     Messages, Recycle, Fill

\* A release cleans what names it before it goes on, and one thread releases at a time.
LEMMA CleanedStep ==
  ASSUME TypeOK, Held, Locked, BeingCleaned, [Next]_vars
  PROVE  BeingCleaned'
<1> USE PageAssumption DEF BeingCleaned, InQueue, Names, TypeOK, Held, Locked, Obj, Job, Thread, Pump,
    NoThread, Inside, javaVars, nativeVars, serviceVars, Goto, Idle
<1>1. ASSUME NEW t \in Thread, Enter(t)
      PROVE  BeingCleaned'
  BY <1>1 DEF Enter
<1>2. ASSUME NEW t \in Thread, Mark(t)
      PROVE  BeingCleaned'
  BY <1>2 DEF Mark
<1>3. ASSUME NEW t \in Thread, Clean(t)
      PROVE  BeingCleaned'
  BY <1>3 DEF Clean
<1>4. ASSUME NEW t \in Thread, Unref(t)
      PROVE  BeingCleaned'
  BY <1>4 DEF Unref
<1>5. ASSUME NEW t \in Thread, Zero(t)
      PROVE  BeingCleaned'
  BY <1>5 DEF Zero
<1>6. ASSUME NEW t \in Thread, ReadDocument(t)
      PROVE  BeingCleaned'
  BY <1>6 DEF ReadDocument
<1>7. ASSUME NEW t \in Thread, KeepAll(t)
      PROVE  BeingCleaned'
  BY <1>7 DEF KeepAll
<1>8. ASSUME NEW t \in Thread, NEW p \in Page, CreatePage(t, p)
      PROVE  BeingCleaned'
  BY <1>8 DEF CreatePage
<1>9. ASSUME NEW t \in Thread, NEW p \in Page, Evict(t, p)
      PROVE  BeingCleaned'
  BY <1>9 DEF Evict
<1>10. CASE BeginSweep \/ SweepThrows \/ Drop
  BY <1>10 DEF BeginSweep, SweepThrows, Drop
<1>11. CASE SweepDocument
  BY <1>11 DEF SweepDocument
<1>12. CASE SweepContext
  BY <1>12 DEF SweepContext
<1>13. ASSUME NEW p \in Page, SweepPage(p)
      PROVE  BeingCleaned'
  BY <1>13 DEF SweepPage
<1>14. ASSUME NEW p \in Page, ClearReference(p)
      PROVE  BeingCleaned'
  BY <1>14 DEF ClearReference
<1>15. ASSUME NEW o \in Obj, Finalize(o)
      PROVE  BeingCleaned'
  BY <1>15 DEF Finalize
<1>16. ASSUME NEW t \in Thread, NEW j \in Job, Notify(t, j)
      PROVE  BeingCleaned'
  BY <1>16 DEF Notify
<1>17. ASSUME NEW t \in Thread, MsgPush(t)
      PROVE  BeingCleaned'
  <2> SUFFICES ASSUME ~ late', NEW n \in released
               PROVE  /\ InQueue(n)' => \E u \in Thread : pc'[u] = "clean" /\ at'[u] = n
                      /\ n \in peeked => \E u \in Thread : pc'[u] \in {"clean", "forget"} /\ at'[u] = n
    BY <1>17 DEF MsgPush
  <2>1. ~ late /\ n \notin Names(at[t])
    BY <1>17 DEF MsgPush
  <2>2. InQueue(n)' => InQueue(n)
    BY <1>17, <2>1 DEF MsgPush
  <2>3. \A u \in Thread : pc[u] \in {"clean", "forget"} => pc'[u] = pc[u] /\ at'[u] = at[u]
    BY <1>17 DEF MsgPush
  <2> QED BY <2>1, <2>2, <2>3
<1>18. ASSUME NEW t \in Thread, CleanPeeked(t)
      PROVE  BeingCleaned'
  BY <1>18 DEF CleanPeeked
<1>19. ASSUME NEW j \in Job, Peek(j)
      PROVE  BeingCleaned'
  BY <1>19 DEF Peek
<1>20. CASE Pop
  BY <1>20 DEF Pop
<1>21. CASE UNCHANGED vars
  BY <1>21 DEF vars
<1> QED
  BY <1>1, <1>2, <1>3, <1>4, <1>5, <1>6, <1>7, <1>8, <1>9, <1>10, <1>11, <1>12,
     <1>13, <1>14, <1>15, <1>16, <1>17, <1>18, <1>19, <1>20, <1>21 DEF Next, Service,
     Messages, Recycle, Fill

LEMMA MessagesHold == Spec => [](IInv /\ MessageInv)
<1>1. ASSUME Init PROVE MessageInv
  BY <1>1, PageAssumption DEF Init, MessageInv, Gone, StillOwned, BeingCleaned, Told, InQueue,
     Obj, Job, Thread
<1>2. IInv /\ MessageInv /\ [Next]_vars => MessageInv'
  BY GoneStep, OwnedStillStep, CleanedStep DEF IInv, MessageInv
<1> QED
  BY <1>1, <1>2, InvariantHolds, PTL DEF Spec

\* No message names a page or document that was let go, until one is appended after
\* another thread has released what it names (ddjvu_job_release, msg_push).
THEOREM MessagesNameOwned == Spec => []MessagesNameOwnedJobs
<1>1. IInv /\ MessageInv => MessagesNameOwnedJobs
  <2> SUFFICES ASSUME IInv, MessageInv, ~ late, NEW n \in Job, n \in peeked \/ InQueue(n)
               PROVE  own[n] = 1
    BY DEF MessagesNameOwnedJobs, InQueue
  <2>1. CASE n \notin released
    BY <2>1 DEF MessageInv, StillOwned, Told
  <2>2. CASE n \in released
    <3>1. PICK t \in Thread : pc[t] \in {"clean", "forget"} /\ at[t] = n
      BY <2>2 DEF MessageInv, BeingCleaned
    <3>2. n \in Obj /\ n \in handle /\ monitor[n] = t
      BY <3>1 DEF IInv, Held, Locked, Inside, Obj
    <3>3. ~ \E u \in Thread : pc[u] = "zero" /\ at[u] = n
      BY <3>1, <3>2 DEF IInv, Locked, Inside
    <3> QED BY <3>2, <3>3 DEF IInv, OwnedByItsWrapper
  <2> QED BY <2>1, <2>2
<1> QED BY <1>1, MessagesHold, PTL
-----------------------------------------------------------------------------
(***************************************************************************)
(* The context, which has a state of its own.  The handle is checked under *)
(* the monitor of the DjvuContext, and the monitor is what recycle()       *)
(* needs: ContextLives says who has it where.                              *)
(***************************************************************************)

\* Inside the synchronized block of run(), up to the wait.
InBlock == {"handle", "wait"}

\* The pump owns the monitor exactly inside the block, where the context lives.
ContextLives ==
  /\ contextMonitor = "pump" <=> pumpPc \in InBlock
  /\ pumpPc \in InBlock => contextHandle

ContextInv == ContextTypeOK /\ ContextLives

LEMMA ContextInvInit == ContextInit => ContextInv
<1> SUFFICES ASSUME ContextInit PROVE ContextInv
  OBVIOUS
<1>1. <<>> \in Seq(Message)
  OBVIOUS
<1> QED
  BY <1>1 DEF ContextInit, ContextInv, ContextTypeOK, ContextLives, InBlock

\* There is one step per action of the three threads.
LEMMA ContextStep == ContextInv /\ [ContextNext]_contextVars => ContextInv'
<1> SUFFICES ASSUME ContextInv, [ContextNext]_contextVars PROVE ContextInv'
  OBVIOUS
<1> USE DEF ContextInv, ContextLives, InBlock
<1>1. ASSUME OpenDocument \/ OpenFails \/ FileFails \/ Initialised \/ NotifyError
      PROVE  ContextInv'
  <2>1. messages' \in Seq(Message)
    BY <1>1, PutLast
    DEF OpenDocument, OpenFails, FileFails, Initialised, NotifyError, Post, ContextTypeOK, Message
  <2> QED
    BY <1>1, <2>1
    DEF OpenDocument, OpenFails, FileFails, Initialised, NotifyError, ContextTypeOK
<1>2. ASSUME Acquire PROVE ContextInv'
  BY <1>2 DEF Acquire, ContextTypeOK
<1>3. ASSUME EnterMonitor PROVE ContextInv'
  BY <1>3 DEF EnterMonitor, ContextTypeOK
<1>4. ASSUME HandleOther \/ HandleDocInfo \/ HandleError PROVE ContextInv'
  <2>1. messages' \in Seq(Message)
    BY <1>4, TakeFirst
    DEF HandleOther, HandleDocInfo, HandleError, ContextTypeOK
  <2> QED
    BY <1>4, <2>1
    DEF HandleOther, HandleDocInfo, HandleError, ContextTypeOK
<1>5. ASSUME Wait \/ WakeUp PROVE ContextInv'
  BY <1>5 DEF Wait, WakeUp, ContextTypeOK
<1>6. ASSUME NEW m \in {"DDJVU_ERROR", "other"}, Produce(m) PROVE ContextInv'
  <2>1. messages' \in Seq(Message)
    BY <1>6, PutLast DEF Produce, Post, ContextTypeOK, Message
  <2> QED
    BY <1>6, <2>1 DEF Produce, ContextTypeOK
<1>7. ASSUME RecycleContext PROVE ContextInv'
  <2>1. <<>> \in Seq(Message)
    OBVIOUS
  <2> QED
    BY <1>7, <2>1 DEF RecycleContext, ContextTypeOK
<1>8. CASE UNCHANGED contextVars
  BY <1>8 DEF contextVars, ContextTypeOK
<1> QED
  BY <1>1, <1>2, <1>3, <1>4, <1>5, <1>6, <1>7, <1>8 DEF ContextNext, Open, RunPump

LEMMA ContextHolds == ContextSpec => []ContextInv
BY ContextInvInit, ContextStep, PTL DEF ContextSpec

\* The context, the semaphore and the two loops keep their types.
THEOREM ContextTypeCorrect == ContextSpec => []ContextTypeOK
<1>1. ContextInv => ContextTypeOK
  BY DEF ContextInv
<1> QED BY <1>1, ContextHolds, PTL

\* recycle() never comes between the pump's check of the handle and its use.
THEOREM PumpIsSafe == ContextSpec => []PumpUsesLiveContext
<1>1. ContextInv => PumpUsesLiveContext
  BY DEF ContextInv, ContextLives, InBlock, PumpUsesLiveContext
<1> QED BY <1>1, ContextHolds, PTL
=============================================================================
