-------------------------- MODULE PdfBridgeProofs --------------------------
(***************************************************************************)
(* Proofs about PdfBridge, for any document, any number of pages and of    *)
(* threads that open them.                                                 *)
(*                                                                         *)
(* An object is counted once for each resolved reference that leads to it, *)
(* once for the table, and once for each root (Counts); every step of      *)
(* every thread keeps these books, and so nothing dangles.  That nothing   *)
(* is left needs more: a resolved reference belongs to a container that is *)
(* alive or is kept by others (Alive), and others are the open pages, the  *)
(* pages being opened, the store, and the links that failed loads have     *)
(* lost (KeepersInv).  Alive holds as long as no page was opened while     *)
(* another thread was opening one: otherwise the table may be flushed      *)
(* between two calls of mupdf, and a reference be resolved in a dictionary *)
(* that has been freed.                                                    *)
(***************************************************************************)
EXTENDS PdfBridge, FiniteSetTheorems, FunctionTheorems, QueueLemmas, TLAPS

Record ==
  [cached : SUBSET InFile, refs : [Obj -> Int], resolved : SUBSET Ref,
   keepers : [Ref -> Int], corrected : SUBSET Obj, store : SUBSET Ref, pos : Obj \cup {NoObj}]

\* The resolved references that lead to o.
Into(x, o) == {r \in x.resolved : r[2] = o}

\* The books of x, where e says how often each object is counted from outside.
Counts(x, e) ==
  \A o \in Obj :
    x.refs[o] = Cardinality(Into(x, o)) + (IF o \in x.cached THEN 1 ELSE 0) + e[o]

Alive(x) == \A r \in x.resolved : x.refs[r[1]] > 0 \/ x.keepers[r] # 0

Outside == [Obj -> Nat]
-----------------------------------------------------------------------------
(* Finite sets of references *)

LEMMA RefFinite == IsFiniteSet(Obj) /\ IsFiniteSet(Ref)
<1> DEFINE n == Len(Descending)
<1>1. /\ DOMAIN Descending = 1 .. n /\ n \in Nat
      /\ Descending \in [1 .. n -> Obj]
      /\ {Descending[i] : i \in DOMAIN Descending} = Obj
      /\ Ref \subseteq Obj \X InFile /\ InFile \subseteq Obj
  <2>1. Descending \in Seq(Obj) /\ Ref \subseteq Obj \X InFile
        /\ {Descending[i] : i \in DOMAIN Descending} = Obj
    BY PdfAssumption
  <2>2. InFile \subseteq Obj
    BY DEF Obj
  <2> QED BY <2>1, <2>2
<1> HIDE DEF n
<1>2. \A o \in Obj : \E i \in 1 .. n : Descending[i] = o
  BY <1>1
<1>3. Descending \in Surjection(1 .. n, Obj)
  BY <1>1, <1>2 DEF Surjection
<1>4. IsFiniteSet(Obj)
  BY <1>1, <1>3, FS_NatSurjection DEF ExistsSurjection
<1>5. IsFiniteSet(Obj \X Obj)
  BY <1>4, FS_Product
<1>6. Ref \in SUBSET (Obj \X Obj)
  BY <1>1
<1> QED BY <1>4, <1>5, <1>6, FS_Subset

\* How many references there are in a set of some.
LEMMA RefsAreCounted ==
  ASSUME NEW R \in SUBSET Ref
  PROVE  /\ IsFiniteSet(R) /\ Cardinality(R) \in Nat
         /\ Cardinality(R) = 0 <=> R = {}
<1>1. IsFiniteSet(R)
  BY RefFinite, FS_Subset
<1> QED BY <1>1, FS_CardinalityType, FS_EmptySet

\* A reference leads from an object to another one.
LEMMA RefTypes ==
  ASSUME NEW r \in Ref
  PROVE  r[1] \in Obj /\ r[2] \in Obj /\ r[2] \in InFile /\ r = <<r[1], r[2]>>
BY PdfAssumption DEF Obj
-----------------------------------------------------------------------------
(* Dropping *)

LEMMA LeftType ==
  ASSUME NEW x \in Record, NEW drops \in Outside, NEW freed, NEW o \in Obj
  PROVE  /\ Left(x, drops, freed, o) \in Int
         /\ {r \in Loose(x, freed) : r[2] = o} \in SUBSET Ref
<1>1. {r \in Loose(x, freed) : r[2] = o} \in SUBSET Ref
  BY DEF Loose, Record
<1>2. Cardinality({r \in Loose(x, freed) : r[2] = o}) \in Nat
  BY <1>1, RefsAreCounted
<1>3. x.refs[o] \in Int /\ drops[o] \in Nat
  BY DEF Record, Outside
<1> QED BY <1>1, <1>2, <1>3 DEF Left

\* The more is freed, the less is left.
LEMMA LeftShrinks ==
  ASSUME NEW x \in Record, NEW drops \in Outside, NEW f, NEW g, NEW o \in Obj, f \subseteq g
  PROVE  Left(x, drops, g, o) <= Left(x, drops, f, o)
<1> DEFINE A == {r \in Loose(x, f) : r[2] = o}
           B == {r \in Loose(x, g) : r[2] = o}
<1>1. A \in SUBSET B
  BY DEF Loose
<1>2. A \in SUBSET Ref /\ B \in SUBSET Ref
  BY LeftType
<1>3. Left(x, drops, f, o) = x.refs[o] - (drops[o] + Cardinality(A))
  BY DEF Left
<1>4. Left(x, drops, g, o) = x.refs[o] - (drops[o] + Cardinality(B))
  BY DEF Left
<1>5. x.refs[o] \in Int /\ drops[o] \in Nat
  BY DEF Record, Outside
<1> HIDE DEF A, B
<1>6. Cardinality(A) <= Cardinality(B) /\ Cardinality(A) \in Nat /\ Cardinality(B) \in Nat
  BY <1>1, <1>2, RefsAreCounted, FS_Subset
<1> QED BY <1>3, <1>4, <1>5, <1>6

\* The recursion of Freed.
FreedUpTo(f, x, drops) ==
  f = [i \in 0 .. Len(Descending) |->
         IF i = 0 THEN {}
         ELSE f[i - 1] \cup {o \in {Descending[i]} :
                               x.refs[o] > 0 /\ Left(x, drops, f[i - 1], o) <= 0}]

LEMMA FreedRecursion ==
  ASSUME NEW x, NEW drops
  PROVE  \E f : FreedUpTo(f, x, drops) /\ Freed(x, drops) = f[Len(Descending)]
<1> DEFINE n == Len(Descending)
           step == [v \in (SUBSET Obj) \X (1 .. n) |->
                      v[1] \cup {o \in {Descending[v[2]]} :
                                   x.refs[o] > 0 /\ Left(x, drops, v[1], o) <= 0}]
<1>0. n \in Nat /\ {} \in SUBSET Obj /\ \A i \in 1 .. n : Descending[i] \in Obj
  BY PdfAssumption
<1>1. ASSUME NEW v \in SUBSET Obj, NEW i \in 1 .. n
      PROVE  /\ step[<<v, i>>] = v \cup {o \in {Descending[i]} :
                                           x.refs[o] > 0 /\ Left(x, drops, v, o) <= 0}
             /\ step[<<v, i>>] \in SUBSET Obj
  <2>1. <<v, i>> \in (SUBSET Obj) \X (1 .. n)
    OBVIOUS
  <2>2. step[<<v, i>>] = v \cup {o \in {Descending[i]} :
                                   x.refs[o] > 0 /\ Left(x, drops, v, o) <= 0}
    BY <2>1
  <2> HIDE DEF step
  <2> QED BY <1>0, <2>2
<1>2. PICK g : Iterates(g, SUBSET Obj, {}, n, step)
  <2> HIDE DEF step, n
  <2> QED BY <1>0, <1>1, Recursion, Zenon
<1>3. /\ g \in [0 .. n -> SUBSET Obj] /\ g[0] = {}
      /\ \A i \in 1 .. n : g[i] = step[<<g[i - 1], i>>]
  BY <1>2 DEF Iterates
<1> HIDE DEF step
<1>4. ASSUME NEW i \in 0 .. n, i # 0
      PROVE  g[i] = g[i - 1] \cup {o \in {Descending[i]} :
                                     x.refs[o] > 0 /\ Left(x, drops, g[i - 1], o) <= 0}
  <2>1. i \in 1 .. n /\ i - 1 \in 0 .. n
    BY <1>0, <1>4
  <2>2. g[i - 1] \in SUBSET Obj
    BY <1>3, <2>1
  <2> QED BY <1>1, <1>3, <2>1, <2>2
<1>5. FreedUpTo(g, x, drops)
  BY <1>3, <1>4 DEF FreedUpTo
<1>6. Freed(x, drops) = (CHOOSE f : FreedUpTo(f, x, drops))[n]
  BY DEF Freed, FreedUpTo
<1>7. FreedUpTo(CHOOSE f : FreedUpTo(f, x, drops), x, drops)
  BY <1>5, Zenon
<1> QED BY <1>6, <1>7

\* What is freed is exactly what nobody counts when it has been freed.
LEMMA FreedIsUncounted ==
  ASSUME NEW x \in Record, NEW drops \in Outside
  PROVE  /\ Freed(x, drops) \in SUBSET Obj
         /\ \A o \in Obj : o \in Freed(x, drops) <=>
              x.refs[o] > 0 /\ Left(x, drops, Freed(x, drops), o) <= 0
<1> DEFINE n == Len(Descending)
           D == Descending
<1>1. PICK f : FreedUpTo(f, x, drops) /\ Freed(x, drops) = f[n]
  BY FreedRecursion
<1>2. n \in Nat /\ DOMAIN D = 1 .. n /\ (\A i \in 1 .. n : D[i] \in Obj)
      /\ (\A o \in Obj : \E i \in 1 .. n : D[i] = o)
  BY PdfAssumption
<1> DEFINE New(i) == {o \in {D[i]} : x.refs[o] > 0 /\ Left(x, drops, f[i - 1], o) <= 0}
<1>3. f[0] = {} /\ \A i \in 1 .. n : f[i] = f[i - 1] \cup New(i)
  <2>1. \A i \in 0 .. n : f[i] = IF i = 0 THEN {} ELSE f[i - 1] \cup New(i)
    BY <1>1 DEF FreedUpTo
  <2>2. 0 \in 0 .. n /\ \A i \in 1 .. n : i \in 0 .. n /\ i # 0
    BY <1>2
  <2> QED BY <2>1, <2>2
<1>4. \A i \in 1 .. n : New(i) \subseteq {D[i]} /\ New(i) \subseteq Obj
  BY <1>2
<1>5. \A i \in 1 .. n : D[i] \in New(i) <=> x.refs[D[i]] > 0 /\ Left(x, drops, f[i - 1], D[i]) <= 0
  OBVIOUS
<1> HIDE DEF n, D, New
\* The sets grow.
<1>6. ASSUME NEW i \in 0 .. n
      PROVE  \A j \in 0 .. n : i <= j =>
               f[i] \subseteq f[j] /\ \A o \in f[j] : o \in f[i] \/ \E k \in 1 .. n : k > i /\ D[k] = o
  <2> DEFINE S == {j \in Nat : j \in 0 .. n /\ i <= j =>
                     f[i] \subseteq f[j] /\ \A o \in f[j] :
                       o \in f[i] \/ \E k \in 1 .. n : k > i /\ D[k] = o}
  <2>1. 0 \in S
    <3>1. 0 \in Nat /\ (i <= 0 => i = 0)
      BY <1>2
    <3> QED BY <3>1
  <2>2. ASSUME NEW j \in 0 .. (n - 1), j \in S PROVE j + 1 \in S
    <3>1. j + 1 \in 1 .. n /\ (j + 1) - 1 = j /\ j \in 0 .. n /\ j + 1 \in Nat
      BY <1>2
    <3>2. f[j + 1] = f[j] \cup New(j + 1) /\ New(j + 1) \subseteq {D[j + 1]}
      BY <1>3, <1>4, <3>1
    <3>3. CASE i <= j
      <4>1. /\ f[i] \subseteq f[j]
            /\ \A o \in f[j] : o \in f[i] \/ \E k \in 1 .. n : k > i /\ D[k] = o
        BY <2>2, <3>1, <3>3
      <4>2. j + 1 > i
        BY <3>1, <3>3
      <4>3. \A o \in f[j + 1] : o \in f[j] \/ o = D[j + 1]
        BY <3>2
      <4> QED BY <3>1, <3>2, <4>1, <4>2, <4>3
    <3>4. CASE i = j + 1
      BY <3>1, <3>4
    <3>5. CASE i > j + 1
      BY <3>1, <3>5
    <3> QED BY <3>1, <3>3, <3>4, <3>5
  <2> HIDE DEF S
  <2>3. 0 .. n \subseteq S
    BY <1>2, <2>1, <2>2, UpTo
  <2> QED BY <2>3 DEF S
<1> DEFINE F == f[n]
<1>7. F \in SUBSET Obj
  <2>1. \A o \in F : o \in f[0] \/ \E k \in 1 .. n : k > 0 /\ D[k] = o
    <3>1. 0 \in 0 .. n /\ n \in 0 .. n /\ 0 <= n
      BY <1>2
    <3> QED BY <1>6, <3>1
  <2> QED BY <1>2, <1>3, <2>1
<1> HIDE DEF F
<1>8. \A i \in 1 .. n : i - 1 \in 0 .. n /\ i \in 0 .. n /\ i - 1 <= n /\ n \in 0 .. n /\ i <= n
  BY <1>2
\* Containers of the object at i are freed before it or not at all.
<1>9. ASSUME NEW i \in 1 .. n
      PROVE  Left(x, drops, f[i - 1], D[i]) = Left(x, drops, F, D[i])
  <2>1. f[i - 1] \subseteq F /\ \A o \in F : o \in f[i - 1] \/ \E k \in 1 .. n : k > i - 1 /\ D[k] = o
    BY <1>6, <1>8 DEF F
  <2>2. ASSUME NEW r \in x.resolved, r[2] = D[i], r[1] \in F
        PROVE  r[1] \in f[i - 1]
    <3> SUFFICES ASSUME r[1] \notin f[i - 1] PROVE FALSE
      OBVIOUS
    <3>1. PICK k \in 1 .. n : k > i - 1 /\ D[k] = r[1]
      BY <2>1, <2>2
    <3>2. r \in Ref
      BY DEF Record
    <3>3. <<D[k], D[i]>> \in Ref
      BY <2>2, <3>1, <3>2, RefTypes
    <3>4. k < i
      BY <1>2, <3>3, PdfAssumption DEF D
    <3> QED BY <1>2, <3>1, <3>4
  <2>3. {r \in Loose(x, f[i - 1]) : r[2] = D[i]} = {r \in Loose(x, F) : r[2] = D[i]}
    BY <2>1, <2>2 DEF Loose
  <2> QED BY <2>3 DEF Left
<1>10. ASSUME NEW o \in Obj, o \in F
       PROVE  x.refs[o] > 0 /\ Left(x, drops, F, o) <= 0
  <2> DEFINE at == {i \in 0 .. n : o \in f[i]}
  <2>1. at \in SUBSET Nat /\ at # {}
    <3>1. n \in at
      BY <1>2, <1>10 DEF F
    <3> QED BY <3>1
  <2>2. PICK i \in at : \A j \in at : i <= j
    BY <2>1, SmallestExists
  <2>3. i # 0 /\ i \in 0 .. n /\ o \in f[i]
    BY <1>3
  <2>4. i \in 1 .. n /\ i - 1 \in 0 .. n
    BY <1>2, <2>3
  <2>5. o \notin f[i - 1]
    BY <2>2, <2>4
  <2>6. o = D[i] /\ D[i] \in New(i)
    BY <1>3, <1>4, <2>3, <2>4, <2>5
  <2> QED BY <1>5, <1>9, <2>4, <2>6
<1>11. ASSUME NEW o \in Obj, x.refs[o] > 0, Left(x, drops, F, o) <= 0
       PROVE  o \in F
  <2>1. PICK i \in 1 .. n : D[i] = o
    BY <1>2
  <2>2. D[i] \in New(i)
    BY <1>5, <1>9, <1>11, <2>1
  <2>3. o \in f[i]
    BY <1>3, <2>1, <2>2
  <2> QED BY <1>6, <1>8, <2>1, <2>3 DEF F
<1>12. Freed(x, drops) = F
  BY <1>1 DEF n, F
<1> QED BY <1>7, <1>10, <1>11, <1>12

\* What a drop leaves alone.
SameKept(x, y) ==
  /\ y.keepers = x.keepers /\ y.store = x.store /\ y.pos = x.pos

LEMMA DropAllFields ==
  ASSUME NEW x \in Record, NEW drops \in Outside
  PROVE  LET y == DropAll(x, drops)
             F == Freed(x, drops)
         IN  /\ y \in Record
             /\ SameKept(x, y) /\ y.cached = x.cached
             /\ \A o \in Obj : y.refs[o] = Left(x, drops, F, o)
             /\ y.resolved = x.resolved \ Loose(x, F)
             /\ y.corrected = x.corrected \ F
<1> DEFINE F == Freed(x, drops)
           y == DropAll(x, drops)
           counts == [o \in Obj |-> Left(x, drops, F, o)]
<1>1. y = [x EXCEPT !.refs = counts, !.resolved = @ \ Loose(x, F), !.corrected = @ \ F]
  BY DEF DropAll
<1>2. counts \in [Obj -> Int]
  BY LeftType
<1>3. \A o \in Obj : counts[o] = Left(x, drops, F, o)
  OBVIOUS
<1> HIDE DEF F, y, counts
<1>4. /\ y.refs = counts /\ y.resolved = x.resolved \ Loose(x, F)
      /\ y.corrected = x.corrected \ F
      /\ y.cached = x.cached /\ SameKept(x, y)
  BY <1>1 DEF Record, SameKept
<1>5. y \in Record
  BY <1>1, <1>2 DEF Record
<1> QED BY <1>3, <1>4, <1>5 DEF F, y

\* A drop keeps the books: what was counted from outside e, and drops on top of it, is
\* counted from e.  What is still counted keeps its corrections and its references.
LEMMA DropAllCounts ==
  ASSUME NEW x \in Record, NEW drops \in Outside, NEW e \in Outside,
         Counts(x, [o \in Obj |-> e[o] + drops[o]])
  PROVE  LET y == DropAll(x, drops)
         IN  /\ y \in Record /\ Counts(y, e)
             /\ SameKept(x, y) /\ y.cached = x.cached
             /\ \A o \in x.corrected : y.refs[o] > 0 => o \in y.corrected
             /\ \A r \in x.resolved : y.refs[r[1]] > 0 => r \in y.resolved
             /\ Alive(x) => Alive(y)
<1> DEFINE F == Freed(x, drops)
           y == DropAll(x, drops)
<1>1. /\ y \in Record
      /\ SameKept(x, y) /\ y.cached = x.cached
      /\ \A o \in Obj : y.refs[o] = Left(x, drops, F, o)
      /\ y.resolved = x.resolved \ Loose(x, F)
      /\ y.corrected = x.corrected \ F
  BY DropAllFields
<1>2. /\ F \in SUBSET Obj
      /\ \A o \in Obj : o \in F <=> x.refs[o] > 0 /\ Left(x, drops, F, o) <= 0
  BY FreedIsUncounted
<1> HIDE DEF F, y
<1>3. ASSUME NEW o \in Obj
      PROVE  y.refs[o] = Cardinality(Into(y, o)) + (IF o \in y.cached THEN 1 ELSE 0) + e[o]
  <2> DEFINE A == Into(x, o)
             L == {r \in Loose(x, F) : r[2] = o}
  <2>1. A \in SUBSET Ref /\ L \in SUBSET Ref /\ Into(y, o) = A \ L /\ A \cap L = L
    BY <1>1, LeftType DEF Into, Loose, Record
  <2>2. x.refs[o] = Cardinality(A) + (IF o \in x.cached THEN 1 ELSE 0) + (e[o] + drops[o])
    BY DEF Counts
  <2>3. y.refs[o] = x.refs[o] - (drops[o] + Cardinality(L))
    BY <1>1 DEF Left
  <2>4. e[o] \in Nat /\ drops[o] \in Nat
    BY DEF Outside
  <2> HIDE DEF A, L
  <2>5. Cardinality(A) \in Nat /\ Cardinality(L) \in Nat /\ IsFiniteSet(A)
    BY <2>1, RefsAreCounted
  <2>6. Cardinality(A \ L) = Cardinality(A) - Cardinality(A \cap L)
    BY <2>5, FS_Difference
  <2>7. Cardinality(Into(y, o)) = Cardinality(A) - Cardinality(L)
    BY <2>1, <2>6
  <2> QED BY <1>1, <2>2, <2>3, <2>4, <2>5, <2>7
<1>4. Counts(y, e)
  BY <1>3 DEF Counts
<1>5. \A o \in Obj : y.refs[o] > 0 => o \notin F
  <2> SUFFICES ASSUME NEW o \in Obj, y.refs[o] > 0, o \in F PROVE FALSE
    OBVIOUS
  <2>1. y.refs[o] <= 0 /\ y.refs[o] \in Int
    BY <1>1, <1>2 DEF Record
  <2> QED BY <2>1
<1>6. \A o \in x.corrected : y.refs[o] > 0 => o \in y.corrected
  BY <1>1, <1>5 DEF Record
<1>7. \A r \in x.resolved : r \in Ref /\ r[1] \in Obj
  BY RefTypes DEF Record
<1>8. \A r \in x.resolved : y.refs[r[1]] > 0 => r \in y.resolved
  BY <1>1, <1>5, <1>7 DEF Loose
<1>9. ASSUME Alive(x) PROVE Alive(y)
  <2> SUFFICES ASSUME NEW r \in y.resolved, y.keepers[r] = 0 PROVE y.refs[r[1]] > 0
    BY DEF Alive
  <2>1. r \in x.resolved /\ x.keepers[r] = 0 /\ r[1] \notin F /\ r[1] \in Obj
    BY <1>1, <1>7 DEF Loose, SameKept
  <2>2. x.refs[r[1]] > 0
    BY <1>9, <2>1 DEF Alive
  <2>3. y.refs[r[1]] = Left(x, drops, F, r[1]) /\ y.refs[r[1]] \in Int
    BY <1>1, <2>1 DEF Record
  <2>4. ~ (y.refs[r[1]] <= 0)
    BY <1>2, <2>1, <2>2, <2>3
  <2> QED BY <2>3, <2>4
<1> QED BY <1>1, <1>4, <1>6, <1>8, <1>9 DEF y

\* A record with its books kept counts nothing less than zero times.
LEMMA CountsAreSafe ==
  ASSUME NEW x \in Record, NEW e \in Outside, Counts(x, e)
  PROVE  /\ \A o \in Obj : x.refs[o] \in Nat /\ x.refs[o] >= e[o]
         /\ \A o \in x.cached : x.refs[o] > 0
         /\ \A r \in x.resolved : x.refs[r[2]] > 0 /\ r[1] \in Obj /\ r[2] \in Obj
<1>1. \A o \in Obj : e[o] \in Nat /\ Into(x, o) \in SUBSET Ref
  BY DEF Outside, Into, Record
<1>2. ASSUME NEW o \in Obj
      PROVE  /\ x.refs[o] = Cardinality(Into(x, o)) + (IF o \in x.cached THEN 1 ELSE 0) + e[o]
             /\ Cardinality(Into(x, o)) \in Nat
             /\ Cardinality(Into(x, o)) = 0 <=> Into(x, o) = {}
  BY <1>1, RefsAreCounted DEF Counts
<1>3. ASSUME NEW o \in x.cached PROVE x.refs[o] > 0
  <2>1. o \in Obj
    BY DEF Record, Obj
  <2> QED BY <1>1, <1>2, <1>3, <2>1
<1>4. ASSUME NEW r \in x.resolved
      PROVE  x.refs[r[2]] > 0 /\ r[1] \in Obj /\ r[2] \in Obj
  <2>1. r \in Ref
    BY DEF Record
  <2>2. r[1] \in Obj /\ r[2] \in Obj
    BY <2>1, RefTypes
  <2>3. r \in Into(x, r[2])
    BY DEF Into
  <2>4. Cardinality(Into(x, r[2])) > 0
    BY <1>2, <2>2, <2>3
  <2> QED BY <1>1, <1>2, <2>2, <2>4
<1>5. \A o \in Obj : x.refs[o] \in Nat /\ x.refs[o] >= e[o]
  BY <1>1, <1>2
<1> QED BY <1>3, <1>4, <1>5

\* One count from outside less.
LEMMA DropCounts ==
  ASSUME NEW x \in Record, NEW e \in Outside, NEW o \in Obj,
         \A t \in Obj : x.refs[t] = Cardinality(Into(x, t)) + (IF t \in x.cached THEN 1 ELSE 0)
                                      + e[t] + (IF t = o THEN 1 ELSE 0)
  PROVE  LET y == Drop(x, o)
         IN  /\ y \in Record /\ Counts(y, e)
             /\ SameKept(x, y) /\ y.cached = x.cached
             /\ \A t \in x.corrected : y.refs[t] > 0 => t \in y.corrected
             /\ \A r \in x.resolved : y.refs[r[1]] > 0 => r \in y.resolved
             /\ Alive(x) => Alive(y)
<1> DEFINE drops == [t \in Obj |-> IF t = o THEN 1 ELSE 0]
<1>1. drops \in Outside
  BY DEF Outside
<1>2. Counts(x, [t \in Obj |-> e[t] + drops[t]])
  <2> SUFFICES ASSUME NEW t \in Obj
               PROVE  x.refs[t] = Cardinality(Into(x, t)) + (IF t \in x.cached THEN 1 ELSE 0)
                                    + (e[t] + drops[t])
    BY DEF Counts
  <2>1. Cardinality(Into(x, t)) \in Nat /\ e[t] \in Nat
    BY RefsAreCounted DEF Into, Record, Outside
  <2>2. drops[t] = IF t = o THEN 1 ELSE 0
    OBVIOUS
  <2> HIDE DEF drops
  <2>3. x.refs[t] = Cardinality(Into(x, t)) + (IF t \in x.cached THEN 1 ELSE 0)
                                      + e[t] + (IF t = o THEN 1 ELSE 0)
    OBVIOUS
  <2> QED BY <2>1, <2>2, <2>3
<1>3. Drop(x, o) = DropAll(x, drops)
  BY DEF Drop
<1> HIDE DEF drops
<1> QED BY <1>1, <1>2, <1>3, DropAllCounts

\* What there is of the page tree in x is there in y.
Tree(x, y) ==
  <<"catalog", "pages">> \in x.resolved =>
    /\ <<"catalog", "pages">> \in y.resolved
    /\ "pages" \in x.corrected => "pages" \in y.corrected
    /\ \A q : <<"pages", q>> \in x.resolved => <<"pages", q>> \in y.resolved

\* As long as the catalog is counted from outside, no drop takes anything of the tree.
LEMMA TreeStays ==
  ASSUME NEW x \in Record, NEW y \in Record, NEW e \in Outside, Counts(y, e), e["catalog"] > 0,
         \A o \in x.corrected : y.refs[o] > 0 => o \in y.corrected,
         \A r \in x.resolved : y.refs[r[1]] > 0 => r \in y.resolved
  PROVE  Tree(x, y)
<1> SUFFICES ASSUME <<"catalog", "pages">> \in x.resolved
             PROVE  /\ <<"catalog", "pages">> \in y.resolved
                    /\ "pages" \in x.corrected => "pages" \in y.corrected
                    /\ \A q : <<"pages", q>> \in x.resolved => <<"pages", q>> \in y.resolved
  BY DEF Tree
<1>1. "catalog" \in Obj
  <2>1. <<"catalog", "pages">> \in Ref
    BY DEF Record
  <2> QED BY <2>1, RefTypes
<1>2. y.refs["catalog"] > 0
  <2>1. y.refs["catalog"] \in Nat /\ y.refs["catalog"] >= e["catalog"] /\ e["catalog"] \in Nat
    BY <1>1, CountsAreSafe DEF Outside
  <2> QED BY <2>1
<1>3. <<"catalog", "pages">> \in y.resolved
  BY <1>2
<1>4. y.refs["pages"] > 0
  BY <1>3, CountsAreSafe
<1> QED BY <1>3, <1>4

\* Keepers let references go.
LEMMA DropRefsCounts ==
  ASSUME NEW x \in Record, NEW e \in Outside, Counts(x, e), NEW rs \in SUBSET Ref
  PROVE  LET y == DropRefs(x, rs)
         IN  /\ y \in Record /\ Counts(y, e)
             /\ \A r \in Ref : y.keepers[r] = IF r \in rs THEN x.keepers[r] - 1 ELSE x.keepers[r]
             /\ y.store = x.store /\ y.pos = x.pos /\ y.cached = x.cached
             /\ e["catalog"] > 0 => Tree(x, y)
             /\ Alive(x) => Alive(y)
<1> DEFINE ks == [r \in Ref |-> IF r \in rs THEN x.keepers[r] - 1 ELSE x.keepers[r]]
           gone == {r \in x.resolved \cap rs : ks[r] = 0 /\ x.refs[r[1]] = 0}
           z == [x EXCEPT !.keepers = ks, !.resolved = @ \ gone]
           drops == [o \in Obj |-> Cardinality({r \in gone : r[2] = o})]
           y == DropRefs(x, rs)
<1>1. y = DropAll(z, drops)
  <2> DEFINE z0 == [x EXCEPT !.keepers = [r \in Ref |-> IF r \in rs THEN @[r] - 1 ELSE @[r]]]
  <2>1. z0.keepers = ks /\ z0 = [x EXCEPT !.keepers = ks]
    BY DEF Record
  <2>2. y = DropAll([z0 EXCEPT !.resolved = @ \ {r \in x.resolved \cap rs :
                                                   z0.keepers[r] = 0 /\ x.refs[r[1]] = 0}],
                    [o \in Obj |-> Cardinality({r \in {r \in x.resolved \cap rs :
                                     z0.keepers[r] = 0 /\ x.refs[r[1]] = 0} : r[2] = o})])
    BY DEF DropRefs
  <2>3. [z0 EXCEPT !.resolved = @ \ gone] = z
    BY <2>1 DEF Record
  <2> HIDE DEF z0
  <2> QED BY <2>1, <2>2, <2>3
<1>2. ks \in [Ref -> Int] /\ \A r \in Ref : ks[r] = IF r \in rs THEN x.keepers[r] - 1 ELSE x.keepers[r]
  BY DEF Record
<1> HIDE DEF ks, y
<1>3. gone \subseteq x.resolved /\ gone \in SUBSET Ref
  BY DEF Record
<1>4. \A r \in x.resolved : r \in rs /\ ks[r] = 0 /\ x.refs[r[1]] = 0 <=> r \in gone
  OBVIOUS
<1> HIDE DEF gone
<1>5. /\ z \in Record
      /\ z.keepers = ks /\ z.resolved = x.resolved \ gone /\ z.refs = x.refs
      /\ z.cached = x.cached /\ z.corrected = x.corrected /\ z.store = x.store /\ z.pos = x.pos
  BY <1>2 DEF Record
<1> HIDE DEF z
<1>6. \A o \in Obj : {r \in gone : r[2] = o} \in SUBSET Ref
  BY <1>3
<1>7. drops \in Outside /\ \A o \in Obj : drops[o] = Cardinality({r \in gone : r[2] = o})
  BY <1>6, RefsAreCounted DEF Outside
<1> HIDE DEF drops
<1>8. Counts(z, [o \in Obj |-> e[o] + drops[o]])
  <2> SUFFICES ASSUME NEW o \in Obj
               PROVE  z.refs[o] = Cardinality(Into(z, o)) + (IF o \in z.cached THEN 1 ELSE 0)
                                    + (e[o] + drops[o])
    BY DEF Counts
  <2> DEFINE A == Into(x, o)
             G == {r \in gone : r[2] = o}
  <2>1. A \in SUBSET Ref /\ G \in SUBSET Ref /\ Into(z, o) = A \ G /\ A \cap G = G
    BY <1>3, <1>5, <1>6 DEF Into, Record
  <2>2. x.refs[o] = Cardinality(A) + (IF o \in x.cached THEN 1 ELSE 0) + e[o]
    BY DEF Counts
  <2>3. e[o] \in Nat /\ drops[o] = Cardinality(G)
    BY <1>7 DEF Outside
  <2> HIDE DEF A, G
  <2>4. Cardinality(A) \in Nat /\ Cardinality(G) \in Nat /\ IsFiniteSet(A)
    BY <2>1, RefsAreCounted
  <2>5. Cardinality(A \ G) = Cardinality(A) - Cardinality(A \cap G)
    BY <2>4, FS_Difference
  <2>6. Cardinality(Into(z, o)) = Cardinality(A) - Cardinality(G)
    BY <2>1, <2>5
  <2> QED BY <1>5, <2>2, <2>3, <2>4, <2>6
<1>9. /\ y \in Record /\ Counts(y, e)
      /\ SameKept(z, y) /\ y.cached = z.cached
      /\ \A o \in z.corrected : y.refs[o] > 0 => o \in y.corrected
      /\ \A r \in z.resolved : y.refs[r[1]] > 0 => r \in y.resolved
      /\ Alive(z) => Alive(y)
  BY <1>1, <1>5, <1>7, <1>8, DropAllCounts
<1>10. \A r \in x.resolved : r \in Ref /\ r[1] \in Obj
  BY RefTypes DEF Record
<1>11. ASSUME Alive(x) PROVE Alive(z)
  <2> SUFFICES ASSUME NEW r \in z.resolved, z.keepers[r] = 0 PROVE z.refs[r[1]] > 0
    BY DEF Alive
  <2>1. r \in x.resolved /\ r \notin gone /\ ks[r] = 0 /\ r \in Ref /\ r[1] \in Obj
    BY <1>5, <1>10
  <2>2. x.refs[r[1]] \in Nat
    BY <2>1, CountsAreSafe
  <2>3. CASE r \in rs
    <3>1. x.refs[r[1]] # 0
      BY <1>4, <2>1, <2>3
    <3> QED BY <1>5, <2>2, <3>1
  <2>4. CASE r \notin rs
    <3>1. x.keepers[r] = 0
      BY <1>2, <2>1, <2>4
    <3> QED BY <1>5, <1>11, <2>1, <3>1 DEF Alive
  <2> QED BY <2>3, <2>4
<1>12. ASSUME e["catalog"] > 0 PROVE Tree(x, y)
  <2>1. Tree(z, y)
    BY <1>5, <1>9, <1>12, TreeStays
  <2>2. ASSUME <<"catalog", "pages">> \in x.resolved
        PROVE  \A r \in x.resolved : r[1] \in {"catalog", "pages"} => r \in z.resolved
    <3>1. <<"catalog", "pages">>[1] = "catalog" /\ <<"catalog", "pages">>[2] = "pages"
      OBVIOUS
    <3>2. "catalog" \in Obj /\ x.refs["pages"] > 0
      BY <1>10, <2>2, <3>1, CountsAreSafe
    <3>3. x.refs["catalog"] \in Nat /\ x.refs["catalog"] >= e["catalog"] /\ e["catalog"] \in Nat
      BY <3>2, CountsAreSafe DEF Outside
    <3>4. x.refs["catalog"] # 0 /\ x.refs["pages"] # 0
      BY <1>12, <3>2, <3>3
    <3> QED BY <1>4, <1>5, <3>4
  <2>3. \A q : <<"catalog", q>>[1] = "catalog" /\ <<"pages", q>>[1] = "pages"
    OBVIOUS
  <2> QED BY <1>5, <2>1, <2>2, <2>3 DEF Tree
<1> QED BY <1>2, <1>5, <1>9, <1>11, <1>12 DEF y, SameKept
-----------------------------------------------------------------------------
(* Reading and resolving *)

\* What is read stays, and its books are only added to.
MoreOf(x, y) ==
  /\ y.keepers = x.keepers /\ y.store = x.store /\ y.corrected = x.corrected
  /\ x.cached \subseteq y.cached /\ x.resolved \subseteq y.resolved
  /\ \A o \in Obj : x.refs[o] <= y.refs[o]

LEMMA MoreOfTransitive ==
  ASSUME NEW x \in Record, NEW y \in Record, NEW z \in Record, MoreOf(x, y), MoreOf(y, z)
  PROVE  MoreOf(x, z)
<1>1. \A o \in Obj : x.refs[o] \in Int /\ y.refs[o] \in Int /\ z.refs[o] \in Int
  BY DEF Record
<1>2. \A o \in Obj : x.refs[o] <= z.refs[o]
  BY <1>1 DEF MoreOf
<1> QED BY <1>2 DEF MoreOf

\* What does not touch the counts, the table or the references keeps the books.
LEMMA SameBooks ==
  ASSUME NEW x, NEW y, NEW e, Counts(x, e),
         y.refs = x.refs, y.cached = x.cached, y.resolved = x.resolved
  PROVE  Counts(y, e)
BY DEF Counts, Into

\* The position of the file is nobody's count.
LEMMA Positioned ==
  ASSUME NEW x \in Record, NEW o \in Obj \cup {NoObj}
  PROVE  LET y == [x EXCEPT !.pos = o]
         IN  /\ y \in Record /\ y.pos = o
             /\ y.refs = x.refs /\ y.cached = x.cached /\ y.resolved = x.resolved
             /\ y.keepers = x.keepers /\ y.store = x.store /\ y.corrected = x.corrected
             /\ \A e : Counts(x, e) => Counts(y, e)
             /\ Alive(x) => Alive(y)
<1> DEFINE y == [x EXCEPT !.pos = o]
<1>1. /\ y \in Record /\ y.pos = o
      /\ y.refs = x.refs /\ y.cached = x.cached /\ y.resolved = x.resolved
      /\ y.keepers = x.keepers /\ y.store = x.store /\ y.corrected = x.corrected
  BY DEF Record
<1> HIDE DEF y
<1>2. \A e : Counts(x, e) => Counts(y, e)
  BY <1>1, SameBooks
<1>3. Alive(x) => Alive(y)
  BY <1>1 DEF Alive
<1> QED BY <1>1, <1>2, <1>3 DEF y

LEMMA CacheObjectCounts ==
  ASSUME NEW x \in Record, NEW e \in Outside, Counts(x, e), NEW o \in InFile
  PROVE  LET y == CacheObject(x, o)
         IN  /\ y \in Record /\ Counts(y, e) /\ MoreOf(x, y)
             /\ o \notin Broken => o \in y.cached
             /\ y.resolved = x.resolved
<1> DEFINE y == CacheObject(x, o)
<1>0. o \in Obj /\ \A t \in Obj : x.refs[t] \in Int
  BY DEF Obj, Record
<1>1. CASE o \in x.cached
  <2>1. y = x
    BY <1>1 DEF CacheObject
  <2> HIDE DEF y
  <2>2. \A t \in Obj : x.refs[t] <= x.refs[t]
    BY <1>0
  <2> QED BY <1>1, <2>1, <2>2 DEF MoreOf, y
<1>3. CASE o \notin x.cached /\ o \in Broken
  <2>1. y = [x EXCEPT !.pos = o]
    BY <1>3 DEF CacheObject
  <2> HIDE DEF y
  <2>2. /\ y \in Record /\ Counts(y, e)
        /\ y.refs = x.refs /\ y.cached = x.cached /\ y.resolved = x.resolved
        /\ y.keepers = x.keepers /\ y.store = x.store /\ y.corrected = x.corrected
    BY <1>0, <2>1, Positioned
  <2>3. \A t \in Obj : x.refs[t] <= y.refs[t]
    BY <1>0, <2>2
  <2> QED BY <1>3, <2>2, <2>3 DEF MoreOf, y
<1>2. CASE o \notin x.cached /\ o \notin Broken
  <2>1. y = [x EXCEPT !.cached = @ \cup {o}, !.refs[o] = @ + 1, !.pos = o]
    BY <1>2 DEF CacheObject
  <2>2. /\ y \in Record
        /\ y.cached = x.cached \cup {o} /\ y.resolved = x.resolved
        /\ y.keepers = x.keepers /\ y.store = x.store /\ y.corrected = x.corrected
        /\ y.refs = [x.refs EXCEPT ![o] = @ + 1]
    <3> DEFINE counts == [x.refs EXCEPT ![o] = @ + 1]
    <3>1. y = [x EXCEPT !.cached = @ \cup {o}, !.refs = counts, !.pos = o]
      BY <2>1
    <3>2. counts \in [Obj -> Int]
      BY <1>0 DEF Record
    <3> HIDE DEF counts, y
    <3>3. y \in Record
      BY <1>0, <3>1, <3>2 DEF Record
    <3>4. /\ y.cached = x.cached \cup {o} /\ y.resolved = x.resolved
          /\ y.keepers = x.keepers /\ y.store = x.store /\ y.corrected = x.corrected
          /\ y.refs = counts
      BY <3>1 DEF Record
    <3> QED BY <3>3, <3>4 DEF counts
  <2> HIDE DEF y
  <2>3. \A t \in Obj : y.refs[t] = IF t = o THEN x.refs[t] + 1 ELSE x.refs[t]
    BY <2>2 DEF Record
  <2>4. MoreOf(x, y)
    <3>1. \A t \in Obj : x.refs[t] <= y.refs[t]
      BY <1>0, <2>3
    <3> QED BY <2>2, <3>1 DEF MoreOf
  <2>5. Counts(y, e)
    <3> SUFFICES ASSUME NEW t \in Obj
                 PROVE  y.refs[t] = Cardinality(Into(y, t)) + (IF t \in y.cached THEN 1 ELSE 0) + e[t]
      BY DEF Counts
    <3>1. Into(y, t) = Into(x, t)
      BY <2>2 DEF Into
    <3>2. x.refs[t] = Cardinality(Into(x, t)) + (IF t \in x.cached THEN 1 ELSE 0) + e[t]
      BY DEF Counts
    <3>3. Cardinality(Into(x, t)) \in Nat /\ e[t] \in Nat
      BY RefsAreCounted DEF Into, Record, Outside
    <3>4. CASE t = o
      <4>1. t \in y.cached /\ t \notin x.cached
        BY <1>2, <2>2, <3>4
      <4> QED BY <2>3, <3>1, <3>2, <3>3, <3>4, <4>1
    <3>5. CASE t # o
      <4>1. t \in y.cached <=> t \in x.cached
        BY <2>2, <3>5
      <4> QED BY <2>3, <3>1, <3>2, <3>3, <3>5, <4>1
    <3> QED BY <3>4, <3>5
  <2> QED BY <2>2, <2>4, <2>5 DEF y
<1> QED BY <1>1, <1>2, <1>3

LEMMA ResolveCounts ==
  ASSUME NEW x \in Record, NEW e \in Outside, Counts(x, e), NEW r \in Ref
  PROVE  LET y == Resolve(x, r)
         IN  /\ y \in Record /\ Counts(y, e) /\ MoreOf(x, y)
             /\ y.resolved \subseteq x.resolved \cup {r}
             /\ r[2] \notin Broken => y.resolved = x.resolved \cup {r}
<1> DEFINE y == Resolve(x, r)
           z == CacheObject(x, r[2])
<1>0. r[2] \in Obj /\ r[2] \in InFile
  BY RefTypes
<1>1. CASE r \in x.resolved
  <2>1. y = x
    BY <1>1 DEF Resolve
  <2> HIDE DEF y
  <2>2. \A t \in Obj : x.refs[t] <= x.refs[t]
    BY DEF Record
  <2>3. x.resolved \cup {r} = x.resolved
    BY <1>1
  <2> QED BY <2>1, <2>2, <2>3 DEF MoreOf, y
<1>3. CASE r \notin x.resolved /\ r[2] \in Broken
  <2>1. y = z
    BY <1>3 DEF Resolve
  <2>2. /\ z \in Record /\ Counts(z, e) /\ MoreOf(x, z) /\ z.resolved = x.resolved
    BY <1>0, CacheObjectCounts
  <2> QED BY <1>3, <2>1, <2>2
<1>2. CASE r \notin x.resolved /\ r[2] \notin Broken
  <2>0. /\ z \in Record /\ Counts(z, e) /\ MoreOf(x, z) /\ z.resolved = x.resolved
    BY <1>0, CacheObjectCounts
  <2>1. y = [z EXCEPT !.refs[r[2]] = @ + 1, !.resolved = @ \cup {r}]
    BY <1>2 DEF Resolve
  <2> HIDE DEF z
  <2>2. /\ y \in Record
        /\ y.resolved = z.resolved \cup {r} /\ y.cached = z.cached
        /\ y.keepers = z.keepers /\ y.store = z.store /\ y.corrected = z.corrected
        /\ y.refs = [z.refs EXCEPT ![r[2]] = @ + 1]
    <3> DEFINE counts == [z.refs EXCEPT ![r[2]] = @ + 1]
    <3>1. y = [z EXCEPT !.refs = counts, !.resolved = @ \cup {r}]
      BY <2>1
    <3>2. counts \in [Obj -> Int]
      BY <1>0, <2>0 DEF Record
    <3> HIDE DEF counts, y
    <3>3. y \in Record
      BY <2>0, <3>1, <3>2 DEF Record
    <3>4. /\ y.resolved = z.resolved \cup {r} /\ y.cached = z.cached
          /\ y.keepers = z.keepers /\ y.store = z.store /\ y.corrected = z.corrected
          /\ y.refs = counts
      BY <2>0, <3>1 DEF Record
    <3> QED BY <3>3, <3>4 DEF counts
  <2> HIDE DEF y
  <2>3. \A t \in Obj : y.refs[t] = (IF t = r[2] THEN z.refs[t] + 1 ELSE z.refs[t]) /\ z.refs[t] \in Int
    BY <2>0, <2>2 DEF Record
  <2>4. MoreOf(z, y)
    <3>1. \A t \in Obj : z.refs[t] <= y.refs[t]
      BY <2>3
    <3> QED BY <2>2, <3>1 DEF MoreOf
  <2>5. Counts(y, e)
    <3> SUFFICES ASSUME NEW t \in Obj
                 PROVE  y.refs[t] = Cardinality(Into(y, t)) + (IF t \in y.cached THEN 1 ELSE 0) + e[t]
      BY DEF Counts
    <3>2. z.refs[t] = Cardinality(Into(z, t)) + (IF t \in z.cached THEN 1 ELSE 0) + e[t]
      BY <2>0 DEF Counts
    <3>3. Into(z, t) \in SUBSET Ref /\ e[t] \in Nat
      BY <2>0 DEF Into, Record, Outside
    <3>4. Cardinality(Into(z, t)) \in Nat /\ IsFiniteSet(Into(z, t))
      BY <3>3, RefsAreCounted
    <3>5. CASE t = r[2]
      <4>1. Into(y, t) = Into(z, t) \cup {r} /\ r \notin Into(z, t)
        BY <1>2, <2>0, <2>2, <3>5 DEF Into
      <4>2. Cardinality(Into(y, t)) = Cardinality(Into(z, t)) + 1
        BY <3>4, <4>1, FS_AddElement
      <4> QED BY <2>2, <2>3, <3>2, <3>3, <3>4, <3>5, <4>2
    <3>6. CASE t # r[2]
      <4>1. Into(y, t) = Into(z, t)
        BY <2>2, <3>6 DEF Into
      <4> QED BY <2>2, <2>3, <3>2, <3>6, <4>1
    <3> QED BY <3>5, <3>6
  <2>6. MoreOf(x, y)
    BY <2>0, <2>2, <2>4, MoreOfTransitive
  <2> QED BY <2>0, <2>2, <2>5, <2>6 DEF y
<1> QED BY <1>1, <1>2, <1>3

\* Reading takes nobody's life, and a reference may be resolved of a container that is
\* alive or of one that is kept.
LEMMA ResolvingStaysAlive ==
  ASSUME NEW x \in Record, NEW y \in Record, Alive(x),
         \A o \in Obj : x.refs[o] <= y.refs[o],
         \A k \in Ref : x.keepers[k] # 0 => y.keepers[k] # 0,
         \A r \in y.resolved : r \notin x.resolved => y.refs[r[1]] > 0 \/ y.keepers[r] # 0
  PROVE  Alive(y)
<1> SUFFICES ASSUME NEW r \in y.resolved PROVE y.refs[r[1]] > 0 \/ y.keepers[r] # 0
  BY DEF Alive
<1>1. CASE r \in x.resolved
  <2>1. r \in Ref
    BY DEF Record
  <2>2. r[1] \in Obj
    BY <2>1, RefTypes
  <2>3. x.refs[r[1]] \in Int /\ y.refs[r[1]] \in Int /\ x.refs[r[1]] <= y.refs[r[1]]
    BY <2>2 DEF Record
  <2>4. x.refs[r[1]] > 0 \/ x.keepers[r] # 0
    BY <1>1 DEF Alive
  <2> QED BY <2>1, <2>3, <2>4
<1> QED BY <1>1
-----------------------------------------------------------------------------
(* Loops.  A loop is a function defined by recursion; that there is such a   *)
(* function follows from what its step keeps.                                *)

Books(e) == {x \in Record : Counts(x, e)}

LEMMA ResolveAllLoop ==
  ASSUME NEW e \in Outside, NEW x \in Books(e), NEW rs \in Seq(Ref)
  PROVE  \E f : /\ f[0] = x /\ ResolveAll(x, rs) = f[Len(rs)]
                /\ \A i \in 1 .. Len(rs) : f[i] = Resolve(f[i - 1], rs[i])
<1> DEFINE n == Len(rs)
           step == [v \in Books(e) \X (1 .. n) |-> Resolve(v[1], rs[v[2]])]
           Is(f) == f = [i \in 0 .. n |-> IF i = 0 THEN x ELSE Resolve(f[i - 1], rs[i])]
<1>0. n \in Nat /\ \A i \in 1 .. n : rs[i] \in Ref
  OBVIOUS
<1>1. ASSUME NEW v \in Books(e), NEW i \in 1 .. n
      PROVE  step[<<v, i>>] = Resolve(v, rs[i]) /\ step[<<v, i>>] \in Books(e)
  <2>1. step[<<v, i>>] = Resolve(v, rs[i])
    OBVIOUS
  <2> HIDE DEF step
  <2>2. Resolve(v, rs[i]) \in Books(e)
    BY <1>0, ResolveCounts DEF Books
  <2> QED BY <2>1, <2>2
<1>2. PICK g : Iterates(g, Books(e), x, n, step)
  <2> HIDE DEF step, n
  <2> QED BY <1>0, <1>1, Recursion, Zenon
<1> HIDE DEF step
<1>3. /\ g \in [0 .. n -> Books(e)] /\ g[0] = x
      /\ \A i \in 1 .. n : g[i] = Resolve(g[i - 1], rs[i])
  <2>1. /\ g \in [0 .. n -> Books(e)] /\ g[0] = x
        /\ \A i \in 1 .. n : g[i] = step[<<g[i - 1], i>>]
    BY <1>2 DEF Iterates
  <2>2. \A i \in 1 .. n : i - 1 \in 0 .. n
    BY <1>0
  <2> QED BY <1>1, <2>1, <2>2
<1> HIDE DEF n
<1>4. Is(g)
  <2>1. \A i \in 0 .. n : i # 0 => i \in 1 .. n
    BY <1>0
  <2> QED BY <1>3, <2>1
<1>5. ResolveAll(x, rs) = (CHOOSE f : Is(f))[n]
  BY DEF ResolveAll, n
<1>6. PICK f : Is(f) /\ ResolveAll(x, rs) = f[n]
  <2>1. Is(CHOOSE f : Is(f))
    BY <1>4, Zenon
  <2> QED BY <1>5, <2>1
<1>7. 0 \in 0 .. n /\ \A i \in 1 .. n : i \in 0 .. n /\ i # 0
  BY <1>0
<1>8. f[0] = x /\ \A i \in 1 .. n : f[i] = Resolve(f[i - 1], rs[i])
  <2>1. \A i \in 0 .. n : f[i] = IF i = 0 THEN x ELSE Resolve(f[i - 1], rs[i])
    BY <1>6
  <2> HIDE DEF Is
  <2> QED BY <1>7, <2>1
<1> QED BY <1>6, <1>8 DEF n

LEMMA ResolveAllCounts ==
  ASSUME NEW x \in Record, NEW e \in Outside, Counts(x, e), NEW rs \in Seq(Ref),
         \A i \in 1 .. Len(rs) : rs[i][2] \notin Broken
  PROVE  LET y == ResolveAll(x, rs)
         IN  /\ y \in Record /\ Counts(y, e) /\ MoreOf(x, y)
             /\ y.resolved = x.resolved \cup {rs[i] : i \in DOMAIN rs}
<1> DEFINE n == Len(rs)
<1>0. /\ n \in Nat /\ DOMAIN rs = 1 .. n /\ x \in Books(e)
      /\ \A i \in 1 .. n : rs[i] \in Ref /\ rs[i][2] \notin Broken
  BY DEF Books
<1>1. PICK f : /\ f[0] = x /\ ResolveAll(x, rs) = f[n]
               /\ \A i \in 1 .. n : f[i] = Resolve(f[i - 1], rs[i])
  BY <1>0, ResolveAllLoop
<1> HIDE DEF n
<1> DEFINE OK(i) == /\ f[i] \in Record /\ Counts(f[i], e) /\ MoreOf(x, f[i])
                    /\ f[i].resolved = x.resolved \cup {rs[k] : k \in 1 .. i}
           S == {i \in Nat : i \in 0 .. n => OK(i)}
<1>2. 0 \in S
  <2>1. {rs[k] : k \in 1 .. 0} = {} /\ \A o \in Obj : x.refs[o] <= x.refs[o]
    BY DEF Record
  <2> QED BY <1>1, <2>1 DEF MoreOf
<1>3. ASSUME NEW i \in 0 .. (n - 1), i \in S PROVE i + 1 \in S
  <2>1. i + 1 \in 1 .. n /\ (i + 1) - 1 = i /\ i \in 0 .. n /\ i + 1 \in Nat
    BY <1>0
  <2>2. OK(i)
    BY <1>3, <2>1
  <2>3. f[i + 1] = Resolve(f[i], rs[i + 1]) /\ rs[i + 1] \in Ref /\ rs[i + 1][2] \notin Broken
    BY <1>0, <1>1, <2>1
  <2>4. /\ f[i + 1] \in Record /\ Counts(f[i + 1], e) /\ MoreOf(f[i], f[i + 1])
        /\ f[i + 1].resolved = f[i].resolved \cup {rs[i + 1]}
    BY <2>2, <2>3, ResolveCounts
  <2>5. MoreOf(x, f[i + 1])
    BY <2>2, <2>4, MoreOfTransitive
  <2>6. {rs[k] : k \in 1 .. (i + 1)} = {rs[k] : k \in 1 .. i} \cup {rs[i + 1]}
    <3>1. \A k : k \in 1 .. (i + 1) <=> k \in 1 .. i \/ k = i + 1
      BY <2>1
    <3> QED BY <3>1
  <2>7. OK(i + 1)
    BY <2>2, <2>4, <2>5, <2>6
  <2> QED BY <2>1, <2>7
<1> HIDE DEF S
<1>4. 0 .. n \subseteq S
  BY <1>0, <1>2, <1>3, UpTo
<1>5. OK(n)
  BY <1>0, <1>4 DEF S
<1> QED BY <1>0, <1>1, <1>5

\* An entry is dropped from the table, which counted it.
LEMMA FlushEntryCounts ==
  ASSUME NEW x \in Record, NEW e \in Outside, Counts(x, e), NEW o \in InFile, NEW force
  PROVE  LET y == FlushEntry(x, o, force)
         IN  /\ y \in Record /\ Counts(y, e) /\ SameKept(x, y)
             /\ y.cached \subseteq x.cached
             /\ force => o \notin y.cached
             /\ e["catalog"] > 0 => Tree(x, y)
             /\ Alive(x) => Alive(y)
<1> DEFINE y == FlushEntry(x, o, force)
<1>1. CASE ~ (o \in x.cached /\ (force \/ x.refs[o] = 1))
  <2>1. y = x
    BY <1>1 DEF FlushEntry
  <2> QED BY <1>1, <2>1 DEF SameKept, Tree
<1>2. CASE o \in x.cached /\ (force \/ x.refs[o] = 1)
  <2> DEFINE z == [x EXCEPT !.cached = @ \ {o}]
  <2>1. y = Drop(z, o)
    BY <1>2 DEF FlushEntry
  <2> HIDE DEF y
  <2>2. /\ z \in Record /\ z.cached = x.cached \ {o} /\ SameKept(x, z)
        /\ z.refs = x.refs /\ z.resolved = x.resolved /\ z.corrected = x.corrected
        /\ z.keepers = x.keepers
    BY DEF Record, SameKept
  <2> HIDE DEF z
  <2>3. o \in Obj
    BY DEF Obj
  <2>4. ASSUME NEW t \in Obj
        PROVE  z.refs[t] = Cardinality(Into(z, t)) + (IF t \in z.cached THEN 1 ELSE 0)
                             + e[t] + (IF t = o THEN 1 ELSE 0)
    <3>1. x.refs[t] = Cardinality(Into(x, t)) + (IF t \in x.cached THEN 1 ELSE 0) + e[t]
      BY DEF Counts
    <3>2. Into(z, t) = Into(x, t)
      BY <2>2 DEF Into
    <3>3. Cardinality(Into(x, t)) \in Nat /\ e[t] \in Nat
      BY RefsAreCounted DEF Into, Record, Outside
    <3>4. CASE t = o
      <4>1. t \in x.cached /\ t \notin z.cached
        BY <1>2, <2>2, <3>4
      <4> QED BY <2>2, <3>1, <3>2, <3>3, <3>4, <4>1
    <3>5. CASE t # o
      <4>1. t \in x.cached <=> t \in z.cached
        BY <2>2, <3>5
      <4> QED BY <2>2, <3>1, <3>2, <3>3, <3>5, <4>1
    <3> QED BY <3>4, <3>5
  <2>5. /\ y \in Record /\ Counts(y, e)
        /\ SameKept(z, y) /\ y.cached = z.cached
        /\ \A t \in z.corrected : y.refs[t] > 0 => t \in y.corrected
        /\ \A r \in z.resolved : y.refs[r[1]] > 0 => r \in y.resolved
        /\ Alive(z) => Alive(y)
    BY <2>1, <2>2, <2>3, <2>4, DropCounts
  <2>6. Alive(x) => Alive(z)
    BY <2>2 DEF Alive
  <2>7. e["catalog"] > 0 => Tree(x, y)
    <3>1. SUFFICES ASSUME e["catalog"] > 0 PROVE Tree(x, y)
      OBVIOUS
    <3>2. Tree(z, y)
      BY <2>2, <2>5, <3>1, TreeStays
    <3> QED BY <2>2, <3>2 DEF Tree
  <2>8. SameKept(x, y) /\ y.cached \subseteq x.cached /\ o \notin y.cached
    BY <2>2, <2>5 DEF SameKept
  <2> QED BY <2>5, <2>6, <2>7, <2>8 DEF y
<1> QED BY <1>1, <1>2

LEMMA FlushLoop ==
  ASSUME NEW e \in Outside, NEW x \in Books(e), NEW force
  PROVE  \E f : /\ f[0] = x /\ Flush(x, force) = f[Len(Table)]
                /\ \A i \in 1 .. Len(Table) : f[i] = FlushEntry(f[i - 1], Table[i], force)
<1> DEFINE n == Len(Table)
           step == [v \in Books(e) \X (1 .. n) |-> FlushEntry(v[1], Table[v[2]], force)]
           Is(f) == f = [i \in 0 .. n |-> IF i = 0 THEN x ELSE FlushEntry(f[i - 1], Table[i], force)]
<1>0. n \in Nat /\ \A i \in 1 .. n : Table[i] \in InFile
  BY PdfAssumption
<1>1. ASSUME NEW v \in Books(e), NEW i \in 1 .. n
      PROVE  step[<<v, i>>] = FlushEntry(v, Table[i], force) /\ step[<<v, i>>] \in Books(e)
  <2>1. step[<<v, i>>] = FlushEntry(v, Table[i], force)
    OBVIOUS
  <2> HIDE DEF step
  <2>2. FlushEntry(v, Table[i], force) \in Books(e)
    BY <1>0, FlushEntryCounts DEF Books
  <2> QED BY <2>1, <2>2
<1>2. PICK g : Iterates(g, Books(e), x, n, step)
  <2> HIDE DEF step, n
  <2> QED BY <1>0, <1>1, Recursion, Zenon
<1> HIDE DEF step
<1>3. /\ g \in [0 .. n -> Books(e)] /\ g[0] = x
      /\ \A i \in 1 .. n : g[i] = FlushEntry(g[i - 1], Table[i], force)
  <2>1. /\ g \in [0 .. n -> Books(e)] /\ g[0] = x
        /\ \A i \in 1 .. n : g[i] = step[<<g[i - 1], i>>]
    BY <1>2 DEF Iterates
  <2>2. \A i \in 1 .. n : i - 1 \in 0 .. n
    BY <1>0
  <2> QED BY <1>1, <2>1, <2>2
<1> HIDE DEF n
<1>4. Is(g)
  <2>1. \A i \in 0 .. n : i # 0 => i \in 1 .. n
    BY <1>0
  <2> QED BY <1>3, <2>1
<1>5. Flush(x, force) = (CHOOSE f : Is(f))[n]
  BY DEF Flush, n
<1>6. PICK f : Is(f) /\ Flush(x, force) = f[n]
  <2>1. Is(CHOOSE f : Is(f))
    BY <1>4, Zenon
  <2> QED BY <1>5, <2>1
<1>7. 0 \in 0 .. n /\ \A i \in 1 .. n : i \in 0 .. n /\ i # 0
  BY <1>0
<1>8. f[0] = x /\ \A i \in 1 .. n : f[i] = FlushEntry(f[i - 1], Table[i], force)
  <2>1. \A i \in 0 .. n : f[i] = IF i = 0 THEN x ELSE FlushEntry(f[i - 1], Table[i], force)
    BY <1>6
  <2> HIDE DEF Is
  <2> QED BY <1>7, <2>1
<1> QED BY <1>6, <1>8 DEF n

\* Flushing keeps the books, and by force it empties the table.
LEMMA FlushCounts ==
  ASSUME NEW x \in Record, NEW e \in Outside, Counts(x, e), NEW force
  PROVE  LET y == Flush(x, force)
         IN  /\ y \in Record /\ Counts(y, e) /\ SameKept(x, y)
             /\ y.cached \subseteq x.cached
             /\ force => y.cached = {}
             /\ e["catalog"] > 0 => Tree(x, y)
             /\ Alive(x) => Alive(y)
<1> DEFINE n == Len(Table)
<1>0. /\ n \in Nat /\ (\A i \in 1 .. n : Table[i] \in InFile) /\ x \in Books(e)
      /\ \A o \in InFile : \E i \in 1 .. n : Table[i] = o
  BY PdfAssumption DEF Books, InFile
<1>1. PICK f : /\ f[0] = x /\ Flush(x, force) = f[n]
               /\ \A i \in 1 .. n : f[i] = FlushEntry(f[i - 1], Table[i], force)
  BY <1>0, FlushLoop
<1> HIDE DEF n
<1> DEFINE OK(i) == /\ f[i] \in Record /\ Counts(f[i], e) /\ SameKept(x, f[i])
                    /\ f[i].cached \subseteq x.cached
                    /\ force => \A k \in 1 .. i : Table[k] \notin f[i].cached
                    /\ e["catalog"] > 0 => Tree(x, f[i])
                    /\ Alive(x) => Alive(f[i])
           S == {i \in Nat : i \in 0 .. n => OK(i)}
<1>2. 0 \in S
  <2>1. \A k \in 1 .. 0 : FALSE
    OBVIOUS
  <2> QED BY <1>1, <2>1 DEF SameKept, Tree
<1>3. ASSUME NEW i \in 0 .. (n - 1), i \in S PROVE i + 1 \in S
  <2>1. i + 1 \in 1 .. n /\ (i + 1) - 1 = i /\ i \in 0 .. n /\ i + 1 \in Nat
    BY <1>0
  <2>2. OK(i)
    BY <1>3, <2>1
  <2>3. f[i + 1] = FlushEntry(f[i], Table[i + 1], force) /\ Table[i + 1] \in InFile
    BY <1>0, <1>1, <2>1
  <2>4. /\ f[i + 1] \in Record /\ Counts(f[i + 1], e) /\ SameKept(f[i], f[i + 1])
        /\ f[i + 1].cached \subseteq f[i].cached
        /\ force => Table[i + 1] \notin f[i + 1].cached
        /\ e["catalog"] > 0 => Tree(f[i], f[i + 1])
        /\ Alive(f[i]) => Alive(f[i + 1])
    BY <2>2, <2>3, FlushEntryCounts
  <2>5. e["catalog"] > 0 => Tree(x, f[i + 1])
    BY <2>2, <2>4 DEF Tree
  <2>6. force => \A k \in 1 .. (i + 1) : Table[k] \notin f[i + 1].cached
    <3>1. \A k : k \in 1 .. (i + 1) <=> k \in 1 .. i \/ k = i + 1
      BY <2>1
    <3> QED BY <2>2, <2>4, <3>1
  <2>7. OK(i + 1)
    BY <2>2, <2>4, <2>5, <2>6 DEF SameKept
  <2> QED BY <2>1, <2>7
<1> HIDE DEF S
<1>4. 0 .. n \subseteq S
  BY <1>0, <1>2, <1>3, UpTo
<1>5. OK(n)
  BY <1>0, <1>4 DEF S
<1>6. force => f[n].cached = {}
  <2>1. f[n].cached \subseteq InFile
    BY <1>5 DEF Record
  <2> QED BY <1>0, <1>5, <2>1
<1> QED BY <1>1, <1>5, <1>6

\* A length that is put right changes the object it is put into, and nothing else.
LEMMA CorrectLengthCounts ==
  ASSUME NEW x \in Record, NEW e \in Outside, Counts(x, e), NEW s \in InFile
  PROVE  LET y == CorrectLength(x, s)
         IN  /\ y \in Record /\ Counts(y, e)
             /\ y.keepers = x.keepers /\ y.store = x.store
             /\ Alive(x) => Alive(y)
<1> DEFINE y == CorrectLength(x, s)
           z == CacheObject(x, s)
           w == [z EXCEPT !.refs[s] = @ + 1, !.corrected = @ \cup {s}]
<1>1. CASE s \notin WrongLength \cup DOMAIN LengthObj
  <2>1. y = x
    BY <1>1 DEF CorrectLength
  <2> QED BY <2>1
<1>2. CASE s \in WrongLength \cup DOMAIN LengthObj
  <2>1. y = Drop(w, s)
    BY <1>2 DEF CorrectLength
  <2>2. /\ z \in Record /\ Counts(z, e) /\ MoreOf(x, z) /\ z.resolved = x.resolved
    BY CacheObjectCounts
  <2>3. s \in Obj
    BY DEF Obj
  <2> HIDE DEF y, z
  <2>4. /\ w \in Record
        /\ w.cached = z.cached /\ w.resolved = z.resolved /\ w.keepers = z.keepers
        /\ w.store = z.store /\ w.refs = [z.refs EXCEPT ![s] = @ + 1]
    <3> DEFINE counts == [z.refs EXCEPT ![s] = @ + 1]
    <3>1. w = [z EXCEPT !.refs = counts, !.corrected = @ \cup {s}]
      OBVIOUS
    <3>2. counts \in [Obj -> Int]
      BY <2>2, <2>3 DEF Record
    <3> HIDE DEF counts, w
    <3>3. w \in Record
      BY <2>2, <2>3, <3>1, <3>2 DEF Record
    <3>4. /\ w.cached = z.cached /\ w.resolved = z.resolved /\ w.keepers = z.keepers
          /\ w.store = z.store /\ w.refs = counts
      BY <2>2, <3>1 DEF Record
    <3> QED BY <3>3, <3>4 DEF counts
  <2> HIDE DEF w
  <2>5. \A t \in Obj : w.refs[t] = (IF t = s THEN z.refs[t] + 1 ELSE z.refs[t]) /\ z.refs[t] \in Int
    BY <2>2, <2>4 DEF Record
  <2>6. ASSUME NEW t \in Obj
        PROVE  w.refs[t] = Cardinality(Into(w, t)) + (IF t \in w.cached THEN 1 ELSE 0)
                             + e[t] + (IF t = s THEN 1 ELSE 0)
    <3>1. Into(w, t) = Into(z, t) /\ Into(z, t) \in SUBSET Ref
      BY <2>2, <2>4 DEF Into, Record
    <3>2. z.refs[t] = Cardinality(Into(z, t)) + (IF t \in z.cached THEN 1 ELSE 0) + e[t]
      BY <2>2 DEF Counts
    <3>3. Cardinality(Into(z, t)) \in Nat /\ e[t] \in Nat
      BY <3>1, RefsAreCounted DEF Outside
    <3> QED BY <2>4, <2>5, <3>1, <3>2, <3>3
  <2>7. /\ y \in Record /\ Counts(y, e) /\ SameKept(w, y)
        /\ Alive(w) => Alive(y)
    BY <2>1, <2>3, <2>4, <2>6, DropCounts
  <2>8. ASSUME Alive(x) PROVE Alive(w)
    <3>1. \A o \in Obj : x.refs[o] <= w.refs[o]
      <4> SUFFICES ASSUME NEW o \in Obj PROVE x.refs[o] <= w.refs[o]
        OBVIOUS
      <4>1. x.refs[o] <= z.refs[o] /\ x.refs[o] \in Int
        BY <2>2 DEF MoreOf, Record
      <4> QED BY <2>5, <4>1
    <3>2. w.keepers = x.keepers /\ w.resolved = x.resolved
      BY <2>2, <2>4 DEF MoreOf
    <3> QED BY <2>4, <2>8, <3>1, <3>2, ResolvingStaysAlive
  <2>9. y.keepers = x.keepers /\ y.store = x.store
    BY <2>2, <2>4, <2>7 DEF MoreOf, SameKept
  <2> QED BY <2>7, <2>8, <2>9 DEF y
<1> QED BY <1>1, <1>2

\* The counts of the trailer, the catalog and the info by the document itself.
Roots(ph) ==
  [o \in Obj |-> IF o = "trailer" /\ ph # "closed" THEN 1
                 ELSE IF o = "catalog" /\ ph = "open" THEN 1
                 ELSE IF o = "info" /\ o \notin Broken /\ ph = "open" THEN 1 ELSE 0]

\* A document of which nothing has been parsed or kept but the trailer.
Fresh == {x \in Record : /\ Counts(x, Roots("none")) /\ Alive(x)
                         /\ x.keepers = [r \in Ref |-> 0] /\ x.store = {}}

LEMMA RootsAreOutside == \A ph : Roots(ph) \in Outside
BY DEF Roots, Outside

LEMMA NumbersDiffer ==
  /\ "trailer" # "catalog" /\ "trailer" # "info" /\ "catalog" # "info"
  /\ "trailer" \in Obj
BY DEF Obj

LEMMA LoadedIsFresh == Loaded \in Fresh
<1>1. /\ Loaded.refs = [o \in Obj |-> IF o = "trailer" THEN 1 ELSE 0]
      /\ Loaded.cached = {} /\ Loaded.resolved = {}
      /\ Loaded.keepers = [r \in Ref |-> 0] /\ Loaded.store = {}
  BY DEF Loaded
<1>2. Loaded \in Record
  BY DEF Loaded, Record
<1>3. Counts(Loaded, Roots("none"))
  <2> SUFFICES ASSUME NEW o \in Obj
               PROVE  Loaded.refs[o] = Cardinality(Into(Loaded, o))
                                         + (IF o \in Loaded.cached THEN 1 ELSE 0) + Roots("none")[o]
    BY DEF Counts
  <2>1. Into(Loaded, o) = {} /\ o \notin Loaded.cached
    BY <1>1 DEF Into
  <2>2. Cardinality(Into(Loaded, o)) = 0
    BY <2>1, FS_EmptySet
  <2>3. Loaded.refs[o] = IF o = "trailer" THEN 1 ELSE 0
    BY <1>1
  <2>4. Roots("none")[o] = IF o = "trailer" THEN 1 ELSE 0
    BY DEF Roots
  <2> QED BY <2>1, <2>2, <2>3, <2>4
<1>4. Alive(Loaded)
  BY <1>1 DEF Alive
<1> QED BY <1>1, <1>2, <1>3, <1>4 DEF Fresh

\* A document that was repaired is as fresh as one that was not.
LEMMA RepairedIsFresh == Repaired \in Fresh
<1> DEFINE n == Len(Table)
           step == [v \in Fresh \X (1 .. n) |-> CorrectLength(v[1], Table[v[2]])]
           Is(f) == f = [i \in 0 .. n |-> IF i = 0 THEN Loaded ELSE CorrectLength(f[i - 1], Table[i])]
<1>0. n \in Nat /\ \A i \in 1 .. n : Table[i] \in InFile
  BY PdfAssumption
<1>1. ASSUME NEW v \in Fresh, NEW i \in 1 .. n
      PROVE  step[<<v, i>>] = CorrectLength(v, Table[i]) /\ step[<<v, i>>] \in Fresh
  <2>1. step[<<v, i>>] = CorrectLength(v, Table[i])
    OBVIOUS
  <2> HIDE DEF step
  <2>2. /\ CorrectLength(v, Table[i]) \in Record /\ Counts(CorrectLength(v, Table[i]), Roots("none"))
        /\ CorrectLength(v, Table[i]).keepers = v.keepers
        /\ CorrectLength(v, Table[i]).store = v.store
        /\ Alive(v) => Alive(CorrectLength(v, Table[i]))
    BY <1>0, CorrectLengthCounts, RootsAreOutside DEF Fresh
  <2> QED BY <2>1, <2>2 DEF Fresh
<1>2. PICK g : Iterates(g, Fresh, Loaded, n, step)
  <2> HIDE DEF step, n
  <2> QED BY <1>0, <1>1, LoadedIsFresh, Recursion, Zenon
<1> HIDE DEF step
<1>3. /\ g \in [0 .. n -> Fresh] /\ g[0] = Loaded
      /\ \A i \in 1 .. n : g[i] = CorrectLength(g[i - 1], Table[i])
  <2>1. /\ g \in [0 .. n -> Fresh] /\ g[0] = Loaded
        /\ \A i \in 1 .. n : g[i] = step[<<g[i - 1], i>>]
    BY <1>2 DEF Iterates
  <2>2. \A i \in 1 .. n : i - 1 \in 0 .. n
    BY <1>0
  <2> QED BY <1>1, <2>1, <2>2
<1> HIDE DEF n
<1>4. Is(g)
  <2>1. \A i \in 0 .. n : i # 0 => i \in 1 .. n
    BY <1>0
  <2> QED BY <1>3, <2>1
<1>5. Repaired = (CHOOSE f : Is(f))[n]
  BY DEF Repaired, n
<1>6. PICK f : Is(f) /\ Repaired = f[n]
  <2>1. Is(CHOOSE f : Is(f))
    BY <1>4, Zenon
  <2> QED BY <1>5, <2>1
<1>7. 0 \in 0 .. n /\ \A i \in 1 .. n : i \in 0 .. n /\ i # 0
  BY <1>0
<1>8. f[0] = Loaded /\ \A i \in 1 .. n : f[i] = CorrectLength(f[i - 1], Table[i])
  <2>1. \A i \in 0 .. n : f[i] = IF i = 0 THEN Loaded ELSE CorrectLength(f[i - 1], Table[i])
    BY <1>6
  <2> HIDE DEF Is
  <2> QED BY <1>7, <2>1
<1> DEFINE S == {i \in Nat : i \in 0 .. n => f[i] \in Fresh}
<1>9. 0 \in S
  BY <1>8, LoadedIsFresh
<1>10. ASSUME NEW i \in 0 .. (n - 1), i \in S PROVE i + 1 \in S
  <2>1. i + 1 \in 1 .. n /\ (i + 1) - 1 = i /\ i \in 0 .. n /\ i + 1 \in Nat
    BY <1>0
  <2>2. f[i] \in Fresh /\ f[i + 1] = CorrectLength(f[i], Table[i + 1])
    BY <1>8, <1>10, <2>1
  <2>3. f[i + 1] \in Fresh
    BY <1>1, <2>1, <2>2
  <2> QED BY <2>1, <2>3
<1> HIDE DEF S
<1>11. 0 .. n \subseteq S
  BY <1>0, <1>9, <1>10, UpTo
<1> QED BY <1>0, <1>6, <1>11 DEF S
-----------------------------------------------------------------------------
(* Interpreting a page *)

\* The store may have taken references, and each counts for their keeping.
UsedMore(x, y) ==
  /\ y.corrected = x.corrected
  /\ x.resolved \subseteq y.resolved /\ x.store \subseteq y.store
  /\ \A o \in Obj : x.refs[o] <= y.refs[o]
  /\ \A k \in Ref : y.keepers[k] = x.keepers[k] + (IF k \in y.store \ x.store THEN 1 ELSE 0)

LEMMA UsedMoreTransitive ==
  ASSUME NEW x \in Record, NEW y \in Record, NEW z \in Record, UsedMore(x, y), UsedMore(y, z)
  PROVE  UsedMore(x, z)
<1>1. /\ z.corrected = x.corrected
      /\ x.resolved \subseteq z.resolved /\ x.store \subseteq z.store
  BY DEF UsedMore
<1>2. \A o \in Obj : x.refs[o] <= z.refs[o]
  <2>1. \A o \in Obj : x.refs[o] \in Int /\ y.refs[o] \in Int /\ z.refs[o] \in Int
    BY DEF Record
  <2> QED BY <2>1 DEF UsedMore
<1>3. ASSUME NEW k \in Ref
      PROVE  z.keepers[k] = x.keepers[k] + (IF k \in z.store \ x.store THEN 1 ELSE 0)
  <2>1. x.keepers[k] \in Int
    BY DEF Record
  <2>2. y.keepers[k] = x.keepers[k] + (IF k \in y.store \ x.store THEN 1 ELSE 0)
    BY DEF UsedMore
  <2>3. z.keepers[k] = y.keepers[k] + (IF k \in z.store \ y.store THEN 1 ELSE 0)
    BY DEF UsedMore
  <2>4. x.store \subseteq y.store /\ y.store \subseteq z.store
    BY DEF UsedMore
  <2>5. CASE k \in x.store
    BY <2>1, <2>2, <2>3, <2>4, <2>5
  <2>6. CASE k \notin x.store /\ k \in y.store
    BY <2>1, <2>2, <2>3, <2>4, <2>6
  <2>7. CASE k \notin y.store
    BY <2>1, <2>2, <2>3, <2>4, <2>7
  <2> QED BY <2>5, <2>6, <2>7
<1> QED BY <1>1, <1>2, <1>3 DEF UsedMore

LEMMA MoreIsUsedMore ==
  ASSUME NEW x \in Record, NEW y \in Record, MoreOf(x, y)
  PROVE  UsedMore(x, y)
<1>1. \A k \in Ref : y.keepers[k] = x.keepers[k] + (IF k \in y.store \ x.store THEN 1 ELSE 0)
  <2>1. \A k \in Ref : x.keepers[k] \in Int
    BY DEF Record
  <2>2. y.keepers = x.keepers /\ y.store \ x.store = {}
    BY DEF MoreOf
  <2> QED BY <2>1, <2>2
<1> QED BY <1>1 DEF MoreOf, UsedMore

LEMMA UseFontCounts ==
  ASSUME NEW x \in Record, NEW e \in Outside, Counts(x, e), NEW r \in Ref
  PROVE  LET y == UseFont(x, r)
         IN  /\ y \in Record /\ Counts(y, e) /\ UsedMore(x, y)
             /\ y.store \subseteq x.store \cup {r} /\ y.resolved \subseteq x.resolved \cup {r}
<1> DEFINE y == UseFont(x, r)
           z == Resolve(x, r)
<1>1. /\ z \in Record /\ Counts(z, e) /\ MoreOf(x, z) /\ z.resolved \subseteq x.resolved \cup {r}
  BY ResolveCounts
<1>2. UsedMore(x, z) /\ z.store = x.store
  BY <1>1, MoreIsUsedMore DEF MoreOf
<1>3. CASE \E k \in z.store : k[2] = r[2]
  <2>1. y = z
    BY <1>3 DEF UseFont
  <2> HIDE DEF y, z
  <2> QED BY <1>1, <1>2, <2>1 DEF y
<1>4. CASE ~ \E k \in z.store : k[2] = r[2]
  <2> DEFINE keeps == [z.keepers EXCEPT ![r] = @ + 1]
  <2>1. y = KeepRef([z EXCEPT !.store = @ \cup {r}], r)
    BY <1>4 DEF UseFont
  <2> HIDE DEF z
  <2>2. y = [z EXCEPT !.store = @ \cup {r}, !.keepers = keeps]
    BY <1>1, <2>1 DEF KeepRef, Record
  <2>3. keeps \in [Ref -> Int] /\ \A k \in Ref : keeps[k] = IF k = r THEN z.keepers[k] + 1 ELSE z.keepers[k]
    BY <1>1 DEF Record
  <2> HIDE DEF y, keeps
  <2>4. /\ y \in Record
        /\ y.refs = z.refs /\ y.cached = z.cached /\ y.resolved = z.resolved
        /\ y.corrected = z.corrected /\ y.store = z.store \cup {r} /\ y.keepers = keeps
    BY <1>1, <2>2, <2>3 DEF Record
  <2>5. Counts(y, e)
    BY <1>1, <2>4, SameBooks
  <2>6. r \notin z.store
    BY <1>4
  <2>7. UsedMore(z, y)
    <3>1. \A o \in Obj : z.refs[o] <= y.refs[o]
      BY <1>1, <2>4 DEF Record
    <3>2. ASSUME NEW k \in Ref
          PROVE  y.keepers[k] = z.keepers[k] + (IF k \in y.store \ z.store THEN 1 ELSE 0)
      <4>1. k \in y.store \ z.store <=> k = r
        BY <2>4, <2>6
      <4>2. z.keepers[k] \in Int
        BY <1>1 DEF Record
      <4> QED BY <2>3, <2>4, <4>1, <4>2
    <3> QED BY <2>4, <3>1, <3>2 DEF UsedMore
  <2>8. UsedMore(x, y)
    BY <1>1, <1>2, <2>4, <2>7, UsedMoreTransitive
  <2> QED BY <1>1, <1>2, <2>4, <2>5, <2>8 DEF y
<1> QED BY <1>3, <1>4

LEMMA FontRefTypes ==
  ASSUME NEW p \in Page
  PROVE  /\ DOMAIN Fonts[p] = 1 .. Len(Fonts[p]) /\ Len(Fonts[p]) \in Nat
         /\ FontRefs(p) \in SUBSET Ref
<1>1. Fonts[p] \in Seq(InFile)
  BY PdfAssumption
<1>2. FontRefs(p) \in SUBSET Ref
  BY DEF Ref
<1> QED BY <1>1, <1>2

LEMMA UseFontsLoop ==
  ASSUME NEW e \in Outside, NEW x \in Books(e), NEW p \in Page, NEW n \in 0 .. Len(Fonts[p])
  PROVE  \E f : /\ f[0] = x /\ UseFonts(x, p, n) = f[n]
                /\ \A i \in 1 .. n :
                     f[i] = UseFont(f[i - 1], <<ResObj[p], Fonts[p][i]>>)
<1> DEFINE r(i) == <<ResObj[p], Fonts[p][i]>>
           step == [v \in Books(e) \X (1 .. n) |-> UseFont(v[1], r(v[2]))]
           Is(f) == f = [i \in 0 .. n |-> IF i = 0 THEN x ELSE UseFont(f[i - 1], r(i))]
<1>0. n \in Nat /\ \A i \in 1 .. n : r(i) \in Ref
  BY FontRefTypes DEF FontRefs
<1>1. ASSUME NEW v \in Books(e), NEW i \in 1 .. n
      PROVE  step[<<v, i>>] = UseFont(v, r(i)) /\ step[<<v, i>>] \in Books(e)
  <2>1. step[<<v, i>>] = UseFont(v, r(i))
    OBVIOUS
  <2> HIDE DEF step, r
  <2>2. UseFont(v, r(i)) \in Books(e)
    BY <1>0, UseFontCounts DEF Books
  <2> QED BY <2>1, <2>2
<1>2. PICK g : Iterates(g, Books(e), x, n, step)
  <2> HIDE DEF step, r
  <2> QED BY <1>0, <1>1, Recursion, Zenon
<1> HIDE DEF step
<1>3. /\ g \in [0 .. n -> Books(e)] /\ g[0] = x
      /\ \A i \in 1 .. n : g[i] = UseFont(g[i - 1], r(i))
  <2>1. /\ g \in [0 .. n -> Books(e)] /\ g[0] = x
        /\ \A i \in 1 .. n : g[i] = step[<<g[i - 1], i>>]
    BY <1>2 DEF Iterates
  <2>2. \A i \in 1 .. n : i - 1 \in 0 .. n
    BY <1>0
  <2> HIDE DEF r
  <2> QED BY <1>1, <2>1, <2>2
<1>4. Is(g)
  <2>1. \A i \in 0 .. n : i # 0 => i \in 1 .. n
    BY <1>0
  <2> QED BY <1>3, <2>1
<1>5. UseFonts(x, p, n) = (CHOOSE f : Is(f))[n]
  BY DEF UseFonts
<1> HIDE DEF r
<1>6. PICK f : Is(f) /\ UseFonts(x, p, n) = f[n]
  <2>1. Is(CHOOSE f : Is(f))
    BY <1>4, Zenon
  <2> QED BY <1>5, <2>1
<1>7. 0 \in 0 .. n /\ \A i \in 1 .. n : i \in 0 .. n /\ i # 0
  BY <1>0
<1>8. f[0] = x /\ \A i \in 1 .. n : f[i] = UseFont(f[i - 1], r(i))
  <2>1. \A i \in 0 .. n : f[i] = IF i = 0 THEN x ELSE UseFont(f[i - 1], r(i))
    BY <1>6
  <2> HIDE DEF Is
  <2> QED BY <1>7, <2>1
<1> QED BY <1>6, <1>8 DEF r

LEMMA UseFontsCounts ==
  ASSUME NEW x \in Record, NEW e \in Outside, Counts(x, e), NEW p \in Page, NEW n \in 0 .. Len(Fonts[p])
  PROVE  LET y == UseFonts(x, p, n)
         IN  /\ y \in Record /\ Counts(y, e) /\ UsedMore(x, y)
             /\ y.store \subseteq x.store \cup FontRefs(p)
             /\ y.resolved \subseteq x.resolved \cup FontRefs(p)
<1> DEFINE r(i) == <<ResObj[p], Fonts[p][i]>>
<1>0. n \in Nat /\ (\A i \in 1 .. n : r(i) \in Ref /\ r(i) \in FontRefs(p)) /\ x \in Books(e)
  BY FontRefTypes DEF FontRefs, Books
<1>1. PICK f : /\ f[0] = x /\ UseFonts(x, p, n) = f[n]
               /\ \A i \in 1 .. n : f[i] = UseFont(f[i - 1], r(i))
  BY <1>0, UseFontsLoop
<1> HIDE DEF r
<1> DEFINE OK(i) == /\ f[i] \in Record /\ Counts(f[i], e) /\ UsedMore(x, f[i])
                    /\ f[i].store \subseteq x.store \cup FontRefs(p)
                    /\ f[i].resolved \subseteq x.resolved \cup FontRefs(p)
           S == {i \in Nat : i \in 0 .. n => OK(i)}
<1>2. 0 \in S
  <2>1. MoreOf(x, x)
    <3>1. \A o \in Obj : x.refs[o] <= x.refs[o]
      BY DEF Record
    <3> QED BY <3>1 DEF MoreOf
  <2> QED BY <1>1, <2>1, MoreIsUsedMore
<1>3. ASSUME NEW i \in 0 .. (n - 1), i \in S PROVE i + 1 \in S
  <2>1. i + 1 \in 1 .. n /\ (i + 1) - 1 = i /\ i \in 0 .. n /\ i + 1 \in Nat
    BY <1>0
  <2>2. OK(i)
    BY <1>3, <2>1
  <2>3. f[i + 1] = UseFont(f[i], r(i + 1)) /\ r(i + 1) \in Ref /\ r(i + 1) \in FontRefs(p)
    BY <1>0, <1>1, <2>1
  <2>4. /\ f[i + 1] \in Record /\ Counts(f[i + 1], e) /\ UsedMore(f[i], f[i + 1])
        /\ f[i + 1].store \subseteq f[i].store \cup {r(i + 1)}
        /\ f[i + 1].resolved \subseteq f[i].resolved \cup {r(i + 1)}
    BY <2>2, <2>3, UseFontCounts
  <2>5. UsedMore(x, f[i + 1])
    BY <2>2, <2>4, UsedMoreTransitive
  <2>6. OK(i + 1)
    BY <2>2, <2>3, <2>4, <2>5
  <2> QED BY <2>1, <2>6
<1> HIDE DEF S
<1>4. 0 .. n \subseteq S
  BY <1>0, <1>2, <1>3, UpTo
<1>5. OK(n)
  BY <1>0, <1>4 DEF S
<1> QED BY <1>1, <1>5
-----------------------------------------------------------------------------
(* Opening and closing *)

LEMMA CatalogIsThere ==
  /\ "catalog" \in Obj /\ "pages" \in Obj /\ "trailer" \in Obj /\ "info" \in Obj
  /\ <<"trailer", "catalog">> \in Ref /\ <<"catalog", "pages">> \in Ref
  /\ <<"trailer", "info">> \in Ref
  /\ "catalog" \notin Broken /\ "pages" \notin Broken
<1>1. /\ <<"trailer", "catalog">> \in Ref /\ <<"catalog", "pages">> \in Ref
      /\ <<"trailer", "info">> \in Ref
  BY DEF Ref
<1>2. /\ <<"catalog", "pages">>[1] = "catalog" /\ <<"catalog", "pages">>[2] = "pages"
      /\ <<"trailer", "info">>[2] = "info"
  OBVIOUS
<1>3. "catalog" \notin Broken /\ "pages" \notin Broken
  BY PdfAssumption
<1> QED BY <1>1, <1>2, <1>3, RefTypes, NumbersDiffer

\* A count from outside more.
LEMMA CountedOnce ==
  ASSUME NEW x \in Record, NEW e \in Outside, NEW f \in Outside, NEW c \in Obj, Counts(x, e),
         \A o \in Obj : f[o] = e[o] + (IF o = c THEN 1 ELSE 0)
  PROVE  LET y == [x EXCEPT !.refs[c] = @ + 1]
         IN  /\ y \in Record /\ Counts(y, f) /\ MoreOf(x, y)
             /\ y.cached = x.cached /\ y.resolved = x.resolved
<1> DEFINE y == [x EXCEPT !.refs[c] = @ + 1]
           counts == [x.refs EXCEPT ![c] = @ + 1]
<1>1. y = [x EXCEPT !.refs = counts]
  OBVIOUS
<1>2. counts \in [Obj -> Int]
  BY DEF Record
<1> HIDE DEF counts, y
<1>3. y \in Record
  BY <1>1, <1>2 DEF Record
<1>4. /\ y.cached = x.cached /\ y.resolved = x.resolved /\ y.keepers = x.keepers
      /\ y.store = x.store /\ y.corrected = x.corrected /\ y.refs = counts
  BY <1>1 DEF Record
<1>5. \A o \in Obj : /\ y.refs[o] = IF o = c THEN x.refs[o] + 1 ELSE x.refs[o]
                     /\ x.refs[o] \in Int
  BY <1>4 DEF Record, counts
<1>6. Counts(y, f)
  <2> SUFFICES ASSUME NEW o \in Obj
               PROVE  y.refs[o] = Cardinality(Into(y, o)) + (IF o \in y.cached THEN 1 ELSE 0) + f[o]
    BY DEF Counts
  <2>1. Into(y, o) = Into(x, o) /\ Into(x, o) \in SUBSET Ref
    BY <1>4 DEF Into, Record
  <2>2. x.refs[o] = Cardinality(Into(x, o)) + (IF o \in x.cached THEN 1 ELSE 0) + e[o]
    BY DEF Counts
  <2>3. Cardinality(Into(x, o)) \in Nat /\ e[o] \in Nat /\ f[o] = e[o] + (IF o = c THEN 1 ELSE 0)
    BY <2>1, RefsAreCounted DEF Outside
  <2> QED BY <1>4, <1>5, <2>1, <2>2, <2>3
<1>7. MoreOf(x, y)
  <2>1. \A o \in Obj : x.refs[o] <= y.refs[o]
    BY <1>5
  <2> QED BY <1>4, <2>1 DEF MoreOf
<1> QED BY <1>3, <1>4, <1>6, <1>7 DEF y

LEMMA OpenRootCounts ==
  ASSUME NEW x \in Fresh
  PROVE  LET y == OpenRoot(x)
         IN  /\ y \in Record /\ Counts(y, Roots("open")) /\ Alive(y)
             /\ y.keepers = [r \in Ref |-> 0] /\ y.store = {}
<1> DEFINE r == <<"trailer", "catalog">>
           i == <<"trailer", "info">>
           z == Resolve(x, r)
           w == [z EXCEPT !.refs["catalog"] = @ + 1]
           v == Resolve(w, i)
           y == OpenRoot(x)
           e == [o \in Obj |-> IF o \in {"trailer", "catalog"} THEN 1 ELSE 0]
<1>1. /\ x \in Record /\ Counts(x, Roots("none")) /\ Alive(x)
      /\ x.keepers = [k \in Ref |-> 0] /\ x.store = {}
  BY DEF Fresh
<1>2. /\ e \in Outside /\ Roots("none") \in Outside /\ Roots("open") \in Outside
      /\ \A o \in Obj :
           /\ e[o] = Roots("none")[o] + (IF o = "catalog" THEN 1 ELSE 0)
           /\ "info" \in Broken => Roots("open")[o] = e[o]
           /\ "info" \notin Broken => Roots("open")[o] = e[o] + (IF o = "info" THEN 1 ELSE 0)
  BY NumbersDiffer, RootsAreOutside DEF Roots, Outside
<1> HIDE DEF e
<1>3. /\ z \in Record /\ Counts(z, Roots("none")) /\ MoreOf(x, z)
      /\ z.resolved \subseteq x.resolved \cup {r}
  BY <1>1, <1>2, CatalogIsThere, ResolveCounts
<1> HIDE DEF z
<1>4. /\ w \in Record /\ Counts(w, e) /\ MoreOf(z, w) /\ w.resolved = z.resolved
  BY <1>2, <1>3, CatalogIsThere, CountedOnce
<1> HIDE DEF w
<1>5. /\ v \in Record /\ Counts(v, e) /\ MoreOf(w, v) /\ v.resolved \subseteq w.resolved \cup {i}
  BY <1>2, <1>4, CatalogIsThere, ResolveCounts
<1>6. y = IF "info" \in Broken THEN v ELSE [v EXCEPT !.refs["info"] = @ + 1]
  BY DEF OpenRoot, OpenInfo, v, w, z
<1> HIDE DEF v, y
<1>7. /\ y \in Record /\ Counts(y, Roots("open")) /\ MoreOf(v, y) /\ y.resolved = v.resolved
  <2>1. CASE "info" \in Broken
    <3>1. \A o \in Obj : v.refs[o] <= v.refs[o]
      BY <1>5 DEF Record
    <3>2. Counts(v, Roots("open"))
      BY <1>2, <1>5, <2>1 DEF Counts
    <3> QED BY <1>5, <1>6, <2>1, <3>1, <3>2 DEF MoreOf
  <2>2. CASE "info" \notin Broken
    BY <1>2, <1>5, <1>6, <2>2, CatalogIsThere, CountedOnce
  <2> QED BY <2>1, <2>2
<1>8. MoreOf(x, y)
  BY <1>1, <1>3, <1>4, <1>5, <1>7, MoreOfTransitive
<1>9. Alive(y)
  <2>1. y.refs["trailer"] > 0
    <3>1. y.refs["trailer"] \in Nat /\ y.refs["trailer"] >= Roots("open")["trailer"]
      BY <1>2, <1>7, CatalogIsThere, CountsAreSafe
    <3>2. Roots("open")["trailer"] = 1
      BY CatalogIsThere DEF Roots
    <3> QED BY <3>1, <3>2
  <2>2. \A k \in y.resolved : k \notin x.resolved => k[1] = "trailer"
    BY <1>3, <1>4, <1>5, <1>7
  <2>3. y.keepers = x.keepers /\ \A o \in Obj : x.refs[o] <= y.refs[o]
    BY <1>8 DEF MoreOf
  <2> QED BY <1>1, <1>7, <2>1, <2>2, <2>3, ResolvingStaysAlive
<1>10. y.keepers = [k \in Ref |-> 0] /\ y.store = {}
  BY <1>1, <1>8 DEF MoreOf
<1> QED BY <1>7, <1>9, <1>10 DEF y

\* What PdfDocument_free makes of a document.
Closing(x) == CloseXref(CloseStore(x))

LEMMA ClosingCounts ==
  ASSUME NEW x \in Record, Counts(x, Roots("open"))
  PROVE  LET y == Closing(x)
         IN  /\ y \in Record /\ Counts(y, Roots("closed"))
             /\ y.cached = {} /\ y.store = {}
             /\ \A r \in Ref : y.keepers[r] = IF r \in x.store THEN x.keepers[r] - 1 ELSE x.keepers[r]
             /\ Alive(x) => Alive(y)
<1> DEFINE a == [x EXCEPT !.store = {}]
           b == CloseStore(x)
           c == Flush(b, TRUE)
           d == Drop(c, "trailer")
           g == Drop(d, "catalog")
           y == IF "info" \in Broken THEN g ELSE Drop(g, "info")
           e == [o \in Obj |-> IF o = "catalog" \/ (o = "info" /\ o \notin Broken) THEN 1 ELSE 0]
           f == [o \in Obj |-> IF o = "info" /\ o \notin Broken THEN 1 ELSE 0]
<1>0. /\ Roots("open") \in Outside /\ Roots("closed") \in Outside
      /\ e \in Outside /\ f \in Outside
  BY RootsAreOutside DEF Outside
<1>1. /\ a \in Record /\ a.store = {} /\ a.keepers = x.keepers
      /\ a.refs = x.refs /\ a.cached = x.cached /\ a.resolved = x.resolved
  BY DEF Record
<1>2. b = DropRefs(a, x.store) /\ x.store \in SUBSET Ref
  BY DEF CloseStore, Record
<1> HIDE DEF a, b
<1>3. Counts(a, Roots("open")) /\ (Alive(x) => Alive(a))
  BY <1>1, SameBooks DEF Alive
<1>4. /\ b \in Record /\ Counts(b, Roots("open")) /\ b.store = {}
      /\ \A r \in Ref : b.keepers[r] = IF r \in x.store THEN x.keepers[r] - 1 ELSE x.keepers[r]
      /\ Alive(a) => Alive(b)
  BY <1>0, <1>1, <1>2, <1>3, DropRefsCounts
<1>5. /\ c \in Record /\ Counts(c, Roots("open")) /\ SameKept(b, c) /\ c.cached = {}
      /\ Alive(b) => Alive(c)
  BY <1>0, <1>4, FlushCounts
<1> HIDE DEF c
<1>6. \A o \in Obj :
        /\ Roots("open")[o] = e[o] + (IF o = "trailer" THEN 1 ELSE 0)
        /\ e[o] = f[o] + (IF o = "catalog" THEN 1 ELSE 0)
        /\ "info" \notin Broken => f[o] = Roots("closed")[o] + (IF o = "info" THEN 1 ELSE 0)
        /\ "info" \in Broken => f[o] = Roots("closed")[o]
        /\ e[o] \in Nat /\ f[o] \in Nat /\ Roots("closed")[o] \in Nat
  BY NumbersDiffer DEF Roots
<1> HIDE DEF e, f
\* One of the document's own counts is dropped.
<1>7. ASSUME NEW v \in Record, NEW m \in Outside, NEW n \in Outside, NEW k \in Obj, Counts(v, m),
             \A o \in Obj : m[o] = n[o] + (IF o = k THEN 1 ELSE 0)
      PROVE  /\ Drop(v, k) \in Record /\ Counts(Drop(v, k), n)
             /\ SameKept(v, Drop(v, k)) /\ Drop(v, k).cached = v.cached
             /\ Alive(v) => Alive(Drop(v, k))
  <2>1. ASSUME NEW o \in Obj
        PROVE  v.refs[o] = Cardinality(Into(v, o)) + (IF o \in v.cached THEN 1 ELSE 0)
                             + n[o] + (IF o = k THEN 1 ELSE 0)
    <3>1. v.refs[o] = Cardinality(Into(v, o)) + (IF o \in v.cached THEN 1 ELSE 0) + m[o]
      BY <1>7 DEF Counts
    <3>2. Cardinality(Into(v, o)) \in Nat /\ n[o] \in Nat /\ m[o] = n[o] + (IF o = k THEN 1 ELSE 0)
      BY <1>7, RefsAreCounted DEF Into, Record, Outside
    <3> QED BY <3>1, <3>2
  <2> QED BY <2>1, DropCounts
<1>8. /\ d \in Record /\ Counts(d, e) /\ SameKept(c, d) /\ d.cached = c.cached
      /\ Alive(c) => Alive(d)
  BY <1>0, <1>5, <1>6, <1>7, CatalogIsThere
<1> HIDE DEF d
<1>9. /\ g \in Record /\ Counts(g, f) /\ SameKept(d, g) /\ g.cached = d.cached
      /\ Alive(d) => Alive(g)
  BY <1>0, <1>6, <1>7, <1>8, CatalogIsThere
<1> HIDE DEF g
<1>10. /\ y \in Record /\ Counts(y, Roots("closed")) /\ SameKept(g, y) /\ y.cached = g.cached
       /\ Alive(g) => Alive(y)
  <2>1. CASE "info" \in Broken
    <3>1. Counts(g, Roots("closed"))
      BY <1>6, <1>9, <2>1 DEF Counts
    <3> QED BY <1>9, <2>1, <3>1 DEF SameKept
  <2>2. CASE "info" \notin Broken
    BY <1>0, <1>6, <1>7, <1>9, <2>2, CatalogIsThere
  <2> QED BY <2>1, <2>2
<1>11. Closing(x) = y
  BY DEF Closing, CloseXref, g, d, c, b
<1> HIDE DEF y
<1>12. y.cached = {} /\ y.keepers = b.keepers /\ y.store = {}
  BY <1>4, <1>5, <1>8, <1>9, <1>10 DEF SameKept
<1>13. Alive(x) => Alive(y)
  BY <1>3, <1>4, <1>5, <1>8, <1>9, <1>10
<1> QED BY <1>4, <1>10, <1>11, <1>12, <1>13
-----------------------------------------------------------------------------
(* What the steps make of an open document *)

LEMMA OpenCounts ==
  /\ Roots("open") \in Outside
  /\ Roots("open")["catalog"] > 0 /\ Roots("open")["trailer"] > 0
  /\ Roots("failed") = Roots("none")
BY RootsAreOutside, CatalogIsThere, NumbersDiffer DEF Roots

LEMMA MoreIsTree ==
  ASSUME NEW x \in Record, NEW y \in Record, MoreOf(x, y) \/ UsedMore(x, y)
  PROVE  Tree(x, y)
BY DEF MoreOf, UsedMore, Tree

\* What is resolved of living containers lives.
LEMMA ReadingStaysAlive ==
  ASSUME NEW x \in Record, NEW y \in Record, Alive(x), MoreOf(x, y),
         \A r \in y.resolved : r \notin x.resolved => y.refs[r[1]] > 0
  PROVE  Alive(y)
<1>1. \A o \in Obj : x.refs[o] <= y.refs[o]
  BY DEF MoreOf
<1>2. y.keepers = x.keepers
  BY DEF MoreOf
<1> QED BY <1>1, <1>2, ResolvingStaysAlive

LEMMA RootRead ==
  ASSUME NEW x \in Record, Counts(x, Roots("open"))
  PROVE  LET y == Resolve(x, <<"catalog", "pages">>)
         IN  /\ y \in Record /\ Counts(y, Roots("open")) /\ MoreOf(x, y)
             /\ <<"catalog", "pages">> \in y.resolved
             /\ Alive(x) => Alive(y)
<1> DEFINE r == <<"catalog", "pages">>
           y == Resolve(x, r)
<1>1. /\ y \in Record /\ Counts(y, Roots("open")) /\ MoreOf(x, y)
      /\ y.resolved = x.resolved \cup {r}
  BY CatalogIsThere, OpenCounts, ResolveCounts
<1> HIDE DEF y
<1>2. y.refs["catalog"] > 0
  <2>1. y.refs["catalog"] \in Nat /\ y.refs["catalog"] >= Roots("open")["catalog"]
    BY <1>1, CatalogIsThere, OpenCounts, CountsAreSafe
  <2>2. Roots("open")["catalog"] \in Nat
    BY OpenCounts, CatalogIsThere DEF Outside
  <2> QED BY <2>1, <2>2, OpenCounts
<1>3. \A k \in y.resolved : k \notin x.resolved => k[1] = "catalog"
  BY <1>1
<1>4. Alive(x) => Alive(y)
  BY <1>1, <1>2, <1>3, ReadingStaysAlive
<1> QED BY <1>1, <1>4 DEF y

LEMMA KidRefsAreRefs ==
  ASSUME NEW n \in 1 .. NumPages
  PROVE  /\ KidRefs(n) \in Seq(Ref)
         /\ DOMAIN KidRefs(n) = 1 .. n
         /\ \A i \in 1 .. n : KidRefs(n)[i][1] = "pages" /\ KidRefs(n)[i][2] \notin Broken
         /\ \A q \in 0 .. (n - 1) : \E i \in 1 .. n : KidRefs(n)[i] = <<"pages", PageObj[q]>>
<1>0. NumPages \in Nat \ {0} /\ n \in Nat
  BY PdfAssumption
<1>1. KidRefs(n) = [i \in 1 .. n |-> <<"pages", PageObj[i - 1]>>]
  BY DEF KidRefs
<1>2. \A i \in 1 .. n : <<"pages", PageObj[i - 1]>> \in Ref /\ PageObj[i - 1] \notin Broken
  <2>1. \A i \in 1 .. n : i - 1 \in Page
    BY <1>0 DEF Page
  <2>2. \A p \in Page : <<"pages", PageObj[p]>> \in Ref
    BY DEF Ref
  <2>3. \A p \in Page : PageObj[p] \notin Broken
    BY PdfAssumption
  <2> QED BY <2>1, <2>2, <2>3
<1>3. KidRefs(n) \in Seq(Ref) /\ DOMAIN KidRefs(n) = 1 .. n
  BY <1>0, <1>1, <1>2
<1>4. \A i \in 1 .. n : KidRefs(n)[i] = <<"pages", PageObj[i - 1]>>
  BY <1>1
<1>5. \A q \in 0 .. (n - 1) : q + 1 \in 1 .. n /\ (q + 1) - 1 = q
  BY <1>0
<1> DEFINE rs == KidRefs(n)
<1> HIDE DEF rs
<1>6. \A i \in 1 .. n : rs[i][1] = "pages" /\ rs[i][2] \notin Broken
  BY <1>2, <1>4 DEF rs
<1>7. \A q \in 0 .. (n - 1) : \E i \in 1 .. n : rs[i] = <<"pages", PageObj[q]>>
  <2> SUFFICES ASSUME NEW q \in 0 .. (n - 1)
               PROVE  \E i \in 1 .. n : rs[i] = <<"pages", PageObj[q]>>
    OBVIOUS
  <2>1. q + 1 \in 1 .. n /\ rs[q + 1] = <<"pages", PageObj[(q + 1) - 1]>>
    BY <1>4, <1>5 DEF rs
  <2> QED BY <1>5, <2>1
<1> QED BY <1>3, <1>6, <1>7 DEF rs

LEMMA KidsRead ==
  ASSUME NEW x \in Record, Counts(x, Roots("open")), <<"catalog", "pages">> \in x.resolved,
         NEW n \in 1 .. NumPages
  PROVE  LET y == ResolveAll(x, KidRefs(n))
         IN  /\ y \in Record /\ Counts(y, Roots("open")) /\ MoreOf(x, y)
             /\ \A q \in 0 .. (n - 1) : <<"pages", PageObj[q]>> \in y.resolved
             /\ Alive(x) => Alive(y)
<1> DEFINE rs == KidRefs(n)
           y == ResolveAll(x, rs)
<1>0. /\ rs \in Seq(Ref) /\ DOMAIN rs = 1 .. n
      /\ \A i \in 1 .. n : rs[i][1] = "pages" /\ rs[i][2] \notin Broken
      /\ \A q \in 0 .. (n - 1) : \E i \in 1 .. n : rs[i] = <<"pages", PageObj[q]>>
  BY KidRefsAreRefs
<1> HIDE DEF rs
<1>1. /\ y \in Record /\ Counts(y, Roots("open")) /\ MoreOf(x, y)
      /\ y.resolved = x.resolved \cup {rs[i] : i \in DOMAIN rs}
  BY <1>0, OpenCounts, ResolveAllCounts
<1> HIDE DEF y
<1>2. y.refs["pages"] > 0
  <2>1. <<"catalog", "pages">> \in y.resolved /\ <<"catalog", "pages">>[2] = "pages"
    BY <1>1
  <2> QED BY <1>1, <2>1, OpenCounts, CountsAreSafe
<1>3. \A k \in y.resolved : k \notin x.resolved => k[1] = "pages"
  BY <1>0, <1>1
<1>4. Alive(x) => Alive(y)
  BY <1>1, <1>2, <1>3, ReadingStaysAlive
<1>5. \A q \in 0 .. (n - 1) : <<"pages", PageObj[q]>> \in y.resolved
  BY <1>0, <1>1
<1> QED BY <1>1, <1>4, <1>5 DEF y, rs

LEMMA LengthRead ==
  ASSUME NEW x \in Record, NEW e \in Outside, Counts(x, e), NEW s \in InFile
  PROVE  LET y == ReadLength(x, s)
         IN  /\ y \in Record /\ Counts(y, e) /\ MoreOf(x, y)
             /\ s \in x.cached /\ Alive(x) => Alive(y)
<1> DEFINE y == ReadLength(x, s)
           r == <<s, LengthObj[s]>>
<1>1. CASE ~ (s \in DOMAIN LengthObj /\ s \notin x.corrected)
  <2>1. y = x
    BY <1>1 DEF ReadLength
  <2>2. \A o \in Obj : x.refs[o] <= x.refs[o]
    BY DEF Record
  <2> QED BY <2>1, <2>2 DEF MoreOf
<1>2. CASE s \in DOMAIN LengthObj /\ s \notin x.corrected
  <2>1. y = Resolve(x, r) /\ r \in Ref
    <3>1. y = Resolve(x, r)
      BY <1>2 DEF ReadLength
    <3>2. r \in LengthRefs
      BY <1>2 DEF LengthRefs
    <3> HIDE DEF y, r
    <3>3. r \in Ref
      BY <3>2 DEF Ref
    <3> QED BY <3>1, <3>3
  <2> HIDE DEF y
  <2>2. /\ y \in Record /\ Counts(y, e) /\ MoreOf(x, y) /\ y.resolved \subseteq x.resolved \cup {r}
    BY <2>1, ResolveCounts
  <2>3. ASSUME s \in x.cached, Alive(x) PROVE Alive(y)
    <3>1. y.refs[s] > 0
      BY <2>2, <2>3, CountsAreSafe DEF MoreOf
    <3>2. \A k \in y.resolved : k \notin x.resolved => k[1] = s
      BY <2>2
    <3> QED BY <2>2, <2>3, <3>1, <3>2, ReadingStaysAlive
  <2> QED BY <2>2, <2>3 DEF y
<1> QED BY <1>1, <1>2

\* Who keeps a reference is nobody's count.
LEMMA Kept ==
  ASSUME NEW x \in Record, NEW r \in Ref
  PROVE  LET y == KeepRef(x, r)
         IN  /\ y \in Record /\ y.pos = x.pos
             /\ y.refs = x.refs /\ y.cached = x.cached /\ y.resolved = x.resolved
             /\ y.store = x.store /\ y.corrected = x.corrected
             /\ \A k \in Ref : y.keepers[k] = IF k = r THEN x.keepers[k] + 1 ELSE x.keepers[k]
             /\ \A e : Counts(x, e) => Counts(y, e)
<1> DEFINE y == KeepRef(x, r)
           keeps == [x.keepers EXCEPT ![r] = @ + 1]
<1>1. y = [x EXCEPT !.keepers = keeps]
  BY DEF KeepRef
<1>2. keeps \in [Ref -> Int] /\ \A k \in Ref : keeps[k] = IF k = r THEN x.keepers[k] + 1 ELSE x.keepers[k]
  BY DEF Record
<1> HIDE DEF y, keeps
<1>3. /\ y \in Record /\ y.pos = x.pos
      /\ y.refs = x.refs /\ y.cached = x.cached /\ y.resolved = x.resolved
      /\ y.store = x.store /\ y.corrected = x.corrected /\ y.keepers = keeps
  BY <1>1, <1>2 DEF Record
<1>4. \A e : Counts(x, e) => Counts(y, e)
  BY <1>3, SameBooks
<1> QED BY <1>2, <1>3, <1>4 DEF y
-----------------------------------------------------------------------------
(* The books are kept by every step, of however many threads. *)

\* A thread that reads streams has one to read.
StreamsLeft == \A t \in Thread : pc[t] \in {"cache", "seek", "read"} => todo[t] # <<>>

\* Before a document is open nothing has been counted or opened in it, and no thread is
\* inside it.
NothingYet ==
  phase \in {"none", "failed"} =>
    /\ ~ counted /\ \A p \in Page : opened[p] = 0
    /\ \A t \in Thread : pc[t] = "idle"

BaseInv == TypeOK /\ Counts(xref, Roots(phase)) /\ StreamsLeft /\ NothingYet

\* What a step must make of the document.
Booked ==
  /\ xref' \in Record /\ Counts(xref', Roots(phase'))
  /\ phase = "open" /\ phase' = "open" => Tree(xref, xref')

LEMMA RefsOfPage ==
  ASSUME NEW p \in Page
  PROVE  /\ ResRef(p) \in Ref /\ (Len(Contents[p]) = 1 => ContentRef(p) \in Ref)
         /\ p \in DOMAIN AnnotObj => AnnotRef(p) \in Ref /\ LinkRef(p) \in Ref
         /\ PageRefs(p) \in SUBSET Ref
<1>1. ResRef(p) \in Ref /\ (Len(Contents[p]) = 1 => ContentRef(p) \in Ref)
  BY DEF Ref
<1>2. p \in DOMAIN AnnotObj => AnnotRef(p) \in Ref /\ LinkRef(p) \in Ref
  BY DEF Ref
<1>3. PageRefs(p) \in SUBSET Ref
  BY <1>1, <1>2 DEF PageRefs, HasLink
<1> QED BY <1>1, <1>2, <1>3

LEMMA OpenBooked == ASSUME BaseInv, PdfDocument_open PROVE Booked
<1>1. phase = "none" /\ xref \in Record /\ Counts(xref, Roots("none"))
  BY DEF BaseInv, TypeOK, Record, PdfDocument_open
<1>2. CASE phase' = "open" /\ xref' \in {OpenRoot(Loaded), OpenRoot(Repaired)}
  <2>1. \E x \in Fresh : xref' = OpenRoot(x)
    BY <1>2, LoadedIsFresh, RepairedIsFresh
  <2> QED BY <1>1, <1>2, <2>1, OpenRootCounts DEF Booked
<1>3. CASE phase' = "failed" /\ xref' = xref
  BY <1>1, <1>3, OpenCounts DEF Booked
<1> QED BY <1>2, <1>3 DEF PdfDocument_open

LEMMA FreeBooked == ASSUME BaseInv, PdfDocument_free PROVE Booked
<1>1. phase = "open" /\ xref \in Record /\ Counts(xref, Roots("open"))
  BY DEF BaseInv, TypeOK, Record, PdfDocument_free
<1>2. phase' = "closed" /\ xref' = Closing(xref)
  BY DEF PdfDocument_free, Closing
<1> QED BY <1>1, <1>2, ClosingCounts DEF Booked

LEMMA TreeTransitive == ASSUME NEW x, NEW y, NEW z, Tree(x, y), Tree(y, z) PROVE Tree(x, z)
BY DEF Tree

\* Letting go of references, after some reading.
LEMMA LetGoBooked ==
  ASSUME NEW x \in Record, phase \in {"none", "open", "failed", "closed"},
         Counts(x, Roots(phase)), phase = "open" => Tree(xref, x),
         NEW rs \in SUBSET Ref, phase' = phase, xref' = DropRefs(x, rs)
  PROVE  Booked
<1>1. Roots(phase) \in Outside
  BY RootsAreOutside
<1>2. /\ xref' \in Record /\ Counts(xref', Roots(phase))
      /\ Roots(phase)["catalog"] > 0 => Tree(x, xref')
  BY <1>1, DropRefsCounts
<1>3. phase = "open" => Tree(xref, xref')
  BY <1>2, OpenCounts, TreeTransitive
<1> QED BY <1>2, <1>3 DEF Booked

LEMMA FlushBooked ==
  ASSUME BaseInv, NEW t \in Thread, NEW p \in Page, FlushXref(t, p) PROVE Booked
<1>1. /\ phase = "open" /\ phase' = phase /\ xref' = Flush(xref, FALSE)
      /\ xref \in Record /\ Counts(xref, Roots("open")) /\ Roots("open") \in Outside
  BY RootsAreOutside DEF BaseInv, TypeOK, Record, FlushXref, At
<1>2. /\ xref' \in Record /\ Counts(xref', Roots("open"))
      /\ Roots("open")["catalog"] > 0 => Tree(xref, xref')
  BY <1>1, FlushCounts
<1> QED BY <1>1, <1>2, OpenCounts DEF Booked

\* What is in the table of x is in that of y.
TableGrows(x, y) == x.cached \subseteq y.cached

\* What counting the pages makes of a document.
LEMMA PageCountRead ==
  ASSUME NEW x \in Record, Counts(x, Roots("open")), NEW y,
         y = LET z == ResolveAll(Resolve(x, <<"catalog", "pages">>), KidRefs(NumPages))
             IN  IF Count(z) # NumPages THEN [z EXCEPT !.corrected = @ \cup {"pages"}] ELSE z
  PROVE  /\ y \in Record /\ Counts(y, Roots("open")) /\ Tree(x, y)
         /\ y.keepers = x.keepers /\ y.store = x.store /\ TableGrows(x, y)
         /\ <<"catalog", "pages">> \in y.resolved
         /\ FileCount # NumPages => "pages" \in y.corrected
         /\ Alive(x) => Alive(y)
<1> DEFINE w == Resolve(x, <<"catalog", "pages">>)
           z == ResolveAll(w, KidRefs(NumPages))
<1>1. /\ w \in Record /\ Counts(w, Roots("open")) /\ MoreOf(x, w)
      /\ <<"catalog", "pages">> \in w.resolved /\ (Alive(x) => Alive(w))
  BY RootRead
<1>2. NumPages \in 1 .. NumPages
  BY PdfAssumption
<1> HIDE DEF w
<1>3. /\ z \in Record /\ Counts(z, Roots("open")) /\ MoreOf(w, z) /\ (Alive(w) => Alive(z))
  BY <1>1, <1>2, KidsRead
<1>4. y = IF Count(z) # NumPages THEN [z EXCEPT !.corrected = @ \cup {"pages"}] ELSE z
  BY DEF w
<1> HIDE DEF z
<1>5. MoreOf(x, z) /\ (Alive(x) => Alive(z)) /\ <<"catalog", "pages">> \in z.resolved
  BY <1>1, <1>3, MoreOfTransitive DEF MoreOf
<1>6. /\ y \in Record
      /\ y.refs = z.refs /\ y.cached = z.cached /\ y.resolved = z.resolved
      /\ y.keepers = z.keepers /\ y.store = z.store
      /\ z.corrected \subseteq y.corrected
      /\ Count(z) # NumPages => "pages" \in y.corrected
  BY <1>3, <1>4, CatalogIsThere DEF Record
<1>7. Counts(y, Roots("open"))
  BY <1>3, <1>6, SameBooks
<1>8. Tree(x, y)
  BY <1>5, <1>6 DEF Tree, MoreOf
<1>9. FileCount # NumPages => "pages" \in y.corrected
  BY <1>6 DEF Count
<1>10. Alive(x) => Alive(y)
  BY <1>5, <1>6 DEF Alive
<1> QED BY <1>5, <1>6, <1>7, <1>8, <1>9, <1>10 DEF MoreOf, TableGrows

\* What a thread knows that goes on in an open document.
LEMMA InOpen ==
  ASSUME BaseInv, NEW t \in Thread, phase = "open"
  PROVE  /\ page[t] \in Page /\ todo[t] \in Seq(InFile)
         /\ xref \in Record /\ Counts(xref, Roots("open"))
         /\ pc[t] \in {"cache", "seek", "read"} => todo[t] # <<>> /\ Head(todo[t]) \in InFile
<1>1. /\ page[t] \in Page /\ todo[t] \in Seq(InFile)
      /\ xref \in Record /\ Counts(xref, Roots("open"))
  BY DEF BaseInv, TypeOK, Record
<1>2. pc[t] \in {"cache", "seek", "read"} => todo[t] # <<>>
  BY DEF BaseInv, StreamsLeft
<1> QED BY <1>1, <1>2, TakeFirst

\* What finding a page makes of the document.
LEMMA PageFound ==
  ASSUME BaseInv, NEW t \in Thread, FindPage(t)
  PROVE  /\ xref' \in Record /\ Counts(xref', Roots("open")) /\ MoreOf(xref, xref')
         /\ phase = "open" /\ phase' = "open"
         /\ <<"catalog", "pages">> \in xref'.resolved
         /\ <<"pages", PageObj[page[t]]>> \in xref'.resolved
         /\ Alive(xref) => Alive(xref')
<1> DEFINE y == Resolve(xref, <<"catalog", "pages">>)
<1>1. /\ phase = "open" /\ phase' = "open" /\ page[t] \in Page
      /\ xref \in Record /\ Counts(xref, Roots("open"))
  BY InOpen DEF FindPage, At, docVars
<1>2. /\ y \in Record /\ Counts(y, Roots("open")) /\ MoreOf(xref, y)
      /\ <<"catalog", "pages">> \in y.resolved /\ (Alive(xref) => Alive(y))
  BY <1>1, RootRead
<1>3. xref' = ResolveAll(y, KidRefs(page[t] + 1))
  BY DEF FindPage
<1> HIDE DEF y
<1>4. page[t] + 1 \in 1 .. NumPages /\ page[t] \in 0 .. ((page[t] + 1) - 1)
  BY <1>1, PdfAssumption DEF Page
<1>5. /\ xref' \in Record /\ Counts(xref', Roots("open")) /\ MoreOf(y, xref')
      /\ \A q \in 0 .. ((page[t] + 1) - 1) : <<"pages", PageObj[q]>> \in xref'.resolved
      /\ Alive(y) => Alive(xref')
  BY <1>2, <1>3, <1>4, KidsRead
<1>6. MoreOf(xref, xref')
  BY <1>1, <1>2, <1>5, MoreOfTransitive
<1>7. <<"catalog", "pages">> \in xref'.resolved
  BY <1>2, <1>5 DEF MoreOf
<1> QED BY <1>1, <1>2, <1>4, <1>5, <1>6, <1>7

LEMMA PageNotFound ==
  ASSUME BaseInv, NEW t \in Thread, PageMissing(t)
  PROVE  /\ xref' \in Record /\ Counts(xref', Roots("open")) /\ MoreOf(xref, xref')
         /\ phase = "open" /\ phase' = "open"
         /\ <<"catalog", "pages">> \in xref'.resolved
         /\ Alive(xref) => Alive(xref')
<1>1. /\ phase = "open" /\ phase' = "open"
      /\ xref \in Record /\ Counts(xref, Roots("open"))
      /\ xref' = Resolve(xref, <<"catalog", "pages">>)
  BY InOpen DEF PageMissing, At, Fail
<1> QED BY <1>1, RootRead

\* What is added by reading, to the records and to those who keep references.
Added(x, y, kept) ==
  /\ y.store = x.store /\ y.corrected = x.corrected
  /\ x.cached \subseteq y.cached /\ x.resolved \subseteq y.resolved
  /\ \A o \in Obj : x.refs[o] <= y.refs[o]
  /\ \A k \in Ref : y.keepers[k] = x.keepers[k] + (IF k \in kept THEN 1 ELSE 0)

LEMMA AddedMore ==
  ASSUME NEW x \in Record, NEW y \in Record, NEW z \in Record, NEW kept,
         Added(x, y, kept), MoreOf(y, z)
  PROVE  Added(x, z, kept)
<1>1. \A o \in Obj : x.refs[o] \in Int /\ y.refs[o] \in Int /\ z.refs[o] \in Int
  BY DEF Record
<1>2. \A o \in Obj : x.refs[o] <= z.refs[o]
  BY <1>1 DEF Added, MoreOf
<1> QED BY <1>2 DEF Added, MoreOf

LEMMA AddedKeeper ==
  ASSUME NEW x \in Record, NEW y \in Record, NEW kept, NEW r \in Ref, r \notin kept,
         Added(x, y, kept)
  PROVE  Added(x, KeepRef(y, r), kept \cup {r})
<1> DEFINE z == KeepRef(y, r)
<1>1. /\ z.refs = y.refs /\ z.cached = y.cached /\ z.resolved = y.resolved
      /\ z.store = y.store /\ z.corrected = y.corrected
      /\ \A k \in Ref : z.keepers[k] = IF k = r THEN y.keepers[k] + 1 ELSE y.keepers[k]
  BY Kept
<1> HIDE DEF z
<1>2. \A k \in Ref : x.keepers[k] \in Int
  BY DEF Record
<1>3. \A k \in Ref : z.keepers[k] = x.keepers[k] + (IF k \in kept \cup {r} THEN 1 ELSE 0)
  BY <1>1, <1>2 DEF Added
<1> QED BY <1>1, <1>3 DEF Added, z

LEMMA NothingAdded == ASSUME NEW x \in Record PROVE Added(x, x, {}) /\ MoreOf(x, x)
<1>1. \A o \in Obj : x.refs[o] <= x.refs[o]
  BY DEF Record
<1>2. \A k \in Ref : x.keepers[k] = x.keepers[k] + 0
  BY DEF Record
<1> QED BY <1>1, <1>2 DEF Added, MoreOf

\* What loading the annotations makes of it.
LEMMA AnnotsLoaded ==
  ASSUME NEW x \in Record, Counts(x, Roots("open")), NEW p \in Page
  PROVE  LET y == LoadAnnots(x, p)
         IN  /\ y \in Record /\ Counts(y, Roots("open"))
             /\ Added(x, y, IF HasLink(p) THEN {LinkRef(p)} ELSE {})
             /\ \A r \in y.resolved : r \notin x.resolved =>
                  r[1] = PageObj[p] \/ (HasLink(p) /\ r = LinkRef(p))
             /\ HasLink(p) => AnnotRef(p) \in y.resolved
<1> DEFINE y == LoadAnnots(x, p)
           a == Resolve(x, AnnotRef(p))
           b == Resolve(a, LinkRef(p))
<1>1. CASE p \notin DOMAIN AnnotObj
  <2>1. y = x /\ ~ HasLink(p)
    BY <1>1 DEF LoadAnnots, HasLink
  <2> QED BY <2>1, NothingAdded
<1>2. CASE p \in DOMAIN AnnotObj
  <2>1. AnnotRef(p) \in Ref /\ LinkRef(p) \in Ref /\ AnnotRef(p)[1] = PageObj[p]
        /\ AnnotRef(p)[2] = AnnotObj[p]
    BY <1>2, RefsOfPage DEF AnnotRef
  <2>2. /\ a \in Record /\ Counts(a, Roots("open")) /\ MoreOf(x, a)
        /\ a.resolved \subseteq x.resolved \cup {AnnotRef(p)}
        /\ HasLink(p) => AnnotRef(p) \in a.resolved
    BY <2>1, OpenCounts, ResolveCounts DEF HasLink
  <2>3. y = IF HasLink(p) THEN KeepRef(b, LinkRef(p)) ELSE a
    BY <1>2 DEF LoadAnnots
  <2> HIDE DEF a
  <2>4. Added(x, a, {})
    BY <2>2, NothingAdded, AddedMore
  <2>5. CASE ~ HasLink(p)
    BY <2>1, <2>2, <2>3, <2>4, <2>5
  <2>6. CASE HasLink(p)
    <3>1. /\ b \in Record /\ Counts(b, Roots("open")) /\ MoreOf(a, b)
          /\ b.resolved \subseteq a.resolved \cup {LinkRef(p)}
      BY <2>1, <2>2, OpenCounts, ResolveCounts
    <3> HIDE DEF b
    <3>2. Added(x, b, {})
      BY <2>2, <2>4, <3>1, AddedMore
    <3>3. y = KeepRef(b, LinkRef(p)) /\ {} \cup {LinkRef(p)} = {LinkRef(p)}
      BY <2>3, <2>6
    <3> HIDE DEF y
    <3>4. /\ y \in Record /\ Counts(y, Roots("open")) /\ y.resolved = b.resolved
          /\ Added(x, y, {LinkRef(p)})
      <4>1. y \in Record /\ Counts(y, Roots("open")) /\ y.resolved = b.resolved
        BY <2>1, <3>1, <3>3, Kept
      <4>2. Added(x, y, {} \cup {LinkRef(p)})
        BY <2>1, <3>1, <3>2, <3>3, AddedKeeper
      <4> QED BY <3>3, <4>1, <4>2
    <3>5. AnnotRef(p) \in y.resolved
      BY <2>2, <2>6, <3>1, <3>4 DEF MoreOf
    <3>6. \A r \in y.resolved : r \notin x.resolved => r[1] = PageObj[p] \/ r = LinkRef(p)
      BY <2>1, <2>2, <3>1, <3>4
    <3> QED BY <2>6, <3>4, <3>5, <3>6 DEF y
  <2> QED BY <2>5, <2>6
<1> QED BY <1>1, <1>2

\* A page has resources and annotations of its own.
LEMMA RefsDiffer ==
  ASSUME NEW p \in Page, NEW q \in Page
  PROVE  /\ ResRef(p) = ResRef(q) => p = q
         /\ PageRefs(p) \cap PageRefs(q) # {} => p = q
         /\ HasLink(q) => ResRef(p) # LinkRef(q)
         /\ PageRefs(p) \cap FontRefs(q) = {}
<1>1. /\ PageObj[p] = PageObj[q] => p = q
      /\ ResObj[q] # PageObj[p]
  BY PdfAssumption
<1>2. ASSUME p \in DOMAIN AnnotObj
      PROVE  /\ AnnotObj[p] # PageObj[q] /\ AnnotObj[p] # ResObj[q]
             /\ q \in DOMAIN AnnotObj /\ AnnotObj[p] = AnnotObj[q] => p = q
  BY <1>2, PdfAssumption
<1>3. q \in DOMAIN AnnotObj => AnnotObj[q] # PageObj[p]
  BY PdfAssumption
<1>4. ResRef(p) = ResRef(q) => p = q
  BY <1>1 DEF ResRef
<1>5. HasLink(q) => ResRef(p) # LinkRef(q)
  BY <1>3 DEF ResRef, LinkRef, HasLink
<1>6. HasLink(p) => ResRef(q) # LinkRef(p)
  BY <1>2 DEF ResRef, LinkRef, HasLink
<1>7. HasLink(p) /\ HasLink(q) /\ LinkRef(p) = LinkRef(q) => p = q
  BY <1>2 DEF LinkRef, HasLink
<1>8. PageRefs(p) \cap PageRefs(q) # {} => p = q
  BY <1>4, <1>5, <1>6, <1>7 DEF PageRefs
<1>9. \A r \in FontRefs(q) : r[1] = ResObj[q]
  BY DEF FontRefs
<1>10. ResRef(p)[1] = PageObj[p] /\ LinkRef(p)[1] = AnnotObj[p]
  BY DEF ResRef, LinkRef
<1>11. PageRefs(p) \cap FontRefs(q) = {}
  BY <1>1, <1>2, <1>9, <1>10 DEF PageRefs, HasLink
<1> QED BY <1>4, <1>5, <1>8, <1>11

LEMMA PageLoaded ==
  ASSUME BaseInv, NEW t \in Thread, LoadPage(t)
  PROVE  /\ xref' \in Record /\ Counts(xref', Roots("open"))
         /\ Added(xref, xref', PageRefs(page[t]))
         /\ \A r \in xref'.resolved : r \notin xref.resolved =>
              r[1] = PageObj[page[t]] \/ (HasLink(page[t]) /\ r = LinkRef(page[t]))
         /\ HasLink(page[t]) => AnnotRef(page[t]) \in xref'.resolved
         /\ phase = "open" /\ phase' = "open" /\ page[t] \in Page
<1> DEFINE p == page[t]
           a == LoadAnnots(xref, p)
           y == KeepRef(a, ResRef(p))
           links == IF HasLink(p) THEN {LinkRef(p)} ELSE {}
<1>1. /\ phase = "open" /\ phase' = "open" /\ p \in Page
      /\ xref \in Record /\ Counts(xref, Roots("open"))
      /\ xref' = IF Len(Contents[p]) = 1 THEN Resolve(y, ContentRef(p)) ELSE y
  BY InOpen DEF LoadPage, At
<1> HIDE DEF p
<1>2. ResRef(p) \in Ref /\ (Len(Contents[p]) = 1 => ContentRef(p) \in Ref)
      /\ ContentRef(p)[1] = PageObj[p]
  BY <1>1, RefsOfPage DEF ContentRef
<1>3. /\ a \in Record /\ Counts(a, Roots("open")) /\ Added(xref, a, links)
      /\ \A r \in a.resolved : r \notin xref.resolved =>
           r[1] = PageObj[p] \/ (HasLink(p) /\ r = LinkRef(p))
      /\ HasLink(p) => AnnotRef(p) \in a.resolved
  BY <1>1, AnnotsLoaded
<1>4. ResRef(p) \notin links /\ links \cup {ResRef(p)} = PageRefs(p)
  BY <1>1, RefsDiffer DEF PageRefs
<1> HIDE DEF a, links
<1>5. /\ y \in Record /\ Counts(y, Roots("open")) /\ Added(xref, y, PageRefs(p))
      /\ y.resolved = a.resolved
  <2>1. Added(xref, y, links \cup {ResRef(p)})
    BY <1>1, <1>2, <1>3, <1>4, AddedKeeper
  <2> QED BY <1>2, <1>3, <1>4, <2>1, Kept
<1> HIDE DEF y
<1>6. CASE Len(Contents[p]) # 1
  BY <1>1, <1>3, <1>5, <1>6 DEF p
<1>7. CASE Len(Contents[p]) = 1
  <2>1. /\ xref' \in Record /\ Counts(xref', Roots("open")) /\ MoreOf(y, xref')
        /\ xref'.resolved \subseteq y.resolved \cup {ContentRef(p)}
    BY <1>1, <1>2, <1>5, <1>7, OpenCounts, ResolveCounts
  <2>2. Added(xref, xref', PageRefs(p))
    BY <1>1, <1>5, <2>1, AddedMore
  <2>3. \A r \in xref'.resolved : r \notin xref.resolved =>
          r[1] = PageObj[p] \/ (HasLink(p) /\ r = LinkRef(p))
    BY <1>2, <1>3, <1>5, <2>1
  <2>4. HasLink(p) => AnnotRef(p) \in xref'.resolved
    BY <1>3, <1>5, <2>1 DEF MoreOf
  <2> QED BY <1>1, <2>1, <2>2, <2>3, <2>4 DEF p
<1> QED BY <1>6, <1>7

LEMMA StreamCached ==
  ASSUME BaseInv, NEW t \in Thread, CacheStream(t)
  PROVE  /\ xref' \in Record /\ Counts(xref', Roots("open")) /\ MoreOf(xref, xref')
         /\ xref'.resolved = xref.resolved /\ Head(todo[t]) \in xref'.cached
         /\ phase = "open" /\ phase' = "open"
<1>1. /\ phase = "open" /\ phase' = "open"
      /\ xref \in Record /\ Counts(xref, Roots("open")) /\ Head(todo[t]) \in InFile
      /\ xref' = CacheObject(xref, Head(todo[t])) /\ Head(todo[t]) \notin Broken
  BY InOpen DEF CacheStream, At, docVars
<1> QED BY <1>1, OpenCounts, CacheObjectCounts

LEMMA StreamSought ==
  ASSUME BaseInv, NEW t \in Thread, SeekStream(t)
  PROVE  /\ xref' \in Record /\ Counts(xref', Roots("open")) /\ MoreOf(xref, xref')
         /\ xref'.pos = Head(todo[t])
         /\ Head(todo[t]) \in xref.cached /\ Alive(xref) => Alive(xref')
         /\ phase = "open" /\ phase' = "open"
<1> DEFINE s == Head(todo[t])
           y == ReadLength(xref, s)
<1>1. /\ phase = "open" /\ phase' = "open" /\ s \in InFile
      /\ xref \in Record /\ Counts(xref, Roots("open"))
      /\ xref' = [y EXCEPT !.pos = s]
  BY InOpen DEF SeekStream, At, docVars
<1> HIDE DEF s
<1>2. /\ y \in Record /\ Counts(y, Roots("open")) /\ MoreOf(xref, y)
      /\ s \in xref.cached /\ Alive(xref) => Alive(y)
  BY <1>1, OpenCounts, LengthRead
<1> HIDE DEF y
<1>3. s \in Obj \cup {NoObj}
  BY <1>1 DEF Obj
<1>4. /\ xref' \in Record /\ xref'.pos = s
      /\ xref'.refs = y.refs /\ xref'.cached = y.cached /\ xref'.resolved = y.resolved
      /\ xref'.keepers = y.keepers /\ xref'.store = y.store /\ xref'.corrected = y.corrected
      /\ Counts(xref', Roots("open")) /\ (Alive(y) => Alive(xref'))
  BY <1>1, <1>2, <1>3, Positioned
<1>5. MoreOf(xref, xref')
  BY <1>2, <1>4 DEF MoreOf
<1> QED BY <1>1, <1>2, <1>4, <1>5 DEF s

LEMMA StreamRead ==
  ASSUME BaseInv, NEW t \in Thread, ReadStream(t)
  PROVE  /\ xref' \in Record /\ Counts(xref', Roots("open"))
         /\ xref'.refs = xref.refs /\ xref'.cached = xref.cached
         /\ xref'.resolved = xref.resolved /\ xref'.keepers = xref.keepers
         /\ xref'.store = xref.store /\ xref'.corrected = xref.corrected
         /\ Alive(xref) => Alive(xref')
         /\ phase = "open" /\ phase' = "open"
<1>1. /\ phase = "open" /\ phase' = "open"
      /\ xref \in Record /\ Counts(xref, Roots("open"))
      /\ xref' = [xref EXCEPT !.pos = NoObj]
  BY InOpen DEF ReadStream, At, docVars
<1>2. NoObj \in Obj \cup {NoObj}
  OBVIOUS
<1> QED BY <1>1, <1>2, Positioned

\* What the operators of a page make of the document, up to one of its fonts.
LEMMA PageRun ==
  ASSUME NEW x \in Record, Counts(x, Roots("open")), NEW p \in Page,
         NEW n \in 0 .. Len(Fonts[p]), n = 0 \/ ResObj[p] \notin Broken
  PROVE  LET y == Run(x, p, n)
         IN  /\ y \in Record /\ Counts(y, Roots("open")) /\ UsedMore(x, y)
             /\ y.resolved = x.resolved \/ ResRef(p) \in y.resolved
             /\ y.store \subseteq x.store \cup FontRefs(p)
             /\ y.resolved \subseteq x.resolved \cup {ResRef(p)} \cup FontRefs(p)
<1> DEFINE y == Run(x, p, n)
           a == Resolve(x, ResRef(p))
<1>1. CASE n = 0
  <2>1. y = x
    BY <1>1 DEF Run
  <2> QED BY <2>1, NothingAdded, MoreIsUsedMore
<1>2. CASE n # 0
  <2>1. y = UseFonts(a, p, n) /\ ResObj[p] \notin Broken
    BY <1>2 DEF Run
  <2>2. ResRef(p) \in Ref /\ ResRef(p)[2] = ResObj[p]
    BY RefsOfPage DEF ResRef
  <2>3. /\ a \in Record /\ Counts(a, Roots("open")) /\ MoreOf(x, a)
        /\ a.resolved = x.resolved \cup {ResRef(p)}
    BY <2>1, <2>2, OpenCounts, ResolveCounts
  <2> HIDE DEF a, y
  <2>4. /\ y \in Record /\ Counts(y, Roots("open")) /\ UsedMore(a, y)
        /\ y.store \subseteq a.store \cup FontRefs(p)
        /\ y.resolved \subseteq a.resolved \cup FontRefs(p)
    BY <2>1, <2>3, OpenCounts, UseFontsCounts
  <2>5. UsedMore(x, a) /\ a.store = x.store
    BY <2>3, MoreIsUsedMore DEF MoreOf
  <2>6. UsedMore(x, y)
    BY <2>3, <2>4, <2>5, UsedMoreTransitive
  <2>7. ResRef(p) \in y.resolved
    BY <2>3, <2>4 DEF UsedMore
  <2> QED BY <2>3, <2>4, <2>5, <2>6, <2>7 DEF y
<1> QED BY <1>1, <1>2

LEMMA PageInterpreted ==
  ASSUME BaseInv, NEW t \in Thread, Interpret(t)
  PROVE  /\ xref' \in Record /\ Counts(xref', Roots("open")) /\ UsedMore(xref, xref')
         /\ xref'.resolved = xref.resolved \/ ResRef(page[t]) \in xref'.resolved
         /\ xref'.store \subseteq xref.store \cup FontRefs(page[t])
         /\ xref'.resolved \subseteq xref.resolved \cup {ResRef(page[t])} \cup FontRefs(page[t])
         /\ phase = "open" /\ phase' = "open" /\ page[t] \in Page
<1> DEFINE p == page[t]
           n == Len(Fonts[p])
<1>1. /\ phase = "open" /\ phase' = "open" /\ p \in Page
      /\ xref \in Record /\ Counts(xref, Roots("open"))
      /\ ResObj[p] \in Broken => Fonts[p] = <<>>
      /\ xref' = IF Streams(p) = <<>> THEN xref ELSE Run(xref, p, n)
  BY InOpen DEF Interpret, At, docVars
<1>2. n \in 0 .. Len(Fonts[p]) /\ (n = 0 \/ ResObj[p] \notin Broken)
  BY <1>1, FontRefTypes
<1> HIDE DEF n
<1>3. CASE Streams(p) = <<>>
  BY <1>1, <1>3, NothingAdded, MoreIsUsedMore
<1>4. CASE Streams(p) # <<>>
  BY <1>1, <1>2, <1>4, PageRun
<1> QED BY <1>3, <1>4

\* What a load reads before it is given up.
LEMMA StreamFailed ==
  ASSUME BaseInv, NEW t \in Thread, StreamFails(t)
  PROVE  \E x \in Record :
           /\ Counts(x, Roots("open")) /\ MoreOf(xref, x) /\ GiveUp(t, x)
           /\ x.resolved = xref.resolved \/ pc[t] = "seek"
           /\ pc[t] = "seek" /\ Head(todo[t]) \in xref.cached /\ Alive(xref) => Alive(x)
           /\ phase = "open" /\ page[t] \in Page /\ pc[t] \in {"cache", "seek"}
<1> DEFINE s == Head(todo[t])
           a == CacheObject(xref, s)
           b == ReadLength(xref, s)
<1>1. /\ phase = "open" /\ pc[t] \in {"cache", "seek"}
      /\ \/ pc[t] = "cache" /\ GiveUp(t, a)
         \/ pc[t] = "seek" /\ GiveUp(t, b)
  BY DEF StreamFails, At
<1>2. s \in InFile /\ page[t] \in Page /\ xref \in Record /\ Counts(xref, Roots("open"))
  BY <1>1, InOpen
<1> HIDE DEF s
<1>3. /\ a \in Record /\ Counts(a, Roots("open")) /\ MoreOf(xref, a) /\ a.resolved = xref.resolved
  BY <1>2, OpenCounts, CacheObjectCounts
<1>4. /\ b \in Record /\ Counts(b, Roots("open")) /\ MoreOf(xref, b)
      /\ s \in xref.cached /\ Alive(xref) => Alive(b)
  BY <1>2, OpenCounts, LengthRead
<1> HIDE DEF a, b
<1>5. CASE pc[t] = "cache" /\ GiveUp(t, a)
  BY <1>1, <1>2, <1>3, <1>5
<1>6. CASE pc[t] = "seek" /\ GiveUp(t, b)
  BY <1>1, <1>2, <1>4, <1>6 DEF s
<1> QED BY <1>1, <1>5, <1>6

LEMMA InterpretFailed ==
  ASSUME BaseInv, NEW t \in Thread, InterpretFails(t)
  PROVE  \E x \in Record :
           /\ Counts(x, Roots("open")) /\ UsedMore(xref, x) /\ GiveUp(t, x)
           /\ x.resolved = xref.resolved \/ ResRef(page[t]) \in x.resolved
           /\ x.store \subseteq xref.store \cup FontRefs(page[t])
           /\ x.resolved \subseteq xref.resolved \cup {ResRef(page[t])} \cup FontRefs(page[t])
           /\ phase = "open" /\ page[t] \in Page /\ pc[t] = "run"
<1>1. phase = "open" /\ pc[t] = "run"
  BY DEF InterpretFails, At
<1>2. page[t] \in Page /\ xref \in Record /\ Counts(xref, Roots("open"))
  BY <1>1, InOpen
<1>3. PICK n \in 0 .. Len(Fonts[page[t]]) :
        (ResObj[page[t]] \in Broken => n = 0) /\ GiveUp(t, Run(xref, page[t], n))
  BY DEF InterpretFails
<1> DEFINE x == Run(xref, page[t], n)
<1>4. /\ x \in Record /\ Counts(x, Roots("open")) /\ UsedMore(xref, x)
      /\ x.resolved = xref.resolved \/ ResRef(page[t]) \in x.resolved
      /\ x.store \subseteq xref.store \cup FontRefs(page[t])
      /\ x.resolved \subseteq xref.resolved \cup {ResRef(page[t])} \cup FontRefs(page[t])
  BY <1>2, <1>3, PageRun
<1> QED BY <1>1, <1>2, <1>3, <1>4

\* A load that is given up lets its resources go.
LEMMA GivenUp ==
  ASSUME NEW x \in Record, Counts(x, Roots("open")), MoreOf(xref, x) \/ UsedMore(xref, x),
         NEW t \in Thread, page[t] \in Page, phase = "open", xref \in Record, GiveUp(t, x)
  PROVE  Booked
<1>1. phase' = phase /\ xref' = DropRefs(x, {ResRef(page[t])})
  BY DEF GiveUp, Fail
<1>2. {ResRef(page[t])} \in SUBSET Ref
  BY RefsOfPage
<1> QED BY <1>1, <1>2, MoreIsTree, LetGoBooked

LEMMA StepBooked == ASSUME BaseInv, [Next]_vars PROVE Booked
<1>0. xref \in Record /\ Counts(xref, Roots(phase))
      /\ phase \in {"none", "open", "failed", "closed"}
  BY DEF BaseInv, TypeOK, Record
<1>1. CASE PdfDocument_open
  BY <1>1, OpenBooked
<1>2. CASE PdfDocument_free
  BY <1>2, FreeBooked
<1>3. CASE \E p \in Page : PdfPage_free(p)
  <2>1. PICK p \in Page : PdfPage_free(p)
    BY <1>3
  <2>2. phase' = phase /\ xref' = DropRefs(xref, PageRefs(p)) /\ PageRefs(p) \in SUBSET Ref
    BY <2>1, RefsOfPage DEF PdfPage_free, docVars
  <2>3. Tree(xref, xref)
    BY DEF Tree
  <2> QED BY <1>0, <2>2, <2>3, LetGoBooked
<1>4. CASE \E p \in Page, t \in Thread : FlushXref(t, p)
  BY <1>4, FlushBooked
<1>5. CASE \E t \in Thread : PdfDocument_getPageCount(t)
  <2>1. PICK t \in Thread : PdfDocument_getPageCount(t)
    BY <1>5
  <2>2. phase = "open" /\ phase' = "open"
    BY <2>1 DEF PdfDocument_getPageCount
  <2>3. xref' = LET z == ResolveAll(Resolve(xref, <<"catalog", "pages">>), KidRefs(NumPages))
                IN  IF Count(z) # NumPages THEN [z EXCEPT !.corrected = @ \cup {"pages"}] ELSE z
    BY <2>1 DEF PdfDocument_getPageCount
  <2>4. xref' \in Record /\ Counts(xref', Roots("open")) /\ Tree(xref, xref')
    BY <1>0, <2>2, <2>3, PageCountRead
  <2> QED BY <2>2, <2>4 DEF Booked
<1>6. CASE \E t \in Thread : FindPage(t)
  BY <1>0, <1>6, PageFound, MoreIsTree DEF Booked
<1>7. CASE \E t \in Thread : PageMissing(t)
  BY <1>0, <1>7, PageNotFound, MoreIsTree DEF Booked
<1>8. CASE \E t \in Thread : LoadPage(t)
  <2>1. PICK t \in Thread : LoadPage(t)
    BY <1>8
  <2>2. /\ xref' \in Record /\ Counts(xref', Roots("open"))
        /\ Added(xref, xref', PageRefs(page[t])) /\ phase' = "open"
    BY <2>1, PageLoaded
  <2> QED BY <2>2 DEF Booked, Tree, Added
<1>9. CASE \E t \in Thread : BoundsMissing(t)
  <2>1. phase' = phase /\ xref' = xref
    BY <1>9 DEF BoundsMissing, Fail
  <2> QED BY <1>0, <2>1 DEF Booked, Tree
<1>10. CASE \E t \in Thread : CacheStream(t)
  BY <1>0, <1>10, StreamCached, MoreIsTree DEF Booked
<1>11. CASE \E t \in Thread : SeekStream(t)
  BY <1>0, <1>11, StreamSought, MoreIsTree DEF Booked
<1>12. CASE \E t \in Thread : ReadStream(t)
  BY <1>12, StreamRead DEF Booked, Tree
<1>13. CASE \E t \in Thread : StreamFails(t)
  BY <1>0, <1>13, StreamFailed, GivenUp
<1>14. CASE \E t \in Thread : Interpret(t)
  BY <1>0, <1>14, PageInterpreted, MoreIsTree DEF Booked
<1>15. CASE \E t \in Thread : InterpretFails(t)
  BY <1>0, <1>15, InterpretFailed, GivenUp
<1>16. CASE UNCHANGED vars
  BY <1>0, <1>16 DEF Booked, vars, docVars, Tree
<1> QED BY <1>1, <1>2, <1>3, <1>4, <1>5, <1>6, <1>7, <1>8, <1>9, <1>10, <1>11, <1>12, <1>13,
           <1>14, <1>15, <1>16 DEF Next

\* All but the document itself.
Control ==
  /\ phase \in {"none", "open", "failed", "closed"}
  /\ natives \subseteq {"doc", "renderer", "xref", "store", "lost page", "lost links"}
  /\ raced \in BOOLEAN /\ counted \in BOOLEAN
  /\ opened \in [Page -> Nat]
  /\ pc \in [Thread -> {"idle", "find", "load", "cache", "seek", "read", "run"}]
  /\ page \in [Thread -> Page]
  /\ todo \in [Thread -> Seq(InFile)]
  /\ StreamsLeft /\ NothingYet

LEMMA BaseParts == BaseInv <=> xref \in Record /\ Counts(xref, Roots(phase)) /\ Control
BY DEF BaseInv, TypeOK, Record, Control

LEMMA EmptyHasNothing == DOMAIN <<>> = {} /\ \A S : <<>> \in Seq(S)
OBVIOUS

\* When a stream that is not the last one has been read, others are left.
LEMMA OthersLeft ==
  ASSUME NEW S, NEW s \in Seq(S), s # <<>>
  PROVE  Tail(s) \in Seq(S) /\ (Len(s) # 1 => Tail(s) # <<>>)
<1>1. /\ Tail(s) \in Seq(S) /\ Len(s) \in Nat \ {0}
      /\ DOMAIN Tail(s) = 1 .. (Len(s) - 1)
  BY TakeFirst
<1>2. Tail(s) = <<>> => DOMAIN Tail(s) = {}
  BY EmptyHasNothing, Zenon
<1>3. 1 .. (Len(s) - 1) = {} => Len(s) = 1
  <2> DEFINE n == Len(s)
  <2>1. n \in Nat \ {0}
    BY <1>1
  <2> HIDE DEF n
  <2>2. 1 .. (n - 1) = {} => n = 1
    <3>1. n # 1 => 1 \in 1 .. (n - 1)
      BY <2>1
    <3> QED BY <3>1
  <2> QED BY <2>2 DEF n
<1>4. Tail(s) = <<>> => Len(s) = 1
  BY <1>1, <1>2, <1>3, Zenon
<1> QED BY <1>1, <1>4, Zenon

\* A load that fails takes its thread out.
LEMMA FailControl ==
  ASSUME Control, NEW t \in Thread, NEW lost \in SUBSET {"lost links"}, phase = "open",
         Fail(t, lost), todo' = todo \/ todo' = [todo EXCEPT ![t] = <<>>]
  PROVE  Control'
<1>1. /\ natives' = natives \cup lost \cup {"lost page"} /\ pc' = [pc EXCEPT ![t] = "idle"]
      /\ phase' = phase /\ raced' = raced /\ counted' = counted /\ opened' = opened /\ page' = page
  BY DEF Fail, Goto
<1>2. <<>> \in Seq(InFile)
  BY EmptyHasNothing, Zenon
<1> QED BY <1>1, <1>2 DEF Control, StreamsLeft, NothingYet

LEMMA GiveUpControl ==
  ASSUME Control, NEW t \in Thread, NEW x, phase = "open", GiveUp(t, x) PROVE Control'
BY FailControl DEF GiveUp

LEMMA OneMoreOpened ==
  ASSUME NEW p \in Page, opened \in [Page -> Nat], opened' = [opened EXCEPT ![p] = @ + 1]
  PROVE  opened' \in [Page -> Nat]
OBVIOUS

LEMMA OneLessOpened ==
  ASSUME NEW p \in Page, opened \in [Page -> Nat], opened[p] > 0, opened' = [opened EXCEPT ![p] = @ - 1]
  PROVE  opened' \in [Page -> Nat] /\ opened[p] # 0
<1>1. opened[p] - 1 \in Nat
  OBVIOUS
<1> QED BY <1>1

LEMMA StepControl == ASSUME Control, [Next]_vars PROVE Control'
<1> USE DEF Control, StreamsLeft, NothingYet
<1>1. CASE PdfDocument_open
  BY <1>1 DEF PdfDocument_open, threadVars
<1>2. CASE PdfDocument_free
  BY <1>2 DEF PdfDocument_free, threadVars
<1>3. CASE \E p \in Page : PdfPage_free(p)
  <2>1. PICK p \in Page : opened[p] > 0 /\ opened' = [opened EXCEPT ![p] = @ - 1]
                           /\ UNCHANGED <<docVars, threadVars>>
    BY <1>3 DEF PdfPage_free
  <2>2. opened' \in [Page -> Nat] /\ opened[p] # 0
    BY <2>1, OneLessOpened
  <2> QED BY <2>1, <2>2 DEF threadVars, docVars
<1>4. CASE \E p \in Page, t \in Thread : FlushXref(t, p)
  BY <1>4 DEF FlushXref, At, Goto
<1>5. CASE \E t \in Thread : PdfDocument_getPageCount(t)
  BY <1>5 DEF PdfDocument_getPageCount, threadVars
<1>6. CASE \E t \in Thread : FindPage(t)
  BY <1>6 DEF FindPage, At, Goto, docVars
<1>7. CASE \E t \in Thread : PageMissing(t) \/ BoundsMissing(t)
  BY <1>7, FailControl DEF PageMissing, BoundsMissing, At
<1>8. CASE \E t \in Thread : LoadPage(t)
  <2>1. PICK t \in Thread : LoadPage(t)
    BY <1>8
  <2>2. page[t] \in Page
    OBVIOUS
  <2> DEFINE s == Streams(page[t])
  <2>3. s \in Seq(InFile)
    <3>1. Contents[page[t]] \in Seq(InFile)
      BY <2>2, PdfAssumption
    <3> QED BY <3>1, EmptyHasNothing DEF Streams
  <2>4. /\ todo' = [todo EXCEPT ![t] = Streams(page[t])] /\ natives' = natives \cup {"store"}
        /\ pc' = [pc EXCEPT ![t] = IF Streams(page[t]) = <<>> THEN "run" ELSE "cache"]
        /\ phase' = phase /\ counted' = counted /\ raced' = raced
        /\ opened' = opened /\ page' = page
    BY <2>1 DEF LoadPage, Goto
  <2>5. phase = "open"
    BY <2>1 DEF LoadPage, At
  <2> QED BY <2>3, <2>4, <2>5
<1>9. CASE \E t \in Thread : CacheStream(t)
  BY <1>9 DEF CacheStream, At, Goto, docVars
<1>10. CASE \E t \in Thread : SeekStream(t)
  BY <1>10 DEF SeekStream, At, Goto, docVars
<1>11. CASE \E t \in Thread : ReadStream(t)
  <2>1. PICK t \in Thread : ReadStream(t)
    BY <1>11
  <2>2. todo[t] \in Seq(InFile) /\ todo[t] # <<>> /\ phase = "open"
    BY <2>1 DEF ReadStream, At
  <2>3. Tail(todo[t]) \in Seq(InFile) /\ (Len(todo[t]) # 1 => Tail(todo[t]) # <<>>)
    BY <2>2, OthersLeft
  <2>4. /\ todo' = [todo EXCEPT ![t] = Tail(todo[t])]
        /\ pc' = [pc EXCEPT ![t] = IF Len(todo[t]) = 1 THEN "run" ELSE "cache"]
        /\ UNCHANGED <<docVars, opened, page>>
    BY <2>1 DEF ReadStream, Goto
  <2> QED BY <2>2, <2>3, <2>4 DEF docVars
<1>12. CASE \E t \in Thread : StreamFails(t) \/ InterpretFails(t)
  BY <1>12, GiveUpControl DEF StreamFails, InterpretFails, At
<1>13. CASE \E t \in Thread : Interpret(t)
  <2>1. PICK t \in Thread : Interpret(t)
    BY <1>13
  <2>2. /\ opened' = [opened EXCEPT ![page[t]] = @ + 1] /\ pc' = [pc EXCEPT ![t] = "idle"]
        /\ UNCHANGED <<docVars, page, todo>> /\ phase = "open"
    BY <2>1 DEF Interpret, At, Goto
  <2>3. opened' \in [Page -> Nat]
    BY <2>2, OneMoreOpened
  <2> QED BY <2>2, <2>3 DEF docVars
<1>14. CASE UNCHANGED vars
  BY <1>14 DEF vars, docVars, threadVars
<1> QED BY <1>1, <1>2, <1>3, <1>4, <1>5, <1>6, <1>7, <1>8, <1>9, <1>10, <1>11, <1>12, <1>13, <1>14 DEF Next

LEMMA InitBase == Init => BaseInv
<1> SUFFICES ASSUME Init PROVE BaseInv
  OBVIOUS
<1>1. xref \in Record /\ Counts(xref, Roots(phase))
  BY LoadedIsFresh DEF Init, Fresh
<1>2. 0 \in Page /\ <<>> \in Seq(InFile)
  BY PdfAssumption DEF Page
<1>3. Control
  BY <1>2 DEF Init, Control, StreamsLeft, NothingYet
<1> QED BY <1>1, <1>3, BaseParts

LEMMA StepBase == BaseInv /\ [Next]_vars => BaseInv'
<1> SUFFICES ASSUME BaseInv, [Next]_vars PROVE BaseInv'
  OBVIOUS
<1>1. Control'
  BY StepControl, BaseParts
<1>2. xref' \in Record /\ Counts(xref', Roots(phase'))
  BY StepBooked DEF Booked
<1> QED BY <1>1, <1>2 DEF BaseInv, TypeOK, Record, Control

LEMMA AlwaysBase == Spec => []BaseInv
BY InitBase, StepBase, PTL DEF Spec

\* The variables keep their types: documents whose counts are integers, threads that open
\* pages, and queues of streams.
THEOREM TypeCorrect == Spec => []TypeOK
<1>1. BaseInv => TypeOK
  BY DEF BaseInv
<1> QED BY <1>1, AlwaysBase, PTL

\* However many threads open, flush, read and free: nothing is counted less than zero
\* times, and what the table holds or a resolved reference leads to has not been freed.
THEOREM NothingDangles == Spec => []NoDanglingReference
<1>1. BaseInv => NoDanglingReference
  <2> SUFFICES ASSUME BaseInv PROVE NoDanglingReference
    OBVIOUS
  <2>1. /\ xref \in Record /\ Counts(xref, Roots(phase)) /\ Roots(phase) \in Outside
        /\ \A o \in Obj : Roots(phase)[o] \in Nat
    BY BaseParts, RootsAreOutside DEF Outside
  <2>2. /\ \A o \in Obj : xref.refs[o] \in Nat
        /\ \A o \in xref.cached : xref.refs[o] > 0
        /\ \A r \in xref.resolved : xref.refs[r[2]] > 0
    BY <2>1, CountsAreSafe
  <2> QED BY <2>2 DEF NoDanglingReference
<1> QED BY <1>1, AlwaysBase, PTL
-----------------------------------------------------------------------------
(* The page tree *)

\* A Count that was wrong in the file has been put right in the object that the catalog
\* leads to.
CountIsRight ==
  phase = "open" /\ counted /\ FileCount # NumPages =>
    <<"catalog", "pages">> \in xref.resolved /\ "pages" \in xref.corrected

LEMMA StepCount == BaseInv /\ CountIsRight /\ [Next]_vars => CountIsRight'
<1> SUFFICES ASSUME BaseInv, CountIsRight, [Next]_vars,
                    phase' = "open", counted', FileCount # NumPages
             PROVE  <<"catalog", "pages">> \in xref'.resolved /\ "pages" \in xref'.corrected
  BY DEF CountIsRight
<1>1. CASE \E t \in Thread : PdfDocument_getPageCount(t)
  <2>1. PICK t \in Thread : PdfDocument_getPageCount(t)
    BY <1>1
  <2>2. phase = "open" /\ xref \in Record /\ Counts(xref, Roots("open"))
    BY <2>1, BaseParts DEF PdfDocument_getPageCount
  <2>3. xref' = LET z == ResolveAll(Resolve(xref, <<"catalog", "pages">>), KidRefs(NumPages))
                IN  IF Count(z) # NumPages THEN [z EXCEPT !.corrected = @ \cup {"pages"}] ELSE z
    BY <2>1 DEF PdfDocument_getPageCount
  <2> QED BY <2>2, <2>3, PageCountRead
<1>2. CASE ~ \E t \in Thread : PdfDocument_getPageCount(t)
  <2>1. counted' = counted
    BY <1>2 DEF Next, vars, docVars, PdfDocument_open, PdfDocument_free, PdfPage_free, FlushXref,
                FindPage, PageMissing, LoadPage, BoundsMissing, CacheStream, SeekStream, ReadStream,
                StreamFails, Interpret, InterpretFails, GiveUp, Fail
  <2>2. counted
    BY <2>1
  <2>3. phase = "open"
    <3>1. phase \notin {"none", "failed"}
      BY <2>2 DEF BaseInv, NothingYet
    <3>2. phase' = phase \/ phase = "none" \/ phase' = "closed"
      BY DEF Next, vars, docVars, PdfDocument_open, PdfDocument_free, PdfDocument_getPageCount,
             PdfPage_free, FlushXref, FindPage, PageMissing, LoadPage, BoundsMissing, CacheStream,
             SeekStream, ReadStream, StreamFails, Interpret, InterpretFails, GiveUp, Fail
    <3> QED BY <3>1, <3>2
  <2>4. <<"catalog", "pages">> \in xref.resolved /\ "pages" \in xref.corrected
    BY <2>2, <2>3 DEF CountIsRight
  <2>5. Tree(xref, xref')
    BY <2>3, StepBooked DEF Booked
  <2> QED BY <2>4, <2>5 DEF Tree
<1> QED BY <1>1, <1>2

\* Once the pages have been counted every page is found by its number, however often the
\* table is flushed and by however many threads: the corrected node is never read again.
THEOREM CountStaysRight == Spec => []CountedPagesAreFound
<1>1. Init => CountIsRight
  BY DEF Init, CountIsRight
<1>2. CountIsRight => CountedPagesAreFound
  BY DEF CountIsRight, CountedPagesAreFound, Count
<1> QED BY <1>1, <1>2, StepCount, AlwaysBase, PTL DEF Spec
-----------------------------------------------------------------------------
(* Who keeps a reference *)

Inside == {"cache", "seek", "read", "run"}

\* The threads that keep the resources of p while they read and interpret its content.
Users(p) == {t \in Thread : pc[t] \in Inside /\ page[t] = p}

\* How many keep what a page keeps: its open handles and the threads that open it.
Holders == [p \in Page |-> opened[p] + Cardinality(Users(p))]

\* What natives holds once links have been lost.
LostLinks == "lost links"

\* The pages that have a link.
Linked == {p \in Page : HasLink(p)}

\* The references that pages can keep, and the keys that the store can hold.
PageKeeps  == UNION {PageRefs(p) : p \in Page}
StoreKeeps == UNION {FontRefs(p) : p \in Page}

\* The resources of a page are kept by its holders; so is its link, and by those of its
\* links that loads have lost; a font is kept by the store, and nothing else by anyone.
KeepersInv ==
  /\ xref.store \subseteq StoreKeeps
  /\ \A k \in Ref \ PageKeeps : xref.keepers[k] = IF k \in xref.store THEN 1 ELSE 0
  /\ \A p \in Page :
       /\ xref.keepers[ResRef(p)] = Holders[p]
       /\ p \in Linked => xref.keepers[LinkRef(p)] >= Holders[p]
       /\ p \in Linked /\ LostLinks \notin natives => xref.keepers[LinkRef(p)] = Holders[p]

LEMMA UsersFinite ==
  ASSUME NEW p
  PROVE  /\ IsFiniteSet(Users(p)) /\ Cardinality(Users(p)) \in Nat
         /\ IsFiniteSet(Users(p)') /\ Cardinality(Users(p)') \in Nat
<1>1. IsFiniteSet(Thread) /\ Users(p) \subseteq Thread /\ Users(p)' \subseteq Thread
  BY PdfAssumption DEF Users
<1>2. IsFiniteSet(Users(p)) /\ IsFiniteSet(Users(p)')
  BY <1>1, FS_Subset
<1> QED BY <1>2, FS_CardinalityType

LEMMA UserJoins ==
  ASSUME Control, NEW t \in Thread, pc[t] \notin Inside, page' = page, NEW l \in Inside,
         pc' = [pc EXCEPT ![t] = l], NEW p \in Page
  PROVE  Cardinality(Users(p)') = Cardinality(Users(p)) + (IF p = page[t] THEN 1 ELSE 0)
<1>1. \A u \in Thread : pc'[u] = IF u = t THEN l ELSE pc[u]
  BY DEF Control
<1>2. CASE p = page[t]
  <2>1. Users(p)' = Users(p) \cup {t} /\ t \notin Users(p)
    BY <1>1, <1>2 DEF Users
  <2>2. Cardinality(Users(p) \cup {t}) = Cardinality(Users(p)) + 1
    BY <2>1, UsersFinite, FS_AddElement
  <2> QED BY <1>2, <2>1, <2>2
<1>3. CASE p # page[t]
  <2>1. Users(p)' = Users(p)
    BY <1>1, <1>3 DEF Users
  <2> QED BY <1>3, <2>1, UsersFinite
<1> QED BY <1>2, <1>3

LEMMA UserLeaves ==
  ASSUME Control, NEW t \in Thread, pc[t] \in Inside, page' = page, NEW l, l \notin Inside,
         pc' = [pc EXCEPT ![t] = l], NEW p \in Page
  PROVE  Cardinality(Users(p)) = Cardinality(Users(p)') + (IF p = page[t] THEN 1 ELSE 0)
<1>1. \A u \in Thread : pc'[u] = IF u = t THEN l ELSE pc[u]
  BY DEF Control
<1>2. CASE p = page[t]
  <2>1. Users(p) = Users(p)' \cup {t} /\ t \notin Users(p)'
    BY <1>1, <1>2 DEF Users
  <2>2. Cardinality(Users(p)' \cup {t}) = Cardinality(Users(p)') + 1
    BY <2>1, UsersFinite, FS_AddElement
  <2> QED BY <1>2, <2>1, <2>2
<1>3. CASE p # page[t]
  <2>1. Users(p)' = Users(p)
    BY <1>1, <1>3 DEF Users
  <2> QED BY <1>3, <2>1, UsersFinite
<1> QED BY <1>2, <1>3

\* Those who go from one place inside to another, or from one outside to another.
LEMMA UsersStay ==
  ASSUME Control, NEW t \in Thread, NEW l, pc' = [pc EXCEPT ![t] = l], pc[t] \in Inside <=> l \in Inside,
         page' = page \/ (l \notin Inside /\ \E q : page' = [page EXCEPT ![t] = q]), NEW p \in Page
  PROVE  Users(p)' = Users(p)
<1>1. \A u \in Thread : pc'[u] = IF u = t THEN l ELSE pc[u]
  BY DEF Control
<1>2. \A u \in Thread : u # t => page'[u] = page[u]
  BY DEF Control
<1>3. page'[t] = page[t] \/ l \notin Inside
  BY DEF Control
<1> QED BY <1>1, <1>2, <1>3 DEF Users

LEMMA HoldersAreNat == ASSUME Control, NEW p \in Page PROVE Holders[p] \in Nat
<1>1. opened[p] \in Nat
  BY DEF Control
<1>2. Cardinality(Users(p)) \in Nat
  BY UsersFinite
<1> QED BY <1>1, <1>2 DEF Holders

LEMMA StoreKeepsApart ==
  /\ StoreKeeps \cap PageKeeps = {}
  /\ \A p \in Page : /\ ResRef(p) \in Ref \cap PageKeeps
                     /\ p \in Linked => LinkRef(p) \in Ref \cap PageKeeps
<1>1. ASSUME NEW k \in StoreKeeps, k \in PageKeeps PROVE FALSE
  <2>1. PICK q \in Page : k \in FontRefs(q)
    BY DEF StoreKeeps
  <2>2. PICK p \in Page : k \in PageRefs(p)
    BY <1>1 DEF PageKeeps
  <2> QED BY <2>1, <2>2, RefsDiffer
<1>2. ASSUME NEW p \in Page
      PROVE  /\ ResRef(p) \in PageRefs(p) /\ PageRefs(p) \in SUBSET Ref
             /\ p \in Linked => LinkRef(p) \in PageRefs(p)
  BY RefsOfPage DEF PageRefs, Linked
<1> QED BY <1>1, <1>2 DEF PageKeeps

\* The references rs of p have d keepers more, and whatever came to the store has one.
LEMMA KeepersMove ==
  ASSUME Control, xref \in Record, KeepersInv,
         NEW p \in Page, NEW d \in Int, NEW rs,
         \/ rs = PageRefs(p)
         \/ d <= 0 /\ rs = {ResRef(p)} /\ (p \in Linked => LostLinks \in natives'),
         LostLinks \in natives => LostLinks \in natives',
         xref.store \subseteq xref'.store, xref'.store \subseteq StoreKeeps,
         \A k \in Ref \cap PageKeeps :
           xref'.keepers[k] = IF k \in rs THEN xref.keepers[k] + d ELSE xref.keepers[k],
         \A k \in Ref \ PageKeeps :
           xref'.keepers[k] = IF k \in xref'.store \ xref.store THEN xref.keepers[k] + 1
                                                                ELSE xref.keepers[k],
         \A q \in Page : Holders'[q] = IF q = p THEN Holders[q] + d ELSE Holders[q]
  PROVE  KeepersInv'
<1>1. \A k \in Ref : xref.keepers[k] \in Int
  BY DEF Record
<1>2. rs \subseteq PageRefs(p) /\ ResRef(p) \in rs
  BY DEF PageRefs
<1>3. ASSUME NEW k \in Ref \ PageKeeps PROVE xref'.keepers[k] = IF k \in xref'.store THEN 1 ELSE 0
  <2>1. xref.keepers[k] = IF k \in xref.store THEN 1 ELSE 0
    BY DEF KeepersInv
  <2>2. CASE k \in xref'.store \ xref.store
    <3>1. xref'.keepers[k] = xref.keepers[k] + 1 /\ xref.keepers[k] = 0
      BY <2>1, <2>2
    <3> QED BY <2>2, <3>1
  <2>3. CASE k \notin xref'.store \ xref.store
    BY <2>1, <2>3
  <2> QED BY <2>2, <2>3
<1>4. ASSUME NEW q \in Page
      PROVE  /\ xref'.keepers[ResRef(q)] = Holders'[q]
             /\ q \in Linked => xref'.keepers[LinkRef(q)] >= Holders'[q]
             /\ q \in Linked /\ LostLinks \notin natives' => xref'.keepers[LinkRef(q)] = Holders'[q]
  <2>1. Holders[q] \in Nat /\ Holders'[q] = IF q = p THEN Holders[q] + d ELSE Holders[q]
    BY HoldersAreNat
  <2>2. xref'.keepers[ResRef(q)] = Holders'[q]
    <3>1. ResRef(q) \in rs <=> q = p
      BY <1>2, RefsDiffer DEF PageRefs, Linked
    <3>2. xref'.keepers[ResRef(q)] = IF q = p THEN xref.keepers[ResRef(q)] + d ELSE xref.keepers[ResRef(q)]
      BY <3>1, StoreKeepsApart
    <3>3. xref.keepers[ResRef(q)] = Holders[q]
      BY DEF KeepersInv
    <3> QED BY <2>1, <3>2, <3>3
  <2>3. ASSUME q \in Linked
        PROVE  /\ xref'.keepers[LinkRef(q)] >= Holders'[q]
               /\ LostLinks \notin natives' => xref'.keepers[LinkRef(q)] = Holders'[q]
    <3> DEFINE n == xref.keepers[LinkRef(q)]
               m == xref'.keepers[LinkRef(q)]
               h == Holders[q]
               g == Holders'[q]
    <3>1. n >= h /\ (LostLinks \notin natives => n = h)
      BY <2>3 DEF KeepersInv
    <3>2. n \in Int /\ h \in Nat /\ (g = IF q = p THEN h + d ELSE h)
      BY <1>1, <2>1, <2>3, StoreKeepsApart
    <3>3. m = IF LinkRef(q) \in rs THEN n + d ELSE n
      BY <2>3, StoreKeepsApart
    <3> HIDE DEF n, m, h, g
    <3>4. CASE q # p
      <4>1. LinkRef(q) \notin rs
        BY <1>2, <2>3, <3>4, RefsDiffer DEF PageRefs, Linked
      <4>2. m = n /\ g = h
        BY <3>2, <3>3, <3>4, <4>1
      <4> QED BY <3>1, <4>2 DEF m, g
    <3>5. CASE q = p /\ rs = PageRefs(p)
      <4>1. LinkRef(q) \in rs
        BY <2>3, <3>5 DEF PageRefs, Linked
      <4>2. m = n + d /\ g = h + d
        BY <3>2, <3>3, <3>5, <4>1
      <4>3. m >= g /\ (n = h => m = g)
        BY <3>1, <3>2, <4>2
      <4> QED BY <3>1, <4>3 DEF m, g
    <3>6. CASE q = p /\ d <= 0 /\ rs = {ResRef(p)} /\ LostLinks \in natives'
      <4>1. LinkRef(q) \notin rs
        BY <2>3, <3>6, RefsDiffer DEF Linked
      <4>2. m = n /\ g = h + d
        BY <3>2, <3>3, <3>6, <4>1
      <4>3. m >= g
        BY <3>1, <3>2, <3>6, <4>2
      <4> QED BY <3>6, <4>3 DEF m, g
    <3> QED BY <2>3, <3>4, <3>5, <3>6
  <2> QED BY <2>2, <2>3
<1> QED BY <1>3, <1>4 DEF KeepersInv

\* Nobody has come or gone.
LEMMA SameKeepers ==
  ASSUME Control, xref \in Record, KeepersInv,
         \A k \in Ref : xref'.keepers[k] = xref.keepers[k], xref'.store = xref.store,
         \A p \in Page : Holders'[p] = Holders[p],
         LostLinks \in natives => LostLinks \in natives'
  PROVE  KeepersInv'
<1>1. xref'.store \subseteq StoreKeeps
  BY DEF KeepersInv
<1>2. \A k \in Ref \ PageKeeps : xref'.keepers[k] = IF k \in xref'.store THEN 1 ELSE 0
  BY DEF KeepersInv
<1>3. ASSUME NEW p \in Page
      PROVE  /\ xref'.keepers[ResRef(p)] = Holders'[p]
             /\ p \in Linked => xref'.keepers[LinkRef(p)] >= Holders'[p]
             /\ p \in Linked /\ LostLinks \notin natives' => xref'.keepers[LinkRef(p)] = Holders'[p]
  <2>1. /\ xref'.keepers[ResRef(p)] = xref.keepers[ResRef(p)]
        /\ p \in Linked => xref'.keepers[LinkRef(p)] = xref.keepers[LinkRef(p)]
    BY StoreKeepsApart
  <2>2. Holders'[p] = Holders[p]
    OBVIOUS
  <2> QED BY <2>1, <2>2 DEF KeepersInv
<1> QED BY <1>1, <1>2, <1>3 DEF KeepersInv

\* No user comes or goes but in the step of a thread.
LEMMA HoldersStay ==
  ASSUME Control, opened' = opened, \A q \in Page : Users(q)' = Users(q)
  PROVE  \A q \in Page : Holders'[q] = Holders[q]
<1>1. \A q \in Page : Cardinality(Users(q)') = Cardinality(Users(q))
  BY Zenon
<1> QED BY <1>1 DEF Holders

\* Whose steps neither keep nor let go of a reference.
LEMMA ReadersKeep ==
  ASSUME BaseInv, KeepersInv, NEW t \in Thread,
         \/ \E p \in Page : FlushXref(t, p)
         \/ PdfDocument_getPageCount(t) \/ FindPage(t) \/ PageMissing(t) \/ BoundsMissing(t)
         \/ CacheStream(t) \/ SeekStream(t) \/ ReadStream(t)
  PROVE  KeepersInv'
<1>0. Control /\ xref \in Record /\ Counts(xref, Roots(phase))
  BY BaseParts
\* The thread stays inside, or outside.
<1>1. ASSUME NEW l, pc' = [pc EXCEPT ![t] = l], pc[t] \in Inside <=> l \in Inside,
             page' = page \/ (l \notin Inside /\ \E q : page' = [page EXCEPT ![t] = q]),
             opened' = opened, LostLinks \in natives => LostLinks \in natives',
             xref'.keepers = xref.keepers, xref'.store = xref.store
      PROVE  KeepersInv'
  <2>1. \A q \in Page : Users(q)' = Users(q)
    BY <1>0, <1>1, UsersStay
  <2>2. \A q \in Page : Holders'[q] = Holders[q]
    BY <1>0, <1>1, <2>1, HoldersStay
  <2> QED BY <1>0, <1>1, <2>2, SameKeepers
<1>2. CASE \E p \in Page : FlushXref(t, p)
  <2>1. PICK p \in Page : FlushXref(t, p)
    BY <1>2
  <2>2. /\ phase = "open" /\ xref' = Flush(xref, FALSE) /\ opened' = opened /\ natives' = natives
        /\ pc' = [pc EXCEPT ![t] = "find"] /\ page' = [page EXCEPT ![t] = p]
        /\ pc[t] \notin Inside /\ "find" \notin Inside
    BY <2>1 DEF FlushXref, At, Goto, Inside
  <2>3. xref'.keepers = xref.keepers /\ xref'.store = xref.store
    BY <1>0, <2>2, RootsAreOutside, FlushCounts DEF SameKept
  <2> QED BY <1>1, <2>2, <2>3
<1>3. CASE PdfDocument_getPageCount(t)
  <2>1. phase = "open" /\ opened' = opened /\ natives' = natives /\ \A p \in Page : Users(p)' = Users(p)
    BY <1>3 DEF PdfDocument_getPageCount, threadVars, Users
  <2>2. xref' = LET z == ResolveAll(Resolve(xref, <<"catalog", "pages">>), KidRefs(NumPages))
                IN  IF Count(z) # NumPages THEN [z EXCEPT !.corrected = @ \cup {"pages"}] ELSE z
    BY <1>3 DEF PdfDocument_getPageCount
  <2>3. xref'.keepers = xref.keepers /\ xref'.store = xref.store
    BY <1>0, <2>1, <2>2, PageCountRead
  <2>4. \A q \in Page : Holders'[q] = Holders[q]
    BY <1>0, <2>1, HoldersStay
  <2> QED BY <1>0, <2>1, <2>3, <2>4, SameKeepers
<1>4. CASE FindPage(t)
  <2>1. /\ opened' = opened /\ page' = page /\ natives' = natives
        /\ pc[t] \notin Inside /\ "load" \notin Inside /\ pc' = [pc EXCEPT ![t] = "load"]
    BY <1>4 DEF FindPage, At, Goto, Inside, docVars
  <2>2. xref'.keepers = xref.keepers /\ xref'.store = xref.store
    BY <1>4, PageFound DEF MoreOf
  <2> QED BY <1>1, <2>1, <2>2
<1>5. CASE PageMissing(t) \/ BoundsMissing(t)
  <2>1. /\ opened' = opened /\ page' = page /\ natives' = natives \cup {} \cup {"lost page"}
        /\ pc[t] \notin Inside /\ "idle" \notin Inside /\ pc' = [pc EXCEPT ![t] = "idle"]
    BY <1>5 DEF PageMissing, BoundsMissing, Fail, At, Goto, Inside
  <2>2. xref'.keepers = xref.keepers /\ xref'.store = xref.store
    BY <1>5, PageNotFound DEF MoreOf, BoundsMissing
  <2> QED BY <1>1, <2>1, <2>2
<1>6. CASE CacheStream(t) \/ SeekStream(t) \/ ReadStream(t)
  <2>1. opened' = opened /\ page' = page /\ natives' = natives /\ pc[t] \in Inside
    BY <1>6 DEF CacheStream, SeekStream, ReadStream, At, Inside, docVars
  <2>2. \E l \in Inside : pc' = [pc EXCEPT ![t] = l]
    BY <1>6 DEF CacheStream, SeekStream, ReadStream, Goto, Inside
  <2>3. xref'.keepers = xref.keepers /\ xref'.store = xref.store
    BY <1>6, StreamCached, StreamSought, StreamRead DEF MoreOf
  <2> QED BY <1>1, <2>1, <2>2, <2>3
<1> QED BY <1>2, <1>3, <1>4, <1>5, <1>6

LEMMA OpenKeeps ==
  ASSUME BaseInv, KeepersInv, phase = "none" => natives = {}, PdfDocument_open PROVE KeepersInv'
<1>0. Control /\ xref \in Record
  BY BaseParts
<1>1. /\ phase = "none" /\ opened' = opened /\ \A p \in Page : Users(p)' = Users(p)
      /\ LostLinks \notin natives
  BY DEF PdfDocument_open, threadVars, Users
<1>2. \A p \in Page : Holders'[p] = Holders[p]
  BY <1>0, <1>1, HoldersStay
<1>3. CASE xref' \in {OpenRoot(Loaded), OpenRoot(Repaired)}
  <2>1. xref'.keepers = [r \in Ref |-> 0] /\ xref'.store = {}
    BY <1>3, LoadedIsFresh, RepairedIsFresh, OpenRootCounts
  <2>2. \A k \in Ref : xref'.keepers[k] = 0
    BY <2>1
  <2>3. \A p \in Page : opened[p] = 0 /\ Users(p) = {}
    BY <1>0, <1>1 DEF Control, NothingYet, Users, Inside
  <2>4. \A p \in Page : Holders[p] = 0
    BY <2>3, FS_EmptySet DEF Holders
  <2>5. \A p \in Page : Holders'[p] = 0
    BY <1>2, <2>4
  <2>6. \A p \in Page : xref'.keepers[ResRef(p)] = 0 /\ (p \in Linked => xref'.keepers[LinkRef(p)] = 0)
    BY <2>2, StoreKeepsApart
  <2> QED BY <2>1, <2>2, <2>5, <2>6 DEF KeepersInv
<1>4. CASE xref' = xref
  BY <1>0, <1>1, <1>2, <1>4, SameKeepers
<1> QED BY <1>3, <1>4 DEF PdfDocument_open

LEMMA FreeKeeps == ASSUME BaseInv, KeepersInv, PdfDocument_free PROVE KeepersInv'
<1>0. Control /\ xref \in Record /\ Counts(xref, Roots(phase))
  BY BaseParts
<1>1. /\ phase = "open" /\ xref' = Closing(xref) /\ opened' = opened
      /\ natives' = natives \ {"doc", "renderer", "xref", "store"}
      /\ \A p \in Page : Users(p)' = Users(p)
  BY DEF PdfDocument_free, Closing, threadVars, Users
<1>2. LostLinks \in natives => LostLinks \in natives'
  BY <1>1 DEF LostLinks
<1>3. \A p \in Page : Holders'[p] = Holders[p]
  BY <1>0, <1>1, HoldersStay
<1>4. /\ xref'.store = {}
      /\ \A r \in Ref : xref'.keepers[r] = IF r \in xref.store THEN xref.keepers[r] - 1 ELSE xref.keepers[r]
  BY <1>0, <1>1, ClosingCounts
<1>5. ASSUME NEW k \in Ref \ PageKeeps PROVE xref'.keepers[k] = 0
  <2>1. xref.keepers[k] = IF k \in xref.store THEN 1 ELSE 0
    BY DEF KeepersInv
  <2> QED BY <1>4, <2>1
<1>6. ASSUME NEW p \in Page
      PROVE  /\ xref'.keepers[ResRef(p)] = Holders'[p]
             /\ p \in Linked => xref'.keepers[LinkRef(p)] >= Holders'[p]
             /\ p \in Linked /\ LostLinks \notin natives' => xref'.keepers[LinkRef(p)] = Holders'[p]
  <2>1. /\ ResRef(p) \notin xref.store /\ (p \in Linked => LinkRef(p) \notin xref.store)
    BY StoreKeepsApart DEF KeepersInv
  <2>2. /\ xref'.keepers[ResRef(p)] = xref.keepers[ResRef(p)]
        /\ p \in Linked => xref'.keepers[LinkRef(p)] = xref.keepers[LinkRef(p)]
    BY <1>4, <2>1, StoreKeepsApart
  <2> QED BY <1>2, <1>3, <2>2 DEF KeepersInv
<1> QED BY <1>4, <1>5, <1>6 DEF KeepersInv

LEMMA LoadKeeps == ASSUME BaseInv, KeepersInv, NEW t \in Thread, LoadPage(t) PROVE KeepersInv'
<1>0. Control /\ xref \in Record
  BY BaseParts
<1> DEFINE p == page[t]
           l == IF Streams(p) = <<>> THEN "run" ELSE "cache"
<1>1. /\ opened' = opened /\ page' = page /\ pc[t] \notin Inside
      /\ l \in Inside /\ pc' = [pc EXCEPT ![t] = l] /\ natives' = natives \cup {"store"}
  BY DEF LoadPage, At, Goto, Inside
<1>2. p \in Page /\ Added(xref, xref', PageRefs(p))
  BY PageLoaded
<1> HIDE DEF l
<1>3. \A q \in Page : Cardinality(Users(q)') = Cardinality(Users(q)) + (IF q = p THEN 1 ELSE 0)
  BY <1>0, <1>1, UserJoins
<1> HIDE DEF p
<1>4. \A q \in Page : /\ opened[q] \in Nat /\ Cardinality(Users(q)) \in Nat
                      /\ Holders[q] = opened[q] + Cardinality(Users(q))
                      /\ Holders'[q] = opened[q] + Cardinality(Users(q)')
  BY <1>0, <1>1, UsersFinite DEF Control, Holders
<1>5. \A q \in Page : Holders'[q] = IF q = p THEN Holders[q] + 1 ELSE Holders[q]
  BY <1>3, <1>4
<1>6. \A k \in Ref : xref.keepers[k] \in Int
  BY <1>0 DEF Record
<1>7. xref'.store = xref.store
      /\ \A k \in Ref : xref'.keepers[k] = IF k \in PageRefs(p) THEN xref.keepers[k] + 1 ELSE xref.keepers[k]
  BY <1>2, <1>6 DEF Added
<1>8. \A k \in Ref \ PageKeeps : xref'.keepers[k] = xref.keepers[k]
  BY <1>2, <1>7 DEF PageKeeps
<1>9. xref.store \subseteq StoreKeeps
  BY DEF KeepersInv
<1> QED BY <1>0, <1>1, <1>2, <1>5, <1>7, <1>8, <1>9, KeepersMove

\* What the store has taken counts for no page.
LEMMA StoreTakes ==
  ASSUME xref \in Record, KeepersInv, NEW x \in Record, UsedMore(xref, x), NEW p \in Page,
         x.store \subseteq xref.store \cup FontRefs(p)
  PROVE  /\ xref.store \subseteq x.store /\ x.store \subseteq StoreKeeps
         /\ \A k \in Ref \cap PageKeeps : x.keepers[k] = xref.keepers[k]
         /\ \A k \in Ref \ PageKeeps :
              x.keepers[k] = IF k \in x.store \ xref.store THEN xref.keepers[k] + 1 ELSE xref.keepers[k]
<1>1. xref.store \subseteq x.store /\ x.store \subseteq StoreKeeps
  BY DEF UsedMore, KeepersInv, StoreKeeps
<1>2. \A k \in Ref : xref.keepers[k] \in Int
  BY DEF Record
<1>3. \A k \in Ref : x.keepers[k] = IF k \in x.store \ xref.store THEN xref.keepers[k] + 1 ELSE xref.keepers[k]
  BY <1>2 DEF UsedMore
<1>4. \A k \in PageKeeps : k \notin x.store
  BY <1>1, StoreKeepsApart
<1> QED BY <1>1, <1>3, <1>4

LEMMA InterpretKeeps == ASSUME BaseInv, KeepersInv, NEW t \in Thread, Interpret(t) PROVE KeepersInv'
<1>0. Control /\ xref \in Record
  BY BaseParts
<1> DEFINE p == page[t]
<1>1. /\ opened' = [opened EXCEPT ![p] = @ + 1] /\ page' = page /\ pc[t] \in Inside
      /\ "idle" \notin Inside /\ pc' = [pc EXCEPT ![t] = "idle"] /\ natives' = natives
  BY DEF Interpret, At, Goto, Inside, docVars
<1>2. /\ p \in Page /\ xref' \in Record /\ UsedMore(xref, xref')
      /\ xref'.store \subseteq xref.store \cup FontRefs(p)
  BY PageInterpreted
<1>3. \A q \in Page : Cardinality(Users(q)) = Cardinality(Users(q)') + (IF q = p THEN 1 ELSE 0)
  BY <1>0, <1>1, UserLeaves
<1>4. \A q \in Page : opened'[q] = IF q = p THEN opened[q] + 1 ELSE opened[q]
  BY <1>0, <1>1, <1>2 DEF Control
<1> HIDE DEF p
<1>5. \A q \in Page : /\ opened[q] \in Nat /\ Cardinality(Users(q)') \in Nat
                      /\ Holders[q] = opened[q] + Cardinality(Users(q))
                      /\ Holders'[q] = opened'[q] + Cardinality(Users(q)')
  BY <1>0, UsersFinite DEF Control, Holders
<1>6. \A q \in Page : Holders'[q] = Holders[q]
  BY <1>3, <1>4, <1>5
<1>7. \A q \in Page : Holders[q] \in Nat
  BY <1>0, HoldersAreNat
<1>8. \A q \in Page : Holders'[q] = IF q = p THEN Holders[q] + 0 ELSE Holders[q]
  BY <1>6, <1>7
<1>9. /\ xref.store \subseteq xref'.store /\ xref'.store \subseteq StoreKeeps
      /\ \A k \in Ref \cap PageKeeps : xref'.keepers[k] = xref.keepers[k]
      /\ \A k \in Ref \ PageKeeps :
           xref'.keepers[k] = IF k \in xref'.store \ xref.store THEN xref.keepers[k] + 1 ELSE xref.keepers[k]
  BY <1>0, <1>2, StoreTakes
<1>10. \A k \in Ref \cap PageKeeps :
         xref'.keepers[k] = IF k \in PageRefs(p) THEN xref.keepers[k] + 0 ELSE xref.keepers[k]
  <2>1. \A k \in Ref : xref.keepers[k] \in Int
    BY <1>0 DEF Record
  <2> QED BY <1>9, <2>1
<1> QED BY <1>0, <1>1, <1>2, <1>8, <1>9, <1>10, KeepersMove

\* A load that is given up lets its resources go, and its link, if it has one, is lost.
LEMMA GiveUpKeeps ==
  ASSUME BaseInv, KeepersInv, NEW t \in Thread, pc[t] \in Inside, page[t] \in Page,
         phase = "open", NEW x \in Record, Counts(x, Roots("open")), UsedMore(xref, x),
         x.store \subseteq xref.store \cup FontRefs(page[t]), GiveUp(t, x)
  PROVE  KeepersInv'
<1>0. Control /\ xref \in Record
  BY BaseParts
<1> DEFINE p == page[t]
<1>1. /\ opened' = opened /\ page' = page /\ "idle" \notin Inside /\ pc' = [pc EXCEPT ![t] = "idle"]
      /\ natives' = natives \cup (IF HasLink(p) THEN {"lost links"} ELSE {}) \cup {"lost page"}
      /\ xref' = DropRefs(x, {ResRef(p)})
  BY DEF GiveUp, Fail, Goto, Inside
<1>2. \A q \in Page : Cardinality(Users(q)) = Cardinality(Users(q)') + (IF q = p THEN 1 ELSE 0)
  BY <1>0, <1>1, UserLeaves
<1>3. (LostLinks \in natives => LostLinks \in natives') /\ (p \in Linked => LostLinks \in natives')
  BY <1>1 DEF LostLinks, Linked
<1>4. p \in Page /\ x.store \subseteq xref.store \cup FontRefs(p)
  OBVIOUS
<1> HIDE DEF p
<1>5. \A q \in Page : /\ opened[q] \in Nat /\ Cardinality(Users(q)') \in Nat
                      /\ Holders[q] = opened[q] + Cardinality(Users(q))
                      /\ Holders'[q] = opened[q] + Cardinality(Users(q)')
  BY <1>0, <1>1, UsersFinite DEF Control, Holders
<1>6. \A q \in Page : Holders'[q] = IF q = p THEN Holders[q] + (-1) ELSE Holders[q]
  BY <1>2, <1>5
<1>7. /\ xref.store \subseteq x.store /\ x.store \subseteq StoreKeeps
      /\ \A k \in Ref \cap PageKeeps : x.keepers[k] = xref.keepers[k]
      /\ \A k \in Ref \ PageKeeps :
           x.keepers[k] = IF k \in x.store \ xref.store THEN xref.keepers[k] + 1 ELSE xref.keepers[k]
  BY <1>0, <1>4, StoreTakes
<1>8. ResRef(p) \in Ref \cap PageKeeps /\ {ResRef(p)} \in SUBSET Ref
  BY <1>4, StoreKeepsApart
<1>9. /\ xref'.store = x.store
      /\ \A r \in Ref : xref'.keepers[r] = IF r \in {ResRef(p)} THEN x.keepers[r] - 1 ELSE x.keepers[r]
  <2>1. xref' = DropRefs(x, {ResRef(p)})
    BY <1>1
  <2> QED BY <1>8, <2>1, OpenCounts, DropRefsCounts
<1>10. \A k \in Ref : xref.keepers[k] \in Int
  BY <1>0 DEF Record
<1>11. \A k \in Ref \cap PageKeeps :
         xref'.keepers[k] = IF k \in {ResRef(p)} THEN xref.keepers[k] + (-1) ELSE xref.keepers[k]
  BY <1>7, <1>9, <1>10
<1>12. \A k \in Ref \ PageKeeps :
         xref'.keepers[k] = IF k \in xref'.store \ xref.store THEN xref.keepers[k] + 1 ELSE xref.keepers[k]
  BY <1>7, <1>8, <1>9
<1>13. -1 \in Int /\ -1 <= 0
  OBVIOUS
<1> QED BY <1>0, <1>3, <1>4, <1>6, <1>7, <1>9, <1>11, <1>12, <1>13, KeepersMove

LEMMA PageFreeKeeps == ASSUME BaseInv, KeepersInv, NEW p \in Page, PdfPage_free(p) PROVE KeepersInv'
<1>0. Control /\ xref \in Record /\ Counts(xref, Roots(phase))
  BY BaseParts
<1>1. /\ xref' = DropRefs(xref, PageRefs(p)) /\ opened' = [opened EXCEPT ![p] = @ - 1]
      /\ natives' = natives /\ \A q \in Page : Users(q)' = Users(q)
  BY DEF PdfPage_free, threadVars, docVars, Users
<1>2. \A q \in Page : Cardinality(Users(q)') = Cardinality(Users(q)) /\ Cardinality(Users(q)) \in Nat
  BY <1>1, UsersFinite, Zenon
<1>3. \A q \in Page : opened[q] \in Nat /\ opened'[q] = IF q = p THEN opened[q] - 1 ELSE opened[q]
  BY <1>0, <1>1 DEF Control
<1>4. \A q \in Page : /\ Holders[q] = opened[q] + Cardinality(Users(q))
                      /\ Holders'[q] = opened'[q] + Cardinality(Users(q)')
  BY DEF Holders
<1>5. \A q \in Page : Holders'[q] = IF q = p THEN Holders[q] + (-1) ELSE Holders[q]
  BY <1>2, <1>3, <1>4
<1>6. PageRefs(p) \in SUBSET Ref
  BY RefsOfPage
<1>7. /\ xref'.store = xref.store
      /\ \A r \in Ref : xref'.keepers[r] = IF r \in PageRefs(p) THEN xref.keepers[r] - 1 ELSE xref.keepers[r]
  BY <1>0, <1>1, <1>6, RootsAreOutside, DropRefsCounts
<1>8. \A k \in Ref : xref.keepers[k] \in Int
  BY <1>0 DEF Record
<1>9. \A k \in Ref : xref'.keepers[k] = IF k \in PageRefs(p) THEN xref.keepers[k] + (-1) ELSE xref.keepers[k]
  BY <1>7, <1>8
<1>10. \A k \in Ref \ PageKeeps : xref'.keepers[k] = xref.keepers[k]
  BY <1>9 DEF PageKeeps
<1>11. xref.store \subseteq StoreKeeps /\ -1 \in Int
  BY DEF KeepersInv
<1> QED BY <1>0, <1>1, <1>5, <1>7, <1>9, <1>10, <1>11, KeepersMove

LEMMA StepKeepers ==
  ASSUME BaseInv, KeepersInv, phase = "none" => natives = {}, [Next]_vars PROVE KeepersInv'
<1>0. Control /\ xref \in Record
  BY BaseParts
<1>1. CASE PdfDocument_open \/ PdfDocument_free
  BY <1>1, OpenKeeps, FreeKeeps
<1>2. CASE \E p \in Page : PdfPage_free(p)
  BY <1>2, PageFreeKeeps
<1>3. CASE \E t \in Thread : \/ \E p \in Page : FlushXref(t, p)
                             \/ PdfDocument_getPageCount(t) \/ FindPage(t) \/ PageMissing(t)
                             \/ BoundsMissing(t) \/ CacheStream(t) \/ SeekStream(t) \/ ReadStream(t)
  BY <1>3, ReadersKeep
<1>4. CASE \E t \in Thread : LoadPage(t)
  BY <1>4, LoadKeeps
<1>5. CASE \E t \in Thread : StreamFails(t)
  <2>1. PICK t \in Thread : StreamFails(t)
    BY <1>5
  <2>2. PICK x \in Record :
          /\ Counts(x, Roots("open")) /\ MoreOf(xref, x) /\ GiveUp(t, x)
          /\ phase = "open" /\ page[t] \in Page /\ pc[t] \in {"cache", "seek"}
    BY <2>1, StreamFailed
  <2>3. UsedMore(xref, x) /\ x.store \subseteq xref.store \cup FontRefs(page[t]) /\ pc[t] \in Inside
    BY <1>0, <2>2, MoreIsUsedMore DEF MoreOf, Inside
  <2> QED BY <2>2, <2>3, GiveUpKeeps
<1>6. CASE \E t \in Thread : Interpret(t)
  BY <1>6, InterpretKeeps
<1>7. CASE \E t \in Thread : InterpretFails(t)
  <2>1. PICK t \in Thread : InterpretFails(t)
    BY <1>7
  <2>2. PICK x \in Record :
          /\ Counts(x, Roots("open")) /\ UsedMore(xref, x) /\ GiveUp(t, x)
          /\ x.store \subseteq xref.store \cup FontRefs(page[t])
          /\ phase = "open" /\ page[t] \in Page /\ pc[t] = "run"
    BY <2>1, InterpretFailed
  <2>3. pc[t] \in Inside
    BY <2>2 DEF Inside
  <2> QED BY <2>2, <2>3, GiveUpKeeps
<1>8. CASE UNCHANGED vars
  <2>1. xref' = xref /\ natives' = natives /\ opened' = opened /\ \A q \in Page : Users(q)' = Users(q)
    BY <1>8 DEF vars, docVars, threadVars, Users
  <2>2. \A q \in Page : Holders'[q] = Holders[q]
    BY <1>0, <2>1, HoldersStay
  <2> QED BY <1>0, <2>1, <2>2, SameKeepers
<1> QED BY <1>1, <1>2, <1>3, <1>4, <1>5, <1>6, <1>7, <1>8 DEF Next
-----------------------------------------------------------------------------
(* Threads that open one page at a time *)

\* As long as no page was opened while another was being opened, one thread at most is
\* inside PdfPage_open.
OneInside == ~ raced => \A t, u \in Thread : pc[t] # "idle" /\ pc[u] # "idle" => t = u

\* The dictionary of a page that is being opened hangs in the tree.
InTree ==
  phase = "open" => \A t \in Thread : pc[t] \notin {"idle", "find"} =>
    <<"catalog", "pages">> \in xref.resolved /\ <<"pages", PageObj[page[t]]>> \in xref.resolved

\* Between two calls of the one thread inside nobody flushes the dictionary of its stream.
StreamsInTable ==
  phase = "open" /\ ~ raced => \A t \in Thread : pc[t] = "seek" => Head(todo[t]) \in xref.cached

\* How the threads go on.
LEMMA ThreadsMove ==
  ASSUME [Next]_vars
  PROVE  \/ pc' = pc /\ page' = page /\ todo' = todo /\ raced' = raced
         \/ \E t \in Thread, p \in Page : FlushXref(t, p)
         \/ \E t \in Thread : /\ pc[t] # "idle" /\ (\E l : pc' = [pc EXCEPT ![t] = l])
                              /\ page' = page /\ raced' = raced
<1>1. CASE \/ PdfDocument_open \/ PdfDocument_free \/ (\E p \in Page : PdfPage_free(p))
           \/ (\E t \in Thread : PdfDocument_getPageCount(t)) \/ UNCHANGED vars
  BY <1>1 DEF PdfDocument_open, PdfDocument_free, PdfPage_free, PdfDocument_getPageCount, vars,
              docVars, threadVars
<1>2. CASE \E t \in Thread : \/ FindPage(t) \/ LoadPage(t) \/ CacheStream(t) \/ SeekStream(t)
                             \/ ReadStream(t) \/ Interpret(t)
  BY <1>2 DEF FindPage, LoadPage, CacheStream, SeekStream, ReadStream, Interpret, At, Goto, docVars
<1>3. CASE \E t \in Thread : PageMissing(t) \/ BoundsMissing(t) \/ StreamFails(t) \/ InterpretFails(t)
  BY <1>3 DEF PageMissing, BoundsMissing, StreamFails, InterpretFails, GiveUp, Fail, At, Goto
<1> QED BY <1>1, <1>2, <1>3 DEF Next

LEMMA StepOneInside == ASSUME Control, OneInside, [Next]_vars PROVE OneInside'
<1> SUFFICES ASSUME ~ raced', NEW t \in Thread, NEW u \in Thread, pc'[t] # "idle", pc'[u] # "idle"
             PROVE  t = u
  BY DEF OneInside
<1>1. CASE \E v \in Thread, p \in Page : FlushXref(v, p)
  <2>1. PICK v \in Thread, p \in Page : FlushXref(v, p)
    BY <1>1
  <2>2. (\A w \in Thread : pc[w] = "idle") /\ pc' = [pc EXCEPT ![v] = "find"]
    BY <2>1 DEF FlushXref, Goto
  <2> QED BY <2>2 DEF Control
<1>2. CASE raced' = raced /\ \A w \in Thread : pc[w] = "idle" => pc'[w] = "idle"
  BY <1>2 DEF OneInside
<1>3. CASE \E v \in Thread : pc[v] # "idle" /\ (\E l : pc' = [pc EXCEPT ![v] = l]) /\ raced' = raced
  <2>1. \A w \in Thread : pc[w] = "idle" => pc'[w] = "idle"
    BY <1>3 DEF Control
  <2> QED BY <1>2, <1>3, <2>1
<1> QED BY <1>1, <1>2, <1>3, ThreadsMove

LEMMA StepInTree == ASSUME BaseInv, InTree, [Next]_vars PROVE InTree'
<1>0. Control /\ Booked
  BY BaseParts, StepBooked
<1> SUFFICES ASSUME phase' = "open", NEW t \in Thread, pc'[t] \notin {"idle", "find"}
             PROVE  /\ <<"catalog", "pages">> \in xref'.resolved
                    /\ <<"pages", PageObj[page'[t]]>> \in xref'.resolved
  BY DEF InTree
<1>1. CASE FindPage(t)
  <2>1. page' = page
    BY <1>1 DEF FindPage
  <2> QED BY <1>1, <2>1, PageFound
<1>2. CASE ~ FindPage(t)
  <2>1. pc[t] \notin {"idle", "find"} /\ page'[t] = page[t]
    BY <1>0, <1>2 DEF Control, At, Goto, Next, vars, docVars, threadVars, PdfDocument_open,
       PdfDocument_free, PdfDocument_getPageCount, PdfPage_free, FlushXref, FindPage, PageMissing,
       LoadPage, BoundsMissing, CacheStream, SeekStream, ReadStream, StreamFails, Interpret,
       InterpretFails, GiveUp, Fail
  <2>2. phase = "open"
    <3>1. phase \notin {"none", "failed"}
      BY <1>0, <2>1 DEF Control, NothingYet
    <3>2. phase' = phase \/ phase = "none" \/ phase' = "closed"
      BY DEF Next, vars, docVars, PdfDocument_open, PdfDocument_free, PdfDocument_getPageCount,
             PdfPage_free, FlushXref, FindPage, PageMissing, LoadPage, BoundsMissing, CacheStream,
             SeekStream, ReadStream, StreamFails, Interpret, InterpretFails, GiveUp, Fail
    <3> QED BY <3>1, <3>2
  <2>3. <<"catalog", "pages">> \in xref.resolved /\ <<"pages", PageObj[page[t]]>> \in xref.resolved
    BY <2>1, <2>2 DEF InTree
  <2>4. Tree(xref, xref')
    BY <1>0, <2>2 DEF Booked
  <2> QED BY <2>1, <2>3, <2>4 DEF Tree
<1> QED BY <1>1, <1>2

LEMMA StepStreamsInTable ==
  ASSUME BaseInv, OneInside, StreamsInTable, [Next]_vars PROVE StreamsInTable'
<1>0. Control /\ xref \in Record /\ Counts(xref, Roots(phase))
  BY BaseParts
<1> SUFFICES ASSUME phase' = "open", ~ raced', NEW t \in Thread, pc'[t] = "seek"
             PROVE  Head(todo'[t]) \in xref'.cached
  BY DEF StreamsInTable
<1>1. CASE CacheStream(t)
  <2>1. todo' = todo
    BY <1>1 DEF CacheStream
  <2> QED BY <1>1, <2>1, StreamCached
<1>2. CASE PdfDocument_open \/ PdfDocument_free
  BY <1>0, <1>2 DEF PdfDocument_open, PdfDocument_free, threadVars, Control, NothingYet
<1>3. CASE \E p \in Page : PdfPage_free(p)
  <2>1. PICK p \in Page : PdfPage_free(p)
    BY <1>3
  <2>2. /\ xref' = DropRefs(xref, PageRefs(p)) /\ PageRefs(p) \in SUBSET Ref
        /\ phase' = phase /\ raced' = raced /\ pc' = pc /\ todo' = todo
    BY <2>1, RefsOfPage DEF PdfPage_free, docVars, threadVars
  <2>3. xref'.cached = xref.cached
    BY <1>0, <2>2, RootsAreOutside, DropRefsCounts
  <2> QED BY <2>2, <2>3 DEF StreamsInTable
<1>4. CASE \E u \in Thread : PdfDocument_getPageCount(u)
  <2>1. PICK u \in Thread : PdfDocument_getPageCount(u)
    BY <1>4
  <2>2. phase = "open" /\ phase' = phase /\ raced' = raced /\ pc' = pc /\ todo' = todo
    BY <2>1 DEF PdfDocument_getPageCount, threadVars
  <2>3. xref' = LET z == ResolveAll(Resolve(xref, <<"catalog", "pages">>), KidRefs(NumPages))
                IN  IF Count(z) # NumPages THEN [z EXCEPT !.corrected = @ \cup {"pages"}] ELSE z
    BY <2>1 DEF PdfDocument_getPageCount
  <2>4. TableGrows(xref, xref')
    BY <1>0, <2>2, <2>3, PageCountRead
  <2> QED BY <2>2, <2>4 DEF StreamsInTable, TableGrows
<1>5. CASE \E u \in Thread, p \in Page : FlushXref(u, p)
  BY <1>0, <1>5 DEF FlushXref, Goto, At, Control
\* No step but CacheStream leads to "seek", and no other thread than this is inside.
<1>6. ASSUME NEW u \in Thread, pc[u] # "idle", raced' = raced,
             NEW l, pc' = [pc EXCEPT ![u] = l], l # "seek" \/ u # t
      PROVE  FALSE
  <2>1. u # t /\ pc[t] = "seek"
    BY <1>0, <1>6 DEF Control
  <2> QED BY <1>6, <2>1 DEF OneInside
<1>7. CASE \E u \in Thread : \/ FindPage(u) \/ LoadPage(u) \/ SeekStream(u) \/ ReadStream(u) \/ Interpret(u)
  <2>1. PICK u \in Thread : \/ FindPage(u) \/ LoadPage(u) \/ SeekStream(u) \/ ReadStream(u) \/ Interpret(u)
    BY <1>7
  <2>2. pc[u] # "idle" /\ raced' = raced
    BY <2>1 DEF FindPage, LoadPage, SeekStream, ReadStream, Interpret, At, docVars
  <2>3. \E l \in {"load", "run", "cache", "read", "idle"} : pc' = [pc EXCEPT ![u] = l]
    BY <2>1 DEF FindPage, LoadPage, SeekStream, ReadStream, Interpret, Goto
  <2> QED BY <1>6, <2>2, <2>3
<1>8. CASE \E u \in Thread : PageMissing(u) \/ BoundsMissing(u) \/ StreamFails(u) \/ InterpretFails(u)
  <2>1. PICK u \in Thread : PageMissing(u) \/ BoundsMissing(u) \/ StreamFails(u) \/ InterpretFails(u)
    BY <1>8
  <2>2. pc[u] # "idle" /\ raced' = raced /\ pc' = [pc EXCEPT ![u] = "idle"]
    BY <2>1 DEF PageMissing, BoundsMissing, StreamFails, InterpretFails, GiveUp, Fail, At, Goto
  <2> QED BY <1>6, <2>2
<1>9. CASE \E u \in Thread : CacheStream(u)
  <2>1. PICK u \in Thread : CacheStream(u)
    BY <1>9
  <2>2. pc[u] # "idle" /\ raced' = raced /\ pc' = [pc EXCEPT ![u] = "seek"]
    BY <2>1 DEF CacheStream, At, Goto, docVars
  <2> QED BY <1>1, <1>6, <2>1, <2>2
<1>10. CASE UNCHANGED vars
  BY <1>10 DEF StreamsInTable, vars, docVars, threadVars
<1> QED BY <1>2, <1>3, <1>4, <1>5, <1>7, <1>8, <1>9, <1>10 DEF Next
-----------------------------------------------------------------------------
(* What is left of a document that was closed *)

\* Nobody keeps a reference less than not at all.
LEMMA KeepersAreNat ==
  ASSUME Control, xref \in Record, KeepersInv, NEW k \in Ref PROVE xref.keepers[k] \in Nat
<1>1. CASE k \in PageKeeps
  <2>1. PICK p \in Page : k = ResRef(p) \/ (p \in Linked /\ k = LinkRef(p))
    BY <1>1 DEF PageKeeps, PageRefs, Linked
  <2>2. Holders[p] \in Nat /\ xref.keepers[k] \in Int
    BY HoldersAreNat DEF Record
  <2>3. xref.keepers[k] >= Holders[p]
    <3>1. xref.keepers[ResRef(p)] = Holders[p] /\ (p \in Linked => xref.keepers[LinkRef(p)] >= Holders[p])
      BY DEF KeepersInv
    <3> QED BY <2>1, <2>2, <3>1
  <2> QED BY <2>2, <2>3
<1>2. CASE k \notin PageKeeps
  BY <1>2 DEF KeepersInv
<1> QED BY <1>1, <1>2

LEMMA LoadKeepsAlive ==
  ASSUME BaseInv, KeepersInv, InTree, Alive(xref), NEW t \in Thread, LoadPage(t)
  PROVE  Alive(xref')
<1> DEFINE p == page[t]
<1>1. /\ xref' \in Record /\ Counts(xref', Roots("open")) /\ Added(xref, xref', PageRefs(p))
      /\ \A r \in xref'.resolved : r \notin xref.resolved =>
           r[1] = PageObj[p] \/ (HasLink(p) /\ r = LinkRef(p))
      /\ phase = "open" /\ p \in Page /\ pc[t] \notin {"idle", "find"}
  BY PageLoaded DEF LoadPage, At
<1>2. Control /\ xref \in Record
  BY BaseParts
<1>3. \A k \in Ref : xref.keepers[k] \in Nat
  BY <1>2, KeepersAreNat
<1>4. <<"pages", PageObj[p]>> \in xref'.resolved
  BY <1>1 DEF InTree, Added
<1> HIDE DEF p
<1>5. \A k \in Ref : xref.keepers[k] # 0 \/ k \in PageRefs(p) => xref'.keepers[k] # 0
  BY <1>1, <1>3 DEF Added
<1>6. \A o \in Obj : xref.refs[o] <= xref'.refs[o]
  BY <1>1 DEF Added
<1>7. xref'.refs[PageObj[p]] > 0
  <2>1. <<"pages", PageObj[p]>>[2] = PageObj[p]
    OBVIOUS
  <2> QED BY <1>1, <1>4, <2>1, OpenCounts, CountsAreSafe
<1>8. HasLink(p) => xref'.keepers[LinkRef(p)] # 0
  <2>1. HasLink(p) => LinkRef(p) \in PageRefs(p) /\ LinkRef(p) \in Ref
    BY <1>1, RefsOfPage DEF PageRefs
  <2> QED BY <1>5, <2>1
<1>9. \A r \in xref'.resolved : r \notin xref.resolved => xref'.refs[r[1]] > 0 \/ xref'.keepers[r] # 0
  BY <1>1, <1>7, <1>8
<1> QED BY <1>1, <1>2, <1>5, <1>6, <1>9, ResolvingStaysAlive

\* What the operators of a page resolve, they resolve of resources that are kept.
LEMMA RunKeepsAlive ==
  ASSUME BaseInv, KeepersInv, Alive(xref), NEW t \in Thread, pc[t] = "run",
         NEW p \in Page, p = page[t],
         NEW x \in Record, Counts(x, Roots("open")), UsedMore(xref, x),
         x.resolved = xref.resolved \/ ResRef(p) \in x.resolved,
         x.resolved \subseteq xref.resolved \cup {ResRef(p)} \cup FontRefs(p)
  PROVE  Alive(x)
<1>1. Control /\ xref \in Record
  BY BaseParts
<1>2. \A k \in Ref : xref.keepers[k] \in Nat
  BY <1>1, KeepersAreNat
<1>3. \A k \in Ref : xref.keepers[k] # 0 => x.keepers[k] # 0
  BY <1>2 DEF UsedMore
<1>4. \A o \in Obj : xref.refs[o] <= x.refs[o]
  BY DEF UsedMore
<1>5. x.keepers[ResRef(p)] # 0
  <2>1. t \in Users(p)
    BY DEF Users, Inside
  <2>2. Cardinality(Users(p)) # 0 /\ Cardinality(Users(p)) \in Nat
    BY <2>1, UsersFinite, FS_EmptySet
  <2>3. Holders[p] = opened[p] + Cardinality(Users(p)) /\ opened[p] \in Nat
    BY <1>1 DEF Holders, Control
  <2>4. Holders[p] # 0
    BY <2>2, <2>3
  <2>5. xref.keepers[ResRef(p)] = Holders[p] /\ ResRef(p) \in Ref
    BY StoreKeepsApart DEF KeepersInv
  <2> QED BY <1>3, <2>4, <2>5
<1>6. CASE x.resolved = xref.resolved
  BY <1>1, <1>3, <1>4, <1>6, ResolvingStaysAlive
<1>7. CASE ResRef(p) \in x.resolved
  <2>1. ResRef(p)[2] = ResObj[p]
    BY DEF ResRef
  <2>2. x.refs[ResObj[p]] > 0
    BY <1>7, <2>1, OpenCounts, CountsAreSafe
  <2>3. \A r \in FontRefs(p) : r[1] = ResObj[p]
    BY DEF FontRefs
  <2>4. \A r \in x.resolved : r \notin xref.resolved => x.refs[r[1]] > 0 \/ x.keepers[r] # 0
    BY <1>5, <2>2, <2>3
  <2> QED BY <1>1, <1>3, <1>4, <2>4, ResolvingStaysAlive
<1> QED BY <1>6, <1>7

LEMMA StepAlive ==
  ASSUME BaseInv, KeepersInv, InTree, StreamsInTable, Alive(xref), ~ raced, [Next]_vars
  PROVE  Alive(xref')
<1>0. xref \in Record /\ Counts(xref, Roots(phase))
  BY BaseParts
<1>1. CASE PdfDocument_open
  <2>1. xref' = xref \/ xref' \in {OpenRoot(Loaded), OpenRoot(Repaired)}
    BY <1>1 DEF PdfDocument_open
  <2> QED BY <2>1, LoadedIsFresh, RepairedIsFresh, OpenRootCounts
<1>2. CASE PdfDocument_free
  <2>1. phase = "open" /\ xref' = Closing(xref)
    BY <1>2 DEF PdfDocument_free, Closing
  <2> QED BY <1>0, <2>1, ClosingCounts
<1>3. CASE \E p \in Page : PdfPage_free(p)
  <2>1. PICK p \in Page : PdfPage_free(p)
    BY <1>3
  <2>2. xref' = DropRefs(xref, PageRefs(p)) /\ PageRefs(p) \in SUBSET Ref
    BY <2>1, RefsOfPage DEF PdfPage_free
  <2> QED BY <1>0, <2>2, RootsAreOutside, DropRefsCounts
\* A load is given up by a thread whose page has been found.
<1>4. ASSUME NEW t \in Thread, NEW x \in Record, Counts(x, Roots("open")), Alive(x), page[t] \in Page,
             GiveUp(t, x)
      PROVE  Alive(xref')
  <2>1. xref' = DropRefs(x, {ResRef(page[t])}) /\ {ResRef(page[t])} \in SUBSET Ref
    BY <1>4, RefsOfPage DEF GiveUp
  <2> QED BY <1>4, <2>1, OpenCounts, DropRefsCounts
<1>5. CASE \E p \in Page, t \in Thread : FlushXref(t, p)
  <2>1. phase = "open" /\ xref' = Flush(xref, FALSE)
    BY <1>5 DEF FlushXref, At
  <2> QED BY <1>0, <2>1, RootsAreOutside, FlushCounts
<1>6. CASE \E t \in Thread : PdfDocument_getPageCount(t)
  <2>1. PICK t \in Thread : PdfDocument_getPageCount(t)
    BY <1>6
  <2>2. phase = "open"
    BY <2>1 DEF PdfDocument_getPageCount
  <2>3. xref' = LET z == ResolveAll(Resolve(xref, <<"catalog", "pages">>), KidRefs(NumPages))
                IN  IF Count(z) # NumPages THEN [z EXCEPT !.corrected = @ \cup {"pages"}] ELSE z
    BY <2>1 DEF PdfDocument_getPageCount
  <2> QED BY <1>0, <2>2, <2>3, PageCountRead
<1>7. CASE \E t \in Thread : FindPage(t) \/ PageMissing(t)
  BY <1>7, PageFound, PageNotFound
<1>8. CASE \E t \in Thread : BoundsMissing(t)
  BY <1>8 DEF BoundsMissing
<1>9. CASE \E t \in Thread : LoadPage(t)
  BY <1>9, LoadKeepsAlive
<1>10. CASE \E t \in Thread : CacheStream(t)
  <2>1. /\ xref' \in Record /\ MoreOf(xref, xref') /\ xref'.resolved = xref.resolved
    BY <1>10, StreamCached
  <2> QED BY <1>0, <2>1, ReadingStaysAlive
<1>11. CASE \E t \in Thread : SeekStream(t)
  <2>1. PICK t \in Thread : SeekStream(t)
    BY <1>11
  <2>2. Head(todo[t]) \in xref.cached
    BY <2>1 DEF SeekStream, At, StreamsInTable
  <2> QED BY <2>1, <2>2, StreamSought
<1>12. CASE \E t \in Thread : ReadStream(t)
  BY <1>12, StreamRead
<1>13. CASE \E t \in Thread : StreamFails(t)
  <2>1. PICK t \in Thread : StreamFails(t)
    BY <1>13
  <2>2. PICK x \in Record :
          /\ Counts(x, Roots("open")) /\ MoreOf(xref, x) /\ GiveUp(t, x)
          /\ x.resolved = xref.resolved \/ pc[t] = "seek"
          /\ pc[t] = "seek" /\ Head(todo[t]) \in xref.cached /\ Alive(xref) => Alive(x)
          /\ phase = "open" /\ page[t] \in Page
    BY <2>1, StreamFailed
  <2>3. Alive(x)
    <3>1. CASE pc[t] = "seek"
      BY <2>2, <3>1 DEF StreamsInTable
    <3>2. CASE x.resolved = xref.resolved
      BY <1>0, <2>2, <3>2, ReadingStaysAlive
    <3> QED BY <2>2, <3>1, <3>2
  <2> QED BY <1>4, <2>2, <2>3
<1>14. CASE \E t \in Thread : Interpret(t)
  <2>1. PICK t \in Thread : Interpret(t)
    BY <1>14
  <2>2. pc[t] = "run"
    BY <2>1 DEF Interpret, At
  <2> QED BY <2>1, <2>2, PageInterpreted, RunKeepsAlive
<1>15. CASE \E t \in Thread : InterpretFails(t)
  <2>1. PICK t \in Thread : InterpretFails(t)
    BY <1>15
  <2>2. PICK x \in Record :
          /\ Counts(x, Roots("open")) /\ UsedMore(xref, x) /\ GiveUp(t, x)
          /\ x.resolved = xref.resolved \/ ResRef(page[t]) \in x.resolved
          /\ x.resolved \subseteq xref.resolved \cup {ResRef(page[t])} \cup FontRefs(page[t])
          /\ page[t] \in Page /\ pc[t] = "run"
    BY <2>1, InterpretFailed
  <2>3. Alive(x)
    BY <2>2, RunKeepsAlive
  <2> QED BY <1>4, <2>2, <2>3
<1>16. CASE UNCHANGED vars
  BY <1>16 DEF vars
<1> QED BY <1>1, <1>2, <1>3, <1>5, <1>6, <1>7, <1>8, <1>9, <1>10, <1>11, <1>12, <1>13, <1>14, <1>15,
           <1>16 DEF Next

\* A closed document has nothing in its table or its store.
Emptied ==
  /\ phase = "none" => natives = {}
  /\ phase = "closed" =>
       xref.cached = {} /\ xref.store = {} /\ natives \subseteq {"lost page", "lost links"}

LEMMA StepEmptied == ASSUME BaseInv, Emptied, [Next]_vars PROVE Emptied'
<1>0. xref \in Record /\ Counts(xref, Roots(phase)) /\ Control
  BY BaseParts
<1>1. CASE PdfDocument_open
  BY <1>1 DEF PdfDocument_open, Emptied
<1>2. CASE PdfDocument_free
  <2>1. /\ phase = "open" /\ phase' = "closed" /\ xref' = Closing(xref)
        /\ natives' = natives \ {"doc", "renderer", "xref", "store"}
    BY <1>2 DEF PdfDocument_free, Closing
  <2>2. natives' \subseteq {"lost page", "lost links"}
    BY <1>0, <2>1 DEF Control
  <2>3. xref'.cached = {} /\ xref'.store = {}
    BY <1>0, <2>1, ClosingCounts
  <2> QED BY <2>1, <2>2, <2>3 DEF Emptied
<1>3. CASE \E p \in Page : PdfPage_free(p)
  <2>1. PICK p \in Page : PdfPage_free(p)
    BY <1>3
  <2>2. /\ phase' = phase /\ natives' = natives /\ xref' = DropRefs(xref, PageRefs(p))
        /\ PageRefs(p) \in SUBSET Ref
    BY <2>1, RefsOfPage DEF PdfPage_free, docVars
  <2>3. xref'.cached = xref.cached /\ xref'.store = xref.store
    BY <1>0, <2>2, RootsAreOutside, DropRefsCounts
  <2> QED BY <2>2, <2>3 DEF Emptied
<1>4. CASE UNCHANGED vars
  BY <1>4 DEF Emptied, vars, docVars
<1>5. CASE ~ PdfDocument_open /\ ~ PdfDocument_free /\ ~ (\E p \in Page : PdfPage_free(p)) /\ ~ UNCHANGED vars
  <2>1. phase = "open" /\ phase' = "open"
    BY <1>5 DEF Next, PdfDocument_getPageCount, FlushXref, FindPage, PageMissing, LoadPage, BoundsMissing,
       CacheStream, SeekStream, ReadStream, StreamFails, Interpret, InterpretFails, GiveUp, Fail, At, docVars
  <2> QED BY <2>1 DEF Emptied
<1> QED BY <1>1, <1>2, <1>3, <1>4, <1>5

\* All of it together, of which each needs others.
CloseInv ==
  KeepersInv /\ OneInside /\ InTree /\ StreamsInTable /\ Emptied /\ (~ raced => Alive(xref))

LEMMA InitClose == Init => CloseInv
<1> SUFFICES ASSUME Init PROVE CloseInv
  OBVIOUS
<1>1. xref.keepers = [r \in Ref |-> 0] /\ xref.store = {} /\ Alive(xref)
  BY LoadedIsFresh DEF Init, Fresh
<1>2. \A p \in Page : opened[p] = 0 /\ Users(p) = {}
  BY DEF Init, Users, Inside
<1>3. \A p \in Page : Holders[p] = 0
  BY <1>2, FS_EmptySet DEF Holders
<1>4. \A k \in Ref : xref.keepers[k] = 0
  BY <1>1
<1>5. \A p \in Page : xref.keepers[ResRef(p)] = 0 /\ (p \in Linked => xref.keepers[LinkRef(p)] = 0)
  BY <1>4, StoreKeepsApart
<1>6. KeepersInv
  BY <1>1, <1>3, <1>4, <1>5 DEF KeepersInv
<1>7. OneInside /\ InTree /\ StreamsInTable /\ Emptied
  BY DEF Init, OneInside, InTree, StreamsInTable, Emptied
<1> QED BY <1>1, <1>6, <1>7 DEF CloseInv

LEMMA StepClose == BaseInv /\ CloseInv /\ [Next]_vars => CloseInv'
<1> SUFFICES ASSUME BaseInv, CloseInv, [Next]_vars PROVE CloseInv'
  OBVIOUS
<1>1. raced => raced'
  <2>1. raced' = raced \/ \E t \in Thread, p \in Page : FlushXref(t, p)
    BY ThreadsMove
  <2> QED BY <2>1 DEF FlushXref
<1>2. Control /\ (phase = "none" => natives = {})
  BY BaseParts DEF CloseInv, Emptied
<1>3. ~ raced' => Alive(xref')
  BY <1>1, StepAlive DEF CloseInv
<1>4. KeepersInv' /\ OneInside' /\ InTree' /\ StreamsInTable' /\ Emptied'
  BY <1>2, StepKeepers, StepOneInside, StepInTree, StepStreamsInTable, StepEmptied DEF CloseInv
<1> QED BY <1>3, <1>4 DEF CloseInv

\* What is counted when nobody keeps anything hangs on something that is counted; and
\* what comes first in the order of containers hangs on nothing.
LEMMA NothingIsLeft ==
  ASSUME NEW x \in Record, Counts(x, Roots("closed")), x.cached = {}, Alive(x),
         \A k \in Ref : x.keepers[k] = 0
  PROVE  \A o \in Obj : x.refs[o] = 0
<1> DEFINE n == Len(Descending)
           D == Descending
           left == {i \in 1 .. n : x.refs[D[i]] > 0}
<1>1. n \in Nat /\ DOMAIN D = 1 .. n /\ (\A i \in 1 .. n : D[i] \in Obj)
      /\ (\A o \in Obj : \E i \in 1 .. n : D[i] = o)
  BY PdfAssumption
<1>2. \A i, j \in 1 .. n : <<D[i], D[j]>> \in Ref => i < j
  BY <1>1, PdfAssumption
<1> HIDE DEF n, D
<1>3. \A o \in Obj : x.refs[o] \in Nat
  BY RootsAreOutside, CountsAreSafe
<1>4. left = {}
  <2> SUFFICES ASSUME left # {} PROVE FALSE
    OBVIOUS
  <2>1. left \in SUBSET Nat
    BY <1>1
  <2>2. PICK i \in left : \A j \in left : i <= j
    BY <2>1, SmallestExists
  <2>3. i \in 1 .. n /\ D[i] \in Obj /\ x.refs[D[i]] > 0
    BY <1>1
  <2>4. x.refs[D[i]] = Cardinality(Into(x, D[i]))
    <3>1. x.refs[D[i]] = Cardinality(Into(x, D[i])) + (IF D[i] \in x.cached THEN 1 ELSE 0) + Roots("closed")[D[i]]
      BY <2>3 DEF Counts
    <3>2. Roots("closed")[D[i]] = 0
      BY <2>3 DEF Roots
    <3>3. Cardinality(Into(x, D[i])) \in Nat
      BY RefsAreCounted DEF Into, Record
    <3> QED BY <3>1, <3>2, <3>3
  <2>5. Into(x, D[i]) # {}
    BY <2>3, <2>4, FS_EmptySet
  <2>6. PICK r \in x.resolved : r[2] = D[i]
    BY <2>5 DEF Into
  <2>7. r \in Ref /\ r[1] \in Obj /\ r = <<r[1], D[i]>>
    BY <2>6, RefTypes DEF Record
  <2>8. x.refs[r[1]] > 0
    BY <2>6, <2>7 DEF Alive
  <2>9. PICK j \in 1 .. n : D[j] = r[1]
    BY <1>1, <2>7
  <2>10. j \in left /\ <<D[j], D[i]>> \in Ref
    BY <2>7, <2>8, <2>9
  <2>11. j < i
    BY <1>2, <2>3, <2>9, <2>10
  <2> QED BY <1>1, <2>2, <2>3, <2>9, <2>10, <2>11
<1>5. \A o \in Obj : ~ (x.refs[o] > 0)
  BY <1>1, <1>4
<1> QED BY <1>3, <1>5

LEMMA ClosedIsFreed == BaseInv /\ CloseInv => CloseFreesEverything
<1> SUFFICES ASSUME BaseInv, CloseInv, phase = "closed", ~ raced, \A t \in Thread : pc[t] = "idle",
                    \A p \in Page : opened[p] = 0
             PROVE  /\ natives \subseteq {"lost page", "lost links"}
                    /\ "lost links" \notin natives => \A o \in Obj : xref.refs[o] = 0
  BY DEF CloseFreesEverything
<1>1. xref \in Record /\ Counts(xref, Roots("closed")) /\ Control
  BY BaseParts
<1>2. /\ xref.cached = {} /\ xref.store = {} /\ Alive(xref) /\ KeepersInv
      /\ natives \subseteq {"lost page", "lost links"}
  BY DEF CloseInv, Emptied
<1>3. \A p \in Page : Holders[p] = 0
  <2>1. \A p \in Page : Users(p) = {}
    BY DEF Users, Inside
  <2> QED BY <2>1, FS_EmptySet DEF Holders
<1>4. ASSUME "lost links" \notin natives, NEW k \in Ref PROVE xref.keepers[k] = 0
  <2>1. LostLinks \notin natives
    BY <1>4 DEF LostLinks
  <2>2. CASE k \in PageKeeps
    <3>1. PICK p \in Page : k = ResRef(p) \/ (p \in Linked /\ k = LinkRef(p))
      BY <2>2 DEF PageKeeps, PageRefs, Linked
    <3> QED BY <1>2, <1>3, <2>1, <3>1 DEF KeepersInv
  <2>3. CASE k \notin PageKeeps
    BY <1>2, <2>3 DEF KeepersInv
  <2> QED BY <2>2, <2>3
<1> QED BY <1>1, <1>2, <1>4, NothingIsLeft

\* When a document and all pages opened from it have been freed, in any order and after
\* any failed loads, none of its objects is left, unless a load has lost the links of its
\* page: as long as no page was opened while another thread was opening one.
THEOREM ClosingFrees == Spec => []CloseFreesEverything
BY InitClose, StepClose, ClosedIsFreed, AlwaysBase, PTL DEF Spec
=============================================================================
