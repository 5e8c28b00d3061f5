---------------------------- MODULE ViewerProofs ----------------------------
(***************************************************************************)
(* Proofs about DocumentLayout, for documents of any length, pages of any  *)
(* height, any view and any zoom; about ZoomGesture, the zoom and the      *)
(* gestures of the same view; and about Browser, the activity the viewer   *)
(* is started from and whose list of recent documents it writes.           *)
(***************************************************************************)
EXTENDS DocumentLayout, ZoomGesture, Browser, QueueLemmas, FiniteSetTheorems, TLAPS

-----------------------------------------------------------------------------
(* Geometry *)

\* A quotient, rounded down.
LEMMA Quotient ==
  ASSUME NEW a \in Int, NEW b \in Nat \ {0}
  PROVE  /\ a \div b \in Int
         /\ b * (a \div b) <= a /\ a < b * (a \div b) + b
         /\ a >= 0 => a \div b >= 0
  OBVIOUS

\* The product of what is positive is.
LEMMA Product ==
  ASSUME NEW a \in Nat \ {0}, NEW b \in Nat \ {0}
  PROVE  a * b \in Nat \ {0}
  OBVIOUS

\* Rounding moves a height by less than a pixel, and never below the top.
LEMMA Rounding ==
  ASSUME NEW a \in Nat, NEW b \in Nat \ {0}
  PROVE  /\ Round(a, b) \in Nat
         /\ 2 * (b * Round(a, b)) <= 2 * a + b
         /\ 2 * a < 2 * (b * Round(a, b)) + b
<1>1. 2 * a + b \in Int /\ 2 * b \in Nat \ {0} /\ 2 * a + b >= 0
  OBVIOUS
<1> DEFINE r == (2 * a + b) \div (2 * b)
<1>2. r \in Int /\ r >= 0 /\ (2 * b) * r <= 2 * a + b /\ 2 * a + b < (2 * b) * r + 2 * b
  BY <1>1, Quotient
<1>3. \A x \in Int : (2 * b) * x = 2 * (b * x) /\ b * x \in Int
  OBVIOUS
<1>4. Round(a, b) = r
  BY DEF Round
<1> HIDE DEF r
<1> QED BY <1>2, <1>3, <1>4

\* (int) of a quotient is an integer; of a natural number, the quotient.
LEMMA Truncating ==
  ASSUME NEW a \in Int, NEW b \in Nat \ {0}
  PROVE  /\ Trunc(a, b) \in Int
         /\ a >= 0 => Trunc(a, b) = a \div b
<1>1. -a \in Int /\ a \div b \in Int /\ (-a) \div b \in Int
  BY Quotient
<1> QED BY <1>1 DEF Trunc

\* The pages follow one another from 0 on.
LEMMA TopsAdd ==
  ASSUME pageCount \in Nat, NEW a \in [Pages -> Nat \ {0}], NEW v, v.w \in Nat \ {0},
         NEW z \in Nat \ {0}
  PROVE  /\ Tops(a, v, z) \in [0 .. pageCount -> Nat]
         /\ Tops(a, v, z)[0] = 0
         /\ \A p \in Pages : Tops(a, v, z)[p + 1] = Tops(a, v, z)[p] + v.w * a[p] * z
<1> DEFINE n == pageCount
<1>0. n \in Nat /\ 0 \in Nat
  OBVIOUS
<1> DEFINE step == [x \in Nat \X (1 .. n) |-> x[1] + v.w * a[x[2] - 1] * z]
<1>1. ASSUME NEW i \in 1 .. n PROVE v.w * a[i - 1] * z \in Nat \ {0}
  <2>1. a[i - 1] \in Nat \ {0}
    BY DEF Pages
  <2> QED BY <2>1, Product
<1>2. ASSUME NEW x \in Nat, NEW i \in 1 .. n PROVE step[<<x, i>>] \in Nat
  BY <1>1
<1>3. PICK g : Iterates(g, Nat, 0, n, step)
  <2> HIDE DEF step, n
  <2> QED BY <1>0, <1>2, Recursion, Zenon
<1>c. /\ g \in [0 .. n -> Nat] /\ g[0] = 0
      /\ \A i \in 1 .. n : g[i] = step[<<g[i - 1], i>>]
  BY <1>3 DEF Iterates
<1>4. ASSUME NEW i \in 1 .. n PROVE g[i] = g[i - 1] + v.w * a[i - 1] * z
  <2>1. <<g[i - 1], i>> \in Nat \X (1 .. n)
    BY <1>c
  <2>2. step[<<g[i - 1], i>>] = g[i - 1] + v.w * a[i - 1] * z
    BY <2>1
  <2> QED BY <1>c, <2>2
<1> DEFINE Is(t) == t = [p \in 0 .. n |-> IF p = 0 THEN 0 ELSE t[p - 1] + v.w * a[p - 1] * z]
<1>5. Is(g)
  BY <1>c, <1>4
<1>6. Tops(a, v, z) = CHOOSE t : Is(t)
  BY DEF Tops
<1>7. Is(Tops(a, v, z))
  BY <1>5, <1>6
<1> DEFINE T == Tops(a, v, z)
<1>8. /\ DOMAIN T = 0 .. n /\ T[0] = 0
      /\ \A i \in 1 .. n : T[i] = T[i - 1] + v.w * a[i - 1] * z
      /\ T = [p \in 0 .. n |-> T[p]]
  <2> HIDE DEF T
  <2>1. T = [p \in 0 .. n |-> IF p = 0 THEN 0 ELSE T[p - 1] + v.w * a[p - 1] * z]
    BY <1>7 DEF T
  <2>2. \A i \in 1 .. n : i \in 0 .. n /\ i # 0
    OBVIOUS
  <2>3. DOMAIN T = 0 .. n /\ T[0] = 0 /\ T = [p \in 0 .. n |-> T[p]]
    BY <1>0, <2>1
  <2>4. \A i \in 1 .. n : T[i] = T[i - 1] + v.w * a[i - 1] * z
    BY <2>1, <2>2
  <2> QED BY <2>3, <2>4
<1> HIDE DEF T
<1> DEFINE S == {i \in Nat : i \in 0 .. n => T[i] \in Nat}
<1>9. 0 .. n \subseteq S
  <2>1. 0 \in S
    BY <1>8
  <2>2. ASSUME NEW i \in 0 .. (n - 1), i \in S PROVE i + 1 \in S
    <3>1. i + 1 \in 1 .. n /\ (i + 1) - 1 = i /\ T[i] \in Nat
      BY <2>2
    <3>2. T[i + 1] = T[i] + v.w * a[i] * z /\ v.w * a[i] * z \in Nat
      BY <1>1, <1>8, <3>1
    <3> QED BY <3>1, <3>2
  <2> HIDE DEF S
  <2> QED BY <2>1, <2>2, UpTo
<1>10. T \in [0 .. n -> Nat]
  BY <1>8, <1>9
<1>11. ASSUME NEW p \in Pages PROVE T[p + 1] = T[p] + v.w * a[p] * z
  <2>1. p + 1 \in 1 .. n /\ (p + 1) - 1 = p
    BY DEF Pages
  <2> QED BY <1>8, <2>1
<1> QED BY <1>8, <1>10, <1>11 DEF T

\* Each page begins below those before it.
LEMMA TopsAscend ==
  ASSUME NEW n \in Nat, NEW t \in [0 .. n -> Nat], \A p \in 0 .. (n - 1) : t[p] < t[p + 1],
         NEW p \in 0 .. n, NEW q \in 0 .. n, p <= q
  PROVE  t[p] <= t[q] /\ (p < q => t[p + 1] <= t[q])
<1>1. ASSUME NEW k \in 0 .. n, k <= q PROVE t[k] <= t[q]
  <2> DEFINE S == {i \in 0 .. q : k <= i => t[k] <= t[i]}
  <2>1. 0 \in S
    BY <1>1
  <2>2. ASSUME NEW i \in 0 .. (q - 1), i \in S PROVE i + 1 \in S
    <3>1. t[i] < t[i + 1] /\ t[i] \in Nat /\ t[i + 1] \in Nat /\ t[k] \in Nat
      BY <1>1
    <3> QED BY <1>1, <2>2, <3>1
  <2> HIDE DEF S
  <2>3. q \in Nat /\ q \in 0 .. q
    OBVIOUS
  <2>4. 0 .. q \subseteq S
    BY <2>1, <2>2, <2>3, UpTo
  <2> QED BY <1>1, <2>3, <2>4 DEF S
<1> QED BY <1>1

\* scrollTo leaves the scroll at the end of the document at the latest, and above
\* its beginning only where it also is at the end.
LEMMA Clamped ==
  ASSUME NEW y \in Int, NEW t, NEW v, BottomLimit(t, v) \in Int
  PROVE  /\ Clamp(y, t, v) \in Int
         /\ Clamp(y, t, v) <= BottomLimit(t, v)
         /\ Clamp(y, t, v) < 0 => Clamp(y, t, v) = BottomLimit(t, v)
         /\ Clamp(y, t, v) = BottomLimit(t, v) \/ (y >= 0 /\ Clamp(y, t, v) = y)
                \/ (y < 0 /\ Clamp(y, t, v) = 0)
  BY DEF Clamp

LEMMA BottomIsInt ==
  ASSUME NEW t, t[pageCount] \in Nat, NEW v, v.h \in Nat
  PROVE  BottomLimit(t, v) \in Int
<1>1. U \in Nat \ {0}
  BY LayoutAssumption
<1>2. Trunc(t[pageCount], U) \in Int
  BY <1>1, Truncating
<1> QED BY <1>2 DEF BottomLimit

\* The current page is a page.
LEMMA CurrentIsPage ==
  ASSUME pageCount \in 1 .. MaxPages, NEW ps \in SUBSET Pages
  PROVE  /\ FirstOf(ps) \in Pages
         /\ ps # {} => FirstOf(ps) \in ps
<1>1. CASE ps = {}
  BY <1>1 DEF FirstOf, Pages
<1>2. CASE ps # {}
  <2> DEFINE ranks == {Rank[p] : p \in ps}
  <2>1. \A p \in ps : Rank[p] \in Nat
    <3>1. ps \subseteq 0 .. (MaxPages - 1) /\ MaxPages \in Nat
      BY LayoutAssumption DEF Pages
    <3>2. Rank \in [0 .. (MaxPages - 1) -> Nat]
      BY LayoutAssumption
    <3> QED BY <3>1, <3>2
  <2>2. ranks \in SUBSET Nat /\ ranks # {}
    BY <1>2, <2>1
  <2>3. PICK r \in ranks : \A q \in ranks : r <= q
    BY <2>2, SmallestExists
  <2>4. \E p \in ps : \A q \in ps : Rank[p] <= Rank[q]
    BY <2>3
  <2>5. FirstOf(ps) = CHOOSE p \in ps : \A q \in ps : Rank[p] <= Rank[q]
    BY <1>2 DEF FirstOf
  <2>6. FirstOf(ps) \in ps
    BY <2>4, <2>5
  <2> QED BY <2>6
<1> QED BY <1>1, <1>2
-----------------------------------------------------------------------------
(* Types, and the rectangle of the view *)

Runnable == {"init", "page", "visibility"}
Waiting(what) == \E i \in DOMAIN posted : posted[i] = what

\* Until the runnable of showDocument has run nothing else does, and from then on
\* the bounds of the pages are those of the layout.
Begun ==
  /\ ~isInitialized => /\ posted = <<"init">>
                       /\ ~moved /\ ~destroyed /\ ~crashed /\ asked = NoPage
  /\ isInitialized => ~Waiting("init") /\ tops = Tops(aspect, view, zoom)

IInv == TypeOK /\ Begun /\ ViewRectIsFresh

\* The numbers in the constants.
LEMMA Numbers ==
  /\ MaxPages \in Nat \ {0} /\ U \in Nat \ {0}
  /\ \A v \in Views : v.w \in Nat \ {0} /\ v.h \in Nat \ {0}
  /\ Zooms \subseteq Nat \ {0} /\ Ratios \subseteq Nat \ {0}
<1>1. MaxPages \in Nat \ {0} /\ U \in Nat \ {0} /\ Zooms \subseteq Nat \ {0}
  BY LayoutAssumption
<1>2. Ratios \subseteq Nat \ {0} /\ Views \subseteq [w : Nat \ {0}, h : Nat \ {0}]
  BY LayoutAssumption
<1>3. \A v \in Views : v.w \in Nat \ {0} /\ v.h \in Nat \ {0}
  BY <1>2
<1> QED BY <1>1, <1>2, <1>3

\* What TypeOK says of numbers.
LEMMA Typed ==
  ASSUME TypeOK
  PROVE  /\ pageCount \in Nat \ {0} /\ pageCount <= MaxPages
         /\ zoom \in Nat \ {0} /\ view.w \in Nat \ {0} /\ view.h \in Nat \ {0}
         /\ scroll \in Int /\ tops[pageCount] \in Nat
         /\ posted \in Seq(Runnable)
<1>1. pageCount \in 1 .. MaxPages /\ zoom \in Zooms /\ view \in Views /\ scroll \in Int
      /\ tops \in [0 .. pageCount -> Nat] /\ posted \in Seq(Runnable)
  BY DEF TypeOK, Runnable
<1>2. pageCount \in 0 .. pageCount
  BY <1>1, Numbers
<1> QED BY <1>1, <1>2, Numbers

\* The bounds that a layout gives, and the limit that follows from them.
LEMMA LaidOut ==
  ASSUME TypeOK, NEW a \in [Pages -> Ratios], NEW v \in Views, NEW z \in Zooms
  PROVE  /\ Tops(a, v, z) \in [0 .. pageCount -> Nat]
         /\ Tops(a, v, z)[pageCount] \in Nat
         /\ BottomLimit(Tops(a, v, z), v) \in Int
         /\ v.w \in Nat /\ v.h \in Nat /\ z \in Nat \ {0}
<1>1. pageCount \in Nat /\ v.w \in Nat \ {0} /\ v.h \in Nat /\ z \in Nat \ {0}
  BY Typed, Numbers
<1>2. a \in [Pages -> Nat \ {0}]
  BY Numbers
<1>3. Tops(a, v, z) \in [0 .. pageCount -> Nat]
  BY <1>1, <1>2, TopsAdd
<1>4. Tops(a, v, z)[pageCount] \in Nat
  BY <1>1, <1>3
<1> QED BY <1>1, <1>3, <1>4, BottomIsInt

\* What onScrollChanged posts.
LEMMA Posting ==
  ASSUME NEW q \in Seq(Runnable), NEW r,
         \/ r = Append(q, "page") \o <<>>
         \/ r = Append(q, "page") \o <<"visibility">>
  PROVE  /\ r \in Seq(Runnable)
         /\ \E i \in DOMAIN r : r[i] = "page"
         /\ r = Append(q, "page") \o <<"visibility">> =>
              \E i \in DOMAIN r : r[i] = "visibility"
         /\ \A i \in DOMAIN r : r[i] = "init" => \E j \in DOMAIN q : q[j] = "init"
<1> DEFINE p == Append(q, "page")
<1>1. "page" \in Runnable /\ "visibility" \in Runnable
  BY DEF Runnable
<1>2. /\ p \in Seq(Runnable) /\ Len(p) = Len(q) + 1 /\ Len(q) \in Nat
      /\ DOMAIN q = 1 .. Len(q) /\ DOMAIN p = 1 .. (Len(q) + 1)
      /\ p[Len(q) + 1] = "page" /\ \A i \in DOMAIN q : p[i] = q[i]
  BY <1>1, PutLast
<1> HIDE DEF p
<1>3. CASE r = p \o <<>>
  <2>1. r = p
    BY <1>2, <1>3
  <2>2. Len(q) + 1 \in DOMAIN p
    BY <1>2
  <2>3. \A i \in DOMAIN p : i = Len(q) + 1 \/ i \in DOMAIN q
    BY <1>2
  <2>4. r # p \o <<"visibility">>
    <3>1. Len(p \o <<"visibility">>) = Len(p) + 1
      BY <1>1, <1>2
    <3> QED BY <1>2, <2>1, <3>1
  <2> QED BY <1>2, <2>1, <2>2, <2>3, <2>4 DEF p
<1>4. CASE r = p \o <<"visibility">>
  <2>1. /\ r \in Seq(Runnable) /\ DOMAIN r = 1 .. (Len(q) + 2)
        /\ r[Len(q) + 2] = "visibility"
        /\ \A i \in 1 .. (Len(q) + 1) : r[i] = p[i]
    BY <1>1, <1>2, <1>4
  <2>2. Len(q) + 2 \in DOMAIN r /\ Len(q) + 1 \in DOMAIN r /\ r[Len(q) + 1] = "page"
    BY <1>2, <2>1
  <2>3. ASSUME NEW i \in DOMAIN r, r[i] = "init" PROVE \E j \in DOMAIN q : q[j] = "init"
    <3>1. i # Len(q) + 2 /\ i # Len(q) + 1
      BY <2>1, <2>2, <2>3
    <3>2. i \in DOMAIN q /\ i \in 1 .. (Len(q) + 1)
      BY <1>2, <2>1, <3>1
    <3>3. q[i] = "init"
      BY <1>2, <2>1, <2>3, <3>2
    <3> QED BY <3>2, <3>3
  <2> QED BY <2>1, <2>2, <2>3
<1> QED BY <1>3, <1>4 DEF p

\* What a change of the scroll leads to.
LEMMA Moving ==
  ASSUME TypeOK, NEW y \in Int, NEW t, t[pageCount] \in Nat, NEW v, v.h \in Nat,
         NEW zooming \in BOOLEAN, MoveTo(y, t, v, zooming)
  PROVE  /\ scroll' = Clamp(y, t, v) /\ scroll' \in Int
         /\ scroll' <= BottomLimit(t, v) /\ (scroll' < 0 => scroll' = BottomLimit(t, v))
         /\ posted' \in Seq(Runnable) /\ moved' \in BOOLEAN
         /\ \/ UNCHANGED <<scroll, posted, moved>>
            \/ moved' = FALSE /\ Waiting("page")' /\ (~zooming => Waiting("visibility")')
         /\ Waiting("init")' => Waiting("init")
<1>1. scroll' = Clamp(y, t, v) /\ BottomLimit(t, v) \in Int
  BY BottomIsInt DEF MoveTo
<1>2. /\ scroll' \in Int /\ scroll' <= BottomLimit(t, v)
      /\ scroll' < 0 => scroll' = BottomLimit(t, v)
  BY <1>1, Clamped
<1>3. posted \in Seq(Runnable) /\ moved \in BOOLEAN
  BY DEF TypeOK, Runnable
<1>4. CASE UNCHANGED <<scroll, posted, moved>>
  BY <1>1, <1>2, <1>3, <1>4 DEF Waiting
<1>5. CASE moved' = FALSE /\ posted' = Append(posted, "page")
                                  \o (IF zooming THEN <<>> ELSE <<"visibility">>)
  <2>1. \/ posted' = Append(posted, "page") \o <<>> /\ zooming
        \/ posted' = Append(posted, "page") \o <<"visibility">>
    BY <1>5
  <2>2. /\ posted' \in Seq(Runnable)
        /\ \E i \in DOMAIN posted' : posted'[i] = "page"
        /\ posted' = Append(posted, "page") \o <<"visibility">> =>
             \E i \in DOMAIN posted' : posted'[i] = "visibility"
        /\ \A i \in DOMAIN posted' : posted'[i] = "init" =>
             \E j \in DOMAIN posted : posted[j] = "init"
    BY <1>3, <2>1, Posting
  <2>3. /\ Waiting("page")' /\ (~zooming => Waiting("visibility")')
        /\ Waiting("init")' => Waiting("init")
    BY <2>1, <2>2 DEF Waiting
  <2>4. moved' \in BOOLEAN /\ moved' = FALSE
    BY <1>5
  <2> QED BY <1>1, <1>2, <2>2, <2>3, <2>4
<1>6. \/ UNCHANGED <<scroll, posted, moved>>
      \/ moved' = FALSE /\ posted' = Append(posted, "page")
                                \o (IF zooming THEN <<>> ELSE <<"visibility">>)
  BY DEF MoveTo
<1> QED BY <1>4, <1>5, <1>6

\* What the looper has taken is no longer waiting, and nothing else has changed.
LEMMA Taking ==
  ASSUME TypeOK, posted # <<>>, posted' = Tail(posted)
  PROVE  /\ posted' \in Seq(Runnable)
         /\ \A what \in Runnable : Waiting(what)' => Waiting(what)
         /\ \A what \in Runnable : Waiting(what) /\ what # Head(posted) => Waiting(what)'
<1>1. posted \in Seq(Runnable)
  BY Typed
<1>2. /\ posted' \in Seq(Runnable) /\ DOMAIN posted = 1 .. Len(posted)
      /\ Len(posted) \in Nat \ {0}
      /\ DOMAIN posted' = 1 .. (Len(posted) - 1)
      /\ \A i \in DOMAIN posted' : posted'[i] = posted[i + 1]
  BY <1>1, TakeFirst
<1>3. \A i \in DOMAIN posted' : i + 1 \in DOMAIN posted
  BY <1>2
<1>4. ASSUME NEW what \in Runnable, Waiting(what), what # Head(posted) PROVE Waiting(what)'
  <2>1. PICK i \in DOMAIN posted : posted[i] = what
    BY <1>4 DEF Waiting
  <2>2. \E j \in DOMAIN Tail(posted) : Tail(posted)[j] = posted[i]
    BY <1>1, <1>4, <2>1, StaysBehind
  <2> QED BY <2>1, <2>2 DEF Waiting
<1> QED BY <1>2, <1>3, <1>4 DEF Waiting

\* The parts of TypeOK.
Sizes ==
  /\ pageCount \in 1 .. MaxPages /\ size \in [Pages -> Ratios]
  /\ aspect \in [Pages -> Ratios] /\ tops \in [0 .. pageCount -> Nat]
Places ==
  /\ zoom \in Zooms /\ view \in Views /\ scroll \in Int
  /\ viewRect \in [top : Int, h : Nat] /\ shown \subseteq Pages
  /\ posted \in Seq(Runnable)
Indices ==
  /\ currentPageIndex \in 0 .. (MaxPages - 1) /\ pageToGoTo \in 0 .. (MaxPages - 1)
  /\ saved \in 0 .. (MaxPages - 1)
  /\ asked \in 0 .. MaxPages /\ leftAt \in 0 .. MaxPages
Flags ==
  /\ isInitialized \in BOOLEAN /\ inZoom \in BOOLEAN /\ destroyed \in BOOLEAN
  /\ crashed \in BOOLEAN /\ moved \in BOOLEAN /\ noted \in BOOLEAN

\* They make it up, before and after a step.
LEMMA Parts ==
  /\ TypeOK <=> Sizes /\ Places /\ Indices /\ Flags
  /\ TypeOK' <=> Sizes' /\ Places' /\ Indices' /\ Flags'
<1>1. {isInitialized, inZoom, destroyed, crashed, moved, noted} \subseteq BOOLEAN <=> Flags
  BY Zenon DEF Flags
<1>2. {isInitialized, inZoom, destroyed, crashed, moved, noted}' \subseteq BOOLEAN <=> Flags'
  BY Zenon DEF Flags
<1>3. /\ TypeOK <=> Sizes /\ Places /\ Indices
                     /\ {isInitialized, inZoom, destroyed, crashed, moved, noted} \subseteq BOOLEAN
      /\ TypeOK' <=> Sizes' /\ Places' /\ Indices'
                     /\ {isInitialized, inZoom, destroyed, crashed, moved, noted}' \subseteq BOOLEAN
  BY DEF TypeOK, Sizes, Places, Indices, Runnable
<1> QED BY <1>1, <1>2, <1>3

LEMMA InitInv == Init => IInv
<1> SUFFICES ASSUME Init PROVE IInv
  OBVIOUS
<1>1. MaxPages \in Nat \ {0} /\ 1 \in Zooms
  BY LayoutAssumption
<1>2. pageCount \in Nat \ {0} /\ 0 \in Pages /\ size[0] \in Ratios
  BY <1>1 DEF Init, Pages
<1>3. aspect \in [Pages -> Ratios] /\ tops \in [0 .. pageCount -> Nat]
  BY <1>2 DEF Init
<1>4. posted \in Seq(Runnable) /\ NoRect \in [top : Int, h : Nat]
  BY DEF Init, Runnable, NoRect
<1>5. TypeOK
  <2>1. Sizes
    BY <1>3 DEF Init, Sizes
  <2>2. Places
    BY <1>1, <1>4 DEF Init, Places
  <2>3. Indices
    BY <1>1 DEF Init, Indices, NoPage
  <2>4. Flags
    BY Zenon DEF Init, Flags
  <2> QED BY <2>1, <2>2, <2>3, <2>4, Parts
<1>6. Begun /\ ViewRectIsFresh
  BY DEF Init, Begun, ViewRectIsFresh
<1> QED BY <1>5, <1>6 DEF IInv

\* A session begins like the first one, with the page saved last.
LEMMA SessionInv ==
  ASSUME TypeOK, NEW n \in 1 .. MaxPages, NEW sz \in [0 .. (n - 1) -> Ratios],
         Session(n, sz), pageCount' = n, size' = sz, leftAt' \in 0 .. MaxPages
  PROVE  IInv'
<1>1. MaxPages \in Nat \ {0} /\ 1 \in Zooms
  BY LayoutAssumption
<1>2. n \in Nat \ {0} /\ sz[0] \in Ratios
  BY <1>1
<1>3. aspect' \in [0 .. (n - 1) -> Ratios] /\ tops' \in [0 .. n -> Nat]
  BY <1>2 DEF Session
<1>4. posted' \in Seq(Runnable) /\ NoRect \in [top : Int, h : Nat]
  BY DEF Session, Runnable, NoRect
<1>5. TypeOK'
  <2>1. Sizes'
    BY <1>3 DEF Sizes, Pages
  <2>2. Places'
    BY <1>1, <1>4 DEF Session, Places
  <2>3. Indices'
    <3>1. saved \in 0 .. (MaxPages - 1)
      BY Parts DEF Indices
    <3> QED BY <1>1, <3>1 DEF Session, Indices, NoPage
  <2>4. Flags'
    <3>1. noted' = noted /\ noted \in BOOLEAN
      BY Parts DEF Session, Flags
    <3> QED BY <3>1, Zenon DEF Session, Flags
  <2> QED BY <2>1, <2>2, <2>3, <2>4, Parts
<1>6. Begun' /\ ViewRectIsFresh'
  BY DEF Session, Begun, ViewRectIsFresh
<1> QED BY <1>5, <1>6 DEF IInv

\* Every rectangle computed is the one that the scroll and the view give.
LEMMA RectIsRight ==
  ASSUME IInv
  PROVE  ViewRect = [top |-> scroll, h |-> view.h] /\ ViewRect \in [top : Int, h : Nat]
<1>1. ViewRect = [top |-> scroll, h |-> view.h]
  BY DEF IInv, ViewRectIsFresh, ViewRect
<1>2. scroll \in Int /\ view.h \in Nat
  BY Typed DEF IInv
<1> QED BY <1>1, <1>2

LEMMA StepInv == IInv /\ [Next]_vars => IInv'
<1> SUFFICES ASSUME IInv, [Next]_vars PROVE IInv'
  OBVIOUS
<1> USE DEF document, layout, position, memory
<1>a. /\ TypeOK /\ Begun /\ ViewRectIsFresh
      /\ Sizes /\ Places /\ Indices /\ Flags
  BY Parts DEF IInv
<1>b. /\ pageCount \in Nat \ {0} /\ zoom \in Nat \ {0} /\ view.w \in Nat \ {0}
      /\ view.h \in Nat \ {0} /\ scroll \in Int /\ tops[pageCount] \in Nat
      /\ posted \in Seq(Runnable) /\ NoPage \in 0 .. MaxPages
      /\ Pages \subseteq 0 .. (MaxPages - 1) /\ 0 .. (MaxPages - 1) \subseteq 0 .. MaxPages
  BY <1>a, Typed, Numbers DEF NoPage, Pages
<1>c. BottomLimit(tops, view) \in Int
  BY <1>b, BottomIsInt
<1>d. ViewRect = [top |-> scroll, h |-> view.h] /\ ViewRect \in [top : Int, h : Nat]
  BY RectIsRight
<1>e. VisibleIn(ViewRect, tops) \subseteq Pages /\ CurrentPage \in Pages
  <2>1. VisibleIn(ViewRect, tops) \in SUBSET Pages
    BY DEF VisibleIn
  <2>2. pageCount \in 1 .. MaxPages
    BY <1>a DEF TypeOK
  <2> QED BY <2>1, <2>2, CurrentIsPage DEF CurrentPage

\* A scroll within the layout as it is.
<1>f. ASSUME NEW y \in Int, ScrollTo(y, tops, view, inZoom), Running,
             asked' \in 0 .. MaxPages,
             UNCHANGED <<document, layout, memory, shown, destroyed, crashed>>
      PROVE  IInv'
  <2>1. inZoom \in BOOLEAN
    BY <1>a DEF TypeOK
  <2>2. /\ scroll' \in Int /\ posted' \in Seq(Runnable) /\ moved' \in BOOLEAN
        /\ Waiting("init")' => Waiting("init")
    BY <1>a, <1>b, <1>f, <2>1, Moving DEF ScrollTo
  <2>3. TypeOK'
    <3>1. Sizes' /\ Indices'
      BY <1>a, <1>f DEF Sizes, Indices, Pages
    <3>2. Places'
      BY <1>a, <1>f, <2>2 DEF Places, ScrollTo, Pages, NoRect
    <3>3. Flags'
      BY <1>a, <1>f, <2>2, Zenon DEF Flags
    <3> QED BY <3>1, <3>2, <3>3, Parts
  <2>4. Begun' /\ ViewRectIsFresh'
    <3>1. Tops(aspect, view, zoom)' = Tops(aspect, view, zoom)
      BY <1>f DEF Tops
    <3>2. viewRect' = NoRect /\ NoRect' = NoRect /\ isInitialized'
      BY <1>f DEF ScrollTo, Running, NoRect
    <3>3. isInitialized /\ UNCHANGED <<tops, isInitialized>>
      BY <1>f DEF Running
    <3>4. Begun'
      BY <1>a, <2>2, <3>1, <3>2, <3>3 DEF Begun
    <3> QED BY <3>2, <3>4 DEF ViewRectIsFresh
  <2> QED BY <2>3, <2>4 DEF IInv
<1>1. ASSUME NEW y \in Targets, Scroll(y) PROVE IInv'
  <2>1. y \in Int
    BY <1>c DEF Targets
  <2> QED BY <1>1, <1>b, <1>f, <2>1 DEF Scroll
<1>2. ASSUME NEW p \in Pages, GoToPage(p) PROVE IInv'
  <2>1. Round(tops[p], U) \in Int
    <3>1. tops[p] \in Nat
      <4>1. p \in 0 .. pageCount
        BY <1>b DEF Pages
      <4> QED BY <1>a, <4>1 DEF Sizes
    <3>2. U \in Nat \ {0}
      BY Numbers
    <3>3. Round(tops[p], U) \in Nat
      BY <3>1, <3>2, Rounding
    <3> QED BY <3>3
  <2>2. p \in 0 .. MaxPages
    BY <1>b
  <2> QED BY <1>2, <1>f, <2>1, <2>2 DEF GoToPage
<1>3. ASSUME NEW p \in Pages, PageMeasured(p) PROVE IInv'
  <2>1. aspect' \in [Pages -> Ratios] /\ zoom \in Zooms /\ view \in Views
    BY <1>3, <1>a DEF PageMeasured, TypeOK
  <2>2. tops' = Tops(aspect', view, zoom) /\ tops' \in [0 .. pageCount -> Nat]
    BY <1>3, <1>a, <2>1, LaidOut DEF PageMeasured
  <2>3. TypeOK'
    <3>1. Sizes'
      BY <1>3, <1>a, <2>1, <2>2 DEF PageMeasured, Sizes, Pages
    <3>2. Places' /\ Indices'
      BY <1>3, <1>a DEF PageMeasured, Places, Indices, Pages
    <3>3. Flags'
      BY <1>3, <1>a, Zenon DEF PageMeasured, Flags
    <3> QED BY <3>1, <3>2, <3>3, Parts
  <2>4. tops' = Tops(aspect, view, zoom)'
    BY <1>3, <2>2 DEF PageMeasured, Tops
  <2>5. Begun' /\ ViewRectIsFresh'
    BY <1>3, <1>a, <2>4 DEF PageMeasured, Begun, ViewRectIsFresh, Waiting
  <2> QED BY <2>3, <2>5 DEF IInv
<1>4. ASSUME NEW z \in Zooms, ZoomChanged(z) PROVE IInv'
  <2> DEFINE half == view.h \div 2
             y == Trunc((scroll + half) * z - half * zoom, zoom)
  <2>1. aspect \in [Pages -> Ratios] /\ view \in Views /\ z \in Nat
    BY <1>a, Numbers DEF TypeOK
  <2>2. /\ tops' = Tops(aspect, view, z) /\ tops' \in [0 .. pageCount -> Nat]
        /\ tops'[pageCount] \in Nat
    BY <1>4, <1>a, <2>1, LaidOut DEF ZoomChanged
  <2>3. y \in Int
    <3>1. half \in Int
      BY <1>b
    <3>2. (scroll + half) * z - half * zoom \in Int
      BY <1>b, <2>1, <3>1
    <3> QED BY <1>b, <3>2, Truncating
  <2>4. MoveTo(y, tops', view, TRUE) /\ viewRect' = NoRect
    BY <1>4 DEF ZoomChanged, ScrollTo
  <2>5. /\ scroll' \in Int /\ posted' \in Seq(Runnable) /\ moved' \in BOOLEAN
        /\ Waiting("init")' => Waiting("init")
    <3>1. view.h \in Nat /\ TRUE \in BOOLEAN
      BY <1>b
    <3> HIDE DEF y
    <3> QED BY <1>a, <2>2, <2>3, <2>4, <3>1, Moving
  <2>6. TypeOK'
    <3>1. Sizes'
      BY <1>4, <1>a, <2>2 DEF ZoomChanged, Sizes, Pages
    <3>2. Places'
      BY <1>4, <1>a, <2>4, <2>5 DEF ZoomChanged, Places, Pages, NoRect
    <3>3. Indices'
      BY <1>4, <1>a, <1>b DEF ZoomChanged, Indices
    <3>4. Flags'
      BY <1>4, <1>a, <2>5, Zenon DEF ZoomChanged, Flags
    <3> QED BY <3>1, <3>2, <3>3, <3>4, Parts
  <2>7. Begun' /\ ViewRectIsFresh'
    BY <1>4, <1>a, <2>2, <2>4, <2>5
    DEF ZoomChanged, Begun, ViewRectIsFresh, Running, Tops
  <2> QED BY <2>6, <2>7 DEF IInv
<1>5. ASSUME NEW v \in Views, Layout(v) PROVE IInv'
  <2> DEFINE y == Trunc(scroll * v.w, view.w)
  <2>1. aspect \in [Pages -> Ratios] /\ zoom \in Zooms /\ inZoom \in BOOLEAN
        /\ v.w \in Nat /\ v.h \in Nat
    BY <1>a, Numbers DEF TypeOK
  <2>2. /\ tops' = Tops(aspect, v, zoom) /\ tops' \in [0 .. pageCount -> Nat]
        /\ tops'[pageCount] \in Nat
    BY <1>5, <1>a, <2>1, LaidOut DEF Layout
  <2>3. y \in Int
    <3>1. scroll * v.w \in Int
      BY <1>b, <2>1
    <3> QED BY <1>b, <3>1, Truncating
  <2>4. MoveTo(y, tops', v, inZoom)
    BY <1>5 DEF Layout
  <2>5. /\ scroll' \in Int /\ posted' \in Seq(Runnable) /\ moved' \in BOOLEAN
        /\ Waiting("init")' => Waiting("init")
    <3> HIDE DEF y
    <3> QED BY <1>a, <2>1, <2>2, <2>3, <2>4, Moving
  <2>6. shown' \subseteq Pages
    BY <1>5 DEF Layout, VisibleIn
  <2>7. viewRect' = [top |-> scroll', h |-> v.h] /\ viewRect' \in [top : Int, h : Nat]
    BY <1>5, <2>1, <2>5 DEF Layout
  <2>8. TypeOK'
    <3>1. Sizes'
      BY <1>5, <1>a, <2>2 DEF Layout, Sizes, Pages
    <3>2. Places'
      BY <1>5, <1>a, <2>5, <2>6, <2>7 DEF Layout, Places, Pages
    <3>3. Indices'
      BY <1>5, <1>a, <1>b DEF Layout, Indices
    <3>4. Flags'
      BY <1>5, <1>a, <2>5, Zenon DEF Layout, Flags
    <3> QED BY <3>1, <3>2, <3>3, <3>4, Parts
  <2>9. Begun' /\ ViewRectIsFresh'
    BY <1>5, <1>a, <2>2, <2>5, <2>7 DEF Layout, Begun, ViewRectIsFresh, Running, Tops
  <2> QED BY <2>8, <2>9 DEF IInv
<1>6. ASSUME CommitZoom \/ Draw PROVE IInv'
  <2>1. /\ viewRect' = ViewRect /\ shown' \subseteq Pages /\ inZoom' \in BOOLEAN
        /\ isInitialized
        /\ UNCHANGED <<document, isInitialized, aspect, tops, zoom, view, scroll, moved,
                       asked, memory, posted, destroyed, crashed>>
    BY <1>6, <1>a, <1>d DEF CommitZoom, Draw, VisibleIn, TypeOK, Running
  <2>2. TypeOK'
    <3>1. Sizes' /\ Indices'
      BY <1>a, <2>1 DEF Sizes, Indices, Pages
    <3>2. Places'
      BY <1>a, <1>d, <2>1 DEF Places, Pages
    <3>3. Flags'
      BY <1>a, <2>1, Zenon DEF Flags
    <3> QED BY <3>1, <3>2, <3>3, Parts
  <2>3. Begun' /\ ViewRectIsFresh'
    BY <1>a, <1>d, <2>1 DEF Begun, ViewRectIsFresh, Waiting, Tops
  <2> QED BY <2>2, <2>3 DEF IInv
<1>7. ASSUME RunInit PROVE IInv'
  <2>1. aspect \in [Pages -> Ratios] /\ zoom \in Zooms /\ view \in Views
    BY <1>a DEF TypeOK
  <2>2. /\ tops' = Tops(aspect, view, zoom) /\ tops' \in [0 .. pageCount -> Nat]
        /\ BottomLimit(tops', view) \in Int
    BY <1>7, <1>a, <2>1, LaidOut DEF RunInit
  <2>3. /\ posted # <<>> /\ Head(posted) = "init" /\ 1 \in DOMAIN posted
        /\ posted[1] = "init"
    BY <1>7, <1>b DEF RunInit
  <2>4. ~isInitialized /\ posted = <<"init">>
    BY <1>a, <2>3 DEF Begun, Waiting
  <2>5. CASE pageToGoTo \in Pages
    <3> DEFINE s == Clamp(Round(tops'[pageToGoTo], U), tops', view)
    <3>1. s \in Int
      <4>1. tops'[pageToGoTo] \in Nat
        BY <1>b, <2>2, <2>5 DEF Pages
      <4>2. Round(tops'[pageToGoTo], U) \in Int
        <5>1. U \in Nat \ {0}
          BY Numbers
        <5>2. Round(tops'[pageToGoTo], U) \in Nat
          BY <4>1, <5>1, Rounding
        <5> QED BY <5>2
      <4> QED BY <2>2, <4>2, Clamped
    <3>2. /\ scroll' = s /\ posted' = IF s = 0 THEN <<>> ELSE <<"page", "visibility">>
          /\ viewRect' = [top |-> s, h |-> view.h]
          /\ shown' = VisibleIn(viewRect', tops')
          /\ asked' = pageToGoTo /\ UNCHANGED crashed
      BY <1>7, <2>5 DEF RunInit
    <3> HIDE DEF s
    <3>3. posted' \in Seq(Runnable) /\ ~Waiting("init")'
      <4>1. CASE posted' = <<>>
        BY <4>1 DEF Waiting
      <4>2. CASE posted' = <<"page", "visibility">>
        <5>1. "page" \in Runnable /\ "visibility" \in Runnable
          BY DEF Runnable
        <5>2. DOMAIN posted' = 1 .. 2 /\ posted'[1] = "page" /\ posted'[2] = "visibility"
          BY <4>2
        <5>3. ~Waiting("init")'
          BY <5>2 DEF Waiting
        <5> QED BY <4>2, <5>1, <5>3
      <4> QED BY <3>2, <4>1, <4>2
    <3>4. shown' \subseteq Pages
      BY <3>2 DEF VisibleIn
    <3>5. TypeOK'
      <4>1. Sizes'
        BY <1>7, <1>a, <2>2 DEF RunInit, Sizes, Pages
      <4>2. viewRect' \in [top : Int, h : Nat]
        BY <1>b, <3>1, <3>2
      <4>3. Places'
        BY <1>7, <1>a, <3>1, <3>2, <3>3, <3>4, <4>2 DEF RunInit, Places, Pages
      <4>4. Indices'
        BY <1>7, <1>a, <1>b, <2>5, <3>2 DEF RunInit, Indices
      <4>5. Flags'
        BY <1>7, <1>a, <3>2, Zenon DEF RunInit, Flags
      <4> QED BY <4>1, <4>3, <4>4, <4>5, Parts
    <3>6. Begun' /\ ViewRectIsFresh'
      BY <1>7, <2>2, <3>2, <3>3 DEF RunInit, Begun, ViewRectIsFresh, Tops
    <3> QED BY <3>5, <3>6 DEF IInv
  <2>6. CASE pageToGoTo \notin Pages
    <3>1. /\ crashed' = TRUE /\ posted' = Tail(posted)
          /\ UNCHANGED <<scroll, viewRect, shown, asked>>
      BY <1>7, <2>6 DEF RunInit
    <3>2. posted' = <<>>
      BY <2>4, <3>1
    <3>3. posted' \in Seq(Runnable) /\ ~Waiting("init")'
      BY <3>2 DEF Waiting
    <3>4. TypeOK'
      <4>1. Sizes'
        BY <1>7, <1>a, <2>2 DEF RunInit, Sizes, Pages
      <4>2. Places'
        BY <1>7, <1>a, <3>1, <3>3 DEF RunInit, Places, Pages
      <4>3. Indices'
        BY <1>7, <1>a, <1>b, <3>1 DEF RunInit, Indices
      <4>4. Flags'
        BY <1>7, <1>a, <3>1, Zenon DEF RunInit, Flags
      <4> QED BY <4>1, <4>2, <4>3, <4>4, Parts
    <3>5. Begun' /\ ViewRectIsFresh'
      BY <1>7, <1>a, <2>2, <3>1, <3>3 DEF RunInit, Begun, ViewRectIsFresh, Tops
    <3> QED BY <3>4, <3>5 DEF IInv
  <2> QED BY <2>5, <2>6
<1>8. ASSUME RunPage \/ RunVisibility PROVE IInv'
  <2>1. /\ posted # <<>> /\ Head(posted) # "init" /\ posted' = Tail(posted)
        /\ viewRect' = ViewRect
        /\ UNCHANGED <<document, layout, scroll, moved, asked, pageToGoTo, leftAt, destroyed>>
    BY <1>8 DEF RunPage, RunVisibility
  <2>2. /\ shown' \subseteq Pages /\ crashed' \in BOOLEAN /\ noted' \in BOOLEAN
        /\ currentPageIndex' \in 0 .. (MaxPages - 1) /\ saved' \in 0 .. (MaxPages - 1)
    <3>1. CASE RunPage
      <4>1. CurrentPage \in 0 .. (MaxPages - 1)
        BY <1>b, <1>e
      <4>2. crashed' \in BOOLEAN /\ noted' \in BOOLEAN /\ shown' \subseteq Pages
        BY <1>a, <3>1, Zenon DEF RunPage, Places, Flags
      <4> QED BY <1>a, <3>1, <4>1, <4>2 DEF RunPage, Indices
    <3>2. CASE RunVisibility
      BY <1>a, <3>2 DEF RunVisibility, VisibleIn, Indices, Flags
    <3> QED BY <1>8, <3>1, <3>2
  <2>3. posted' \in Seq(Runnable) /\ (Waiting("init")' => Waiting("init"))
    BY <1>a, <2>1, Taking DEF Runnable
  <2>4. isInitialized
    <3>1. posted # <<"init">>
      BY <2>1
    <3> QED BY <1>a, <3>1 DEF Begun
  <2>5. TypeOK'
    <3>1. Sizes' /\ Indices'
      BY <1>a, <2>1, <2>2 DEF Sizes, Indices, Pages
    <3>2. Places'
      BY <1>a, <1>d, <2>1, <2>2, <2>3 DEF Places, Pages
    <3>3. Flags'
      BY <1>a, <2>1, <2>2, Zenon DEF Flags
    <3> QED BY <3>1, <3>2, <3>3, Parts
  <2>6. Begun' /\ ViewRectIsFresh'
    BY <1>a, <1>d, <2>1, <2>3, <2>4 DEF Begun, ViewRectIsFresh, Tops
  <2> QED BY <2>5, <2>6 DEF IInv
<1>9. ASSUME Destroy PROVE IInv'
  <2>1. TypeOK'
    <3>1. Sizes' /\ Places'
      BY <1>9, <1>a DEF Destroy, Sizes, Places, Pages
    <3>2. Indices'
      BY <1>9, <1>a, <1>b, <1>e DEF Destroy, Indices
    <3>3. Flags'
      BY <1>9, <1>a, Zenon DEF Destroy, Flags
    <3> QED BY <3>1, <3>2, <3>3, Parts
  <2>2. Begun' /\ ViewRectIsFresh'
    BY <1>9, <1>a DEF Destroy, Begun, ViewRectIsFresh, Waiting, Tops
  <2> QED BY <2>1, <2>2 DEF IInv
<1>10. ASSUME OpenAgain PROVE IInv'
  <2>1. /\ pageCount \in 1 .. MaxPages /\ size \in [0 .. (pageCount - 1) -> Ratios]
        /\ leftAt \in 0 .. MaxPages
    BY <1>a DEF TypeOK, Pages
  <2> QED BY <1>10, <1>a, <2>1, SessionInv DEF OpenAgain
<1>11. ASSUME NEW n \in 1 .. MaxPages, OpenReplaced(n) PROVE IInv'
  <2>1. /\ size' \in [0 .. (n - 1) -> Ratios] /\ Session(n, size') /\ pageCount' = n
        /\ leftAt' \in 0 .. MaxPages
    BY <1>11, <1>b DEF OpenReplaced
  <2> QED BY <1>a, <2>1, SessionInv
<1>12. CASE UNCHANGED vars
  <2>1. Sizes' /\ Places' /\ Indices' /\ Flags'
    BY <1>12, <1>a DEF vars, Sizes, Places, Indices, Flags, Pages
  <2>2. Begun' /\ ViewRectIsFresh'
    BY <1>12, <1>a DEF vars, Begun, ViewRectIsFresh, Waiting, Tops
  <2> QED BY <2>1, <2>2, Parts DEF IInv
<1> QED
  BY <1>1, <1>2, <1>3, <1>4, <1>5, <1>6, <1>7, <1>8, <1>9, <1>10, <1>11, <1>12 DEF Next

LEMMA InvariantHolds == Spec => []IInv
BY InitInv, StepInv, PTL DEF Spec

\* The layout, the position and what is remembered of it keep their types.
THEOREM TypeCorrect == Spec => []TypeOK
<1>1. IInv => TypeOK
  BY DEF IInv
<1> QED BY <1>1, InvariantHolds, PTL

\* Whichever call computes the rectangle of the view, and whenever, it is that of
\* the view as it is scrolled and laid out now.
THEOREM RectIsFresh == Spec => []ViewRectIsFresh
<1>1. IInv => ViewRectIsFresh
  BY DEF IInv
<1> QED BY <1>1, InvariantHolds, PTL
-----------------------------------------------------------------------------
(* The limits of the scroll *)

\* The steps that scroll.
Scrolls ==
  \/ \E y \in Targets : Scroll(y)
  \/ \E p \in Pages : GoToPage(p)
  \/ \E z \in Zooms : ZoomChanged(z)
  \/ \E v \in Views : Layout(v)

\* Before and after a step the end of the document and the height of the view are
\* natural numbers.
LEMMA Measured ==
  /\ TypeOK => /\ pageCount \in Nat \ {0} /\ tops[pageCount] \in Nat
               /\ view.h \in Nat \ {0} /\ scroll \in Int
  /\ TypeOK' => /\ pageCount' \in Nat \ {0} /\ tops'[pageCount'] \in Nat
                /\ view'.h \in Nat \ {0} /\ scroll' \in Int
<1>1. ASSUME NEW n \in 1 .. MaxPages, NEW t \in [0 .. n -> Nat], NEW v \in Views
      PROVE  n \in Nat \ {0} /\ t[n] \in Nat /\ v.h \in Nat \ {0}
  <2>1. MaxPages \in Nat
    BY Numbers
  <2>2. n \in Nat \ {0} /\ n \in 0 .. n
    BY <2>1
  <2> QED BY <2>2, Numbers
<1>2. TypeOK => /\ pageCount \in 1 .. MaxPages /\ tops \in [0 .. pageCount -> Nat]
                /\ view \in Views /\ scroll \in Int
  BY DEF TypeOK
<1>3. TypeOK' => /\ pageCount' \in 1 .. MaxPages /\ tops' \in [0 .. pageCount' -> Nat]
                 /\ view' \in Views /\ scroll' \in Int
  BY DEF TypeOK
<1>4. TypeOK => /\ pageCount \in Nat \ {0} /\ tops[pageCount] \in Nat
                /\ view.h \in Nat \ {0} /\ scroll \in Int
  BY <1>1, <1>2
<1>5. TypeOK' => /\ pageCount' \in Nat \ {0} /\ tops'[pageCount'] \in Nat
                 /\ view'.h \in Nat \ {0} /\ scroll' \in Int
  BY <1>1, <1>3
<1> QED BY <1>4, <1>5

\* Where they scroll to, in the layout that they leave.
LEMMA Scrolled ==
  ASSUME IInv, Scrolls
  PROVE  /\ \E y \in Int, zooming \in BOOLEAN : MoveTo(y, tops', view', zooming)
         /\ UNCHANGED <<pageCount, isInitialized, destroyed, crashed>>
         /\ isInitialized /\ ~crashed /\ ~destroyed
<1> USE DEF document, layout, position, memory
<1>a. TypeOK /\ Sizes /\ Places /\ Flags
  BY Parts DEF IInv
<1>b. /\ zoom \in Nat \ {0} /\ view.w \in Nat \ {0} /\ view.h \in Nat /\ scroll \in Int
      /\ U \in Nat \ {0} /\ tops[pageCount] \in Nat
  BY <1>a, Typed, Numbers
<1>1. ASSUME NEW y \in Targets, Scroll(y)
      PROVE  y \in Int /\ MoveTo(y, tops', view', inZoom)
  <2>1. BottomLimit(tops, view) \in Int
    BY <1>b, BottomIsInt
  <2> QED BY <1>1, <2>1 DEF Scroll, ScrollTo, Targets
<1>2. ASSUME NEW p \in Pages, GoToPage(p)
      PROVE  \E y \in Int : MoveTo(y, tops', view', inZoom)
  <2>1. tops[p] \in Nat
    <3>1. p \in 0 .. pageCount
      BY <1>a, Measured DEF Pages
    <3> QED BY <1>a, <3>1 DEF Sizes
  <2>2. Round(tops[p], U) \in Nat
    BY <1>b, <2>1, Rounding
  <2>3. Round(tops[p], U) \in Int
    BY <2>2
  <2> QED BY <1>2, <2>3 DEF GoToPage, ScrollTo
<1>3. ASSUME NEW z \in Zooms, ZoomChanged(z)
      PROVE  \E y \in Int : MoveTo(y, tops', view', TRUE)
  <2> DEFINE half == view.h \div 2
  <2>1. half \in Int /\ z \in Int
    BY <1>b, Numbers
  <2>2. (scroll + half) * z - half * zoom \in Int
    BY <1>b, <2>1
  <2>3. Trunc((scroll + half) * z - half * zoom, zoom) \in Int
    BY <1>b, <2>2, Truncating
  <2>4. MoveTo(Trunc((scroll + half) * z - half * zoom, zoom), tops', view, TRUE)
        /\ view' = view
    BY <1>3 DEF ZoomChanged, ScrollTo
  <2> QED BY <2>3, <2>4
<1>4. ASSUME NEW v \in Views, Layout(v)
      PROVE  \E y \in Int : MoveTo(y, tops', view', inZoom)
  <2>1. scroll * v.w \in Int
    BY <1>b, Numbers
  <2>2. Trunc(scroll * v.w, view.w) \in Int
    BY <1>b, <2>1, Truncating
  <2> QED BY <1>4, <2>2 DEF Layout
<1>5. /\ UNCHANGED <<pageCount, isInitialized, destroyed, crashed>>
      /\ isInitialized /\ ~crashed /\ ~destroyed
  BY DEF Scrolls, Scroll, GoToPage, ZoomChanged, Layout, Running
<1>6. inZoom \in BOOLEAN /\ TRUE \in BOOLEAN
  BY <1>a DEF Flags
<1> QED BY <1>1, <1>2, <1>3, <1>4, <1>5, <1>6 DEF Scrolls

LEMMA LimitsStep ==
  ASSUME IInv, IInv', ScrollWithinLimits, [Next]_vars PROVE ScrollWithinLimits'
<1> USE DEF document, layout, position, memory
<1>a. TypeOK /\ TypeOK'
  BY DEF IInv
<1>1. CASE Scrolls
  <2>1. PICK y \in Int, zooming \in BOOLEAN : MoveTo(y, tops', view', zooming)
    BY <1>1, Scrolled
  <2>2. UNCHANGED <<pageCount, isInitialized, destroyed, crashed>>
    BY <1>1, Scrolled
  <2>3. tops'[pageCount] \in Nat /\ view'.h \in Nat
    BY <1>a, <2>2, Measured
  <2>4. /\ scroll' <= BottomLimit(tops', view')
        /\ scroll' < 0 => scroll' = BottomLimit(tops', view')
    BY <1>a, <2>1, <2>3, Moving
  <2>5. BottomLimit(tops, view)' = BottomLimit(tops', view')
    BY <2>2 DEF BottomLimit
  <2> QED BY <2>4, <2>5 DEF ScrollWithinLimits
<1>2. CASE RunInit
  <2>1. CASE pageToGoTo \in Pages
    <3> DEFINE y == Round(tops'[pageToGoTo], U)
    <3>1. scroll' = Clamp(y, tops', view) /\ UNCHANGED <<pageCount, view>>
      BY <1>2, <2>1 DEF RunInit
    <3>2. BottomLimit(tops', view) \in Int
      BY <1>a, <3>1, Measured, BottomIsInt
    <3>3. y \in Int
      <4>1. tops'[pageToGoTo] \in Nat
        <5>1. pageToGoTo \in 0 .. pageCount /\ tops' \in [0 .. pageCount -> Nat]
          BY <1>a, <2>1, <3>1, Parts, Measured DEF Sizes, Pages
        <5> QED BY <5>1
      <4>2. U \in Nat \ {0}
        BY Numbers
      <4>3. y \in Nat
        BY <4>1, <4>2, Rounding
      <4> QED BY <4>3
    <3> HIDE DEF y
    <3>4. /\ scroll' <= BottomLimit(tops', view)
          /\ scroll' < 0 => scroll' = BottomLimit(tops', view)
      BY <3>1, <3>2, <3>3, Clamped
    <3>5. BottomLimit(tops, view)' = BottomLimit(tops', view)
      BY <3>1 DEF BottomLimit
    <3> QED BY <3>4, <3>5 DEF ScrollWithinLimits
  <2>2. CASE pageToGoTo \notin Pages
    BY <1>2, <2>2 DEF RunInit, ScrollWithinLimits
  <2> QED BY <2>1, <2>2
<1>3. CASE \E p \in Pages : PageMeasured(p)
  BY <1>3 DEF PageMeasured, ScrollWithinLimits
<1>4. CASE CommitZoom \/ Draw \/ RunPage \/ RunVisibility \/ Destroy
  <2>1. UNCHANGED <<pageCount, isInitialized, tops, view, scroll, moved>> /\ ~crashed
    BY <1>4 DEF CommitZoom, Draw, RunPage, RunVisibility, Destroy, Running
  <2>2. BottomLimit(tops, view)' = BottomLimit(tops, view)
    BY <2>1 DEF BottomLimit
  <2> QED BY <2>1, <2>2 DEF ScrollWithinLimits
<1>5. CASE OpenAgain \/ \E n \in 1 .. MaxPages : OpenReplaced(n)
  BY <1>5 DEF OpenAgain, OpenReplaced, Session, ScrollWithinLimits
<1>6. CASE UNCHANGED vars
  BY <1>6 DEF vars, ScrollWithinLimits, BottomLimit
<1> QED BY <1>1, <1>2, <1>3, <1>4, <1>5, <1>6 DEF Next, Scrolls

\* Whatever the reader does, and in whatever order the runnables run, nothing beyond
\* the ends of the document is shown until a page is measured.
THEOREM ScrollStaysWithin == Spec => []ScrollWithinLimits
<1>1. Init => ScrollWithinLimits
  BY DEF Init, ScrollWithinLimits
<1> QED BY <1>1, LimitsStep, InvariantHolds, PTL DEF Spec
-----------------------------------------------------------------------------
(* Who knows that he is visible *)

LEMMA VisibilityStep ==
  ASSUME IInv, IInv', VisibilityFollows, [Next]_vars PROVE VisibilityFollows'
<1> USE DEF document, layout, position, memory
<1>a. /\ TypeOK /\ TypeOK'
      /\ ViewRect = [top |-> scroll, h |-> view.h]
      /\ ViewRect' = [top |-> scroll', h |-> view'.h]
  BY DEF IInv, ViewRectIsFresh, ViewRect
<1>b. view.h \in Nat /\ tops[pageCount] \in Nat /\ inZoom \in BOOLEAN
  BY <1>a, Measured, Parts DEF Flags

\* The visible pages, when what they depend on has not changed.
<1>c. ASSUME UNCHANGED <<pageCount, tops, view, scroll>>
      PROVE  VisibleIn(ViewRect, tops)' = VisibleIn(ViewRect, tops)
  BY <1>a, <1>c DEF VisibleIn, Pages
<1>d. VisibilityFollows' <=>
        (isInitialized' /\ ~crashed' /\ ~moved' /\ ~inZoom' /\ ~Waiting("visibility")' =>
           shown' = VisibleIn(ViewRect, tops)')
  BY DEF VisibilityFollows, Waiting
<1>e. VisibilityFollows <=>
        (isInitialized /\ ~crashed /\ ~moved /\ ~inZoom /\ ~Waiting("visibility") =>
           shown = VisibleIn(ViewRect, tops))
  BY DEF VisibilityFollows, Waiting
<1>f. ASSUME NEW y \in Int, ScrollTo(y, tops, view, inZoom), Running,
             UNCHANGED <<document, layout, memory, shown, destroyed, crashed>>
      PROVE  VisibilityFollows'
  <2>1. \/ UNCHANGED <<scroll, posted, moved>>
        \/ moved' = FALSE /\ (~inZoom => Waiting("visibility")')
    BY <1>a, <1>b, <1>f, Moving DEF ScrollTo
  <2>2. CASE UNCHANGED <<scroll, posted, moved>>
    <3>1. /\ UNCHANGED <<pageCount, tops, view, scroll>>
          /\ Waiting("visibility")' <=> Waiting("visibility")
      BY <1>f, <2>2 DEF Waiting
    <3> QED BY <1>c, <1>d, <1>e, <1>f, <2>2, <3>1
  <2>3. CASE ~inZoom => Waiting("visibility")'
    BY <1>d, <1>f, <2>3
  <2> QED BY <2>1, <2>2, <2>3
<1>1. CASE \E y \in Targets : Scroll(y)
  <2>1. PICK y \in Targets : Scroll(y)
    BY <1>1
  <2>2. y \in Int
    <3>1. BottomLimit(tops, view) \in Int
      BY <1>b, BottomIsInt
    <3> QED BY <3>1 DEF Targets
  <2> QED BY <1>f, <2>1, <2>2 DEF Scroll
<1>2. CASE \E p \in Pages : GoToPage(p)
  <2>1. PICK p \in Pages : GoToPage(p)
    BY <1>2
  <2>2. Round(tops[p], U) \in Int
    <3>1. p \in 0 .. pageCount
      BY <1>a, Measured DEF Pages
    <3>2. tops[p] \in Nat /\ U \in Nat \ {0}
      BY <1>a, <3>1, Parts, Numbers DEF Sizes
    <3>3. Round(tops[p], U) \in Nat
      BY <3>2, Rounding
    <3> QED BY <3>3
  <2> QED BY <1>f, <2>1, <2>2 DEF GoToPage
<1>3. CASE \E z \in Zooms : ZoomChanged(z)
  BY <1>3 DEF ZoomChanged, VisibilityFollows
<1>4. CASE \E v \in Views : Layout(v)
  <2>1. shown' = VisibleIn(viewRect', tops') /\ viewRect' = [top |-> scroll', h |-> view'.h]
        /\ pageCount' = pageCount
    BY <1>4 DEF Layout
  <2>2. VisibleIn(ViewRect, tops)' = VisibleIn(viewRect', tops')
    BY <1>a, <2>1 DEF VisibleIn, Pages
  <2> QED BY <2>1, <2>2 DEF VisibilityFollows
<1>5. CASE CommitZoom \/ RunVisibility
  <2>1. shown' = VisibleIn(viewRect', tops) /\ viewRect' = ViewRect
        /\ UNCHANGED <<pageCount, tops, view, scroll>>
    BY <1>5 DEF CommitZoom, RunVisibility
  <2> QED BY <1>c, <2>1 DEF VisibilityFollows
<1>6. CASE RunInit
  <2>1. CASE pageToGoTo \in Pages
    <3>1. shown' = VisibleIn(viewRect', tops') /\ viewRect' = [top |-> scroll', h |-> view'.h]
          /\ pageCount' = pageCount
      BY <1>6, <2>1 DEF RunInit
    <3>2. VisibleIn(ViewRect, tops)' = VisibleIn(viewRect', tops')
      BY <1>a, <3>1 DEF VisibleIn, Pages
    <3> QED BY <3>1, <3>2 DEF VisibilityFollows
  <2>2. CASE pageToGoTo \notin Pages
    BY <1>6, <2>2 DEF RunInit, VisibilityFollows
  <2> QED BY <2>1, <2>2
<1>7. CASE RunPage
  <2>1. /\ posted # <<>> /\ Head(posted) = "page" /\ posted' = Tail(posted) /\ ~crashed
        /\ UNCHANGED <<pageCount, tops, view, scroll, isInitialized, inZoom, moved, shown>>
    BY <1>7 DEF RunPage
  <2>2. Waiting("visibility") => Waiting("visibility")'
    BY <1>a, <2>1, Taking DEF Runnable
  <2> QED BY <1>c, <1>d, <1>e, <2>1, <2>2
<1>8. CASE \E p \in Pages : PageMeasured(p)
  BY <1>8 DEF PageMeasured, VisibilityFollows
<1>9. CASE Draw \/ Destroy
  <2>1. /\ ~crashed
        /\ UNCHANGED <<pageCount, tops, view, scroll, isInitialized, inZoom, moved, shown, posted>>
    BY <1>9 DEF Draw, Destroy
  <2>2. Waiting("visibility")' <=> Waiting("visibility")
    BY <2>1 DEF Waiting
  <2> QED BY <1>c, <1>d, <1>e, <2>1, <2>2
<1>10. CASE OpenAgain \/ \E n \in 1 .. MaxPages : OpenReplaced(n)
  BY <1>10 DEF OpenAgain, OpenReplaced, Session, VisibilityFollows
<1>11. CASE UNCHANGED vars
  <2>1. UNCHANGED <<pageCount, tops, view, scroll, isInitialized, inZoom, moved, shown, posted,
                    crashed>>
    BY <1>11 DEF vars
  <2>2. Waiting("visibility")' <=> Waiting("visibility")
    BY <2>1 DEF Waiting
  <2> QED BY <1>c, <1>d, <1>e, <2>1, <2>2
<1> QED
  BY <1>1, <1>2, <1>3, <1>4, <1>5, <1>6, <1>7, <1>8, <1>9, <1>10, <1>11 DEF Next

\* No scroll, zoom or layout leaves a page that is in sight without an update that
\* is still to tell it so, however many runnables wait.
THEOREM VisibilityIsTold == Spec => []VisibilityFollows
<1>1. Init => VisibilityFollows
  BY DEF Init, VisibilityFollows
<1> QED BY <1>1, VisibilityStep, InvariantHolds, PTL DEF Spec
-----------------------------------------------------------------------------
(* The page asked for *)

\* No page is less than a pixel high.
PixelHigh == \A v \in Views, r \in Ratios : v.w * r >= U

\* A product grows with its second factor.
LEMMA Grows ==
  ASSUME NEW a \in Nat, NEW b \in Int, NEW c \in Int, b <= c
  PROVE  a * b <= a * c
<1>1. c - b \in Nat /\ a * (c - b) \in Nat /\ a * (c - b) = a * c - a * b
  OBVIOUS
<1>2. a * b \in Int /\ a * c \in Int
  OBVIOUS
<1> QED BY <1>1, <1>2

\* Then each page ends at least a pixel below where it begins, at any zoom.
LEMMA PagesAreHigh ==
  ASSUME PixelHigh, TypeOK, NEW a \in [Pages -> Ratios], NEW v \in Views, NEW z \in Zooms,
         NEW p \in Pages
  PROVE  LET t == Tops(a, v, z)
         IN  /\ t \in [0 .. pageCount -> Nat] /\ t[0] = 0
             /\ t[p] \in Nat /\ t[p + 1] \in Nat /\ t[pageCount] \in Nat
             /\ t[p] + U * z <= t[p + 1] /\ U <= U * z
             /\ t[p + 1] <= t[pageCount]
<1> DEFINE t == Tops(a, v, z)
<1>1. /\ pageCount \in Nat /\ v.w \in Nat \ {0} /\ z \in Nat \ {0}
      /\ U \in Nat \ {0} /\ a \in [Pages -> Nat \ {0}]
  BY Measured, Numbers
<1>2. /\ t \in [0 .. pageCount -> Nat] /\ t[0] = 0
      /\ \A q \in Pages : t[q + 1] = t[q] + v.w * a[q] * z
  BY <1>1, TopsAdd
<1> HIDE DEF t
<1>3. ASSUME NEW q \in Pages PROVE v.w * a[q] * z >= U * z /\ U * z \in Nat /\ U * z >= U
  <2>1. a[q] \in Ratios /\ a[q] \in Nat \ {0}
    BY <1>1
  <2>2. v.w * a[q] >= U /\ v.w * a[q] \in Nat
    BY <1>1, <2>1 DEF PixelHigh
  <2>3. z * U <= z * (v.w * a[q])
    BY <1>1, <2>2, Grows
  <2>4. U * 1 <= U * z
    BY <1>1, Grows
  <2>5. z * U = U * z /\ z * (v.w * a[q]) = v.w * a[q] * z /\ U * 1 = U /\ U * z \in Nat
    BY <1>1, <2>2
  <2> QED BY <2>3, <2>4, <2>5
<1>4. \A q \in 0 .. (pageCount - 1) : t[q] < t[q + 1]
  <2>1. ASSUME NEW q \in Pages PROVE t[q] < t[q + 1]
    <3>1. t[q] \in Nat /\ v.w * a[q] * z \in Nat /\ v.w * a[q] * z > 0
      <4>1. q \in 0 .. pageCount
        BY <1>1 DEF Pages
      <4>2. v.w * a[q] \in Nat \ {0}
        BY <1>1, Product
      <4>3. v.w * a[q] * z \in Nat \ {0}
        BY <1>1, <4>2, Product
      <4> QED BY <1>2, <4>1, <4>3
    <3> QED BY <1>2, <3>1
  <2> QED BY <2>1 DEF Pages
<1>5. p \in 0 .. pageCount /\ p + 1 \in 0 .. pageCount /\ pageCount \in 0 .. pageCount
      /\ p + 1 <= pageCount
  BY <1>1 DEF Pages
<1>6. t[p + 1] <= t[pageCount]
  BY <1>1, <1>2, <1>4, <1>5, TopsAscend
<1>7. t[p] + U * z <= t[p + 1]
  <2>1. t[p + 1] = t[p] + v.w * a[p] * z /\ t[p] \in Nat
    BY <1>2, <1>5
  <2>2. v.w * a[p] * z >= U * z /\ v.w * a[p] * z \in Int /\ U * z \in Nat
    <3>1. v.w * a[p] \in Int
      BY <1>1
    <3>2. v.w * a[p] * z \in Int
      BY <1>1, <3>1
    <3> QED BY <1>3, <3>2
  <2> QED BY <2>1, <2>2
<1>8. U <= U * z
  BY <1>3
<1> QED BY <1>2, <1>5, <1>6, <1>7, <1>8 DEF t

\* The end of the view, when it is at the end of the document, is less than a pixel
\* above it.
LEMMA AtTheEnd ==
  ASSUME NEW t, t[pageCount] \in Nat, NEW v, v.h \in Nat
  PROVE  LET s == BottomLimit(t, v)
         IN  /\ s \in Int
             /\ U * (s + v.h) <= t[pageCount] /\ t[pageCount] < U * (s + v.h) + U
<1> DEFINE q == t[pageCount] \div U
<1>1. U \in Nat \ {0} /\ t[pageCount] \in Int /\ t[pageCount] >= 0
  BY Numbers
<1>2. q \in Int /\ U * q <= t[pageCount] /\ t[pageCount] < U * q + U
  BY <1>1, Quotient
<1>3. Trunc(t[pageCount], U) = q
  BY <1>1, Truncating
<1>4. BottomLimit(t, v) = q - v.h
  BY <1>3 DEF BottomLimit
<1> HIDE DEF q
<1>5. q - v.h \in Int /\ (q - v.h) + v.h = q
  BY <1>2
<1> QED BY <1>2, <1>4, <1>5

\* Where scrollTo takes the top of a page the page is in sight, and begins there
\* unless the document ends.
LEMMA PageInSight ==
  ASSUME PixelHigh, TypeOK, NEW a \in [Pages -> Ratios], NEW v \in Views, NEW z \in Zooms,
         NEW p \in Pages
  PROVE  LET t == Tops(a, v, z)
             s == Clamp(Round(t[p], U), t, v)
         IN  /\ p \in VisibleIn([top |-> s, h |-> v.h], t)
             /\ s = BottomLimit(t, v) \/ (t[p] - U < s * U /\ s * U < t[p] + U)
<1> DEFINE t == Tops(a, v, z)
           y == Round(t[p], U)
           s == Clamp(y, t, v)
           b == BottomLimit(t, v)
<1>1. /\ t[p] \in Nat /\ t[p + 1] \in Nat /\ t[pageCount] \in Nat
      /\ t[p] + U * z <= t[p + 1] /\ U <= U * z /\ t[p + 1] <= t[pageCount]
  BY PagesAreHigh
<1>2. U \in Nat \ {0} /\ v.h \in Nat \ {0} /\ z \in Nat \ {0}
  BY Numbers
<1>0. U * z \in Nat
  BY <1>2
<1>3. y \in Nat /\ 2 * (U * y) <= 2 * t[p] + U /\ 2 * t[p] < 2 * (U * y) + U
  <2> HIDE DEF t
  <2> QED BY <1>1, <1>2, Rounding
<1>4. b \in Int /\ U * (b + v.h) <= t[pageCount] /\ t[pageCount] < U * (b + v.h) + U
  BY <1>1, <1>2, AtTheEnd
<1>5. s = b \/ s = y
  <2> HIDE DEF y
  <2>1. y \in Int /\ y >= 0
    BY <1>3
  <2> QED BY <2>1, <1>4, Clamped
<1>6. s <= b /\ s \in Int
  <2> HIDE DEF y
  <2>1. y \in Int
    BY <1>3
  <2> QED BY <2>1, <1>4, Clamped
<1>7. VisibleIn([top |-> s, h |-> v.h], t)
        = {q \in Pages : s * U < t[q + 1] /\ t[q] < (s + v.h) * U}
  BY DEF VisibleIn
<1> HIDE DEF t, y, s, b
<1>8. s * U = U * s /\ (s + v.h) * U = U * (s + v.h) /\ U * s \in Int /\ U * y \in Nat
      /\ U * (s + v.h) \in Int /\ U * (b + v.h) \in Int
  BY <1>2, <1>3, <1>4, <1>6
<1>9. CASE s = y
  <2>1. y + 1 <= s + v.h
    BY <1>2, <1>3, <1>9
  <2>2. U * (y + 1) <= U * (s + v.h) /\ U * (y + 1) = U * y + U
    <3>1. U \in Nat /\ y + 1 \in Int /\ s + v.h \in Int
      BY <1>2, <1>3, <1>6
    <3> QED BY <2>1, <3>1, <1>3, Grows
  <2>3. s * U < t[p + 1] /\ t[p] < (s + v.h) * U
    BY <1>0, <1>1, <1>2, <1>3, <1>8, <1>9, <2>2
  <2>4. t[p] - U < s * U /\ s * U < t[p] + U
    BY <1>1, <1>2, <1>3, <1>8, <1>9
  <2> QED BY <1>7, <2>3, <2>4 DEF t, y, s, b
<1>10. CASE s = b /\ s # y
  <2>1. b < y \/ y < b
    BY <1>3, <1>4, <1>10
  <2>2. b < y
    <3>1. y < b => Clamp(y, t, v) = y
      BY <1>3, <1>4 DEF Clamp, b
    <3> QED BY <2>1, <3>1, <1>10 DEF s
  <2>3. U * s + U <= U * y
    <3>1. U \in Nat /\ s + 1 \in Int /\ y \in Int /\ s + 1 <= y
      BY <1>2, <1>3, <1>6, <1>10, <2>2
    <3>2. U * (s + 1) <= U * y
      BY <3>1, Grows
    <3>3. U * (s + 1) = U * s + U
      BY <1>2, <1>6
    <3> QED BY <3>2, <3>3
  <2>4. s * U < t[p + 1]
    BY <1>0, <1>1, <1>2, <1>3, <1>8, <2>3
  <2>5. t[p] < (s + v.h) * U
    BY <1>0, <1>1, <1>2, <1>4, <1>8, <1>10
  <2> QED BY <1>7, <1>10, <2>4, <2>5 DEF t, y, s, b
<1> QED BY <1>5, <1>9, <1>10

\* The page asked for is one of the document that is open.
AskedInv == (asked # NoPage => asked \in Pages /\ isInitialized) /\ AskedPageIsShown

LEMMA AskedStep ==
  ASSUME PixelHigh, IInv, IInv', AskedInv, [Next]_vars PROVE AskedInv'
<1> USE DEF document, layout, position, memory
<1>a. /\ TypeOK /\ TypeOK' /\ Begun /\ NoPage' = NoPage
      /\ ViewRect = [top |-> scroll, h |-> view.h]
      /\ ViewRect' = [top |-> scroll', h |-> view'.h]
  BY DEF IInv, ViewRectIsFresh, ViewRect, NoPage
<1>b. /\ aspect \in [Pages -> Ratios] /\ view \in Views /\ zoom \in Zooms
      /\ inZoom \in BOOLEAN
  BY <1>a, Parts DEF Sizes, Places, Flags

\* The scroll to a page asked for.
<1>c. ASSUME NEW p \in Pages, tops' = Tops(aspect, view, zoom), asked' = p,
             scroll' = Clamp(Round(tops'[p], U), tops', view), isInitialized',
             UNCHANGED <<document, view>>
      PROVE  AskedInv'
  <2>1. /\ p \in VisibleIn([top |-> scroll', h |-> view.h], tops')
        /\ scroll' = BottomLimit(tops', view)
             \/ (tops'[p] - U < scroll' * U /\ scroll' * U < tops'[p] + U)
    BY <1>a, <1>b, <1>c, PageInSight
  <2>2. /\ VisibleIn(ViewRect, tops)' = VisibleIn([top |-> scroll', h |-> view.h], tops')
        /\ BottomLimit(tops, view)' = BottomLimit(tops', view)
        /\ Pages' = Pages
    BY <1>a, <1>c DEF VisibleIn, BottomLimit, Pages
  <2> QED BY <1>c, <2>1, <2>2 DEF AskedInv, AskedPageIsShown

\* Nothing of what matters changes.
<1>d. ASSUME UNCHANGED <<pageCount, tops, view, scroll, asked, moved>>,
             isInitialized => isInitialized'
      PROVE  AskedInv'
  <2>1. /\ VisibleIn(ViewRect, tops)' = VisibleIn(ViewRect, tops)
        /\ BottomLimit(tops, view)' = BottomLimit(tops, view)
        /\ Pages' = Pages
    BY <1>a, <1>d DEF VisibleIn, BottomLimit, Pages
  <2> QED BY <1>a, <1>d, <2>1 DEF AskedInv, AskedPageIsShown
<1>e. ASSUME asked' = NoPage PROVE AskedInv'
  BY <1>a, <1>e DEF AskedInv, AskedPageIsShown
<1>1. CASE \E y \in Targets : Scroll(y)
  BY <1>1, <1>e DEF Scroll
<1>2. CASE \E p \in Pages : GoToPage(p)
  <2>1. PICK p \in Pages : GoToPage(p)
    BY <1>2
  <2>2. tops' = Tops(aspect, view, zoom) /\ isInitialized'
    BY <1>a, <2>1 DEF GoToPage, Begun, Running
  <2>3. scroll' = Clamp(Round(tops'[p], U), tops', view)
    BY <2>1 DEF GoToPage, ScrollTo, MoveTo
  <2> QED BY <1>c, <2>1, <2>2, <2>3 DEF GoToPage
<1>3. CASE \E z \in Zooms : ZoomChanged(z)
  BY <1>3, <1>e DEF ZoomChanged
<1>4. CASE \E v \in Views : Layout(v)
  BY <1>4, <1>e DEF Layout
<1>5. CASE CommitZoom \/ Draw \/ RunPage \/ RunVisibility \/ Destroy
  BY <1>5, <1>d DEF CommitZoom, Draw, RunPage, RunVisibility, Destroy
<1>6. CASE RunInit
  <2>1. CASE pageToGoTo \in Pages
    BY <1>6, <1>c, <2>1 DEF RunInit
  <2>2. CASE pageToGoTo \notin Pages
    <3>1. asked = NoPage
      <4>1. posted \in Seq(Runnable) /\ posted # <<>> /\ Head(posted) = "init"
        BY <1>6, <1>a, Parts DEF RunInit, Places
      <4>2. Waiting("init")
        BY <4>1 DEF Waiting
      <4> QED BY <1>a, <4>2 DEF Begun
    <3> QED BY <1>6, <1>e, <2>2, <3>1 DEF RunInit
  <2> QED BY <2>1, <2>2
<1>7. CASE \E p \in Pages : PageMeasured(p)
  <2>1. Pages' = Pages /\ moved' = TRUE /\ UNCHANGED <<asked, isInitialized>>
    BY <1>7 DEF PageMeasured, Pages
  <2> QED BY <1>a, <2>1 DEF AskedInv, AskedPageIsShown
<1>8. CASE OpenAgain \/ \E n \in 1 .. MaxPages : OpenReplaced(n)
  BY <1>8, <1>e DEF OpenAgain, OpenReplaced, Session
<1>9. CASE UNCHANGED vars
  BY <1>9, <1>d DEF vars
<1> QED BY <1>1, <1>2, <1>3, <1>4, <1>5, <1>6, <1>7, <1>8, <1>9 DEF Next

\* The page that the reader or the preferences ask for comes into sight, within a
\* pixel of the top unless the document ends, whatever its place in the document.
THEOREM AskedComesInSight == ASSUME PixelHigh PROVE Spec => []AskedPageIsShown
<1>1. Init => AskedInv
  BY DEF Init, AskedInv, AskedPageIsShown
<1>2. IInv /\ IInv' /\ AskedInv /\ [Next]_vars => AskedInv'
  BY AskedStep
<1>3. AskedInv => AskedPageIsShown
  BY DEF AskedInv
<1> QED BY <1>1, <1>2, <1>3, InvariantHolds, PTL DEF Spec
-----------------------------------------------------------------------------
(* The current page *)

\* The map of pages is iterated in the order of the pages.
Ascending == \A p, q \in DOMAIN Rank : p < q => Rank[p] < Rank[q]

\* The screen is turned rather than stretched: the wider of two views is not the
\* higher one, and each page is at least a pixel higher in it.
Turns ==
  \A u, v \in Views : u.w < v.w =>
    v.h <= u.h /\ \A r \in Ratios : (v.w - u.w) * r >= U

\* The scroll is within the limits of the layout t of the view v.
Within(s, t, v) ==
  s \in Int /\ s <= BottomLimit(t, v) /\ (s < 0 => s = BottomLimit(t, v))

\* The page p is the first whose end is below the top of the view.
AtTop(p, s, t) == s * U < t[p + 1] /\ (p = 0 \/ t[p] <= s * U)

\* There is one.
LEMMA SomeAtTop ==
  ASSUME PixelHigh, TypeOK, NEW a \in [Pages -> Ratios], NEW v \in Views, NEW z \in Zooms,
         NEW s, Within(s, Tops(a, v, z), v)
  PROVE  \E p \in Pages : AtTop(p, s, Tops(a, v, z))
<1> DEFINE t == Tops(a, v, z)
           S == {p \in Pages : s * U < t[p + 1]}
<1>1. /\ \A p \in Pages : t[p] \in Nat /\ t[p + 1] \in Nat
      /\ t[pageCount] \in Nat
  <2>1. 0 \in Pages
    BY Measured DEF Pages
  <2> QED BY <2>1, PagesAreHigh
<1>2. U \in Nat \ {0} /\ v.h \in Nat \ {0} /\ pageCount \in Nat \ {0}
  BY Numbers, Measured
<1>3. LET b == BottomLimit(t, v) IN b \in Int /\ U * (b + v.h) <= t[pageCount]
  BY <1>1, <1>2, AtTheEnd
<1> HIDE DEF t
<1>4. s * U < t[pageCount]
  <2> DEFINE b == BottomLimit(t, v)
  <2>1. s \in Int /\ s <= b /\ b \in Int
    BY <1>3 DEF Within, t
  <2> HIDE DEF b
  <2>2. s + 1 <= b + v.h /\ b + v.h \in Int
    BY <1>2, <2>1
  <2>3. U * (s + 1) <= U * (b + v.h) /\ U * (b + v.h) \in Int
    <3>1. s + 1 \in Int /\ U \in Nat
      BY <1>2, <2>1
    <3>2. U * (s + 1) <= U * (b + v.h)
      BY <2>2, <3>1, Grows
    <3> QED BY <2>2, <3>1, <3>2
  <2>4. U * (s + 1) = s * U + U /\ s * U \in Int
    BY <1>2, <2>1
  <2> QED BY <1>1, <1>2, <1>3, <2>3, <2>4 DEF b
<1>5. S \in SUBSET Nat /\ S # {}
  <2>1. pageCount - 1 \in Pages /\ (pageCount - 1) + 1 = pageCount
    BY <1>2 DEF Pages
  <2>2. pageCount - 1 \in S
    BY <1>4, <2>1
  <2>3. Pages \subseteq Nat
    BY <1>2 DEF Pages
  <2> QED BY <2>2, <2>3
<1>6. PICK p \in S : \A q \in S : p <= q
  BY <1>5, SmallestExists
<1>7. p \in Pages /\ s * U < t[p + 1] /\ p \in Nat
  BY <1>5, <1>6
<1>8. p = 0 \/ t[p] <= s * U
  <2>1. SUFFICES ASSUME p # 0 PROVE t[p] <= s * U
    OBVIOUS
  <2>2. p - 1 \in Pages /\ (p - 1) + 1 = p /\ ~(p <= p - 1)
    BY <1>2, <1>7, <2>1 DEF Pages
  <2>3. ~(s * U < t[p])
    BY <1>6, <2>2
  <2>4. s * U \in Int /\ t[p] \in Int
    BY <1>1, <1>2, <1>7 DEF Within
  <2> QED BY <2>3, <2>4
<1> QED BY <1>7, <1>8 DEF AtTop, t

\* It is the current page, however many pages are in sight below it.
LEMMA CurrentIsAtTop ==
  ASSUME PixelHigh, Ascending, TypeOK, NEW a \in [Pages -> Ratios], NEW v \in Views,
         NEW z \in Zooms, NEW s, Within(s, Tops(a, v, z), v),
         NEW p \in Pages, AtTop(p, s, Tops(a, v, z))
  PROVE  FirstOf(VisibleIn([top |-> s, h |-> v.h], Tops(a, v, z))) = p
<1> DEFINE t == Tops(a, v, z)
           ps == VisibleIn([top |-> s, h |-> v.h], t)
<1>1. /\ U \in Nat \ {0} /\ v.h \in Nat \ {0} /\ pageCount \in Nat \ {0} /\ s \in Int
      /\ z \in Nat \ {0} /\ pageCount <= MaxPages
  BY Numbers, Measured, Typed DEF Within
<1>2. /\ t \in [0 .. pageCount -> Nat] /\ t[0] = 0 /\ t[pageCount] \in Nat
      /\ \A q \in Pages : t[q] \in Nat /\ t[q + 1] \in Nat /\ t[q] + U * z <= t[q + 1]
                          /\ U <= U * z /\ t[q + 1] <= t[pageCount]
  <2>1. 0 \in Pages
    BY Measured DEF Pages
  <2> QED BY <2>1, PagesAreHigh
<1>3. LET b == BottomLimit(t, v) IN b \in Int /\ t[pageCount] < U * (b + v.h) + U
  BY <1>1, <1>2, AtTheEnd
<1>4. ps = {q \in Pages : s * U < t[q + 1] /\ t[q] < (s + v.h) * U}
  BY DEF VisibleIn
<1>5. s * U < t[p + 1] /\ (p = 0 \/ t[p] <= s * U) /\ (s < 0 => s = BottomLimit(t, v))
  BY DEF AtTop, Within
<1> HIDE DEF t, ps
<1>6. /\ (s + v.h) * U = s * U + U * v.h /\ s * U \in Int /\ U * v.h \in Nat \ {0}
      /\ (s + v.h) * U = U * (s + v.h)
  <2>1. U * v.h \in Nat \ {0}
    BY <1>1, Product
  <2> QED BY <1>1, <2>1
<1>7. t[p] < (s + v.h) * U
  <2>1. CASE t[p] <= s * U
    BY <1>2, <1>6, <2>1
  <2>2. CASE p = 0 /\ s >= 0
    <3>1. s * U \in Nat
      BY <1>1, <2>2
    <3> QED BY <1>2, <1>6, <2>2, <3>1
  <2>3. CASE p = 0 /\ s < 0
    <3>1. t[pageCount] < U * (s + v.h) + U
      BY <1>3, <1>5, <2>3
    <3>2. U <= t[pageCount]
      <4> DEFINE uz == U * z
      <4>1. uz \in Nat
        BY <1>1
      <4>2. t[p] + uz <= t[p + 1] /\ U <= uz /\ t[p + 1] <= t[pageCount]
            /\ t[p] \in Nat /\ t[p + 1] \in Nat /\ t[pageCount] \in Nat /\ U \in Nat
        BY <1>1, <1>2
      <4> HIDE DEF uz
      <4> QED BY <4>1, <4>2
    <3>3. U * (s + v.h) > 0 /\ t[p] = 0
      <4>1. U * (s + v.h) \in Int /\ t[pageCount] \in Int
        BY <1>1, <1>2
      <4> QED BY <1>1, <1>2, <2>3, <3>1, <3>2, <4>1
    <3> QED BY <1>6, <3>3
  <2>4. s >= 0 \/ s < 0
    BY <1>1
  <2> QED BY <1>5, <2>1, <2>2, <2>3, <2>4
<1>8. p \in ps
  BY <1>4, <1>5, <1>7
<1>9. ASSUME NEW q \in ps, q < p PROVE FALSE
  <2>1. q \in Pages /\ s * U < t[q + 1]
    BY <1>4, <1>9
  <2>2. p # 0 /\ p \in Nat /\ q \in Nat
    BY <1>1, <1>9, <2>1 DEF Pages
  <2>3. \A i \in 0 .. (pageCount - 1) : t[i] < t[i + 1]
    <3>1. ASSUME NEW i \in Pages PROVE t[i] < t[i + 1]
      <4>1. t[i] \in Nat /\ t[i + 1] \in Nat /\ t[i] + U * z <= t[i + 1] /\ U <= U * z
            /\ U * z \in Nat
        BY <1>1, <1>2
      <4> QED BY <1>1, <4>1
    <3> QED BY <3>1 DEF Pages
  <2>4. q \in 0 .. pageCount /\ p \in 0 .. pageCount /\ pageCount \in Nat /\ q <= p
    BY <1>1, <1>9, <2>1 DEF Pages
  <2>5. t[q + 1] <= t[p]
    BY <1>2, <1>9, <2>3, <2>4, TopsAscend
  <2>6. t[q + 1] \in Int /\ t[p] \in Int
    BY <1>2, <2>1
  <2> QED BY <1>5, <1>6, <2>1, <2>2, <2>5, <2>6
<1>10. /\ \A q \in Pages : q \in DOMAIN Rank /\ Rank[q] \in Nat /\ q \in Int
       /\ \A q \in ps : q \in Pages
  <2>1. Rank \in [0 .. (MaxPages - 1) -> Nat] /\ MaxPages \in Nat
    BY LayoutAssumption
  <2> QED BY <1>1, <1>4, <2>1 DEF Pages
<1>11. ASSUME NEW q \in ps PROVE q = p \/ Rank[p] < Rank[q]
  <2>1. q = p \/ p < q
    BY <1>9, <1>10, <1>11
  <2> QED BY <1>10, <1>11, <2>1 DEF Ascending
<1>12. \A q \in ps : Rank[p] <= Rank[q]
  BY <1>10, <1>11
<1>13. ASSUME NEW x \in ps, \A q \in ps : Rank[x] <= Rank[q] PROVE x = p
  <2>1. Rank[x] <= Rank[p] /\ Rank[x] \in Nat /\ Rank[p] \in Nat
    BY <1>8, <1>10, <1>13
  <2> QED BY <1>11, <2>1
<1>14. FirstOf(ps) = CHOOSE x \in ps : \A q \in ps : Rank[x] <= Rank[q]
  BY <1>8 DEF FirstOf
<1>15. FirstOf(ps) = p
  BY <1>8, <1>12, <1>13, <1>14
<1> QED BY <1>15 DEF ps, t

\* A layout in which every page is at least a pixel higher ends at least a pixel
\* further down, and so does its limit unless the view is higher too.
LEMMA LimitGrows ==
  ASSUME TypeOK, NEW a \in [Pages -> Ratios], NEW u \in Views, NEW v \in Views,
         NEW y \in Zooms, NEW z \in Zooms, v.h <= u.h,
         \A r \in Ratios : u.w * r * y + U <= v.w * r * z
  PROVE  BottomLimit(Tops(a, u, y), u) < BottomLimit(Tops(a, v, z), v)
<1> DEFINE t == Tops(a, u, y)
           x == Tops(a, v, z)
<1>1. /\ pageCount \in Nat \ {0} /\ u.w \in Nat \ {0} /\ v.w \in Nat \ {0}
      /\ y \in Nat \ {0} /\ z \in Nat \ {0} /\ U \in Nat \ {0} /\ u.h \in Nat /\ v.h \in Nat
      /\ a \in [Pages -> Nat \ {0}] /\ pageCount \in Nat
  BY Measured, Numbers
<1>2. /\ t \in [0 .. pageCount -> Nat] /\ t[0] = 0
      /\ \A q \in Pages : t[q + 1] = t[q] + u.w * a[q] * y
  BY <1>1, TopsAdd
<1>3. /\ x \in [0 .. pageCount -> Nat] /\ x[0] = 0
      /\ \A q \in Pages : x[q + 1] = x[q] + v.w * a[q] * z
  BY <1>1, TopsAdd
<1> HIDE DEF t, x
<1> DEFINE S == {i \in 0 .. pageCount : t[i] + (IF i = 0 THEN 0 ELSE U) <= x[i]}
<1>4. 0 .. pageCount \subseteq S
  <2>1. 0 \in S
    BY <1>1, <1>2, <1>3
  <2>2. ASSUME NEW i \in 0 .. (pageCount - 1), i \in S PROVE i + 1 \in S
    <3>1. i \in Pages /\ i \in 0 .. pageCount /\ i + 1 \in 0 .. pageCount /\ i + 1 # 0
      BY <1>1 DEF Pages
    <3>2. a[i] \in Ratios /\ a[i] \in Nat
      BY <1>1, <3>1
    <3>3. u.w * a[i] * y \in Int /\ v.w * a[i] * z \in Int
      <4>1. u.w * a[i] \in Int /\ v.w * a[i] \in Int /\ y \in Int /\ z \in Int
        BY <1>1, <3>2
      <4> QED BY <4>1
    <3>4. u.w * a[i] * y + U <= v.w * a[i] * z
      BY <3>2
    <3>5. t[i] <= x[i] /\ t[i] \in Nat /\ x[i] \in Nat
      BY <1>1, <1>2, <1>3, <2>2, <3>1
    <3>6. t[i + 1] + U <= x[i + 1]
      <4>1. t[i + 1] = t[i] + u.w * a[i] * y /\ x[i + 1] = x[i] + v.w * a[i] * z
        BY <1>2, <1>3, <3>1
      <4> QED BY <1>1, <3>3, <3>4, <3>5, <4>1
    <3> QED BY <3>1, <3>6
  <2> HIDE DEF S
  <2> QED BY <1>1, <2>1, <2>2, UpTo
<1>5. t[pageCount] + U <= x[pageCount] /\ t[pageCount] \in Nat /\ x[pageCount] \in Nat
  <2>1. pageCount \in S /\ pageCount # 0
    BY <1>1, <1>4
  <2> QED BY <1>1, <1>2, <1>3, <2>1
<1> DEFINE b == BottomLimit(t, u)
           c == BottomLimit(x, v)
<1>6. b \in Int /\ U * (b + u.h) <= t[pageCount]
  BY <1>1, <1>5, AtTheEnd
<1>7. c \in Int /\ x[pageCount] < U * (c + v.h) + U
  BY <1>1, <1>5, AtTheEnd
<1> HIDE DEF b, c
<1>8. SUFFICES ASSUME c <= b PROVE FALSE
  BY <1>6, <1>7 DEF b, c, t, x
<1>9. U * (c + v.h) <= U * (b + u.h) /\ U * (c + v.h) \in Int /\ U * (b + u.h) \in Int
  <2>1. c + v.h <= b + u.h /\ c + v.h \in Int /\ b + u.h \in Int /\ U \in Nat
    BY <1>1, <1>6, <1>7, <1>8
  <2>2. U * (c + v.h) <= U * (b + u.h)
    BY <2>1, Grows
  <2> QED BY <2>1, <2>2
<1> QED BY <1>1, <1>5, <1>6, <1>7, <1>9

\* What scrollTo makes of y is not below it, nor below the beginning.
LEMMA ClampedDown ==
  ASSUME NEW y \in Int, NEW t, NEW v, BottomLimit(t, v) \in Int
  PROVE  /\ y >= 0 => Clamp(y, t, v) <= y
         /\ y < 0 => Clamp(y, t, v) <= 0
  BY DEF Clamp

\* A scroll of fewer pixels than the zoom is still on the first page.
LEMMA AtFirst ==
  ASSUME PixelHigh, TypeOK, NEW a \in [Pages -> Ratios], NEW v \in Views, NEW z \in Zooms,
         NEW s \in Int, s < z
  PROVE  AtTop(0, s, Tops(a, v, z))
<1> DEFINE t == Tops(a, v, z)
<1>1. 0 \in Pages /\ U \in Nat \ {0} /\ z \in Nat \ {0}
  BY Measured, Numbers DEF Pages
<1>2. t[0] \in Nat /\ t[0 + 1] \in Nat /\ t[0] + U * z <= t[0 + 1]
  BY <1>1, PagesAreHigh
<1> HIDE DEF t
<1>3. s * U < U * z /\ s * U \in Int /\ U * z \in Nat
  <2>1. U * (s + 1) <= U * z
    <3>1. U \in Nat /\ s + 1 \in Int /\ z \in Int /\ s + 1 <= z
      BY <1>1
    <3> QED BY <3>1, Grows
  <2>2. U * (s + 1) = s * U + U /\ s * U \in Int /\ U * z \in Nat
    BY <1>1
  <2> QED BY <1>1, <2>1, <2>2
<1>4. s * U < t[0 + 1]
  BY <1>2, <1>3
<1> QED BY <1>4 DEF AtTop, t

\* A zoom that leaves the scroll as it is leaves it on the first page.
LEMMA ZoomKeepsPage ==
  ASSUME PixelHigh, TypeOK, NEW a \in [Pages -> Ratios], NEW v \in Views,
         NEW y \in Zooms, NEW z \in Zooms, y # z, NEW s,
         Within(s, Tops(a, v, y), v),
         s = Clamp(Trunc((s + v.h \div 2) * z - (v.h \div 2) * y, y), Tops(a, v, z), v)
  PROVE  AtTop(0, s, Tops(a, v, y)) /\ AtTop(0, s, Tops(a, v, z))
<1> DEFINE half == v.h \div 2
           n == (s + half) * z - half * y
           m == Trunc(n, y)
           t == Tops(a, v, y)
           x == Tops(a, v, z)
           b == BottomLimit(t, v)
           c == BottomLimit(x, v)
<1>1. /\ y \in Nat \ {0} /\ z \in Nat \ {0} /\ U \in Nat \ {0} /\ v.h \in Nat
      /\ b \in Int /\ c \in Int
  BY LaidOut, Numbers
<1>2. half \in Nat
  BY <1>1
<1>3. s \in Int /\ s <= b
  BY DEF Within
<1>4. s = Clamp(m, x, v)
  OBVIOUS
<1>5. y < z => b < c
  <2>1. SUFFICES ASSUME y < z, NEW r \in Ratios PROVE v.w * r * y + U <= v.w * r * z
    <3>1. v.h <= v.h
      BY <1>1
    <3> QED BY <3>1, LimitGrows
  <2>2. v.w * r >= U /\ v.w * r \in Nat
    BY Numbers DEF PixelHigh
  <2> DEFINE wr == v.w * r
  <2> HIDE DEF wr
  <2>3. wr >= U /\ wr \in Nat
    BY <2>2 DEF wr
  <2>4. wr * (y + 1) <= wr * z
    <3>1. y + 1 \in Int /\ z \in Int /\ y + 1 <= z
      BY <1>1, <2>1
    <3> QED BY <2>3, <3>1, Grows
  <2>5. wr * (y + 1) = wr * y + wr /\ wr * y \in Int /\ wr * z \in Int
    BY <1>1, <2>3
  <2>6. wr * y + U <= wr * z
    BY <1>1, <2>3, <2>4, <2>5
  <2> QED BY <2>6 DEF wr
<1> HIDE DEF b, c, t, x, half
<1>6. n \in Int /\ n = y * s + (s + half) * (z - y)
  BY <1>1, <1>2, <1>3
<1>7. m \in Int /\ (n >= 0 => m = n \div y)
  <2> HIDE DEF n
  <2> QED BY <1>1, <1>6, Truncating
<1>8. /\ m >= 0 => s <= m
      /\ m < 0 => s <= 0
      /\ s = c \/ (m >= 0 /\ s = m) \/ (m < 0 /\ s = 0)
  <2> HIDE DEF m
  <2> QED BY <1>1, <1>4, <1>7, Clamped, ClampedDown DEF c
<1>9. s < y /\ s < z
  <2>1. CASE s <= 0
    BY <1>1, <1>3, <2>1
  <2>2. CASE s > 0 /\ y < z
    <3> DEFINE k == (s + half) * (z - y)
    <3>1. s + half \in Nat /\ z - y \in Nat \ {0} /\ s + half >= s
      BY <1>1, <1>2, <1>3, <2>2
    <3>2. k \in Nat /\ (s + half) * 1 <= k
      <4>1. s + half \in Nat /\ 1 \in Int /\ z - y \in Int /\ 1 <= z - y
        BY <3>1
      <4>2. (s + half) * 1 <= k
        BY <4>1, Grows
      <4>3. k \in Nat
        BY <3>1
      <4> QED BY <4>2, <4>3
    <3>3. (s + half) * 1 = s + half
      BY <3>1
    <3>4. n = y * s + k /\ y * s \in Nat
      BY <1>1, <1>6, <2>2, <1>3
    <3> HIDE DEF k, n
    <3>5. n >= 0 /\ m = n \div y
      BY <1>7, <3>2, <3>4
    <3>6. y * m <= n /\ n < y * m + y /\ m >= 0
      BY <1>1, <1>6, <3>5, Quotient
    <3>7. s = m
      BY <1>3, <1>5, <1>8, <2>2, <3>6, <1>1
    <3>8. k < y
      BY <1>1, <3>2, <3>4, <3>6, <3>7
    <3>9. s < y
      BY <1>1, <1>2, <1>3, <3>1, <3>2, <3>3, <3>8
    <3> QED BY <1>1, <1>3, <2>2, <3>9
  <2>3. CASE s > 0 /\ z < y
    <3> DEFINE k == (s + half) * (y - z)
    <3>1. k \in Nat \ {0} /\ n = y * s - k /\ y * s \in Nat
      <4>1. s + half \in Nat \ {0} /\ y - z \in Nat \ {0}
        BY <1>1, <1>2, <1>3, <2>3
      <4>2. k \in Nat \ {0}
        BY <4>1, Product
      <4>3. (s + half) * (z - y) = -k
        BY <1>1, <1>2, <1>3
      <4> QED BY <1>1, <1>3, <1>6, <2>3, <4>2, <4>3
    <3> HIDE DEF k
    <3>2. m < s
      <4>1. CASE n >= 0
        <5>1. m = n \div y /\ n \in Int
          BY <1>6, <1>7, <4>1
        <5> HIDE DEF m, n
        <5>2. y * m <= n
          BY <1>1, <5>1, Quotient
        <5>3. SUFFICES ASSUME s <= m PROVE FALSE
          BY <1>3, <1>7
        <5>4. y * s <= y * m
          BY <1>1, <1>3, <1>7, <5>3, Grows
        <5>5. y * m \in Int
          BY <1>1, <1>7
        <5> QED BY <3>1, <5>1, <5>2, <5>4, <5>5
      <4>2. CASE n < 0
        <5>1. m = -((-n) \div y) /\ -n \in Int /\ -n >= 0
          BY <1>6, <4>2 DEF Trunc
        <5> HIDE DEF n, m
        <5>2. (-n) \div y \in Int /\ (-n) \div y >= 0
          BY <1>1, <5>1, Quotient
        <5> QED BY <1>3, <2>3, <5>1, <5>2
      <4> QED BY <1>6, <4>1, <4>2
    <3> HIDE DEF m, n
    <3> QED BY <1>3, <1>7, <1>8, <2>3, <3>2
  <2> QED BY <1>1, <1>3, <2>1, <2>2, <2>3
<1> HIDE DEF m, n
<1> QED BY <1>3, <1>9, AtFirst

\* A turn of the screen that leaves the scroll as it is leaves it on the first page.
LEMMA TurnKeepsPage ==
  ASSUME PixelHigh, Turns, TypeOK, NEW a \in [Pages -> Ratios], NEW u \in Views,
         NEW v \in Views, u.w # v.w, NEW z \in Zooms, NEW s,
         Within(s, Tops(a, u, z), u),
         s = Clamp(Trunc(s * v.w, u.w), Tops(a, v, z), v)
  PROVE  AtTop(0, s, Tops(a, u, z)) /\ AtTop(0, s, Tops(a, v, z))
<1> DEFINE m == Trunc(s * v.w, u.w)
           t == Tops(a, u, z)
           x == Tops(a, v, z)
           b == BottomLimit(t, u)
           c == BottomLimit(x, v)
<1>1. /\ z \in Nat \ {0} /\ U \in Nat \ {0} /\ u.w \in Nat \ {0} /\ v.w \in Nat \ {0}
      /\ b \in Int /\ c \in Int
  BY LaidOut, Numbers
<1>2. s \in Int /\ s <= b
  BY DEF Within
<1>3. s = Clamp(m, x, v)
  OBVIOUS
<1>4. CASE s <= 0
  <2>1. s < z
    BY <1>1, <1>2, <1>4
  <2> QED BY <1>2, <2>1, AtFirst
<1>5. CASE s > 0
  <2> HIDE DEF b, c, t, x
  <2>1. s * v.w \in Nat /\ s * v.w \in Int /\ s * v.w >= 0
    BY <1>1, <1>2, <1>5
  <2>2. m = (s * v.w) \div u.w
    BY <1>1, <2>1, Truncating
  <2>3. /\ m \in Int /\ u.w * m <= s * v.w /\ s * v.w < u.w * m + u.w /\ m >= 0
        /\ u.w * m \in Int
    <3> DEFINE sv == s * v.w
    <3>1. sv \in Int /\ sv >= 0 /\ m = sv \div u.w
      BY <2>1, <2>2
    <3> HIDE DEF sv, m
    <3>2. m \in Int /\ u.w * m <= sv /\ sv < u.w * m + u.w /\ m >= 0
      BY <1>1, <3>1, Quotient
    <3>3. u.w * m \in Int
      BY <1>1, <3>2
    <3> QED BY <3>2, <3>3 DEF sv
  <2> HIDE DEF m
  <2>4. s <= m /\ (s = c \/ s = m)
    BY <1>1, <1>2, <1>3, <1>5, <2>3, Clamped, ClampedDown DEF c
  <2>5. u.w * s <= u.w * m /\ u.w * s \in Int
    <3>1. u.w \in Nat
      BY <1>1
    <3> QED BY <1>2, <2>3, <2>4, <3>1, Grows
  <2>6. u.w < v.w
    <3>1. SUFFICES ASSUME v.w < u.w PROVE FALSE
      BY <1>1
    <3>2. s * (v.w + 1) <= s * u.w
      <4>1. s \in Nat /\ v.w + 1 \in Int /\ u.w \in Int /\ v.w + 1 <= u.w
        BY <1>1, <1>2, <1>5, <3>1
      <4> QED BY <4>1, Grows
    <3>3. s * (v.w + 1) = s * v.w + s /\ s * u.w = u.w * s
      BY <1>1, <1>2
    <3> QED BY <1>2, <1>5, <2>1, <2>3, <2>5, <3>2, <3>3
  <2>7. v.h <= u.h /\ \A r \in Ratios : (v.w - u.w) * r >= U
    BY <2>6 DEF Turns
  <2>8. b < c
    <3>1. ASSUME NEW r \in Ratios PROVE u.w * r * z + U <= v.w * r * z
      <4> DEFINE d == (v.w - u.w) * r
                 ur == u.w * r
      <4>1. d \in Nat /\ ur \in Nat /\ v.w * r = ur + d /\ d >= U
        <5>1. r \in Nat
          BY Numbers
        <5>2. v.w - u.w \in Nat
          BY <1>1, <2>6
        <5> QED BY <1>1, <2>7, <5>1, <5>2
      <4> HIDE DEF d, ur
      <4>2. d * 1 <= d * z /\ d * 1 = d /\ d * z \in Int /\ ur * z \in Int
        <5>1. d * 1 <= d * z
          BY <1>1, <4>1, Grows
        <5> QED BY <1>1, <4>1, <5>1
      <4>3. (ur + d) * z = ur * z + d * z
        BY <1>1, <4>1
      <4>4. ur * z + U <= (ur + d) * z
        BY <1>1, <4>1, <4>2, <4>3
      <4> QED BY <4>1, <4>4 DEF ur
    <3> QED BY <2>7, <3>1, LimitGrows DEF b, c, t, x
  <2>9. s = m
    BY <1>1, <1>2, <2>4, <2>8
  <2> DEFINE r == a[0]
  <2>10. /\ r \in Ratios /\ r \in Nat \ {0} /\ 0 \in Pages
         /\ t[0] = 0 /\ t[0 + 1] = t[0] + u.w * r * z
         /\ x[0] = 0 /\ x[0 + 1] = x[0] + v.w * r * z
    <3>1. 0 \in Pages /\ pageCount \in Nat /\ a \in [Pages -> Nat \ {0}]
      <4>1. 0 \in Pages /\ pageCount \in Nat
        BY Measured DEF Pages
      <4>2. Ratios \subseteq Nat \ {0}
        BY Numbers
      <4> QED BY <4>1, <4>2
    <3>2. r \in Ratios /\ r \in Nat \ {0}
      BY <3>1
    <3>3. t[0] = 0 /\ t[0 + 1] = t[0] + u.w * r * z
      <4>1. t[0] = 0 /\ \A p \in Pages : t[p + 1] = t[p] + u.w * a[p] * z
        BY <1>1, <3>1, TopsAdd DEF t
      <4> QED BY <3>1, <4>1
    <3>4. x[0] = 0 /\ x[0 + 1] = x[0] + v.w * r * z
      <4>1. x[0] = 0 /\ \A p \in Pages : x[p + 1] = x[p] + v.w * a[p] * z
        BY <1>1, <3>1, TopsAdd DEF x
      <4> QED BY <3>1, <4>1
    <3> QED BY <3>1, <3>2, <3>3, <3>4
  <2> HIDE DEF r
  <2>11. s * U < u.w * r * z /\ s * U \in Int /\ u.w * r * z \in Int
    <3> DEFINE k == s * (v.w - u.w)
               d == (v.w - u.w) * r
    <3>1. k < u.w /\ k \in Nat
      <4>1. s * v.w < u.w * s + u.w
        BY <2>3, <2>9
      <4>2. k = s * v.w - u.w * s /\ k \in Nat
        BY <1>1, <1>2, <1>5, <2>6
      <4> QED BY <1>1, <2>1, <2>5, <4>1, <4>2
    <3>2. d >= U /\ d \in Nat /\ s * d = k * r
      <4>1. v.w - u.w \in Nat
        BY <1>1, <2>6
      <4> QED BY <1>2, <2>7, <2>10, <4>1
    <3>3. s * U <= s * d
      <4>1. s \in Nat
        BY <1>2, <1>5
      <4> QED BY <1>1, <3>2, <4>1, Grows
    <3> HIDE DEF k, d
    <3>4. r * (k + 1) <= r * u.w /\ r * (k + 1) = k * r + r
      <4>1. r \in Nat /\ k + 1 \in Int /\ u.w \in Int /\ k + 1 <= u.w
        BY <1>1, <2>10, <3>1
      <4>2. r * (k + 1) <= r * u.w
        BY <4>1, Grows
      <4> QED BY <2>10, <3>1, <4>2
    <3> DEFINE ur == u.w * r
    <3>5. ur = r * u.w /\ ur \in Nat /\ k * r \in Int /\ s * U \in Int
      BY <1>1, <1>2, <2>10, <3>1
    <3>6. ur * z = u.w * r * z
      OBVIOUS
    <3> HIDE DEF ur
    <3>7. ur * 1 <= ur * z /\ ur * 1 = ur /\ ur * z \in Int
      <4>1. ur * 1 <= ur * z
        BY <1>1, <3>5, Grows
      <4> QED BY <1>1, <3>5, <4>1
    <3>8. s * U < ur
      <4>1. r \in Nat \ {0}
        BY <2>10
      <4> QED BY <3>2, <3>3, <3>4, <3>5, <4>1
    <3> QED BY <3>5, <3>6, <3>7, <3>8
  <2>12. u.w * r * z <= v.w * r * z /\ v.w * r * z \in Int
    <3> DEFINE rz == r * z
    <3>1. rz \in Nat /\ rz * u.w = u.w * r * z /\ rz * v.w = v.w * r * z
      BY <1>1, <2>10
    <3> HIDE DEF rz
    <3>2. rz * u.w <= rz * v.w /\ rz * v.w \in Int
      <4>1. rz * u.w <= rz * v.w
        BY <1>1, <2>6, <3>1, Grows
      <4> QED BY <1>1, <3>1, <4>1
    <3> QED BY <3>1, <3>2
  <2>13. s * U < t[0 + 1] /\ s * U < x[0 + 1]
    BY <2>10, <2>11, <2>12
  <2> QED BY <2>13 DEF AtTop, t, x
<1> QED BY <1>2, <1>4, <1>5

\* The limits, for the lemmas above.
LEMMA LimitsHold ==
  ASSUME IInv, ScrollWithinLimits, isInitialized, ~crashed, ~moved
  PROVE  /\ Within(scroll, tops, view) /\ tops = Tops(aspect, view, zoom)
         /\ aspect \in [Pages -> Ratios] /\ view \in Views /\ zoom \in Zooms
<1>1. TypeOK
  BY DEF IInv
<1>2. Within(scroll, tops, view)
  BY <1>1, Measured DEF Within, ScrollWithinLimits
<1> QED BY <1>1, <1>2, Parts DEF IInv, Begun, Sizes, Places

\* So the page at the top of the view is the current one, before a step and after.
LEMMA PageNow ==
  ASSUME PixelHigh, Ascending, IInv, ScrollWithinLimits, isInitialized, ~crashed, ~moved,
         NEW p \in Pages, AtTop(p, scroll, tops)
  PROVE  CurrentPage = p
<1>1. /\ Within(scroll, tops, view) /\ tops = Tops(aspect, view, zoom)
      /\ aspect \in [Pages -> Ratios] /\ view \in Views /\ zoom \in Zooms
  BY LimitsHold
<1>2. TypeOK /\ ViewRect = [top |-> scroll, h |-> view.h]
  BY RectIsRight DEF IInv
<1>3. FirstOf(VisibleIn([top |-> scroll, h |-> view.h], tops)) = p
  BY <1>1, <1>2, CurrentIsAtTop
<1> QED BY <1>2, <1>3 DEF CurrentPage

LEMMA PageThen ==
  ASSUME PixelHigh, Ascending, TypeOK, IInv', ScrollWithinLimits', pageCount' = pageCount,
         isInitialized', ~crashed', ~moved',
         NEW p \in Pages, AtTop(p, scroll', tops')
  PROVE  CurrentPage' = p
<1>1. /\ TypeOK' /\ Sizes' /\ Places'
      /\ ViewRect' = [top |-> scroll', h |-> view'.h]
      /\ tops' = Tops(aspect, view, zoom)'
  BY Parts DEF IInv, ViewRectIsFresh, ViewRect, Begun
<1>2. /\ tops' = Tops(aspect', view', zoom')
      /\ aspect' \in [Pages -> Ratios] /\ view' \in Views /\ zoom' \in Zooms
  BY <1>1 DEF Tops, Sizes, Places, Pages
<1>3. Within(scroll', tops', view')
  <2>1. BottomLimit(tops, view)' = BottomLimit(tops', view')
    BY DEF BottomLimit
  <2> QED BY <1>1, <2>1, Measured DEF Within, ScrollWithinLimits
<1>4. FirstOf(VisibleIn([top |-> scroll', h |-> view'.h], tops')) = p
  BY <1>2, <1>3, CurrentIsAtTop
<1>5. CurrentPage' = FirstOf(VisibleIn([top |-> scroll', h |-> view'.h], tops'))
  <2>1. VisibleIn(ViewRect, tops)' = VisibleIn([top |-> scroll', h |-> view'.h], tops')
    BY <1>1 DEF VisibleIn, Pages
  <2> QED BY <2>1 DEF CurrentPage, FirstOf
<1> QED BY <1>4, <1>5

\* Before init has run the first page is the current one.
PageInv == (~isInitialized => currentPageIndex = 0) /\ CurrentPageFollows

LEMMA PageStep ==
  ASSUME PixelHigh, Ascending, Turns, IInv, IInv', ScrollWithinLimits, ScrollWithinLimits',
         PageInv, [Next]_vars
  PROVE  PageInv'
<1> USE DEF document, layout, position, memory
<1>a. /\ TypeOK /\ TypeOK' /\ Begun
      /\ ViewRect = [top |-> scroll, h |-> view.h]
      /\ ViewRect' = [top |-> scroll', h |-> view'.h]
  BY DEF IInv, ViewRectIsFresh, ViewRect
<1>b. /\ view.h \in Nat /\ tops[pageCount] \in Nat /\ inZoom \in BOOLEAN
      /\ 0 \in Pages /\ Pages \subseteq Nat
  BY <1>a, Measured, Parts DEF Flags, Pages

\* What is to be shown, and what may be assumed of the state before.
<1>c. PageInv' <=>
        /\ ~isInitialized' => currentPageIndex' = 0
        /\ isInitialized' /\ ~crashed' /\ ~moved' /\ ~Waiting("page")' =>
             currentPageIndex' = CurrentPage'
  BY DEF PageInv, CurrentPageFollows, Waiting
<1>d. isInitialized /\ ~crashed /\ ~moved /\ ~Waiting("page") => currentPageIndex = CurrentPage
  BY DEF PageInv, CurrentPageFollows, Waiting

\* Nothing in sight changes.
<1>e. ASSUME UNCHANGED <<pageCount, tops, view, scroll>>
      PROVE  CurrentPage' = CurrentPage
  BY <1>a, <1>e DEF CurrentPage, FirstOf, VisibleIn, Pages
<1>f. ASSUME UNCHANGED <<pageCount, tops, view, scroll, isInitialized, moved, currentPageIndex>>,
             ~crashed' => ~crashed, Waiting("page") => Waiting("page")'
      PROVE  PageInv'
  BY <1>c, <1>d, <1>e, <1>f DEF PageInv

\* A step that does not scroll, and shows the first page before and after it.
<1>g. ASSUME UNCHANGED <<pageCount, isInitialized, crashed, scroll, posted, moved,
                         currentPageIndex>>,
             isInitialized, ~crashed, ~moved => AtTop(0, scroll, tops) /\ AtTop(0, scroll', tops')
      PROVE  PageInv'
  <2>1. Waiting("page")' <=> Waiting("page")
    BY <1>g DEF Waiting
  <2>2. ~moved => CurrentPage = 0 /\ CurrentPage' = 0
    BY <1>a, <1>b, <1>g, PageNow, PageThen
  <2> QED BY <1>c, <1>d, <1>g, <2>1, <2>2
<1>h. ASSUME Waiting("page")', isInitialized' PROVE PageInv'
  BY <1>c, <1>h
<1>1. CASE Scrolls
  <2>1. /\ \E y \in Int, zooming \in BOOLEAN : MoveTo(y, tops', view', zooming)
        /\ UNCHANGED <<pageCount, isInitialized, destroyed, crashed>>
        /\ isInitialized /\ ~crashed /\ ~destroyed
    BY <1>1, Scrolled
  <2>2. tops'[pageCount] \in Nat /\ view'.h \in Nat
    BY <1>a, <2>1, Measured
  <2>3. UNCHANGED <<scroll, posted, moved>> \/ Waiting("page")'
    BY <1>a, <2>1, <2>2, Moving
  <2>4. SUFFICES ASSUME UNCHANGED <<scroll, posted, moved>> PROVE PageInv'
    BY <1>h, <2>1, <2>3
  <2>5. currentPageIndex' = currentPageIndex
    BY <1>1 DEF Scrolls, Scroll, GoToPage, ZoomChanged, Layout
  <2>6. ~moved => /\ Within(scroll, tops, view) /\ tops = Tops(aspect, view, zoom)
                  /\ aspect \in [Pages -> Ratios] /\ view \in Views /\ zoom \in Zooms
    BY <2>1, LimitsHold
  <2>7. CASE (\E y \in Targets : Scroll(y)) \/ (\E p \in Pages : GoToPage(p))
    <3>1. UNCHANGED <<pageCount, tops, view, scroll, isInitialized, moved, currentPageIndex,
                      crashed, posted>>
      BY <2>1, <2>4, <2>5, <2>7 DEF Scroll, GoToPage
    <3>2. Waiting("page")' <=> Waiting("page")
      BY <3>1 DEF Waiting
    <3> QED BY <1>f, <3>1, <3>2
  <2>8. CASE \E z \in Zooms : ZoomChanged(z)
    <3>1. PICK z \in Zooms : ZoomChanged(z)
      BY <2>8
    <3>2. /\ z # zoom /\ tops' = Tops(aspect, view, z)
          /\ scroll' = Clamp(Trunc((scroll + view.h \div 2) * z - (view.h \div 2) * zoom, zoom),
                             tops', view)
      BY <3>1 DEF ZoomChanged, ScrollTo, MoveTo
    <3>3. ~moved => AtTop(0, scroll, tops) /\ AtTop(0, scroll', tops')
      BY <1>a, <2>4, <2>6, <3>2, ZoomKeepsPage
    <3> QED BY <1>g, <2>1, <2>4, <2>5, <3>3
  <2>9. CASE \E v \in Views : Layout(v)
    <3>1. PICK v \in Views : Layout(v)
      BY <2>9
    <3>2. /\ view' = v /\ tops' = Tops(aspect, v, zoom)
          /\ scroll' = Clamp(Trunc(scroll * v.w, view.w), tops', v)
      BY <3>1 DEF Layout, MoveTo
    <3>3. CASE v.w # view.w
      <4>1. ~moved => AtTop(0, scroll, tops) /\ AtTop(0, scroll', tops')
        BY <1>a, <2>4, <2>6, <3>2, <3>3, TurnKeepsPage
      <4> QED BY <1>g, <2>1, <2>4, <2>5, <4>1
    <3>4. CASE v.w = view.w
      <4>1. tops' = Tops(aspect, view, zoom)
        BY <3>2, <3>4 DEF Tops
      <4>2. Waiting("page")' <=> Waiting("page")
        BY <2>4 DEF Waiting
      <4>3. ASSUME ~moved PROVE CurrentPage' = CurrentPage
        <5>1. PICK p \in Pages : AtTop(p, scroll, tops)
          BY <1>a, <2>6, <4>3, SomeAtTop
        <5>2. AtTop(p, scroll', tops')
          BY <2>4, <2>6, <4>1, <4>3, <5>1
        <5>3. CurrentPage = p
          BY <2>1, <4>3, <5>1, PageNow
        <5>4. isInitialized' /\ ~crashed' /\ ~moved' /\ pageCount' = pageCount
          BY <2>1, <2>4, <4>3
        <5>5. CurrentPage' = p
          BY <1>a, <5>2, <5>4, PageThen
        <5> QED BY <5>3, <5>5
      <4> QED BY <1>c, <1>d, <2>1, <2>4, <2>5, <4>2, <4>3
    <3> QED BY <3>3, <3>4
  <2> QED BY <1>1, <2>7, <2>8, <2>9 DEF Scrolls
<1>2. CASE RunInit
  <2>1. ~isInitialized /\ ~moved
    <3>1. posted \in Seq(Runnable) /\ posted # <<>> /\ Head(posted) = "init"
      BY <1>2, <1>a, Parts DEF RunInit, Places
    <3>2. Waiting("init")
      BY <3>1 DEF Waiting
    <3> QED BY <1>a, <3>2 DEF Begun
  <2>2. currentPageIndex = 0 /\ currentPageIndex' = 0 /\ isInitialized' /\ moved' = moved
        /\ pageCount' = pageCount
    BY <1>2, <2>1 DEF PageInv, RunInit
  <2>3. CASE pageToGoTo \in Pages /\ scroll' = 0
    <3>1. ~crashed'
      BY <1>2, <2>3 DEF RunInit
    <3>2. AtTop(0, scroll', tops')
      <4>1. /\ tops' = Tops(aspect, view, zoom) /\ aspect \in [Pages -> Ratios]
            /\ view \in Views /\ zoom \in Zooms /\ zoom \in Nat \ {0}
        BY <1>2, <1>a, Parts, Numbers DEF RunInit, Sizes, Places
      <4>2. 0 \in Int /\ 0 < zoom
        BY <4>1
      <4> QED BY <1>a, <2>3, <4>1, <4>2, AtFirst
    <3>3. CurrentPage' = 0
      BY <1>a, <1>b, <2>1, <2>2, <3>1, <3>2, PageThen
    <3> QED BY <1>c, <2>2, <3>3
  <2>4. CASE pageToGoTo \in Pages /\ scroll' # 0
    <3>1. posted' = <<"page", "visibility">>
      BY <1>2, <2>4 DEF RunInit
    <3>2. Waiting("page")'
      BY <3>1 DEF Waiting
    <3> QED BY <1>h, <2>2, <3>2
  <2>5. CASE pageToGoTo \notin Pages
    BY <1>2, <1>c, <2>2, <2>5 DEF RunInit
  <2> QED BY <2>3, <2>4, <2>5
<1>3. CASE RunPage
  <2>1. /\ UNCHANGED <<pageCount, tops, view, scroll, isInitialized>>
        /\ currentPageIndex' = CurrentPage /\ posted # <<>> /\ Head(posted) = "page"
    BY <1>3 DEF RunPage
  <2>2. isInitialized
    BY <1>a, <2>1 DEF Begun
  <2> QED BY <1>c, <1>e, <2>1, <2>2
<1>4. CASE RunVisibility
  <2>1. /\ UNCHANGED <<pageCount, tops, view, scroll, isInitialized, moved, currentPageIndex,
                       crashed>>
        /\ posted # <<>> /\ Head(posted) = "visibility" /\ posted' = Tail(posted)
    BY <1>4 DEF RunVisibility
  <2>2. Waiting("page") => Waiting("page")'
    BY <1>a, <2>1, Taking DEF Runnable
  <2> QED BY <1>f, <2>1, <2>2
<1>5. CASE CommitZoom \/ Draw \/ Destroy
  <2>1. UNCHANGED <<pageCount, tops, view, scroll, isInitialized, moved, currentPageIndex,
                    crashed, posted>>
    BY <1>5 DEF CommitZoom, Draw, Destroy
  <2>2. Waiting("page") => Waiting("page")'
    BY <2>1 DEF Waiting
  <2> QED BY <1>f, <2>1, <2>2
<1>6. CASE \E p \in Pages : PageMeasured(p)
  BY <1>6, <1>c DEF PageMeasured
<1>7. CASE OpenAgain \/ \E n \in 1 .. MaxPages : OpenReplaced(n)
  BY <1>7, <1>c DEF OpenAgain, OpenReplaced, Session
<1>8. CASE UNCHANGED vars
  <2>1. UNCHANGED <<pageCount, tops, view, scroll, isInitialized, moved, currentPageIndex,
                    crashed, posted>>
    BY <1>8 DEF vars
  <2>2. Waiting("page") => Waiting("page")'
    BY <2>1 DEF Waiting
  <2> QED BY <1>f, <2>1, <2>2
<1> QED BY <1>1, <1>2, <1>3, <1>4, <1>5, <1>6, <1>7, <1>8 DEF Next, Scrolls

\* On a screen that is turned, no zoom or layout leaves another page in sight than
\* the current one without a runnable that is still to look it up.
THEOREM PageFollows ==
  ASSUME PixelHigh, Ascending, Turns PROVE Spec => []CurrentPageFollows
<1>1. Init => PageInv
  BY DEF Init, PageInv, CurrentPageFollows
<1>2. IInv /\ IInv' /\ ScrollWithinLimits /\ ScrollWithinLimits' /\ PageInv /\ [Next]_vars =>
        PageInv'
  BY PageStep
<1>3. PageInv => CurrentPageFollows
  BY DEF PageInv
<1> QED BY <1>1, <1>2, <1>3, InvariantHolds, ScrollStaysWithin, PTL DEF Spec
-----------------------------------------------------------------------------
(* The page the reader left *)

\* Every change of the page looked up was saved, and a reader who leaves at rest leaves the saved
\* page and no runnable that could change it.
LeftInv ==
  /\ ~isInitialized => currentPageIndex = 0
  /\ isInitialized /\ ~crashed /\ (currentPageIndex # 0 \/ noted) => saved = currentPageIndex
  /\ isInitialized /\ ~destroyed => leftAt = NoPage
  /\ destroyed /\ leftAt # NoPage => posted = <<>> /\ (leftAt # 0 \/ noted => saved = leftAt)
  /\ LeftPageReturns

LEMMA LeftStep ==
  ASSUME IInv, PageInv, LeftInv, [Next]_vars PROVE LeftInv'
<1> USE DEF document, layout, position, memory
<1>a. TypeOK /\ Begun /\ NoPage' = NoPage
  BY DEF IInv, NoPage
<1>b. isInitialized \in BOOLEAN /\ destroyed \in BOOLEAN /\ crashed \in BOOLEAN
  BY <1>a, Parts DEF Flags
<1>1. CASE Scrolls
  <2>1. UNCHANGED <<isInitialized, destroyed, crashed>> /\ isInitialized /\ ~destroyed
    BY <1>1, Scrolled
  <2>2. UNCHANGED memory
    BY <1>1 DEF Scrolls, Scroll, GoToPage, ZoomChanged, Layout
  <2> QED BY <1>a, <2>1, <2>2 DEF LeftInv, LeftPageReturns
<1>2. CASE RunInit
  <2>1. /\ posted # <<>> /\ Head(posted) = "init" /\ leftAt' = NoPage /\ noted' = FALSE
        /\ isInitialized' = TRUE /\ UNCHANGED currentPageIndex
    BY <1>2 DEF RunInit
  <2>2. Waiting("init")
    <3>1. posted \in Seq(Runnable)
      BY <1>a, Parts DEF Places
    <3> QED BY <2>1, <3>1 DEF Waiting
  <2>3. currentPageIndex = 0
    BY <1>a, <1>b, <2>2 DEF Begun, LeftInv
  <2> QED BY <1>a, <2>1, <2>3 DEF LeftInv, LeftPageReturns
<1>3. CASE RunPage
  <2>1. /\ posted # <<>> /\ ~crashed /\ currentPageIndex' = CurrentPage
        /\ saved' = IF CurrentPage # currentPageIndex /\ ~destroyed THEN CurrentPage ELSE saved
        /\ crashed' = (CurrentPage # currentPageIndex /\ destroyed)
        /\ noted' = (noted \/ (CurrentPage # currentPageIndex /\ ~destroyed))
        /\ UNCHANGED <<isInitialized, pageToGoTo, leftAt, destroyed>>
    BY <1>3 DEF RunPage
  <2>2. destroyed => leftAt = NoPage
    BY <2>1 DEF LeftInv
  <2>3. isInitialized
    <3>1. Head(posted) = "page" /\ Head(<<"init">>) = "init"
      BY <1>3 DEF RunPage
    <3> QED BY <1>a, <1>b, <3>1 DEF Begun
  <2>4. CASE CurrentPage = currentPageIndex
    BY <1>a, <2>1, <2>2, <2>3, <2>4 DEF LeftInv, LeftPageReturns
  <2>5. CASE CurrentPage # currentPageIndex
    BY <1>a, <2>1, <2>2, <2>3, <2>5 DEF LeftInv, LeftPageReturns
  <2> QED BY <2>4, <2>5
<1>4. CASE RunVisibility
  <2>1. posted # <<>> /\ ~crashed /\ UNCHANGED <<isInitialized, memory, destroyed, crashed>>
    BY <1>4 DEF RunVisibility
  <2> QED BY <1>a, <2>1 DEF LeftInv, LeftPageReturns
<1>5. CASE CommitZoom \/ Draw \/ \E p \in Pages : PageMeasured(p)
  <2>1. UNCHANGED <<isInitialized, memory, destroyed, crashed, posted>>
    BY <1>5 DEF CommitZoom, Draw, PageMeasured
  <2> QED BY <1>a, <2>1 DEF LeftInv, LeftPageReturns
<1>6. CASE Destroy
  <2>1. /\ isInitialized /\ ~crashed /\ destroyed' = TRUE
        /\ leftAt' = IF posted = <<>> /\ ~moved THEN CurrentPage ELSE NoPage
        /\ UNCHANGED <<isInitialized, currentPageIndex, pageToGoTo, saved, noted, posted,
                       crashed>>
    BY <1>6 DEF Destroy
  <2>2. posted = <<>> /\ ~moved => currentPageIndex = CurrentPage
    BY <2>1 DEF PageInv, CurrentPageFollows
  <2> QED BY <1>a, <2>1, <2>2 DEF LeftInv, LeftPageReturns
<1>7. CASE OpenAgain
  <2>1. /\ crashed \/ (destroyed /\ posted = <<>>)
        /\ isInitialized' = FALSE /\ destroyed' = FALSE /\ currentPageIndex' = 0
        /\ pageToGoTo' = saved /\ UNCHANGED <<leftAt, noted>>
    BY <1>7 DEF OpenAgain, Closed, Session
  <2>2. isInitialized
    BY <1>a, <2>1 DEF Begun
  <2> QED BY <1>a, <1>b, <2>1, <2>2 DEF LeftInv, LeftPageReturns
<1>8. CASE \E n \in 1 .. MaxPages : OpenReplaced(n)
  BY <1>8, <1>a DEF OpenReplaced, Session, LeftInv, LeftPageReturns
<1>9. CASE UNCHANGED vars
  BY <1>9, <1>a DEF vars, LeftInv, LeftPageReturns
<1> QED BY <1>1, <1>2, <1>3, <1>4, <1>5, <1>6, <1>7, <1>8, <1>9 DEF Next, Scrolls

\* A reader who leaves at rest finds the page he left when he is back, whatever he
\* did before and however often the document was opened, unless he left at the first
\* page in a session that never noticed another one.
THEOREM LeftPageIsKept ==
  ASSUME PixelHigh, Ascending, Turns PROVE Spec => []LeftPageReturns
<1>1. Init => PageInv /\ LeftInv
  BY DEF Init, PageInv, CurrentPageFollows, LeftInv, LeftPageReturns
<1>2. IInv /\ IInv' /\ ScrollWithinLimits /\ ScrollWithinLimits' /\ PageInv /\ [Next]_vars =>
        PageInv'
  BY PageStep
<1>3. IInv /\ PageInv /\ LeftInv /\ [Next]_vars => LeftInv'
  BY LeftStep
<1>4. LeftInv => LeftPageReturns
  BY DEF LeftInv
<1> QED BY <1>1, <1>2, <1>3, <1>4, InvariantHolds, ScrollStaysWithin, PTL DEF Spec
-----------------------------------------------------------------------------
(***************************************************************************)
(* The zoom of the view, the pinch and the roll, for any number of fingers *)
(* and any zooms.  ZoomGesture has a state of its own.  What makes its     *)
(* safety inductive is UncommittedIsWatched: as long as the zoom is not    *)
(* committed, a pinch or the roll is still to commit it.                   *)
(***************************************************************************)

\* What RestIsSharp comes from: a zoom that the pages do not have yet is in the
\* hands of a pinch that will be committed, or of the roll.
UncommittedIsWatched ==
  /\ ~rollFling /\ ~rollDirty /\ ~cancelled /\ pinch = {} => invalidatedAt = modelZoom
  /\ cancelled => pinch # {}
  /\ touch # "document" /\ ~cancelled => pinch = {}

ZoomInv ==
  /\ GestureTypeOK
  /\ ZoomWaitsForCommit
  /\ CommittedIsInvalidated
  /\ PinchComparesItsFingers
  /\ ScrollFollowsItsFinger
  /\ FlingWithinLimits
  /\ UncommittedIsWatched

-----------------------------------------------------------------------------
(* Fingers *)

\* Among some fingers there is one that events list first.
LEMMA FirstIsAmong ==
  ASSUME NEW ps \in SUBSET Nat, ps # {}
  PROVE  First(ps) \in ps /\ \A q \in ps : First(ps) <= q
<1>1. \E p \in ps : \A q \in ps : p <= q
  BY SmallestExists
<1> QED
  BY <1>1 DEF First

\* A gesture with one finger down is about that finger.
LEMMA FirstOfOne ==
  ASSUME NEW p \in Nat
  PROVE  First({p}) = p
<1>1. {p} \in SUBSET Nat /\ {p} # {}
  OBVIOUS
<1> QED
  BY <1>1, FirstIsAmong

\* The first two of at least two fingers are fingers of the document.
LEMMA FirstTwoAreAmong ==
  ASSUME NEW ps \in SUBSET Nat, NEW p \in ps, NEW q \in ps, p # q
  PROVE  FirstTwo(ps) \subseteq ps /\ FirstTwo(ps) # {}
<1> DEFINE f == First(ps)
<1>1. f \in ps
  BY FirstIsAmong
<1>9. FirstTwo(ps) = {f, First(ps \ {f})}
  BY DEF FirstTwo
<1> HIDE DEF f
<1>2. ps \ {f} \in SUBSET Nat /\ ps \ {f} # {}
  <2>1. p # f \/ q # f
    BY p # q
  <2> QED
    BY <2>1
<1>3. First(ps \ {f}) \in ps \ {f}
  BY <1>2, FirstIsAmong
<1> QED
  BY <1>1, <1>3, <1>9

\* How many fingers there are, as far as the code asks.
LEMMA FingersAreCounted ==
  ASSUME NEW ps \in SUBSET Pointer
  PROVE  /\ Cardinality(ps) \in Nat
         /\ Cardinality(ps) >= 2 <=> \E p, q \in ps : p # q
         /\ Cardinality(ps) = 1 => ps # {}
<1>1. IsFiniteSet(Pointer)
  BY FS_Interval, ZoomAssumption DEF Pointer
<1>2. IsFiniteSet(ps)
  BY <1>1, FS_Subset
<1>3. Cardinality(ps) \in Nat
  BY <1>2, FS_CardinalityType
<1>4. ps = {} <=> Cardinality(ps) = 0
  BY <1>2, FS_EmptySet
<1>5. Cardinality(ps) = 1 <=> \E p : ps = {p}
  BY <1>2, FS_Singleton
<1>6. (\E p, q \in ps : p # q) <=> ps # {} /\ ~ \E p : ps = {p}
  OBVIOUS
<1> QED
  BY <1>3, <1>4, <1>5, <1>6
-----------------------------------------------------------------------------
(* The zoom model *)

\* What holds of the zoom whatever a gesture does to it.
ZoomOK ==
  /\ modelZoom \in Zoom /\ invalidatedAt \in Zoom
  /\ fling \in Zoom \cup {NoFling}
  /\ isCommited \in BOOLEAN /\ viewInZoom \in BOOLEAN
  /\ ZoomWaitsForCommit
  /\ CommittedIsInvalidated
  /\ FlingWithinLimits

\* setZoom withdraws the commit and stops the fling of the zoom it replaces.
LEMMA SetZoomKeeps ==
  ASSUME ZoomOK, NEW z \in Zoom, SetZoom(z)
  PROVE  ZoomOK'
<1>1. CASE z = modelZoom
  BY <1>1 DEF ZoomOK, SetZoom, ZoomWaitsForCommit, CommittedIsInvalidated, FlingWithinLimits
<1>2. CASE z # modelZoom
  BY <1>2 DEF ZoomOK, SetZoom, ZoomWaitsForCommit, CommittedIsInvalidated, FlingWithinLimits
<1> QED
  BY <1>1, <1>2

\* After commit the pages are invalidated at the present zoom, whether or not
\* it had anything to do.
LEMMA CommitKeeps ==
  ASSUME ZoomOK, Commit, UNCHANGED fling
  PROVE  ZoomOK' /\ invalidatedAt' = modelZoom'
<1>1. CASE isCommited
  BY <1>1
  DEF ZoomOK, Commit, zoomVars, ZoomWaitsForCommit, CommittedIsInvalidated,
      FlingWithinLimits
<1>2. CASE ~isCommited
  BY <1>2 DEF ZoomOK, Commit, ZoomWaitsForCommit, CommittedIsInvalidated, FlingWithinLimits
<1> QED
  BY <1>1, <1>2
-----------------------------------------------------------------------------
(* The inductive invariant *)

LEMMA InvHasZoom == ZoomInv => ZoomOK
BY DEF ZoomInv, ZoomOK, GestureTypeOK

\* No gesture has begun when the document is opened.
LEMMA ZoomInit == GestureInit => ZoomInv
<1> SUFFICES ASSUME GestureInit PROVE ZoomInv
  OBVIOUS
<1>1. MinZoom \in Zoom
  BY ZoomAssumption DEF MinZoom, Zoom
<1>2. GestureTypeOK
  BY <1>1 DEF GestureInit, GestureTypeOK, NoPointer
<1>3. ZoomWaitsForCommit /\ CommittedIsInvalidated /\ FlingWithinLimits
  BY DEF GestureInit, ZoomWaitsForCommit, CommittedIsInvalidated, FlingWithinLimits
<1>4. PinchComparesItsFingers /\ ScrollFollowsItsFinger /\ UncommittedIsWatched
  BY DEF GestureInit, PinchComparesItsFingers, ScrollFollowsItsFinger, UncommittedIsWatched
<1> QED
  BY <1>2, <1>3, <1>4 DEF ZoomInv

\* A step of the roll, a frame or a layout leaves the fingers on the document
\* alone; what it must show is that the zoom is in order, and that the roll does
\* not come to rest over a zoom the pages do not have.
LEMMA ElsewhereKeeps ==
  ASSUME ZoomInv, ZoomOK',
         UNCHANGED <<pinchVars, pointers, pinchCrashed>>,
         touch' \in {"none", "document", "roll"},
         touch' = "document" <=> touch = "document",
         rollView' \in {"visible", "leaving", "gone"},
         rollFling' \in BOOLEAN, rollDirty' \in BOOLEAN,
         \/ rollFling' \/ rollDirty'
         \/ invalidatedAt' = modelZoom'
         \/ UNCHANGED <<modelZoom, invalidatedAt, rollFling, rollDirty>>
  PROVE  ZoomInv'
<1>1. GestureTypeOK'
  BY DEF ZoomInv, GestureTypeOK, ZoomOK, pinchVars
<1>2. PinchComparesItsFingers' /\ ScrollFollowsItsFinger'
  BY DEF ZoomInv, PinchComparesItsFingers, ScrollFollowsItsFinger,
      pinchVars
<1>3. UncommittedIsWatched'
  BY DEF ZoomInv, UncommittedIsWatched, pinchVars
<1> QED
  BY <1>1, <1>2, <1>3 DEF ZoomInv, ZoomOK

\* A touch of the document that does not change the zoom.
LEMMA FingersKeep ==
  ASSUME ZoomInv, UNCHANGED zoomVars,
         fling' \in {fling, modelZoom, NoFling},
         PinchComparesItsFingers', ScrollFollowsItsFinger', UncommittedIsWatched',
         touch' \in {"none", "document", "roll"},
         touch' = "document" <=> pointers' # {},
         pointers' \subseteq Pointer, pinch' \subseteq Pointer,
         lastPoint' \in Pointer \cup {NoPointer},
         resetLastPoint' \in BOOLEAN, cancelled' \in BOOLEAN,
         rollView' \in {"visible", "leaving", "gone"}, rollDirty' \in BOOLEAN,
         UNCHANGED <<rollFling, pinchCrashed>>
  PROVE  ZoomInv'
<1>1. GestureTypeOK'
  BY DEF ZoomInv, GestureTypeOK, zoomVars, NoFling
<1>2. ZoomWaitsForCommit' /\ CommittedIsInvalidated' /\ FlingWithinLimits'
  BY DEF ZoomInv, ZoomWaitsForCommit, CommittedIsInvalidated, FlingWithinLimits, zoomVars
<1> QED
  BY <1>1, <1>2 DEF ZoomInv

\* Every touch, frame and layout preserves the invariant.
LEMMA ZoomStep == ZoomInv /\ [GestureNext]_gestureVars => ZoomInv'
<1> SUFFICES ASSUME ZoomInv, [GestureNext]_gestureVars PROVE ZoomInv'
  OBVIOUS
<1> USE DEF pinchVars, rollVars
<1>1. GestureTypeOK /\ ZoomOK /\ UncommittedIsWatched
  BY InvHasZoom DEF ZoomInv
<1>2. \A ps \in SUBSET Pointer : ps \in SUBSET Nat
  BY ZoomAssumption DEF Pointer
<1>a. CASE Down
  <2>1. 0 \in Pointer
    BY ZoomAssumption DEF Pointer
  <2>2. First({0}) = 0
    BY FirstOfOne
  <2>3. pinch' = pinch /\ cancelled' = cancelled /\ pinchCrashed' = pinchCrashed /\ touch = "none"
    BY <1>a DEF Down
  <2>4. PinchComparesItsFingers'
    BY <2>3 DEF ZoomInv, PinchComparesItsFingers, UncommittedIsWatched
  <2>5. ScrollFollowsItsFinger'
    BY <1>a, <2>2 DEF Down, ScrollFollowsItsFinger
  <2>6. rollFling' = rollFling /\ (rollDirty => rollDirty')
    BY <1>a, <1>1 DEF Down, ToggleZoomControls, GestureTypeOK
  <2>7. UncommittedIsWatched'
    BY <1>a, <1>1, <2>6 DEF Down, UncommittedIsWatched, zoomVars
  <2>8. rollView' \in {"visible", "leaving", "gone"} /\ rollDirty' \in BOOLEAN
    BY <1>a, <1>1 DEF Down, ToggleZoomControls, GestureTypeOK
  <2> QED
    BY <1>a, <1>1, <2>1, <2>4, <2>5, <2>6, <2>7, <2>8, FingersKeep DEF Down, GestureTypeOK
<1>b. CASE PointerDown /\ ~pinchCrashed
  <2> DEFINE new == First(Pointer \ pointers)
  <2>1. Pointer \ pointers \in SUBSET Nat /\ Pointer \ pointers # {}
    BY <1>b, <1>1, <1>2 DEF PointerDown, GestureTypeOK
  <2>2. new \in Pointer \ pointers
    BY <2>1, FirstIsAmong
  <2> HIDE DEF new
  <2>3. pointers' = pointers \cup {new} /\ pinch' = FirstTwo(pointers')
    BY <1>b DEF PointerDown, new
  <2>4. PICK p \in pointers : TRUE
    BY <1>b, <1>1 DEF PointerDown, GestureTypeOK
  <2>5. pointers' \in SUBSET Pointer /\ p \in pointers' /\ new \in pointers' /\ p # new
    BY <1>1, <2>2, <2>3, <2>4 DEF GestureTypeOK
  <2>6. pinch' \subseteq pointers' /\ pinch' # {}
    BY <1>2, <2>3, <2>5, FirstTwoAreAmong
  <2>7. Cardinality(pointers') >= 2
    BY <2>5, FingersAreCounted
  <2>8. PinchComparesItsFingers'
    BY <1>b, <2>3, <2>7 DEF PointerDown, ZoomInv, PinchComparesItsFingers
  <2>9. ScrollFollowsItsFinger' /\ UncommittedIsWatched'
    BY <1>b, <2>6 DEF PointerDown, ScrollFollowsItsFinger, UncommittedIsWatched
  <2> QED
    BY <1>b, <1>1, <2>5, <2>6, <2>8, <2>9, FingersKeep DEF PointerDown, GestureTypeOK
<1>c. ASSUME NEW p \in Pointer, PointerUp(p), ~pinchCrashed PROVE ZoomInv'
  <2>1. ZoomOK' /\ invalidatedAt' = modelZoom'
    BY <1>c, <1>1, CommitKeeps DEF PointerUp
  <2>2. GestureTypeOK'
    BY <1>c, <1>1, <2>1 DEF PointerUp, GestureTypeOK, ZoomOK
  <2>3. PinchComparesItsFingers'
    BY <1>c DEF PointerUp, PinchComparesItsFingers, ZoomInv
  <2>4. ScrollFollowsItsFinger' /\ UncommittedIsWatched'
    BY <1>c, <1>1, <2>1
    DEF PointerUp, ScrollFollowsItsFinger, UncommittedIsWatched, GestureTypeOK
  <2> QED
    BY <2>1, <2>2, <2>3, <2>4 DEF ZoomInv, ZoomOK
<1>d. ASSUME NEW z \in Zoom, PinchMove(z), ~pinchCrashed PROVE ZoomInv'
  <2>1. CASE Cardinality(pointers) < 2
    <3>1. cancelled
      BY <1>d, <2>1, <1>1, FingersAreCounted
      DEF PinchMove, ZoomInv, PinchComparesItsFingers, GestureTypeOK
    <3>2. pinchCrashed' /\ UNCHANGED <<zoomVars, pinchVars, rollVars, touch, pointers, fling>>
      BY <1>d, <2>1 DEF PinchMove
    <3>3. GestureTypeOK'
      BY <1>1, <1>d, <3>2, <2>1 DEF GestureTypeOK, zoomVars, PinchMove
    <3>4. ZoomWaitsForCommit' /\ CommittedIsInvalidated' /\ FlingWithinLimits'
      BY <3>2
      DEF ZoomInv, ZoomWaitsForCommit, CommittedIsInvalidated, FlingWithinLimits, zoomVars
    <3>5. PinchComparesItsFingers' /\ ScrollFollowsItsFinger' /\ UncommittedIsWatched'
      BY <3>1, <3>2
      DEF ZoomInv, PinchComparesItsFingers, ScrollFollowsItsFinger, UncommittedIsWatched,
          zoomVars
    <3> QED
      BY <3>3, <3>4, <3>5 DEF ZoomInv
  <2>2. CASE ~(Cardinality(pointers) < 2)
    <3>1. SetZoom(z) /\ pinch' = FirstTwo(pointers) /\ pinchCrashed' = pinchCrashed
      BY <1>d, <2>2 DEF PinchMove
    <3>2. ZoomOK'
      BY <1>d, <1>1, <3>1, SetZoomKeeps
    <3>3. Cardinality(pointers) >= 2
      BY <2>2, <1>1, FingersAreCounted DEF GestureTypeOK
    <3>4. PICK p, q \in pointers : p # q
      BY <3>3, <1>1, FingersAreCounted DEF GestureTypeOK
    <3>5. pinch' \subseteq pointers /\ pinch' # {}
      BY <1>1, <1>2, <3>1, <3>4, FirstTwoAreAmong DEF GestureTypeOK
    <3>6. GestureTypeOK'
      BY <1>d, <1>1, <3>1, <3>2, <3>5 DEF PinchMove, GestureTypeOK, ZoomOK
    <3>7. PinchComparesItsFingers'
      BY <1>d, <3>1, <3>3 DEF PinchMove, ZoomInv, PinchComparesItsFingers
    <3>8. ScrollFollowsItsFinger' /\ UncommittedIsWatched'
      BY <1>d, <3>5 DEF PinchMove, ScrollFollowsItsFinger, UncommittedIsWatched
    <3> QED
      BY <3>2, <3>6, <3>7, <3>8 DEF ZoomInv, ZoomOK
  <2> QED
    BY <2>1, <2>2
<1>e. CASE ScrollMove
  <2>1. First(pointers) \in Pointer
    BY <1>e, <1>1, <1>2, FirstIsAmong DEF ScrollMove, GestureTypeOK
  <2>2. PinchComparesItsFingers' /\ ScrollFollowsItsFinger' /\ UncommittedIsWatched'
    BY <1>e
    DEF ScrollMove, ZoomInv, PinchComparesItsFingers, ScrollFollowsItsFinger,
        UncommittedIsWatched, zoomVars
  <2> QED
    BY <1>e, <1>1, <2>1, <2>2, FingersKeep DEF ScrollMove, GestureTypeOK
<1>f. CASE Up
  <2>1. First(pointers) \in Pointer
    BY <1>f, <1>1, <1>2, FirstIsAmong DEF Up, GestureTypeOK
  <2>2. cancelled \/ pinch = {}
    BY <1>f DEF Up, ZoomInv, PinchComparesItsFingers
  <2>3. PinchComparesItsFingers' /\ ScrollFollowsItsFinger' /\ UncommittedIsWatched'
    BY <1>f, <2>2
    DEF Up, ZoomInv, PinchComparesItsFingers, ScrollFollowsItsFinger, UncommittedIsWatched,
        zoomVars
  <2> QED
    BY <1>f, <1>1, <2>1, <2>3, FingersKeep DEF Up, ResetLastPoint, GestureTypeOK
<1>g. CASE Cancel
  <2>1. First(pointers) \in Pointer
    BY <1>g, <1>1, <1>2, FirstIsAmong DEF Cancel, GestureTypeOK
  <2>2. UncommittedIsWatched'
    BY <1>g, <1>1 DEF Cancel, UncommittedIsWatched, zoomVars
  <2>3. PinchComparesItsFingers' /\ ScrollFollowsItsFinger'
    BY <1>g, <1>1
    DEF Cancel, ZoomInv, PinchComparesItsFingers, ScrollFollowsItsFinger,
        UncommittedIsWatched
  <2> QED
    BY <1>g, <1>1, <2>1, <2>2, <2>3, FingersKeep DEF Cancel, ResetLastPoint, GestureTypeOK
<1>h. CASE RollDown
  <2>1. CASE rollFling
    <3>1. ZoomOK' /\ invalidatedAt' = modelZoom'
      BY <1>h, <2>1, <1>1, CommitKeeps DEF RollDown
    <3> QED
      BY <1>h, <2>1, <1>1, <3>1, ElsewhereKeeps DEF RollDown, GestureTypeOK
  <2>2. CASE ~rollFling
    <3>1. ZoomOK'
      BY <1>h, <2>2, <1>1
      DEF RollDown, ZoomOK, zoomVars, ZoomWaitsForCommit, CommittedIsInvalidated,
          FlingWithinLimits
    <3> QED
      BY <1>h, <2>2, <1>1, <3>1, ElsewhereKeeps DEF RollDown, GestureTypeOK
  <2> QED
    BY <2>1, <2>2
<1>i. ASSUME NEW z \in Zoom, RollMove(z) PROVE ZoomInv'
  <2>1. ZoomOK'
    BY <1>i, <1>1, SetZoomKeeps DEF RollMove
  <2> QED
    BY <1>i, <1>1, <2>1, ElsewhereKeeps DEF RollMove, GestureTypeOK
<1>j. CASE RollUp
  <2>1. CASE UNCHANGED zoomVars
    <3>1. ZoomOK'
      BY <1>j, <2>1, <1>1
      DEF RollUp, ZoomOK, zoomVars, ZoomWaitsForCommit, CommittedIsInvalidated,
          FlingWithinLimits
    <3> QED
      BY <1>j, <2>1, <1>1, <3>1, ElsewhereKeeps DEF RollUp, GestureTypeOK
  <2>2. CASE Commit
    <3>1. ZoomOK'
      BY <1>j, <2>2, <1>1, CommitKeeps DEF RollUp
    <3> QED
      BY <1>j, <2>2, <1>1, <3>1, ElsewhereKeeps DEF RollUp, GestureTypeOK
  <2> QED
    BY <1>j, <2>1, <2>2 DEF RollUp
<1>k. CASE RollCancel
  <2>1. ZoomOK'
    BY <1>k, <1>1
    DEF RollCancel, ZoomOK, zoomVars, ZoomWaitsForCommit, CommittedIsInvalidated,
        FlingWithinLimits
  <2> QED
    BY <1>k, <1>1, <2>1, ElsewhereKeeps DEF RollCancel, GestureTypeOK
<1>l. ASSUME NEW z \in Zoom, NEW goesOn \in BOOLEAN, RollFrame(z, goesOn) PROVE ZoomInv'
  <2>1. ZoomOK'
    BY <1>l, <1>1, SetZoomKeeps DEF RollFrame
  <2> QED
    BY <1>l, <1>1, <2>1, ElsewhereKeeps DEF RollFrame, GestureTypeOK
<1>m. CASE RollRest
  <2>1. ZoomOK' /\ invalidatedAt' = modelZoom'
    BY <1>m, <1>1, CommitKeeps DEF RollRest
  <2> QED
    BY <1>m, <1>1, <2>1, ElsewhereKeeps DEF RollRest, GestureTypeOK
<1>n. CASE RollGone \/ KeyScroll \/ FlingEnds
  <2>1. UNCHANGED zoomVars /\ fling' \in {fling, modelZoom, NoFling}
    BY <1>n DEF RollGone, KeyScroll, FlingEnds
  <2>2. ZoomOK'
    BY <2>1, <1>1
    DEF ZoomOK, zoomVars, ZoomWaitsForCommit, CommittedIsInvalidated, FlingWithinLimits
  <2> QED
    BY <1>n, <1>1, <2>1, <2>2, ElsewhereKeeps
    DEF RollGone, KeyScroll, FlingEnds, zoomVars, GestureTypeOK
<1>p. CASE Relayout
  <2>1. ZoomOK'
    BY <1>p, <1>1
    DEF Relayout, ZoomOK, ZoomWaitsForCommit, CommittedIsInvalidated, FlingWithinLimits
  <2> QED
    BY <1>p, <1>1, <2>1, ElsewhereKeeps DEF Relayout, GestureTypeOK
<1>o. CASE UNCHANGED gestureVars
  <2>1. ZoomOK'
    BY <1>o, <1>1
    DEF gestureVars, ZoomOK, zoomVars, ZoomWaitsForCommit, CommittedIsInvalidated,
        FlingWithinLimits
  <2> QED
    BY <1>o, <1>1, <2>1, ElsewhereKeeps DEF gestureVars, zoomVars, GestureTypeOK
<1> QED
  BY <1>a, <1>b, <1>c, <1>d, <1>e, <1>f, <1>g, <1>h, <1>i, <1>j, <1>k, <1>l, <1>m, <1>n,
     <1>o, <1>p
  DEF GestureNext, Touch, RollLastFrame
-----------------------------------------------------------------------------
(* Theorems *)

\* The invariant holds in every state the view, the pinch and the roll reach.
THEOREM ZoomInvHolds == GestureSpec => []ZoomInv
<1>1. GestureInit => ZoomInv
  BY ZoomInit
<1>2. ZoomInv /\ [GestureNext]_gestureVars => ZoomInv'
  BY ZoomStep
<1> QED
  BY <1>1, <1>2, PTL DEF GestureSpec

\* The zoom model, the gestures and the roll keep their types.
THEOREM GesturesTypeCorrect == GestureSpec => []GestureTypeOK
<1>1. ZoomInv => GestureTypeOK
  BY DEF ZoomInv
<1> QED
  BY <1>1, ZoomInvHolds, PTL

\* For any number of fingers and any zooms the view never holds back its
\* decodes while the zoom model would swallow the commit that ends that.
THEOREM CommitsAreNotSwallowed == GestureSpec => []NoCommitSwallowed
<1>1. ZoomInv => NoCommitSwallowed
  BY DEF ZoomInv, NoCommitSwallowed
<1> QED
  BY <1>1, ZoomInvHolds, PTL

\* Whatever gestures met, at rest the pages were invalidated at the present
\* zoom, unless the last pinch was cancelled.
THEOREM RestsSharp == GestureSpec => []RestIsSharp
<1>1. ZoomInv => RestIsSharp
  BY DEF ZoomInv, RestIsSharp, UncommittedIsWatched
<1> QED
  BY <1>1, ZoomInvHolds, PTL

\* However many fingers come and go, a pinch compares the distance of one pair
\* of them, and a scroll follows the way of one.
THEOREM GesturesKeepTheirFingers == GestureSpec => []GesturesKeepFingers
<1>1. ZoomInv => GesturesKeepFingers
  BY DEF ZoomInv, GesturesKeepFingers
<1> QED
  BY <1>1, ZoomInvHolds, PTL

\* Every change of the zoom has stopped the fling of the zoom before.
THEOREM FlingsStayWithinLimits == GestureSpec => []FlingWithinLimits
<1>1. ZoomInv => FlingWithinLimits
  BY DEF ZoomInv
<1> QED
  BY <1>1, ZoomInvHolds, PTL
-----------------------------------------------------------------------------
(***************************************************************************)
(* Browser, for any files, documents and clock: as long as the clock       *)
(* advances between two openings, the recent list on screen is the history *)
(* of openings, the last one first.                                        *)
(*                                                                         *)
(* The times of the preferences order the documents as the history does    *)
(* (HistoryInv), and two descending lists of the same times are one list,  *)
(* so that the TreeMap of getRecent has no choice (SameNumbersSameList).   *)
(***************************************************************************)

\* The lists p, of M numbers, and q, of N, descend and have the same numbers.
SameNumbers(M, p, N, q) ==
  /\ M \in Nat /\ p \in [1 .. M -> Int] /\ \A i, j \in 1 .. M : i < j => p[i] > p[j]
  /\ N \in Nat /\ q \in [1 .. N -> Int] /\ \A i, j \in 1 .. N : i < j => q[i] > q[j]
  /\ \A i \in 1 .. M : \E j \in 1 .. N : q[j] = p[i]
  /\ \A j \in 1 .. N : \E i \in 1 .. M : p[i] = q[j]

\* Two descending lists of the same numbers agree as far as both go.
LEMMA AgreesSoFar ==
  ASSUME NEW M, NEW N, NEW p, NEW q, SameNumbers(M, p, N, q)
  PROVE  \A i \in 1 .. M : i <= N /\ p[i] = q[i]
<1> USE DEF SameNumbers
<1> SUFFICES ASSUME NEW m \in 1 .. M, m > N \/ p[m] # q[m] PROVE FALSE
  OBVIOUS
<1> DEFINE bad == {i \in 1 .. M : i > N \/ p[i] # q[i]}
<1>1. bad \in SUBSET Nat /\ bad # {}
  <2>1. m \in bad
    OBVIOUS
  <2>2. bad \in SUBSET Nat
    OBVIOUS
  <2> QED BY <2>1, <2>2
<1>2. PICK i \in bad : \A k \in bad : i <= k
  BY <1>1, SmallestExists
<1>3. i \in 1 .. M /\ (i > N \/ p[i] # q[i])
  OBVIOUS
<1>4. \A k \in 1 .. M : k < i => k <= N /\ p[k] = q[k]
  <2> SUFFICES ASSUME NEW k \in 1 .. M, k < i PROVE k <= N /\ p[k] = q[k]
    OBVIOUS
  <2>1. k \notin bad
    <3> HIDE DEF bad
    <3> QED BY <1>2, <1>3
  <2> QED BY <2>1
<1> HIDE DEF bad
<1>5. PICK j \in 1 .. N : q[j] = p[i]
  BY <1>3
<1>6. ~ (j < i)
  <2> SUFFICES ASSUME j < i PROVE FALSE
    OBVIOUS
  <2>1. j \in 1 .. M /\ p[j] = q[j]
    BY <1>3, <1>4
  <2> QED BY <2>1, <1>3, <1>5
<1>7. i # j
  BY <1>3, <1>5
<1>8. i \in 1 .. N /\ i < j
  BY <1>3, <1>5, <1>6, <1>7
<1>9. q[i] > p[i]
  BY <1>5, <1>8
<1>10. PICK k \in 1 .. M : p[k] = q[i]
  BY <1>8
<1>11. ~ (k < i)
  <2> SUFFICES ASSUME k < i PROVE FALSE
    OBVIOUS
  <2>1. k \in 1 .. N /\ q[k] = q[i]
    BY <1>3, <1>4, <1>10
  <2> QED BY <2>1, <1>8
<1>12. k # i
  BY <1>3, <1>8, <1>9, <1>10
<1>13. i < k
  BY <1>3, <1>11, <1>12
<1>14. p[i] > p[k]
  BY <1>3, <1>13
<1> QED BY <1>3, <1>8, <1>9, <1>10, <1>14

\* Two descending lists of the same numbers are one.
LEMMA SameNumbersSameList ==
  ASSUME NEW M, NEW N, NEW p, NEW q, SameNumbers(M, p, N, q)
  PROVE  M = N /\ \A i \in 1 .. M : p[i] = q[i]
<1>1. \A i \in 1 .. M : i <= N /\ p[i] = q[i]
  BY AgreesSoFar
<1>2. \A i \in 1 .. N : i <= M /\ q[i] = p[i]
  <2>1. SameNumbers(N, q, M, p)
    BY DEF SameNumbers
  <2> QED BY <2>1, AgreesSoFar
<1> USE DEF SameNumbers
<1>3. ~ (M < N)
  BY <1>2
<1>4. ~ (N < M)
  BY <1>1
<1> QED BY <1>1, <1>3, <1>4
-----------------------------------------------------------------------------
\* What is left of a sequence without u has the rest of its elements in their order.
LEMMA WithoutKeepsOrder ==
  ASSUME NEW S, NEW s \in Seq(S), NEW u,
         \A i, j \in DOMAIN s : i # j => s[i] # s[j]
  PROVE  /\ Without(s, u) \in Seq(S)
         /\ \A i \in DOMAIN Without(s, u) : \E k \in DOMAIN s : s[k] = Without(s, u)[i]
         /\ \A k \in DOMAIN s : s[k] # u => \E i \in DOMAIN Without(s, u) : Without(s, u)[i] = s[k]
         /\ \A i \in DOMAIN Without(s, u) : Without(s, u)[i] # u
         /\ \A i, j \in DOMAIN Without(s, u) : i < j =>
              \E k, l \in DOMAIN s :
                k < l /\ s[k] = Without(s, u)[i] /\ s[l] = Without(s, u)[j]
<1>0. DOMAIN s = 1 .. Len(s) /\ Len(s) \in Nat /\ \A i \in 1 .. Len(s) : s[i] \in S
  OBVIOUS
<1>1. CASE \A j \in DOMAIN s : s[j] # u
  <2>1. Without(s, u) = s
    BY <1>1 DEF Without
  <2> QED BY <1>1, <2>1
<1>2. CASE \E j \in DOMAIN s : s[j] = u
  <2>1. PICK at \in DOMAIN s : s[at] = u
    BY <1>2
  <2> DEFINE w == Without(s, u)
  <2>2. \A i \in 1 .. (Len(s) - 1) : (\E j \in 1 .. i : s[j] = u) <=> at <= i
    BY <1>0, <2>1
  <2>3. w = [i \in 1 .. (Len(s) - 1) |-> IF at <= i THEN s[i + 1] ELSE s[i]]
    <3>1. w = [i \in 1 .. (Len(s) - 1) |-> IF \E j \in 1 .. i : s[j] = u THEN s[i + 1] ELSE s[i]]
      BY <1>2 DEF Without
    <3> QED BY <2>2, <3>1
  <2>4. Len(s) - 1 \in Nat /\ at \in 1 .. Len(s)
    BY <1>0, <2>1
  <2> HIDE DEF w
  <2>5. w \in Seq(S) /\ DOMAIN w = 1 .. (Len(s) - 1)
    <3>1. \A i \in 1 .. (Len(s) - 1) : i + 1 \in 1 .. Len(s) /\ i \in 1 .. Len(s)
      BY <1>0
    <3>2. w \in [1 .. (Len(s) - 1) -> S]
      BY <1>0, <2>3, <3>1
    <3> QED BY <2>4, <3>2
  <2> DEFINE place(i) == IF at <= i THEN i + 1 ELSE i
  <2>6. \A i \in DOMAIN w : place(i) \in DOMAIN s /\ w[i] = s[place(i)] /\ place(i) # at
    BY <1>0, <2>3, <2>4, <2>5
  <2>7. \A k \in DOMAIN s : k # at => \E i \in DOMAIN w : place(i) = k
    <3> SUFFICES ASSUME NEW k \in DOMAIN s, k # at PROVE \E i \in DOMAIN w : place(i) = k
      OBVIOUS
    <3>1. CASE k < at
      <4>1. k \in DOMAIN w /\ place(k) = k
        BY <1>0, <2>4, <2>5, <3>1
      <4> QED BY <4>1
    <3>2. CASE at < k
      <4>1. k - 1 \in DOMAIN w /\ place(k - 1) = k
        BY <1>0, <2>4, <2>5, <3>2
      <4> QED BY <4>1
    <3> QED BY <3>1, <3>2, <1>0, <2>4
  <2>8. \A i, j \in DOMAIN w : i < j => place(i) < place(j)
    BY <2>4, <2>5
  <2> HIDE DEF place
  <2>9. \A i \in DOMAIN w : w[i] # u
    BY <2>1, <2>6
  <2>10. \A k \in DOMAIN s : s[k] # u => \E i \in DOMAIN w : w[i] = s[k]
    BY <2>1, <2>6, <2>7
  <2>11. \A i, j \in DOMAIN w : i < j =>
              \E k, l \in DOMAIN s : k < l /\ s[k] = w[i] /\ s[l] = w[j]
    BY <2>6, <2>8
  <2>12. \A i \in DOMAIN w : \E k \in DOMAIN s : s[k] = w[i]
    BY <2>6
  <2> QED BY <2>5, <2>9, <2>10, <2>11, <2>12 DEF w
<1> QED BY <1>1, <1>2
-----------------------------------------------------------------------------
\* What the list depends on, whatever the clock does.
RecentTypes ==
  /\ exists \subseteq File
  /\ clock \in 0 .. MaxTime
  /\ recent \in [Doc -> 0 .. Never]
  /\ history \in Seq(Doc) /\ \A i, j \in DOMAIN history : i # j => history[i] # history[j]
  /\ screen = "viewer" => opened \in Doc

\* As long as the clock advances, the history holds the documents that have an
\* entry, in the order of their times.
HistoryInv ==
  steady =>
    /\ \A i, j \in DOMAIN history : i < j => recent[history[i]] < recent[history[j]]
    /\ \A d \in Doc : d \in Added <=> \E i \in DOMAIN history : history[i] = d

RecentInv == RecentTypes /\ HistoryInv /\ RecentIsHistory

LEMMA RecentInitInv == BrowserInit => RecentInv
<1> SUFFICES ASSUME BrowserInit PROVE RecentInv
  OBVIOUS
<1>1. PICK old \in Known : /\ recent = [d \in Doc |-> IF d = old THEN 0 ELSE Never]
                           /\ history = <<old>>
  BY DEF BrowserInit
<1>2. old \in Doc /\ MaxTime \in Nat \ {0} /\ Never \in Nat \ {0}
  BY BrowserAssumption DEF Never
<1>3. RecentTypes
  BY <1>1, <1>2 DEF RecentTypes, BrowserInit, Never
<1>4. DOMAIN history = {1} /\ history[1] = old
  BY <1>1
<1>5. HistoryInv
  BY <1>1, <1>2, <1>4 DEF HistoryInv, Added
<1> QED BY <1>3, <1>5 DEF RecentInv, RecentIsHistory, BrowserInit

\* An opening puts the document at the end of the history, with the latest time.
LEMMA AddRecentKeeps ==
  ASSUME RecentTypes, HistoryInv, NEW u \in Doc, AddRecent(u)
  PROVE  /\ recent' \in [Doc -> 0 .. Never] /\ history' \in Seq(Doc)
         /\ \A i, j \in DOMAIN history' : i # j => history'[i] # history'[j]
         /\ HistoryInv'
<1> DEFINE w == Without(history, u)
           last == Len(w) + 1
<1>0. /\ recent \in [Doc -> 0 .. Never] /\ history \in Seq(Doc) /\ clock \in 0 .. MaxTime
      /\ \A i, j \in DOMAIN history : i # j => history[i] # history[j]
      /\ MaxTime \in Nat /\ Never = MaxTime + 1 /\ Never \in Nat
      /\ recent' = [recent EXCEPT ![u] = clock]
      /\ history' = Append(w, u)
      /\ steady' = (steady /\ \A d \in Added : recent[d] < clock)
  BY BrowserAssumption DEF RecentTypes, AddRecent, Never
<1>1. recent' \in [Doc -> 0 .. Never]
  BY <1>0
<1>2. /\ w \in Seq(Doc)
      /\ \A i \in DOMAIN w : \E k \in DOMAIN history : history[k] = w[i]
      /\ \A k \in DOMAIN history : history[k] # u => \E i \in DOMAIN w : w[i] = history[k]
      /\ \A i \in DOMAIN w : w[i] # u
      /\ \A i, j \in DOMAIN w : i < j =>
           \E k, l \in DOMAIN history : k < l /\ history[k] = w[i] /\ history[l] = w[j]
  BY <1>0, WithoutKeepsOrder
<1> HIDE DEF w
<1>3. /\ history' \in Seq(Doc)
      /\ DOMAIN w = 1 .. Len(w) /\ Len(w) \in Nat
      /\ DOMAIN history' = 1 .. last
      /\ history'[last] = u
      /\ \A i \in DOMAIN w : i \in DOMAIN history' /\ history'[i] = w[i]
      /\ \A i \in DOMAIN history' : i # last => i \in DOMAIN w
  <2>1. /\ Append(w, u) \in Seq(Doc)
        /\ DOMAIN w = 1 .. Len(w) /\ Len(w) \in Nat
        /\ DOMAIN Append(w, u) = 1 .. (Len(w) + 1)
        /\ Append(w, u)[Len(w) + 1] = u
        /\ \A i \in DOMAIN w : i \in DOMAIN Append(w, u) /\ Append(w, u)[i] = w[i]
        /\ \A i \in DOMAIN Append(w, u) : i # Len(w) + 1 => i \in DOMAIN w
    BY <1>2, PutLast
  <2> QED BY <1>0, <2>1
<1>4. last \in Nat /\ \A i \in DOMAIN w : i < last /\ i \in Nat
  BY <1>3
<1> HIDE DEF last
<1>5. ASSUME NEW i \in DOMAIN history', NEW j \in DOMAIN history', i < j
      PROVE  \/ j = last /\ i \in DOMAIN w /\ history'[i] = w[i] /\ history'[j] = u
             \/ /\ i \in DOMAIN w /\ j \in DOMAIN w
                /\ history'[i] = w[i] /\ history'[j] = w[j]
  <2>1. i \in 1 .. last /\ j \in 1 .. last
    BY <1>3
  <2>2. i # last
    BY <1>4, <1>5, <2>1
  <2>3. i \in DOMAIN w /\ history'[i] = w[i]
    BY <1>3, <2>2
  <2> QED BY <1>3, <2>3
<1>6. ASSUME NEW i \in DOMAIN history', NEW j \in DOMAIN history', i # j
      PROVE  history'[i] # history'[j]
  <2>1. ASSUME NEW k \in DOMAIN history', NEW l \in DOMAIN history', k < l
        PROVE  history'[k] # history'[l]
    <3>1. CASE history'[k] = w[k] /\ k \in DOMAIN w /\ history'[l] = u
      BY <1>2, <3>1
    <3>2. CASE k \in DOMAIN w /\ l \in DOMAIN w /\ history'[k] = w[k] /\ history'[l] = w[l]
      <4>1. PICK a, b \in DOMAIN history : a < b /\ history[a] = w[k] /\ history[b] = w[l]
        BY <1>2, <2>1, <3>2
      <4>2. a # b
        BY <1>0, <4>1
      <4> QED BY <1>0, <3>2, <4>1, <4>2
    <3> QED BY <1>5, <2>1, <3>1, <3>2
  <2>2. i \in 1 .. last /\ j \in 1 .. last
    BY <1>3
  <2>3. i < j \/ j < i
    BY <1>4, <1>6, <2>2
  <2> QED BY <2>1, <2>3
<1>7. ASSUME steady'
      PROVE  /\ \A i, j \in DOMAIN history' : i < j => recent'[history'[i]] < recent'[history'[j]]
             /\ \A d \in Doc : d \in Added' <=> \E i \in DOMAIN history' : history'[i] = d
  <2>1. /\ \A i, j \in DOMAIN history : i < j => recent[history[i]] < recent[history[j]]
        /\ \A d \in Doc : d \in Added <=> \E i \in DOMAIN history : history[i] = d
        /\ \A d \in Added : recent[d] < clock
    <3>1. steady /\ \A d \in Added : recent[d] < clock
      BY <1>0, <1>7
    <3> QED BY <3>1 DEF HistoryInv
  <2>2. recent'[u] = clock /\ \A d \in Doc : d # u => recent'[d] = recent[d]
    BY <1>0
  <2>3. \A d \in Doc : d \in Added' <=> (d = u \/ d \in Added)
    BY <1>0, <2>2 DEF Added, Never
  <2>4. ASSUME NEW i \in DOMAIN w
        PROVE  w[i] \in Doc /\ w[i] # u /\ w[i] \in Added /\ recent'[w[i]] = recent[w[i]]
    <3>1. w[i] \in Doc
      BY <1>2
    <3> QED BY <1>2, <2>1, <2>2, <3>1
  <2>5. ASSUME NEW i \in DOMAIN history', NEW j \in DOMAIN history', i < j
        PROVE  recent'[history'[i]] < recent'[history'[j]]
    <3>1. CASE history'[i] = w[i] /\ i \in DOMAIN w /\ history'[j] = u
      BY <2>1, <2>2, <2>4, <3>1
    <3>2. CASE i \in DOMAIN w /\ j \in DOMAIN w /\ history'[i] = w[i] /\ history'[j] = w[j]
      <4>1. PICK a, b \in DOMAIN history : a < b /\ history[a] = w[i] /\ history[b] = w[j]
        BY <1>2, <2>5, <3>2
      <4> QED BY <2>1, <2>4, <3>2, <4>1
    <3> QED BY <1>5, <2>5, <3>1, <3>2
  <2>6. ASSUME NEW d \in Doc
        PROVE  d \in Added' <=> \E i \in DOMAIN history' : history'[i] = d
    <3>1. ASSUME NEW i \in DOMAIN history' PROVE history'[i] \in Added' 
      <4>1. CASE i = last
        BY <1>3, <2>3, <4>1
      <4>2. CASE i # last
        BY <1>3, <2>3, <2>4, <4>2
      <4> QED BY <4>1, <4>2
    <3>2. ASSUME d \in Added', d # u PROVE \E i \in DOMAIN history' : history'[i] = d
      <4>1. PICK k \in DOMAIN history : history[k] = d
        BY <2>1, <2>3, <3>2
      <4>2. PICK i \in DOMAIN w : w[i] = d
        BY <1>2, <3>2, <4>1
      <4> QED BY <1>3, <4>2
    <3>3. last \in DOMAIN history'
      <4>1. last \in 1 .. last
        BY <1>3 DEF last
      <4> QED BY <1>3, <4>1
    <3> QED BY <1>3, <3>1, <3>2, <3>3
  <2> QED BY <2>5, <2>6
<1> QED BY <1>1, <1>3, <1>6, <1>7 DEF HistoryInv

\* The list that the browser reads when it comes to the screen is the history.
LEMMA ResumeShows ==
  ASSUME RecentTypes, HistoryInv, steady, Resume
  PROVE  uris' = Reverse(history)
<1> DEFINE h == Reverse(history)
<1>0. /\ recent \in [Doc -> 0 .. Never] /\ history \in Seq(Doc) /\ Never \in Nat
      /\ \A i, j \in DOMAIN history : i < j => recent[history[i]] < recent[history[j]]
      /\ \A d \in Doc : d \in Added <=> \E i \in DOMAIN history : history[i] = d
  BY BrowserAssumption DEF RecentTypes, HistoryInv, Never
<1>1. /\ DOMAIN history = 1 .. Len(history) /\ Len(history) \in Nat
      /\ h = [i \in 1 .. Len(history) |-> history[(Len(history) - i) + 1]]
  BY <1>0 DEF Reverse
<1> DEFINE n == Len(history)
<1>2. n \in Nat /\ \A i \in 1 .. n : (n - i) + 1 \in 1 .. n /\ n - ((n - i) + 1) + 1 = i
  BY <1>1
<1>3. h \in Seq(Doc) /\ DOMAIN h = 1 .. n
  <2>1. \A i \in 1 .. n : history[(n - i) + 1] \in Doc
    BY <1>0, <1>1, <1>2
  <2>2. h \in [1 .. n -> Doc]
    BY <1>1, <2>1
  <2> QED BY <1>2, <2>2
<1>4. \A i \in 1 .. n : h[i] = history[(n - i) + 1]
  BY <1>1
<1> HIDE DEF h
<1>5. \A i, j \in 1 .. n : i < j => recent[h[i]] > recent[h[j]]
  <2> SUFFICES ASSUME NEW i \in 1 .. n, NEW j \in 1 .. n, i < j
               PROVE  recent[h[i]] > recent[h[j]]
    OBVIOUS
  <2>1. (n - j) + 1 < (n - i) + 1
    BY <1>2
  <2>2. (n - j) + 1 \in DOMAIN history /\ (n - i) + 1 \in DOMAIN history
    BY <1>1, <1>2
  <2>3. recent[history[(n - j) + 1]] < recent[history[(n - i) + 1]]
    BY <1>0, <2>1, <2>2
  <2>4. history[(n - j) + 1] \in Doc /\ history[(n - i) + 1] \in Doc
    BY <1>0, <2>2
  <2>5. recent[h[i]] \in Int /\ recent[h[j]] \in Int
    BY <1>0, <1>4, <2>4
  <2> QED BY <1>4, <2>3, <2>5
<1>6. \A d \in Doc : d \in Added <=> \E i \in DOMAIN h : h[i] = d
  <2>1. ASSUME NEW i \in DOMAIN h PROVE \E k \in DOMAIN history : history[k] = h[i]
    BY <1>1, <1>2, <1>3, <1>4
  <2>2. ASSUME NEW k \in DOMAIN history PROVE \E i \in DOMAIN h : h[i] = history[k]
    <3>1. (n - k) + 1 \in DOMAIN h /\ h[(n - k) + 1] = history[k]
      BY <1>1, <1>2, <1>3, <1>4
    <3> QED BY <3>1
  <2> QED BY <1>0, <2>1, <2>2
<1> DEFINE list == uris'
<1>7. /\ list \in SeqOf(Added, Cardinality(Added))
      /\ \A i, j \in DOMAIN list : i < j => recent[list[i]] > recent[list[j]]
      /\ \A d \in Added : \E i \in DOMAIN list : recent[list[i]] = recent[d]
  BY DEF Resume, GetRecent
<1> HIDE DEF list
<1>8. list \in Seq(Added)
  <2>1. PICK m \in 0 .. Cardinality(Added) : list \in [1 .. m -> Added]
    BY <1>7 DEF SeqOf
  <2>2. m \in Nat
    OBVIOUS
  <2> QED BY <2>1, <2>2
<1>9. Added \subseteq Doc
  BY DEF Added
<1>10. list \in Seq(Doc) /\ \A i \in DOMAIN list : list[i] \in Added
  BY <1>8, <1>9
<1>12. ASSUME NEW d \in Added, NEW e \in Added, recent[d] = recent[e]
       PROVE  d = e
  <2>1. d \in Doc /\ e \in Doc
    BY <1>9
  <2>2. PICK i \in 1 .. n, j \in 1 .. n : history[i] = d /\ history[j] = e
    BY <1>0, <1>1, <2>1
  <2>3. recent[d] \in Int /\ recent[e] \in Int
    BY <1>0, <2>1
  <2>4. ~ (i < j)
    <3> SUFFICES ASSUME i < j PROVE FALSE
      OBVIOUS
    <3>1. recent[d] < recent[e]
      BY <1>0, <1>1, <2>2
    <3> QED BY <1>12, <2>3, <3>1
  <2>5. ~ (j < i)
    <3> SUFFICES ASSUME j < i PROVE FALSE
      OBVIOUS
    <3>1. recent[e] < recent[d]
      BY <1>0, <1>1, <2>2
    <3> QED BY <1>12, <2>3, <3>1
  <2> QED BY <1>1, <2>2, <2>4, <2>5
<1>13. \A d \in Added : \E i \in DOMAIN list : list[i] = d
  BY <1>7, <1>10, <1>12
<1>14. \A i \in DOMAIN list : \E j \in DOMAIN h : h[j] = list[i]
  BY <1>6, <1>9, <1>10
<1>15. \A j \in DOMAIN h : \E i \in DOMAIN list : list[i] = h[j]
  <2>1. \A j \in DOMAIN h : h[j] \in Doc
    BY <1>3
  <2> QED BY <1>6, <1>13, <2>1
<1> DEFINE N == Len(list)
           p == [i \in 1 .. n |-> recent[h[i]]]
           q == [i \in 1 .. N |-> recent[list[i]]]
<1>16. DOMAIN list = 1 .. N /\ N \in Nat /\ \A i \in 1 .. N : list[i] \in Doc
  BY <1>10
<1>17. p \in [1 .. n -> Int] /\ q \in [1 .. N -> Int]
  BY <1>0, <1>3, <1>16
<1>18. /\ \A i, j \in 1 .. n : i < j => p[i] > p[j]
       /\ \A i, j \in 1 .. N : i < j => q[i] > q[j]
       /\ \A i \in 1 .. n : \E j \in 1 .. N : q[j] = p[i]
       /\ \A j \in 1 .. N : \E i \in 1 .. n : p[i] = q[j]
  BY <1>3, <1>5, <1>7, <1>14, <1>15, <1>16
<1> HIDE DEF p, q, n, N
<1>19. SameNumbers(n, p, N, q)
  BY <1>2, <1>16, <1>17, <1>18, Zenon DEF SameNumbers
<1>20. n = N /\ \A i \in 1 .. n : p[i] = q[i]
  BY <1>19, SameNumbersSameList
<1>21. ASSUME NEW i \in 1 .. n PROVE h[i] = list[i]
  <2>1. recent[h[i]] = recent[list[i]]
    BY <1>20 DEF p, q
  <2>2. h[i] \in Doc /\ i \in DOMAIN h /\ i \in DOMAIN list
    BY <1>3, <1>16, <1>20
  <2>3. h[i] \in Added /\ list[i] \in Added
    BY <1>6, <1>10, <2>2, Zenon
  <2> QED BY <1>12, <2>1, <2>3
<1>22. list = [i \in DOMAIN list |-> list[i]] /\ h = [i \in DOMAIN h |-> h[i]]
  BY <1>3, <1>10
<1>23. list = h
  BY <1>3, <1>16, <1>20, <1>21, <1>22
<1> QED BY <1>23 DEF list, h
-----------------------------------------------------------------------------
\* A document is opened, or the activity fails.
LEMMA OpenKeeps ==
  ASSUME RecentInv, NEW u, Open(u), UNCHANGED <<exists, clock, adapterVars>>, u \in Doc \cup {NoFile}
  PROVE  RecentInv'
<1>1. CASE u \in exists /\ AddRecent(u) /\ screen' = "viewer" /\ opened' = u
  <2>1. u \in Doc
    BY <1>1, BrowserAssumption DEF RecentInv, RecentTypes, File
  <2>2. /\ recent' \in [Doc -> 0 .. Never] /\ history' \in Seq(Doc)
        /\ \A i, j \in DOMAIN history' : i # j => history'[i] # history'[j]
        /\ HistoryInv'
    BY <1>1, <2>1, AddRecentKeeps DEF RecentInv
  <2>3. RecentTypes'
    BY <1>1, <2>1, <2>2 DEF RecentInv, RecentTypes
  <2>4. RecentIsHistory'
    BY <1>1 DEF RecentIsHistory
  <2> QED BY <2>2, <2>3, <2>4 DEF RecentInv
<1>2. CASE screen' = "else" /\ UNCHANGED <<opened, recentVars>>
  <2>1. RecentTypes' /\ HistoryInv'
    BY <1>2 DEF RecentInv, RecentTypes, HistoryInv, recentVars, Added
  <2>2. RecentIsHistory'
    BY <1>2 DEF RecentIsHistory
  <2> QED BY <2>1, <2>2 DEF RecentInv
<1> QED BY <1>1, <1>2 DEF Open

\* The preferences stay as they are, and the browser is on screen only with a list
\* that it had there before or that it has just read.
LEMMA NoOpeningKeeps ==
  ASSUME RecentInv, exists' \subseteq File, clock' \in 0 .. MaxTime, UNCHANGED <<opened, recentVars>>,
         screen' = "viewer" => screen = "viewer",
         screen' = "browser" => Resume \/ UNCHANGED <<screen, uris>>
  PROVE  RecentInv'
<1>1. RecentTypes' /\ HistoryInv'
  BY DEF RecentInv, RecentTypes, HistoryInv, recentVars, Added
<1>2. RecentIsHistory'
  <2> SUFFICES ASSUME screen' = "browser", steady' PROVE uris' = Reverse(history)'
    BY DEF RecentIsHistory
  <2>1. steady /\ history' = history
    BY DEF recentVars
  <2>2. CASE Resume
    <3>1. uris' = Reverse(history)
      BY <2>1, <2>2, ResumeShows DEF RecentInv
    <3> QED BY <2>1, <3>1
  <2>3. CASE UNCHANGED <<screen, uris>>
    BY <2>1, <2>3 DEF RecentInv, RecentIsHistory
  <2> QED BY <2>2, <2>3
<1> QED BY <1>1, <1>2 DEF RecentInv

\* No step of the reader, the system or the file system breaks the order.
LEMMA RecentStepInv == RecentInv /\ [BrowserNext]_browserVars => RecentInv'
<1> SUFFICES ASSUME RecentInv, [BrowserNext]_browserVars PROVE RecentInv'
  OBVIOUS
<1>0. /\ exists \subseteq File /\ clock \in 0 .. MaxTime
      /\ screen = "viewer" => opened \in Doc
      /\ Known \subseteq Doc /\ MaxTime \in Nat
      /\ Unstable \subseteq File
  BY BrowserAssumption DEF RecentInv, RecentTypes
<1>1. ASSUME NEW u, ShowDocument(u), UNCHANGED <<exists, clock, adapterVars>>
      PROVE  RecentInv'
  <2>1. CASE u \in Known /\ Open(u)
    BY <1>0, <1>1, <2>1, OpenKeeps
  <2>2. CASE screen' = "else" /\ UNCHANGED <<opened, recentVars>>
    BY <1>0, <1>1, <2>2, NoOpeningKeeps
  <2> QED BY <1>1, <2>1, <2>2 DEF ShowDocument
<1>2. ASSUME NEW f, ClickDirectory(f) PROVE RecentInv'
  BY <1>0, <1>2, NoOpeningKeeps DEF ClickDirectory, viewVars
<1>3. ASSUME NEW f, ClickFile(f) PROVE RecentInv'
  BY <1>1, <1>3 DEF ClickFile
<1>4. ASSUME NEW u, ClickRecent(u) PROVE RecentInv'
  BY <1>1, <1>4 DEF ClickRecent
<1>5. ASSUME NEW u \in Doc, OpenElsewhere(u) PROVE RecentInv'
  BY <1>5, OpenKeeps DEF OpenElsewhere
<1>6. CASE ToggleFullScreen
  BY <1>0, <1>6, OpenKeeps DEF ToggleFullScreen
<1>7. CASE Back
  <2>1. \/ Resume
        \/ screen' = "else"
    BY <1>7 DEF Back
  <2> QED BY <1>0, <1>7, <2>1, NoOpeningKeeps DEF Back, Resume
<1>8. CASE Launch
  BY <1>0, <1>8, NoOpeningKeeps DEF Launch, Resume
<1>9. CASE Leave
  BY <1>0, <1>9, NoOpeningKeeps DEF Leave
<1>10. CASE Turn
  BY <1>0, <1>10, NoOpeningKeeps DEF Turn, Resume
<1>11. CASE Kill
  BY <1>0, <1>11, NoOpeningKeeps DEF Kill, adapterVars
<1>12. ASSUME NEW f \in Unstable, FileChanges(f) PROVE RecentInv'
  <2>1. exists' \subseteq File
    BY <1>0, <1>12 DEF FileChanges
  <2> QED BY <1>0, <1>12, <2>1, NoOpeningKeeps DEF FileChanges, adapterVars, viewVars
<1>13. ASSUME NEW t \in 1 .. MaxTime, SetClock(t) PROVE RecentInv'
  <2>1. clock' \in 0 .. MaxTime
    BY <1>0, <1>13 DEF SetClock
  <2> QED BY <1>0, <1>13, <2>1, NoOpeningKeeps DEF SetClock, adapterVars, viewVars
<1>14. CASE UNCHANGED browserVars
  BY <1>0, <1>14, NoOpeningKeeps DEF browserVars, adapterVars, viewVars
<1> QED
  BY <1>2, <1>3, <1>4, <1>5, <1>6, <1>7, <1>8, <1>9, <1>10, <1>11, <1>12, <1>13, <1>14 DEF BrowserNext

\* BaseBrowserActivity.onResume: as long as the clock advances between two openings,
\* the recent list on screen is the history of openings, the last one first.
THEOREM ListIsHistory == BrowserSpec => []RecentIsHistory
<1>1. BrowserInit => RecentInv
  BY RecentInitInv
<1>2. RecentInv /\ [BrowserNext]_browserVars => RecentInv'
  BY RecentStepInv
<1>3. RecentInv => RecentIsHistory
  BY DEF RecentInv
<1> QED BY <1>1, <1>2, <1>3, PTL DEF BrowserSpec
=============================================================================
