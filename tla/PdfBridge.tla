------------------------------ MODULE PdfBridge ------------------------------
(***************************************************************************)
(* The PDF bridge, pdfdroidbridge.c, and what its calls do to the objects  *)
(* of a document in mupdf: pdf_xref.c, pdf_store.c, pdf_page.c,            *)
(* pdf_pagetree.c, pdf_repair.c, pdf_stream.c and fitz/obj_simple.c.       *)
(*                                                                         *)
(* The table of a document caches the objects it has parsed; objects are   *)
(* counted (fz_keepobj, fz_dropobj).  An indirect reference that has been  *)
(* resolved keeps the object it found.  Every PdfPage_open begins by       *)
(* flushing the table: objects that nobody but the table counts are freed, *)
(* and parsed again when they are next wanted.                             *)
(*                                                                         *)
(* Pages are opened by the executor and, when a page asked for is not in   *)
(* the pool, by the UI thread, in the same document and without a lock.  A *)
(* step is one call of mupdf; races within a call, such as of two          *)
(* increments of one counter, are left out.  Also left out are the objects *)
(* that lie compressed in an object stream, of which one read fills the    *)
(* table with many, entries that lead to the place of another object, what *)
(* a thread does in a document freed under it, and the counts of           *)
(* references themselves, which are never in the table.                    *)
(***************************************************************************)
EXTENDS Integers, Sequences, FiniteSets

CONSTANTS
  Thread,       \* the threads that open pages
  NumPages,
  PageObj,      \* the dictionary of each page, a function on 0 .. NumPages - 1
  ResObj,       \* the resources each page refers to
  Contents,     \* the content streams of each page, a sequence
  Fonts,        \* the fonts its content uses, in their order
  AnnotObj,     \* the annotation with a link to a URI, of the pages that have one
  DestObj,      \* the URI of that link
  LengthObj,    \* streams whose Length is a reference, with the number it names
  WrongLength,  \* streams whose Length in the file is wrong
  FileCount,    \* the Count that the page tree has in the file
  Broken,       \* the objects that cannot be read from the file
  Table,        \* the objects of the file, in the order of their numbers
  Descending,   \* the same objects, each before those it refers to
  MaxOpen       \* bound: how often one page is open at a time

Page  == 0 .. (NumPages - 1)
InFile == {Table[i] : i \in DOMAIN Table}
Obj   == InFile \cup {"trailer"}

\* The indirect references that the code resolves or keeps.
ContentRef(p) == <<PageObj[p], Contents[p][1]>>
ResRef(p)     == <<PageObj[p], ResObj[p]>>
AnnotRef(p)   == <<PageObj[p], AnnotObj[p]>>
LinkRef(p)    == <<AnnotObj[p], DestObj[p]>>
FontRefs(p)   == {<<ResObj[p], Fonts[p][i]>> : i \in DOMAIN Fonts[p]}
LengthRefs    == {<<s, LengthObj[s]>> : s \in DOMAIN LengthObj}
Ref == {<<"trailer", "catalog">>, <<"trailer", "info">>, <<"catalog", "pages">>}
         \cup {<<"pages", PageObj[p]>> : p \in Page}
         \cup {ResRef(p) : p \in Page}
         \cup {AnnotRef(p) : p \in DOMAIN AnnotObj} \cup {LinkRef(p) : p \in DOMAIN AnnotObj}
         \cup {ContentRef(p) : p \in {q \in Page : Len(Contents[q]) = 1}}
         \cup LengthRefs \cup (UNION {FontRefs(p) : p \in Page})

\* Every reference leads to an entry of the table, and to no container of its own.  A
\* page has a dictionary, contents and annotations of its own, its resources are no
\* page and no annotation.  What the tree of the pages consists of can be read, and so
\* can the streams that pdf_repairxref measures.
ASSUME PdfAssumption ==
  /\ NumPages \in Nat \ {0} /\ FileCount \in Nat
  /\ IsFiniteSet(Thread)
  /\ Table \in Seq(InFile) /\ Descending \in Seq(Obj)
  /\ {Descending[i] : i \in DOMAIN Descending} = Obj
  /\ DOMAIN AnnotObj \subseteq Page
  /\ Ref \subseteq Obj \X InFile
  /\ \A i, j \in DOMAIN Descending :
       <<Descending[i], Descending[j]>> \in Ref => i < j
  /\ \A p, q \in Page : /\ PageObj[p] = PageObj[q] => p = q
                        /\ ResObj[p] # PageObj[q]
  /\ \A p, q \in DOMAIN AnnotObj : AnnotObj[p] = AnnotObj[q] => p = q
  /\ \A p \in DOMAIN AnnotObj, q \in Page : AnnotObj[p] \notin {PageObj[q], ResObj[q]}
  /\ \A p \in Page : /\ Contents[p] \in Seq(InFile) /\ Contents[p] # <<>>
                     /\ Fonts[p] \in Seq(InFile)
  /\ WrongLength \subseteq InFile
  /\ Broken \cap ({"catalog", "pages"} \cup {PageObj[p] : p \in Page}
                   \cup WrongLength \cup DOMAIN LengthObj) = {}

\* The references that an open page keeps: its resources and its link, if it has one.
HasLink(p)  == p \in DOMAIN AnnotObj /\ AnnotObj[p] \notin Broken
PageRefs(p) == {ResRef(p)} \cup (IF HasLink(p) THEN {LinkRef(p)} ELSE {})

NoObj == "none"

VARIABLES
  xref,     \* what the threads share of the document:
            \*   cached     the objects in the table
            \*   refs       how often each object is counted
            \*   resolved   the references that keep the object they found
            \*   keepers    how often each reference is kept by other than its container
            \*   corrected  the objects in memory that differ from the file
            \*   store      the keys in the resource store
            \*   pos        the object at which the file is positioned
  phase,    \* none, open, failed or closed
  natives,  \* what is allocated besides: the bridge's struct, renderer, xref, store,
            \* and what failed loads have lost: the bridge's pages and the links
  raced,    \* history: a page was opened while another thread was opening one
  counted,  \* getPageCount has run
  opened,   \* how many handles of each page are open
  pc,       \* where each thread is in PdfPage_open
  page,     \* the page it opens
  todo      \* the content streams it has still to read

threadVars == <<pc, page, todo>>
docVars    == <<phase, natives, raced, counted>>
vars == <<xref, docVars, opened, threadVars>>
-----------------------------------------------------------------------------
(* Counting: each operator is what a call makes of the record x. *)

\* The references by which the objects in freed keep what they had found, but for
\* those that are themselves kept by others.
Loose(x, freed) == {r \in x.resolved : r[1] \in freed /\ x.keepers[r] = 0}

\* What is left of the count of o after drops, and after freed have let go.
Left(x, drops, freed, o) ==
  x.refs[o] - (drops[o] + Cardinality({r \in Loose(x, freed) : r[2] = o}))

\* The objects that nobody counts any more.  Containers come before what they refer to.
Freed(x, drops) ==
  LET freed[i \in 0 .. Len(Descending)] ==
        IF i = 0 THEN {}
        ELSE LET before == freed[i - 1]
             IN  before \cup {o \in {Descending[i]} :
                                x.refs[o] > 0 /\ Left(x, drops, before, o) <= 0}
  IN  freed[Len(Descending)]

\* fz_dropobj for every count in drops: what nobody counts is freed.
DropAll(x, drops) ==
  LET freed == Freed(x, drops)
  IN  [x EXCEPT !.refs = [o \in Obj |-> Left(x, drops, freed, o)],
                !.resolved = @ \ Loose(x, freed),
                !.corrected = @ \ freed]

Drop(x, o) == DropAll(x, [t \in Obj |-> IF t = o THEN 1 ELSE 0])

\* Keepers let go of the references rs.  The last keeper of one whose container is gone
\* lets its object go.
DropRefs(x, rs) ==
  LET y == [x EXCEPT !.keepers = [r \in Ref |-> IF r \in rs THEN @[r] - 1 ELSE @[r]]]
      gone == {r \in x.resolved \cap rs : y.keepers[r] = 0 /\ x.refs[r[1]] = 0}
  IN  DropAll([y EXCEPT !.resolved = @ \ gone],
              [o \in Obj |-> Cardinality({r \in gone : r[2] = o})])

KeepRef(x, r) == [x EXCEPT !.keepers[r] = @ + 1]

\* pdf_cacheobject: what is not in the table is read from the file.  What cannot be read
\* moves the file and no more.  (A free entry is read as a null.)
CacheObject(x, o) ==
  IF o \in x.cached THEN x
  ELSE IF o \in Broken THEN [x EXCEPT !.pos = o]
  ELSE [x EXCEPT !.cached = @ \cup {o}, !.refs[o] = @ + 1, !.pos = o]

\* Mutant: the reference finds an object without counting it.
Resolve_Borrows(x, r) ==
  IF r \in x.resolved THEN x
  ELSE IF r[2] \in Broken THEN CacheObject(x, r[2])
  ELSE [CacheObject(x, r[2]) EXCEPT !.resolved = @ \cup {r}]

\* fz_resolveindirect, by way of pdf_loadobject.  A reference to what cannot be read
\* finds, and keeps, itself: no object.
Resolve(x, r) ==
  IF r \in x.resolved THEN x
  ELSE IF r[2] \in Broken THEN CacheObject(x, r[2])
  ELSE [CacheObject(x, r[2]) EXCEPT !.refs[r[2]] = @ + 1, !.resolved = @ \cup {r}]

ResolveAll(x, rs) ==
  LET after[i \in 0 .. Len(rs)] == IF i = 0 THEN x ELSE Resolve(after[i - 1], rs[i])
  IN  after[Len(rs)]

\* An entry of the table is dropped if nobody else counts the object, or by force.
FlushEntry(x, o, force) ==
  IF o \in x.cached /\ (force \/ x.refs[o] = 1)
  THEN Drop([x EXCEPT !.cached = @ \ {o}], o)
  ELSE x

\* pdf_flushxref, with force when the document is closed.
Flush(x, force) ==
  LET after[i \in 0 .. Len(Table)] ==
        IF i = 0 THEN x ELSE FlushEntry(after[i - 1], Table[i], force)
  IN  after[Len(Table)]
-----------------------------------------------------------------------------
(* Opening and closing a document *)

\* The document as pdf_loadxref leaves it: a trailer and nothing parsed.
Loaded ==
  [cached |-> {}, refs |-> [o \in Obj |-> IF o = "trailer" THEN 1 ELSE 0],
   resolved |-> {}, keepers |-> [r \in Ref |-> 0], corrected |-> {}, store |-> {},
   pos |-> NoObj]

\* pdf_repairxref measures, as it scans the file, the streams that do not end where
\* their Length says or whose Length is a reference, and puts the lengths it found
\* into their dictionaries, which it caches for the purpose.
CorrectLength(x, s) ==
  IF s \in WrongLength \cup DOMAIN LengthObj
  THEN Drop([CacheObject(x, s) EXCEPT !.refs[s] = @ + 1, !.corrected = @ \cup {s}], s)
  ELSE x

Repaired ==
  LET after[i \in 0 .. Len(Table)] ==
        IF i = 0 THEN Loaded ELSE CorrectLength(after[i - 1], Table[i])
  IN  after[Len(Table)]

\* xref->info, resolved and kept; none if it cannot be read, or if the trailer has none.
OpenInfo(x) ==
  IF "info" \in Broken THEN Resolve(x, <<"trailer", "info">>)
  ELSE [Resolve(x, <<"trailer", "info">>) EXCEPT !.refs["info"] = @ + 1]

\* xref->root: the catalog is resolved and kept, and after it xref->info.
OpenRoot(x) ==
  OpenInfo([Resolve(x, <<"trailer", "catalog">>) EXCEPT !.refs["catalog"] = @ + 1])

\* PdfDocument_open: the cross references are loaded or repaired; an error on the
\* way, a password that is needed or a trailer without Root throws, and what was
\* allocated by then is reached by nobody.
PdfDocument_open ==
  /\ phase = "none"
  /\ \/ /\ phase' = "open"
        /\ xref' \in {OpenRoot(Loaded), OpenRoot(Repaired)}
        /\ natives' = {"doc", "renderer", "xref"}
     \/ /\ phase' = "failed"
        /\ natives' \in {{}, {"doc"}, {"doc", "renderer", "xref"}}
        /\ UNCHANGED xref
  /\ UNCHANGED <<raced, counted, opened, threadVars>>

\* pdf_dropstore: every key is let go.
CloseStore(x) == DropRefs([x EXCEPT !.store = {}], x.store)

\* pdf_closexref: the table by force, the trailer, the root and the info.
CloseXref(x) ==
  LET y == Drop(Drop(Flush(x, TRUE), "trailer"), "catalog")
  IN  IF "info" \in Broken THEN y ELSE Drop(y, "info")

\* PdfDocument_free: the store, pdf_closexref, the renderer and the bridge's struct.
\* Its callers are the executor's last runnable and the finalizer.  A thread that is
\* inside PdfPage_open then goes no further here.
PdfDocument_free ==
  /\ phase = "open"
  /\ phase' = "closed"
  /\ xref' = CloseXref(CloseStore(xref))
  /\ natives' = natives \ {"doc", "renderer", "xref", "store"}
  /\ UNCHANGED <<raced, counted, opened, threadVars>>
-----------------------------------------------------------------------------
(* The page tree *)

\* The references from the node to its first n pages.
KidRefs(n) == [i \in 1 .. n |-> <<"pages", PageObj[i - 1]>>]
Count(x) == IF "pages" \in x.corrected THEN NumPages ELSE FileCount

\* pdf_getpagecount visits every node, and corrects a Count that is wrong.
PdfDocument_getPageCount(t) ==
  /\ phase = "open"
  /\ pc[t] = "idle"
  /\ counted' = TRUE
  /\ LET y == ResolveAll(Resolve(xref, <<"catalog", "pages">>), KidRefs(NumPages))
     IN  xref' = IF Count(y) # NumPages THEN [y EXCEPT !.corrected = @ \cup {"pages"}] ELSE y
  /\ UNCHANGED <<phase, natives, raced, opened, threadVars>>

At(t, l)   == phase = "open" /\ pc[t] = l
Goto(t, l) == pc' = [pc EXCEPT ![t] = l]

\* PdfPage_open: pdf_flushxref.
FlushXref(t, p) ==
  /\ At(t, "idle")
  /\ \A r \in PageRefs(p) : xref.keepers[r] < MaxOpen
  /\ xref' = Flush(xref, FALSE)
  /\ raced' = (raced \/ \E u \in Thread : pc[u] # "idle")
  /\ page' = [page EXCEPT ![t] = p]
  /\ Goto(t, "find")
  /\ UNCHANGED <<phase, natives, counted, opened, todo>>

\* "error loading page": the bridge throws, and its struct for the page is lost with
\* what else is in lost.
Fail(t, lost) ==
  /\ natives' = natives \cup lost \cup {"lost page"}
  /\ Goto(t, "idle")
  /\ UNCHANGED <<phase, raced, counted, opened, page>>

\* pdf_getpageobject visits the nodes up to the page.
FindPage(t) ==
  /\ At(t, "find")
  /\ LET y == Resolve(xref, <<"catalog", "pages">>)
     IN  /\ Count(y) > page[t]
         /\ xref' = ResolveAll(y, KidRefs(page[t] + 1))
  /\ Goto(t, "load")
  /\ UNCHANGED <<docVars, opened, page, todo>>

\* A tree whose Count is not more than the number of the page is not entered, and
\* pdf_loadpage then finds no dictionary.
PageMissing(t) ==
  /\ At(t, "find")
  /\ xref' = Resolve(xref, <<"catalog", "pages">>)
  /\ Count(xref') <= page[t]
  /\ Fail(t, {})
  /\ UNCHANGED todo

\* pdf_loadannots: the annotation with the link is looked up, the URI resolved (to be
\* logged) and kept by the link.
LoadAnnots(x, p) ==
  IF p \notin DOMAIN AnnotObj THEN x
  ELSE LET y == Resolve(x, AnnotRef(p))
       IN  IF HasLink(p) THEN KeepRef(Resolve(y, LinkRef(p)), LinkRef(p)) ELSE y

\* A page whose one content stream cannot be read is left blank.
Streams(p) == IF Len(Contents[p]) = 1 /\ Contents[p][1] \in Broken THEN <<>> ELSE Contents[p]

\* pdf_loadpage: the annotations are loaded, the store is created, the reference to
\* the resources is kept, and that to the contents is resolved; the streams of an
\* array are only named.
LoadPage(t) ==
  /\ At(t, "load")
  /\ LET p == page[t]
         y == KeepRef(LoadAnnots(xref, p), ResRef(p))
     IN  /\ xref' = IF Len(Contents[p]) = 1 THEN Resolve(y, ContentRef(p)) ELSE y
         /\ todo' = [todo EXCEPT ![t] = Streams(p)]
         /\ Goto(t, IF Streams(p) = <<>> THEN "run" ELSE "cache")
  /\ natives' = natives \cup {"store"}
  /\ UNCHANGED <<phase, raced, counted, opened, page>>

\* The page has no bounds, or is too small.
BoundsMissing(t) ==
  /\ At(t, "load")
  /\ Fail(t, {})
  /\ UNCHANGED <<xref, todo>>

\* Mutant: the error path leaves the resources kept, too.
GiveUp_KeepsResources(t, x) ==
  /\ xref' = x
  /\ todo' = [todo EXCEPT ![t] = <<>>]
  /\ Fail(t, IF HasLink(page[t]) THEN {"lost links"} ELSE {})

\* The error path of pdf_loadpage lets the resources go, and nothing else: the links
\* still keep what they lead to, and nobody knows them any more.
GiveUp(t, x) ==
  /\ xref' = DropRefs(x, {ResRef(page[t])})
  /\ todo' = [todo EXCEPT ![t] = <<>>]
  /\ Fail(t, IF HasLink(page[t]) THEN {"lost links"} ELSE {})

\* pdf_openstream: the dictionary of the stream is wanted, ...
CacheStream(t) ==
  /\ At(t, "cache")
  /\ Head(todo[t]) \notin Broken
  /\ xref' = CacheObject(xref, Head(todo[t]))
  /\ Goto(t, "seek")
  /\ UNCHANGED <<docVars, opened, page, todo>>

\* The Length of a stream, which may have to be read from the file.
ReadLength(x, s) ==
  IF s \in DOMAIN LengthObj /\ s \notin x.corrected THEN Resolve(x, <<s, LengthObj[s]>>) ELSE x

\* ... a filter is built that ends at its Length, and the file is positioned.
SeekStream(t) ==
  /\ At(t, "seek")
  /\ LET s == Head(todo[t])
     IN  xref' = [ReadLength(xref, s) EXCEPT !.pos = s]
  /\ Goto(t, "read")
  /\ UNCHANGED <<docVars, opened, page, todo>>

\* fz_readall, of all streams before any is interpreted.
ReadStream(t) ==
  /\ At(t, "read")
  /\ xref' = [xref EXCEPT !.pos = NoObj]
  /\ todo' = [todo EXCEPT ![t] = Tail(@)]
  /\ Goto(t, IF Len(todo[t]) = 1 THEN "run" ELSE "cache")
  /\ UNCHANGED <<docVars, opened, page>>

\* The dictionary of the stream cannot be read, or is none, or the file not positioned.
StreamFails(t) ==
  \/ At(t, "cache") /\ GiveUp(t, CacheObject(xref, Head(todo[t])))
  \/ At(t, "seek") /\ GiveUp(t, ReadLength(xref, Head(todo[t])))

\* A font is looked up in the store by its number, or loaded and stored under the
\* reference that named it (a substitute, if the font cannot be read).
UseFont(x, r) ==
  LET y == Resolve(x, r)
  IN  IF \E k \in y.store : k[2] = r[2] THEN y
      ELSE KeepRef([y EXCEPT !.store = @ \cup {r}], r)

UseFonts(x, p, n) ==
  LET after[i \in 0 .. n] ==
        IF i = 0 THEN x ELSE UseFont(after[i - 1], <<ResObj[p], Fonts[p][i]>>)
  IN  after[n]

\* pdf_runcsi, up to the n-th font of the page.
Run(x, p, n) == IF n = 0 THEN x ELSE UseFonts(Resolve(x, ResRef(p)), p, n)

\* The page is interpreted to its end.
Interpret(t) ==
  /\ At(t, "run")
  /\ LET p == page[t]
     IN  /\ ResObj[p] \in Broken => Fonts[p] = <<>>
         /\ xref' = IF Streams(p) = <<>> THEN xref ELSE Run(xref, p, Len(Fonts[p]))
         /\ opened' = [opened EXCEPT ![p] = @ + 1]
  /\ Goto(t, "idle")
  /\ UNCHANGED <<docVars, page, todo>>

\* An operator fails; the fonts loaded before stay in the store.
InterpretFails(t) ==
  /\ At(t, "run")
  /\ Streams(page[t]) # <<>>
  /\ \E n \in 0 .. Len(Fonts[page[t]]) :
       /\ ResObj[page[t]] \in Broken => n = 0
       /\ GiveUp(t, Run(xref, page[t], n))

\* PdfPage_free, by the executor, the UI thread or the finalizer, before or after
\* the document is freed.
PdfPage_free(p) ==
  /\ opened[p] > 0
  /\ opened' = [opened EXCEPT ![p] = @ - 1]
  /\ xref' = DropRefs(xref, PageRefs(p))
  /\ UNCHANGED <<docVars, threadVars>>
-----------------------------------------------------------------------------
Init ==
  /\ xref = Loaded
  /\ phase = "none" /\ natives = {} /\ raced = FALSE /\ counted = FALSE
  /\ opened = [p \in Page |-> 0]
  /\ pc = [t \in Thread |-> "idle"]
  /\ page = [t \in Thread |-> 0]
  /\ todo = [t \in Thread |-> <<>>]

Next ==
  \/ PdfDocument_open \/ PdfDocument_free
  \/ \E p \in Page : PdfPage_free(p) \/ \E t \in Thread : FlushXref(t, p)
  \/ \E t \in Thread :
       \/ PdfDocument_getPageCount(t) \/ FindPage(t) \/ PageMissing(t)
       \/ LoadPage(t) \/ BoundsMissing(t)
       \/ CacheStream(t) \/ SeekStream(t) \/ ReadStream(t) \/ StreamFails(t)
       \/ Interpret(t) \/ InterpretFails(t)

Spec == Init /\ [][Next]_vars
-----------------------------------------------------------------------------
(* Properties *)

\* Type correctness of the document, the threads and the handles.
TypeOK ==
  /\ xref \in [cached : SUBSET InFile, refs : [Obj -> Int], resolved : SUBSET Ref,
              keepers : [Ref -> Int], corrected : SUBSET Obj, store : SUBSET Ref,
              pos : Obj \cup {NoObj}]
  /\ phase \in {"none", "open", "failed", "closed"}
  /\ natives \subseteq {"doc", "renderer", "xref", "store", "lost page", "lost links"}
  /\ raced \in BOOLEAN /\ counted \in BOOLEAN
  /\ opened \in [Page -> Nat]
  /\ pc \in [Thread -> {"idle", "find", "load", "cache", "seek", "read", "run"}]
  /\ page \in [Thread -> Page]
  /\ todo \in [Thread -> Seq(InFile)]

\* No object is freed that the table or a resolved reference leads to, and none is
\* dropped more often than it was counted, whatever is flushed, shared between
\* pages, kept by the store or freed after its document.
NoDanglingReference ==
  /\ \A o \in Obj : xref.refs[o] >= 0
  /\ \A o \in xref.cached : xref.refs[o] > 0
  /\ \A r \in xref.resolved : xref.refs[r[2]] > 0

\* When a document and all pages opened from it have been freed, in any order and
\* after any failed loads, none of its objects is left, but for what pages that could
\* not be loaded have lost: the bridge's struct for each, and the links of a page with
\* all that their URIs hold.  Stated of threads that open one page at a time.
CloseFreesEverything ==
  phase = "closed" /\ ~ raced /\ (\A t \in Thread : pc[t] = "idle") /\ (\A p \in Page : opened[p] = 0) =>
    /\ natives \subseteq {"lost page", "lost links"}
    /\ "lost links" \notin natives => \A o \in Obj : xref.refs[o] = 0

\* Once the pages have been counted every page is found by its number, although the
\* count in the file is wrong and the table is flushed over and over: the corrected
\* node must not be read again.
CountedPagesAreFound ==
  phase = "open" /\ counted => Count(xref) = NumPages

\* While a thread has a stream open, nothing else uses the file: it reads from the
\* place where it has positioned it.  ("Using xref->file while a stream is open is a
\* Bad idea", pdf_stream.c.)
ReadsItsStream ==
  \A t \in Thread : At(t, "read") => xref.pos = Head(todo[t])
=============================================================================
