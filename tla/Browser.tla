------------------------------ MODULE Browser ------------------------------
(***************************************************************************)
(* The file browser and the list of recent documents: BrowserAdapter's     *)
(* listing of a directory, the "recent:" entries that ViewerPreferences    *)
(* keeps across processes, the activity that shows both and starts the     *)
(* viewers, and the viewer as far as it writes to that list.               *)
(*                                                                         *)
(* A document is opened from the browser, from its recent list, from       *)
(* another application, or again when the reader toggles the full screen.  *)
(* Meanwhile files come and go, the system's clock may stand still or be   *)
(* set back, and the process may be killed whenever it is not on screen.   *)
(***************************************************************************)
EXTENDS Naturals, Sequences, FiniteSets, SequencesExt

CONSTANTS
  Dir, Doc,   \* directories, and documents by their URI
  NoFile,     \* the parent of the root; no file
  Parent,     \* the directory each of them is in
  Name,       \* its rank in the order of names
  Known,      \* documents whose URI ends in .pdf, .djvu or .djv
  Root, Sdcard,
  Unstable,   \* what may be deleted and come back
  MaxTime     \* bound of the clock

File == Dir \cup Doc

ASSUME BrowserAssumption ==
  /\ {Root, Sdcard} \subseteq Dir /\ NoFile \notin File
  /\ Parent \in [File -> Dir \cup {NoFile}] /\ Parent[Root] = NoFile
  /\ Name \in [File -> Nat] /\ \A f, g \in File : Name[f] = Name[g] => f = g
  /\ Known \subseteq Doc
  /\ Unstable \subseteq File \ {Root}
  /\ MaxTime \in Nat \ {0}

VARIABLES
  exists,    \* the files that exist
  clock,     \* System.currentTimeMillis()
  recent,    \* the entries of the preferences: the time each document has
  directory, files,  \* the BrowserAdapter
  uris,      \* the UriBrowserAdapter
  screen,    \* what is on screen: "browser", "viewer", or something "else"
  from,      \* what comes back when the viewer is left
  opened,    \* the document of the viewer's intent
  alive,     \* the browser's process holds its activity
  savedDir,  \* CURRENT_DIRECTORY of its saved state
  history,   \* the documents opened, in the order of their last opening
  steady     \* the clock advanced between any two openings

adapterVars == <<directory, files, uris>>
viewVars    == <<screen, from, opened, alive, savedDir>>
recentVars  == <<recent, history, steady>>
browserVars == <<exists, clock, adapterVars, viewVars, recentVars>>

Never == MaxTime + 1   \* a document without an entry
Added == {d \in Doc : recent[d] # Never}

-----------------------------------------------------------------------------
\* The filter of MainBrowserActivity, and the order of the listing: directories
\* first, then names.
Accepted(f) == f \in Dir \cup Known

Before(f, g) ==
  \/ f \in Dir /\ g \in Doc
  \/ (f \in Dir <=> g \in Dir) /\ Name[f] < Name[g]

\* setCurrentDirectory: the parent on top; a directory that is gone has no files.
Listing(d) ==
  (IF Parent[d] = NoFile THEN <<>> ELSE <<Parent[d]>>)
    \o SetToSortSeq({f \in exists : Parent[f] = d /\ Accepted(f)}, Before)

SetCurrentDir(d) == directory' = d /\ files' = Listing(d)

\* getRecent: a TreeMap from times to documents, the latest time first.  Of documents
\* with the same time it keeps the last that the iteration over the preferences
\* comes to.
GetRecent ==
  {list \in SeqOf(Added, Cardinality(Added)) :
     /\ \A i, j \in DOMAIN list : i < j => recent[list[i]] > recent[list[j]]
     /\ \A d \in Added : \E i \in DOMAIN list : recent[list[i]] = recent[d]}

\* onResume
Resume == screen' = "browser" /\ uris' \in GetRecent
-----------------------------------------------------------------------------
\* What is left of a sequence when the element u, which occurs at most once, goes.
Without(s, u) ==
  IF \A j \in DOMAIN s : s[j] # u THEN s
  ELSE [i \in 1 .. (Len(s) - 1) |-> IF \E j \in 1 .. i : s[j] = u THEN s[i + 1] ELSE s[i]]

\* Mutant: a document that has an entry keeps its time.
AddRecent_OnlyNew(u) ==
  /\ recent' = IF recent[u] = Never THEN [recent EXCEPT ![u] = clock] ELSE recent
  /\ history' = Append(Without(history, u), u)
  /\ steady' = (steady /\ \A d \in Added : recent[d] < clock)

\* addRecent: the entry is written, or its time renewed.
AddRecent(u) ==
  /\ recent' = [recent EXCEPT ![u] = clock]
  /\ history' = Append(Without(history, u), u)
  /\ steady' = (steady /\ \A d \in Added : recent[d] < clock)

\* The viewer's onCreate.  It adds the document once it has opened it; a file
\* that is gone is an exception (PDF) or hangs the application (DjVu).
Open(u) ==
  \/ /\ u \in exists
     /\ AddRecent(u)
     /\ screen' = "viewer" /\ opened' = u
     /\ UNCHANGED alive
  \/ /\ u \notin exists
     /\ screen' = "else" /\ alive' = FALSE
     /\ UNCHANGED <<opened, recentVars>>

\* showDocument: the class of the activity is looked up by the extension; there is
\* none for another one, and setClass(null) throws.
ShowDocument(u) ==
  /\ savedDir' = directory
  /\ from' = "browser"
  /\ IF u \in Known THEN Open(u)
     ELSE /\ screen' = "else" /\ alive' = FALSE
          /\ UNCHANGED <<opened, recentVars>>

ClickDirectory(f) ==
  /\ screen = "browser"
  /\ f \in exists \cap Dir
  /\ SetCurrentDir(f)
  /\ UNCHANGED <<exists, clock, uris, viewVars, recentVars>>

\* What is no directory, or no longer one, is shown as a document.
ClickFile(f) ==
  /\ screen = "browser"
  /\ f \notin exists \cap Dir
  /\ ShowDocument(f)
  /\ UNCHANGED <<exists, clock, adapterVars>>

ClickRecent(u) ==
  /\ screen = "browser"
  /\ ShowDocument(u)
  /\ UNCHANGED <<exists, clock, adapterVars>>

\* Another application views a document of a type that the manifest names.
OpenElsewhere(u) ==
  /\ screen = "else"
  /\ from' = "else"
  /\ Open(u)
  /\ UNCHANGED <<exists, clock, adapterVars, savedDir>>

\* MENU_FULL_SCREEN: finish(), and startActivity of the same intent.
ToggleFullScreen ==
  /\ screen = "viewer"
  /\ Open(opened)
  /\ UNCHANGED <<exists, clock, adapterVars, from, savedDir>>

\* The viewer is left.  The browser resumes, or is made anew if it was killed.
Back ==
  /\ screen = "viewer"
  /\ \/ /\ from = "browser" /\ alive
        /\ Resume
        /\ UNCHANGED <<directory, files, alive>>
     \/ /\ from = "browser" /\ ~alive
        /\ SetCurrentDir(savedDir) /\ Resume
        /\ alive' = TRUE
     \/ /\ from = "else"
        /\ screen' = "else"
        /\ UNCHANGED <<adapterVars, alive>>
  /\ UNCHANGED <<exists, clock, from, opened, savedDir, recentVars>>

\* onCreate, onPostCreate and onResume of a fresh browser, or of one that the
\* system restores; or onResume alone.
Launch ==
  /\ screen = "else"
  /\ \/ alive /\ UNCHANGED <<directory, files>>
     \/ ~alive /\ SetCurrentDir(IF Sdcard \in exists THEN Sdcard ELSE Root)
     \/ ~alive /\ savedDir # NoFile /\ SetCurrentDir(savedDir)
  /\ Resume
  /\ alive' = TRUE
  /\ UNCHANGED <<exists, clock, from, opened, savedDir, recentVars>>

\* The reader leaves for another application.
Leave ==
  /\ screen = "browser"
  /\ screen' = "else" /\ savedDir' = directory
  /\ UNCHANGED <<exists, clock, adapterVars, from, opened, alive, recentVars>>

\* The device is turned: the browser saves its state and is made anew.
Turn ==
  /\ screen = "browser"
  /\ savedDir' = directory
  /\ SetCurrentDir(directory) /\ Resume
  /\ UNCHANGED <<exists, clock, from, opened, alive, recentVars>>

\* The system takes an activity that is not on screen.  The preferences were
\* committed by then.
Kill ==
  /\ screen # "browser" /\ alive
  /\ alive' = FALSE
  /\ UNCHANGED <<exists, clock, adapterVars, screen, from, opened, savedDir, recentVars>>

\* A file, with what is in it, is deleted; or it is there again.
FileChanges(f) ==
  /\ exists' = IF f \in exists THEN exists \ ({f} \cup {g \in File : Parent[g] = f})
               ELSE exists \cup {f}
  /\ UNCHANGED <<clock, adapterVars, viewVars, recentVars>>

SetClock(t) ==
  /\ clock' = t
  /\ UNCHANGED <<exists, adapterVars, viewVars, recentVars>>

\* An entry of an older version has no time and counts as one of time 0.
BrowserInit ==
  /\ exists = File
  /\ clock = 1
  /\ \E old \in Known : recent = [d \in Doc |-> IF d = old THEN 0 ELSE Never]
                        /\ history = <<old>>
  /\ directory = Sdcard
  /\ files = <<>> /\ uris = <<>>
  /\ screen = "else" /\ from = "else" /\ opened = NoFile
  /\ alive = FALSE
  /\ savedDir = NoFile
  /\ steady = TRUE

BrowserNext ==
  \/ \E i \in DOMAIN files : ClickDirectory(files[i]) \/ ClickFile(files[i])
  \/ \E i \in DOMAIN uris : ClickRecent(uris[i])
  \/ \E u \in Doc : OpenElsewhere(u)
  \/ ToggleFullScreen \/ Back \/ Launch \/ Leave \/ Turn \/ Kill
  \/ \E f \in Unstable : FileChanges(f)
  \/ \E t \in 1 .. MaxTime : SetClock(t)

BrowserSpec == BrowserInit /\ [][BrowserNext]_browserVars
-----------------------------------------------------------------------------
(* Properties *)

\* Type correctness of the adapters, the preferences and the activities.
BrowserTypeOK ==
  /\ exists \subseteq File
  /\ clock \in 0 .. MaxTime
  /\ recent \in [Doc -> 0 .. Never]
  /\ directory \in Dir /\ files \in Seq(File) /\ uris \in Seq(Doc)
  /\ screen \in {"browser", "viewer", "else"} /\ from \in {"browser", "else"}
  /\ opened \in Doc \cup {NoFile} /\ savedDir \in Dir \cup {NoFile}
  /\ alive \in BOOLEAN /\ steady \in BOOLEAN

\* The recent list on screen names every document ever opened, the last one
\* first and each once, wherever it was opened from and whatever was killed
\* meanwhile.  It rests on the clock: documents of one time hide each other.
RecentIsHistory == screen = "browser" /\ steady => uris = Reverse(history)
=============================================================================
