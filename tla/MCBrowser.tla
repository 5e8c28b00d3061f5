----------------------------- MODULE MCBrowser -----------------------------
EXTENDS Browser

CONSTANTS root, sdcard, sub, a, b, attachment

\* A document beside a directory with another one, and one that comes from the
\* mail: its URI names an attachment by its number.
MCParent == root :> NoFile @@ sdcard :> root @@ sub :> sdcard
              @@ a :> sdcard @@ b :> sub @@ attachment :> NoFile
MCName == root :> 1 @@ sdcard :> 2 @@ sub :> 5 @@ a :> 4 @@ b :> 3 @@ attachment :> 6
=============================================================================
