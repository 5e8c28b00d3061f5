\* Three documents, a directory that comes and goes, a clock that goes both ways.
SPECIFICATION BrowserSpec
CONSTANTS
  root = root
  sdcard = sdcard
  sub = sub
  a = a
  b = b
  attachment = attachment
  NoFile = NoFile
  Dir = {root, sdcard, sub}
  Doc = {a, b, attachment}
  Parent <- MCParent
  Name <- MCName
  Known = {a, b}
  Root = root
  Sdcard = sdcard
  Unstable = {sub}
  MaxTime = 3
INVARIANT RecentIsHistory
