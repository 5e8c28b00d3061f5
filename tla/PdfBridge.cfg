\* The pages of a document, which may have been repaired, are opened by two threads.
SPECIFICATION Spec
CONSTANTS
  Thread = {executor, ui}
  NumPages = 2
  PageObj <- MCPageObj
  ResObj <- MCResObj
  Contents <- MCContents
  Fonts <- MCFonts
  AnnotObj <- MCAnnotObj
  DestObj <- MCDestObj
  LengthObj <- MCLengthObj
  WrongLength = {"s1"}
  FileCount = 1
  Broken = {"odd"}
  Table <- MCTable
  Descending <- MCDescending
  MaxOpen = 2
SYMMETRY MCSymmetry
INVARIANTS
  NoDanglingReference
  CloseFreesEverything
  CountedPagesAreFound
\* A document that could not be opened, or is closed, stays so.
CHECK_DEADLOCK FALSE
