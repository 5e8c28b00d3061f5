\* Three fingers and three zooms, the last of them beyond the end of the roll.
SPECIFICATION GestureFairSpec
CONSTANTS
  MaxZoom = 3
  RollMax = 2
  MaxFingers = 3
INVARIANTS
  NoCommitSwallowed
  RestIsSharp
  GesturesKeepFingers
  FlingWithinLimits
PROPERTIES
  EveryZoomIsCommitted
\* A crash ends the program.
CHECK_DEADLOCK FALSE
