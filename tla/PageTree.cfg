\* Two zoom levels, a view that shows no slice, one or both, three decodes.
SPECIFICATION Spec
CONSTANTS
  root = root
  left = left
  right = right
  Root = root
  Node = {root, left, right}
  Kids <- MCKids
  Level <- MCLevel
  Views <- MCViews
  Zoom = {1, 2}
  MaxRequests = 3
  MaxHandler = 2
INVARIANTS
  ProgressCountsDecoding
  DrawsNoRecycledBitmap
  OnlyVisibleDecode
  NothingBlankAtRest
  SharpAtRest
\* The reader may stop, and requests are bounded.
CHECK_DEADLOCK FALSE
