\* Up to three pages, in portrait and landscape, with thirds of a pixel.
SPECIFICATION Spec
CONSTANTS
  MaxPages = 3
  Ratios = {3, 4}
  Views <- MCViews
  Zooms = {1, 2}
  U = 3
  Rank <- MCRank
  MaxPosted = 1
INVARIANTS
  ViewRectIsFresh
  ScrollWithinLimits
  CurrentPageFollows
  VisibilityFollows
  AskedPageIsShown
  LeftPageReturns
