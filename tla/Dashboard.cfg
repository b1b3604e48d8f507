SPECIFICATION FairSpec
CONSTANTS
    MaxSeq = 3
    MaxEvents = 1
    Points = 2
    Attempts = 2
    None = None
INVARIANTS
  ChartInv
  LiveAfterBoundary
  NothingSkipped
PROPERTIES
  PageCatchesUp
  NewestShown
