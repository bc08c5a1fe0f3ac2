CONSTANTS
  p1 = p1
  p2 = p2
  Posts = {p1, p2}
SPECIFICATION FairSpec
CONSTRAINT OneBrowserStays
CHECK_DEADLOCK FALSE
INVARIANTS
  CreateInv
  AcceptedMeansCreated
  WaitersAreWoken
PROPERTIES
  CloseWaits
  NothingAskedAfterClose
  KeepsCreatePromise
  CloseEnds
  EveryPostSettles
