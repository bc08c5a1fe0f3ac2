CONSTANTS
  Requests = {r1, r2}
  Nobody = Nobody
  OkTTL = 2
  ErrTTL = 1
  CallTimeout = 1
  MaxCalls = 2
  MaxVersion = 1
  MaxTime = 4
SPECIFICATION FairSpec
INVARIANTS
  CacheInv
  AnswersShowWhatIsOwed
PROPERTIES
  KeepsPromise
  StalenessBounded
  EveryCallEnds
