CONSTANTS
  Pauses = {p1}
  Resumes = {r1}
  Deletions = {d1}
  Viewers = {v1}
  Resources = {o1, o2}
  None = None
  MaxEpoch = 3
SYMMETRY Symmetry
SPECIFICATION Spec
CONSTRAINT TwoHandlers
CHECK_DEADLOCK FALSE
INVARIANTS
  ActionsInv
  DeletionTellsTruth
  StatsShowWhatIsOwed
