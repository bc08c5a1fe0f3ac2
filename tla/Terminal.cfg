CONSTANTS
  a1 = a1
  a2 = a2
  a3 = a3
  Attempts = {a1, a2, a3}
  None = None
SPECIFICATION FairSpec
CONSTRAINTS
  InOrder
  TwoRequests
CHECK_DEADLOCK FALSE
INVARIANTS
  TerminalInv
  ActiveMeansBusy
PROPERTIES
  ConnectingEnds
