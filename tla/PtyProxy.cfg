SPECIFICATION FairSpec
CHECK_DEADLOCK FALSE
INVARIANTS
  ProxyInv
PROPERTIES
  OneEndsBoth
  LeavingIsNoticed
