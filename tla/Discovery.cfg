CONSTANTS
  Things = {t1, t2, t3}
  PageSize = 2
  MaxMoves = 2
SYMMETRY Symmetry
SPECIFICATION Spec
INVARIANTS
  DiscoveryInv
  NothingMissed
