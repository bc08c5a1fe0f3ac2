CONSTANTS
  c1 = c1
  c2 = c2
  Clicks = {c1, c2}
  ListDeletes = {l1}
  PageDeletes = {p1}
  Actions = {x1}
  Creations = {n1}
  None = None
  MaxSwaps = 3
SPECIFICATION FairSpec
CONSTRAINT ThreeClicks
CHECK_DEADLOCK FALSE
INVARIANTS
  LiveInv
  AddressTellsPage
PROPERTIES
  RefreshComesBack
  OnlyConfirmedAsked
  AnsweredDialogCloses
