CONSTANTS
  Clicks = {}
  ListDeletes = {}
  PageDeletes = {p1}
  Actions = {}
  Creations = {}
  None = None
  MaxSwaps = 2
SPECIFICATION FairSpec
CHECK_DEADLOCK FALSE
PROPERTIES
  ConfirmedIsAsked
