CONSTANTS
  Clicks = {c1}
  ListDeletes = {}
  PageDeletes = {}
  Actions = {}
  Creations = {}
  None = None
  MaxSwaps = 3
SPECIFICATION Spec
CHECK_DEADLOCK FALSE
PROPERTIES
  RefreshDiscardsNoClick
