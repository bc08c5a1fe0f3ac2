CONSTANTS
  MaxOpenings = 3
SPECIFICATION FairSpec
CHECK_DEADLOCK FALSE
INVARIANTS
  ModalInv
  DialogStaysUsable
PROPERTIES
  DeploymentSendsNoImage
  DeploymentIsTold
