SPECIFICATION FairSpec
CONSTANTS
  N = 2
  Jobs = {j1, j2}
  Clients = {c1}
  Stopper = stop
  Helper = Helper
  None = None
  MaxWakes = 1
INVARIANTS
  ReadyJobIsInOnePlace
PROPERTIES
  StopReturns
  
CHECK_DEADLOCK FALSE
