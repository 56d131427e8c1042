SPECIFICATION FairSpec
CONSTANTS
  a = a b = b
  Actors = {a, b}
  Trapping = {b}
  QuitReasons = {"normal", "error"}
  SendReasons = {"normal", "error", "kill"}
  MaxCalls = 3
INVARIANTS
  LinksHaveTwoEnds
  OneDownPerMonitor
PROPERTIES
  FailTogether
CHECK_DEADLOCK FALSE
