SPECIFICATION CountFairSpec
CONSTANTS
  Scheduled = {s}
  Detached = {d}
  Blocking = {b, h}
  Scoped = {c}
  Hidden = {h}
  Awaiting = {c, h}
  Main = main
PROPERTIES
  
  AwaitReturns
CHECK_DEADLOCK FALSE
