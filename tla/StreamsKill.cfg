CONSTANTS
  origin = origin
  stg = stg
  snk = snk
  tee = tee
  Actors <- ChainActors
  Managers <- ChainActors
  Paths <- ChainPaths
  Self <- ChainSelf
  From <- ChainFrom
  To <- ChainTo
  N = 3
  MaxCredit = 2
  BatchSize = 2
  DefaultBatchSize = 1
  Quitters = {}
  Mortal = {snk}
  EarlyEnd = FALSE

SPECIFICATION Spec

PROPERTIES
  StreamsEnd
CHECK_DEADLOCK FALSE
