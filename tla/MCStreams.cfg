CONSTANTS
  origin = origin
  stg = stg
  snk = snk
  tee = tee
  Actors <- ForkActors
  Managers <- ForkActors
  Paths <- ForkPaths
  Self <- ForkSelf
  From <- ForkFrom
  To <- ForkTo
  N = 3
  MaxCredit = 2
  BatchSize = 2
  DefaultBatchSize = 1
  Quitters = {origin}
  Mortal = {stg}
  EarlyEnd = FALSE

SPECIFICATION Spec

INVARIANTS
  EndsAgree
  ReadInOrder

PROPERTIES
  StreamsEnd

CHECK_DEADLOCK FALSE
