CONSTANTS
  a1 = a1
  a2 = a2
  Actors = {a1, a2}
  Infinite = Infinite
  Durations = {1, Infinite}
  Waits <- OneRequest
  Size = 3
  Messages <- OneMessage
  MaxTime = 1
  IdLimit = 8

SPECIFICATION Spec

INVARIANTS
  RingIsFifo
  LookupMatchesSchedule
  CancelledIsGone

PROPERTIES
  NoEarlyTimeout
  
  ClockStops

CHECK_DEADLOCK FALSE
