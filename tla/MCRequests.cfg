SPECIFICATION Spec
CONSTANTS
  Servers = {s1, s2}
  Mortal = {s1}
  Priorities = {"normal"}
  DelegatePriorities = {"normal"}
  Ordinary <- OneOrdinary
  MaxRequests = 2
  MaxDelegates = 1
CHECK_DEADLOCK FALSE
INVARIANTS
  OneAnswer
  HandledOnce

  
  
