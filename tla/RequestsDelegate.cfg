SPECIFICATION Spec
CONSTANTS
  Servers = {s1, s2}
  Mortal = {}
  Priorities = {"normal"}
  DelegatePriorities = {"urgent"}
  Ordinary <- NoOrdinary
  MaxRequests = 1
  MaxDelegates = 1
CHECK_DEADLOCK FALSE
PROPERTIES
  Answered
