SPECIFICATION FairSpec
CONSTANTS
  Writers = {w1, w2}
  Addr = {a1, a2, a3}
  Cats = {"normal"}
  MaxPush = 2
  Free = Free
INVARIANTS
  OneOwner
PROPERTIES
  ImplementsInbox
  WaitingEnds
CHECK_DEADLOCK FALSE
