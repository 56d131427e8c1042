SPECIFICATION FairSpec
CONSTANTS
  Senders = {s1}
  Workers = {w1, w2}
  Payloads <- AllKinds
  Modes = {"ready", "skip"}
  MaxSends = 3
  MaxThroughput = 2
  Quantum = 1
INVARIANTS
  AtMostOneRunner
  NoLostWakeup
  RefsAccounted
  ExactlyOnce
  FifoPerSender
  ClosedIsDrained
PROPERTY EventuallyRead
CHECK_DEADLOCK FALSE
