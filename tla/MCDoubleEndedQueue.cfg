SPECIFICATION FairSpec
CONSTANTS
  Owner = owner
  Thieves = {t1}
  Clients = {c1}
  Jobs = {j1, j2}
  Addr = {a1, a2, a3}
  Null = Null
  Free = Free
INVARIANTS
  ListIsSound
PROPERTIES
  BehavesLikeSequence
  OperationsEnd
