CONSTANTS
  Workers = {w1, w2}
  Sources = {s}
  Ops = {"ordinary", "unknown"}
  MaxMessages = 3
  None = None

SPECIFICATION Spec

INVARIANTS
  InOrder
  HubIsSound
  AwaitMeansShipped
  InFlightFirst

PROPERTIES
  AllDelivered
  ProxiesAreLive

CHECK_DEADLOCK FALSE
