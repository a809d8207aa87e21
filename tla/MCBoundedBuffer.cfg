CONSTANTS
  Producers = {p1, p2}
  Consumers = {c1, c2}
  Capacity = 2
  MaxPushes = 5
SPECIFICATION FairSpec
INVARIANTS NoLostWakeup
PROPERTIES ImplementsChannel EveryItemReceived PushReturns
