SPECIFICATION FairSpec
CONSTANTS
  p1 = p1
  p2 = p2
  c1 = c1
  c2 = c2
  Producer <- MCProducer
  Consumer <- MCConsumer
  Capacity = 2
  Items = 3
INVARIANTS
  TypeOK
  NoLostWakeup
  ClosedMeansDrained
PROPERTIES
  ImplementsChannel
  EveryoneEnds
CHECK_DEADLOCK FALSE
