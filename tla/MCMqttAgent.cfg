SPECIFICATION Spec
CONSTANTS
  Clients = {c1, c2}
  Commands = {m1, m2, m3}
  QueueLength = 3
  MaxAcks = 2
  MaxPacketId = 3
  Agent = Agent
  NULL = NULL
SYMMETRY TaskSymmetry
INVARIANTS
  TypeOK
  OnePlace
  OneAnswerPerRequest
  QueueHasRoom
  NothingPendingOffline
  BrokerOwesPending
PROPERTY ImplementsService
