SPECIFICATION FairSpec
CONSTANTS
  Clients = {c1, c2}
  Commands = {m1, m2}
  QueueLength = 2
  MaxAcks = 1
  MaxPacketId = 2
  Agent = Agent
  NULL = NULL
PROPERTY WaiterIsAnswered
