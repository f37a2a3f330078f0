SPECIFICATION FirmwareSpec
CONSTANTS
  MaxConnections = 2
  RecordLength = 3
  MaxRecords = 2
  RetryBudget = 2
  MaxTurns = 3
  EventQueueLength = 2
  Leds = {red}
  Masks = {{red}}
  MaxCommands = 3
  MaxEdges = 1
  RequestQueueLength = 1
  MaxWaits = 1
  MaxSessions = 1
  MaxOffers = 1
  MaxAlerts = 1
  MaxInits = 2
INVARIANTS
  TypesOK
  SelectsOnOpenSocket
  LengthAccounted
  IdentityInTimeIsUsed
  SignalsWithLivePem
  FreedOnlyAfterFailure
  AckAccounted
  DownIsRetried
  EncoderFollowsViewers
  WeightsMapped
  InputStable
PROPERTIES
  StackReusedWhenFree
  CloseEnds
  RecordIsRead
  SendReturns
  CloudCatchesUp
  WaitersReleased
  
  DetectionResumes
  FilesGoOn
  ImplementsLedger
CHECK_DEADLOCK FALSE
