SPECIFICATION SendSpec
CONSTANTS
  RecordLength = 3
  MaxRecords = 2
  RetryBudget = 2
INVARIANT
  PeerSeesRecords
CHECK_DEADLOCK FALSE
