SPECIFICATION Spec
CONSTANTS
  NumKeys = 2
  Lengths = {2, 6, 7}
  Data = {a, b}
  Torn = Torn
  Word = 4
  MaxLength = 7
  Setters = {cli, iotc}
  Committers = {cli}
  Empty = Empty
  NULL = NULL
SYMMETRY DataSymmetry
INVARIANTS
  TypeOK
  BufferFits
  PendingCoversDifference
  SavedUnlessSyncFails
PROPERTY
  ImplementsDurable
