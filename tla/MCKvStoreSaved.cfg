SPECIFICATION Spec
CONSTANTS
  NumKeys = 1
  Lengths = {2, 6, 7}
  Data = {a, b}
  Torn = Torn
  Word = 4
  MaxLength = 7
  Setters = {cli, iotc}
  Committers = {cli}
  Empty = Empty
  NULL = NULL
INVARIANT
  SavedMeansSaved
