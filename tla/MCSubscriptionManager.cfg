SPECIFICATION Spec
CONSTANTS
  t1 = t1
  t2 = t2
  topicA = topicA
  topicB = topicB
  Tasks = {t1, t2}
  Filters = {topicA, topicB}
  FilterOf <- TwoFilters
  Prefixes = {}
  Unsubscribers = {}
  NumSlots = 3
  MaxCount = 2
  MaxLists = 2
  NULL = NULL
INVARIANTS
  TypeOK
  CallbackForFilter
  NoDuplicateFilters
  HeldForResubscribe
  ResubscribeCoversTable
VIEW WithoutGranted
CHECK_DEADLOCK FALSE
