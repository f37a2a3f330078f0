SPECIFICATION Spec
CONSTANTS
  t1 = t1
  t2 = t2
  topicA = topicA
  topicB = topicB
  Tasks = {t1, t2}
  Filters = {topicA, topicB}
  FilterOf <- TwoFilters
  Prefixes = {}
  Unsubscribers = {t2}
  NumSlots = 2
  MaxCount = 2
  MaxLists = 1
  NULL = NULL
INVARIANTS
  CallbackKept
VIEW WithoutGranted
CHECK_DEADLOCK FALSE
