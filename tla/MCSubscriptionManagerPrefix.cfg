SPECIFICATION Spec
CONSTANTS
  t1 = t1
  t2 = t2
  topicA = topicA
  topicB = topicB
  Tasks = {t1, t2}
  Filters = {topicA, topicB}
  FilterOf <- TwoFilters
  Prefixes <- ABeginsB
  Unsubscribers = {}
  NumSlots = 3
  MaxCount = 2
  MaxLists = 1
  NULL = NULL
INVARIANT
  CallbackForFilter
CHECK_DEADLOCK FALSE
