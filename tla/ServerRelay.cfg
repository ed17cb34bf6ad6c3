SPECIFICATION FairSpec
CONSTANTS
  Passers = {t1, t2}
  MaxRouters = 2
  TopicIds = {1, 2}
  Callbacks = {c1, c2}
  TopicOf <- MCTopicOf
  c1 = c1
  c2 = c2
  Null = Null
  KeyAsPointer = KeyAsPointer
  Unguarded = FALSE
  Keys = {k1, k2}
  k1 = k1
  k2 = k2
  TopicsFor <- MCTopicsFor
  Capacity = 2
  NoEvent = NoEvent
  Hasty = FALSE
INVARIANTS TypeOK RoutesAsAdded AllRoutesCalled
PROPERTIES  AcceptedAreRelayed StopEnds
