SPECIFICATION FairSpec
CONSTANTS
  Capacity = 2
  Items = {a, b}
  Senders = {s1}
  Receivers = {r1, r2}
  Limits = {"none", "timed", "forever"}
  NoItem = NoItem
INVARIANTS TypeOK NoWakeupLost
PROPERTIES QueueIsFifo SleepersServed
