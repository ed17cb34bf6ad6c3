SPECIFICATION Spec
CONSTANTS
  Senders = {s1, i1}
  Interrupts = {i1}
  Receivers = {r1, r2}
  Events = {e1}
  EventsOf <- MCEventsOf
  s1 = s1
  i1 = i1
  e1 = e1
  QueueNum = 1
  Frames = {f1, f2}
  Nothing = Nothing
  MaxSends <- MCMaxSends
  MaxTimeouts = 1
  LateSubscribe = FALSE
  Preempted = TRUE
INVARIANTS CopiesIntact
CHECK_DEADLOCK FALSE
