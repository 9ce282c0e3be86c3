SPECIFICATION FairQueueSpec
CONSTANTS
  Deliveries = {d1}
  Subscriptions = {s1}
  Workers = {w1, p1}
  Handlers = {w1}
  Jobs = {j1, j2, j3}
  AttemptLimits = {1}
  MaxUpsets = 1
  MaxAttemptCount = 6
  MaxEnqueues = 1
  Replayed = {d1}
  OwnPrefix = FALSE
  Absent = Absent
PROPERTIES EventuallyClosed
