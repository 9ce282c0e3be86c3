SPECIFICATION SharedSpec
CONSTANTS
  Deliveries = {d1}
  Subscriptions = {s1}
  Workers = {w1, w2}
  Handlers = {w1, w2}
  Jobs = {j1, j2, j3, j4}
  AttemptLimits = {3}
  MaxUpsets = 1
  MaxAttemptCount = 6
  MaxEnqueues = 1
  Replayed = {}
  OwnPrefix = FALSE
  Absent = Absent
INVARIANTS NothingStranded DeadLettersPublished JobsAccounted RedeliveryBounded
PROPERTIES EnqueuedCloses
