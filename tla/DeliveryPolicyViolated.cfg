SPECIFICATION Spec
CONSTANTS
  Deliveries = {d1}
  Subscriptions = {s1}
  Workers = {w1, w2}
  AttemptLimits = {1}
  MaxUpsets = 0
  MaxAttemptCount = 4
  Absent = Absent
INVARIANT CallsHonourPolicy
SYMMETRY Symmetric
