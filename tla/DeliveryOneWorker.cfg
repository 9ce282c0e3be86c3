SPECIFICATION FairSpec
CONSTANTS
  Deliveries = {d1, d2}
  Subscriptions = {s1}
  Workers = {w1}
  AttemptLimits = {2, 3}
  MaxUpsets = 1
  MaxAttemptCount = 5
  Absent = Absent
INVARIANTS TypeOK SucceededWasAcked NoEarlyDeadLetter CallsHonourPolicy CountCoversCalls
PROPERTIES KeepsPromise EventuallyClosed
