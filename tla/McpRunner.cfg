SPECIFICATION FairSpec
CONSTANTS
  Runners = {r1, r2}
  app = app
  provider = provider
  group = group
  v1 = v1
  Resources = {app, provider, group}
  Specs = {v1, v2}
  Length = 3
  Runbooks <- Chain
  MaxUpsets = 1
  Absent = Absent
INVARIANTS EnsuredHolds SuccessReached PrerequisitesReached RecordedReached
PROPERTIES DryRunHarmless Converges
