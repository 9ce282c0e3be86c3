SPECIFICATION Spec
CONSTANTS
  Runners = {r1}
  app = app
  provider = provider
  group = group
  v1 = v1
  Resources = {app}
  Specs = {v1, v2}
  Length = 2
  Runbooks <- Recreate
  MaxUpsets = 0
  Absent = Absent
INVARIANT EnsuredHolds
