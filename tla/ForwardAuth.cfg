SPECIFICATION EntitledSpec
SYMMETRY Symmetric
CONSTANTS
  Requests = {q1, q2}
  Users = {u1}
  Orgs = {o1}
  Keys = {k1}
  Services = {}
  Decisions = {d1}
  Ttl = 1
  MaxTime = 2
  MaxChanges = 1
  Absent = Absent
PROPERTIES GrantNeedsValidKey EndedKeyFadesOut WithdrawnRightFadesOut SessionOnRecord
CHECK_DEADLOCK FALSE
