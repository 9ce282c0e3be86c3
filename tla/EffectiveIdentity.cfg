SPECIFICATION PlainSpec
CONSTANTS
  Users = {u1}
  Requests <- Asked
  Orgs = {o1, o2}
  Memberships = {m1}
  Groups = {g1}
  Entitlements = {e1}
  l1 = l1
  Labels = {l1, l2}
  Readers = {r1}
  Writers = {w1}
  MaxWrites = 1
  MaxUpsets = 1
  Absent = Absent
INVARIANTS TagsCoverDependencies HitIsForMembership
SYMMETRY Symmetric
