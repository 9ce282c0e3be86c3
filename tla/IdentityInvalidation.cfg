SPECIFICATION PlainSpec
CONSTANTS
  Users = {u1}
  Orgs = {o1}
  Memberships = {m1}
  Groups = {g1}
  Entitlements = {}
  l1 = l1
  Labels = {l1}
  Requests <- Asked
  Readers = {r1}
  Writers = {w1}
  MaxWrites = 1
  MaxUpsets = 0
  Absent = Absent
INVARIANT MutationsInvalidate
