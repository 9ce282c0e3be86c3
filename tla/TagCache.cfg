SPECIFICATION SpecInUse
SYMMETRY Symmetric
CONSTANTS
  Keys = {k1, k2}
  Tags = {t1}
  Calls = {c1, c2}
  Lifetimes = {TRUE}
  MaxCalls = 3
  MaxUpsets = 1
  All = All
  Absent = Absent
INVARIANTS EntriesIndexed
PROPERTIES PurgeRemoves KeepsStore
CHECK_DEADLOCK FALSE
