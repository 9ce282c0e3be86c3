SPECIFICATION Spec
CONSTANTS
  g1 = g1
  g2 = g2
  label = label
  Actions = {"path", "path?query"}
  Types = {"http"}
  Ids = {"url"}
  Names = {g1, g2}
  Labels = {label}
  Blank = Blank
  Absent = Absent
  Groups = {g1, g2}
  Sessions = {s1}
  Statuses = {403, 500}
  MaxChanges = 2
  None = None
  RuleLists <- OneOrTwo
  Warmed = 2
  Checks = {c1, c2}
  Ttls = {{}, {0}, {5}}
INVARIANTS IdentityInWindow PassedOnlyIfPermitted TokensLive
PROPERTIES WarmerReports
CHECK_DEADLOCK FALSE
