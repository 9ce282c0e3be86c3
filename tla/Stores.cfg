SPECIFICATION Spec
CONSTANTS
  KeyIds = {k1, k2}
  Hashes = {h1, h2}
  KeyOwners = {o1, o2}
  Users = {u1, u2}
  LastTick = 1
  MaxUses = 2
  NoKey = NoKey
  CacheKeys = {e1, e2}
  CacheTags = {t1, t2}
  Purgers = {p1, p2}
  NoEntry = NoEntry
  People = {v1, v2}
  Firms = {f1, f2}
  Teams = {g1}
  MemberIds = {m1, m2}
  Slugs = {s1, s2}
  NoRow = NoRow
  Hooks = {w1, w2}
  Dispatches = {d1, d2}
  Consumers = {c1, c2, c3}
  MaxFlips = 2
  NoConsumer = NoConsumer
  Requests = {q1, q2, q3}
  Facts = {a1, a2}
  q1 = q1
  q2 = q2
  a1 = a1
  a2 = a2
  Headers <- HeadersOf
  LastHour = 1
  MaxMishaps = 1
  NoSession = NoSession
  NoFact = NoFact
  Idp = Idp
  Callers = {x1, x2, x3}
  Connections = {b1, b2}
  MaxFaults = 3
  NoClient = NoClient
INVARIANTS KeysAccounted TaggedIsIndexed ProfilesAgree DispatchCovers ConsumersClosed SessionKept TransactionsWhole
PROPERTIES MemoryPurgeRemoves
CHECK_DEADLOCK FALSE
