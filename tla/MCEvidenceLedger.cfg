SPECIFICATION LedgerSpec
CONSTANTS
  left = left
  right = right
  m1 = m1
  m2 = m2
  r1 = r1
  r2 = r2
  c1 = c1
  c2 = c2
  None = None
  Shards = {left, right}
  Mutations = {m1, m2}
  Reports = {r1, r2}
  Commits = {c1, c2}
  MaxSessions = 2
  MaxCrashes = 1
SYMMETRY Symmetry
INVARIANTS
  LedgerInvariant
  
PROPERTIES
  EvidenceIsAppendOnly
CHECK_DEADLOCK FALSE
