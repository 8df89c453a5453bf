SPECIFICATION FactorySpec
CONSTANTS
  plain = plain
  special = special
  extra = extra
  shared = shared
  first = first
  second = second
  Runs = {first, second}
  Products = {p1}
  Specs = {plain, special}
  Requested <- MCRequested
  Baseline = {shared}
  StageOrder <- MCStageOrder
  Commits = {c1}
  Deployments = {d1}
  None = None
  MaxEntries = 6
  MaxRecords = 7
  MaxRestarts = 1
  Observations = {"critical-api", "observation-window"}
SYMMETRY Symmetry
INVARIANTS
  
  PromotionIsAudited
  
CHECK_DEADLOCK FALSE
