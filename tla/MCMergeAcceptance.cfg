SPECIFICATION MergeSpec
CONSTANTS
  build = build
  test = test
  worker = worker
  judge = judge
  issuer = issuer
  authority = authority
  Nobody = Nobody
  Checks = {build, test}
  Producers = {worker, judge, issuer, authority}
  Owner = worker
  Issuer = issuer
  Authority = authority
  Contracts <- MCContracts
  WorkerReports <- MCReports
  Submissions <- MCSubmissions
  Surfaces <- MCSurfaces
  Hints = {1, 5}
  MaxCommits = 2
  MaxRestarts = 1
  FixedKey = FALSE
INVARIANTS
  MergeInvariant
  CostlyMergeIsCertified
  
PROPERTIES
  CompleteEvidencePasses
CHECK_DEADLOCK FALSE
