SPECIFICATION OrchestratorSpec
CONSTANTS
  first = first
  second = second
  s1 = s1
  repo = repo
  MaxDepth = 1
  Tasks <- MCTasks
  Roots <- MCRoots
  Owners = {o1}
  Scopes = {s1, repo}
  ScopesOf <- MCScopesOf
  Ttl = 2
  MaxLag = 1
  MaxClaims = 3
  MaxFences = 1
  DependsOn <- MCDependsOn
  Restartable = {first}
  Coding = {first}
  NeedsModel = {second}
  Declared <- MCDeclared
  Repository = repo
  Headlines = {f1, f2, f3}
  HeadlineOf <- MCHeadlineOf
  Failures = {f1, f2, f3}
  NoFailure = NoFailure
  MaxAttempts = 3
  BreakerThreshold = 3
SYMMETRY Symmetry
INVARIANTS
  DependenciesFirst
  RepairBudgetKept
  ExclusiveScopes
  
PROPERTIES
  ImplementsFencedLease
CHECK_DEADLOCK FALSE
