SPECIFICATION LoopSpec
CONSTANTS
  task = task
  repo = repo
  Tasks <- MCTasks
  Roots <- MCRoots
  Owners = {o1}
  Scopes = {repo}
  ScopesOf <- MCScopesOf
  Ttl = 2
  MaxLag = 1
  MaxWait = 1
  MaxClaims = 2
  MaxFences = 9
  DependsOn <- MCDependsOn
  Restartable = {task}
  Coding = {task}
  NeedsModel = {}
  Declared <- MCDeclared
  Repository = repo
  Headlines = {f1}
  HeadlineOf <- MCHeadlineOf
  Failures = {f1}
  NoFailure = NoFailure
  MaxAttempts = 2
  BreakerThreshold = 3
  Unchecked = {}
  GitHubWorks = TRUE
  MaySave = TRUE
INVARIANTS
  
  PromotedWorkIsAccepted
PROPERTIES
  HolderSettles
  
CHECK_DEADLOCK FALSE
