SPECIFICATION LaneSpec
CONSTANTS
  one = one
  two = two
  fix = fix
  deploy = deploy
  ship = ship
  repo = repo
  packet = packet
  big = big
  small = small
  Unscoped = Unscoped
  Nobody = Nobody
  NoPacket = NoPacket
  Tasks <- MCTasks
  Workers = {big, small}
  Repositories = {repo, Unscoped}
  RepairOf <- MCRepairOf
  RepositoryOf <- MCRepositoryOf
  StageOf <- MCStageOf
  ScopesOf <- MCScopesOf
  PacketOf <- MCPacketOf
  Priority <- MCPriority
  Adjustments = {25}
  Overridable = {two}
  IsCoding = {one, two, fix}
  CanRun <- MCCanRun
  Slots <- MCSlots
  LaneLimits = {1, 2}
  DefaultLimit = 2
  Baseline = 1
  Multiplier = 3
  MaxBacklog = 0
  MaxCommands = 2
INVARIANTS
  LaneInvariant
PROPERTIES
  ClaimsObeyPolicy
  IdleFleetIsUsed
CHECK_DEADLOCK FALSE
