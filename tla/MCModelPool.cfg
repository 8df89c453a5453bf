\* Two models and two callers; a circuit opens on two failures in a row.
SPECIFICATION PoolSpec
CONSTANTS
  Models = {m1, m2}
  Callers = {c1, c2}
  FailureThreshold = 2
  Cooldown = 2
  MinRuns = 2
  MaxSlots = 1
  MaxCalls = 3
  MaxEvents = 2
  MaxTime = 2
SYMMETRY PoolSymmetry
INVARIANTS
  PoolInvariant
  OpenCircuitIsEarned
  FailureIsExhaustive
CHECK_DEADLOCK FALSE
