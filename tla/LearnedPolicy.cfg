\* Two records before and two after make a candidate; half the records may be flagged, which
\* stands for logs so long that a small improvement passes.
SPECIFICATION LearningSpec
CONSTANTS
  MinShadow = 2
  MinBenchmark = 2
  Tolerance = 50
  Metrics = {cost, latency}
  Approvers = {operator}
  Nobody = nobody
  MaxRecords = 7
INVARIANTS
  LearningInvariant
PROPERTIES
  DecisionsAreFinal
