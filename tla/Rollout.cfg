SPECIFICATION FairSpec
CONSTANTS
  Templates = {t1, t2}
  Strategies <- AllStrategies
  MaxReplicas = 2
  MaxEdits = 3
  MaxFaults = 1
  MaxBatch = 3
  ScaleDown = FALSE
  None = None
CHECK_DEADLOCK FALSE
INVARIANTS TypeOK NothingForgotten StatusFresh NoOrphans SurgeKept
PROPERTIES AvailabilityKept StatusWritesAreFresh RolloutCompletes
