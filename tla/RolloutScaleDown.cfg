SPECIFICATION FairSpec
CONSTANTS
  Templates = {t1, t2}
  Strategies <- RollingStrategies
  MaxReplicas = 2
  MaxEdits = 1
  MaxFaults = 0
  MaxBatch = 3
  ScaleDown = TRUE
  None = None
CHECK_DEADLOCK FALSE
PROPERTIES RolloutCompletes
