SPECIFICATION FairSpec
CONSTANTS
  MaxReplicas = 2
  MaxEdits = 2
  Templates = {t1, t2}
  Finite = {t2}
  Long = {t1}
  Delays = TRUE
  Resyncs = TRUE
  None = None
CHECK_DEADLOCK FALSE
INVARIANTS TypeOK NothingQueuedWhenIdle OwnsItsResources DecisionsAreArmed StatusFresh
PROPERTIES ImplementsPodLife Settles
