SPECIFICATION Spec
CONSTANTS
  MaxReplicas = 1
  MaxEdits = 1
  Templates = {t1, t2}
  Finite = {}
  Long = {t1, t2}
  Delays = TRUE
  Resyncs = TRUE
  None = None
CHECK_DEADLOCK FALSE
PROPERTY ReplacementIsOrdered
