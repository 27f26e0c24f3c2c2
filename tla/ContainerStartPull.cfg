SPECIFICATION Spec
CONSTANTS
  Kinds = {"missing"}
  Versions = {1}
  Policies = {"Always"}
  Delays = {TRUE}
  MaxTimers = 7
  MaxEdits = 1
  None = None
CHECK_DEADLOCK FALSE
PROPERTIES NeverBackToCreating
