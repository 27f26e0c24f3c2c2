SPECIFICATION Spec
CONSTANTS
  Kinds = {"completes"}
  Versions = {1, 2}
  Policies = {"OnFailure"}
  Delays = {TRUE}
  MaxTimers = 5
  MaxEdits = 2
  None = None
CHECK_DEADLOCK FALSE
PROPERTIES UpdatedImageStays
