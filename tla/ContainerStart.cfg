SPECIFICATION FairSpec
CONSTANTS
  Kinds = {"runs", "completes", "crashes", "missing"}
  Versions = {1}
  Policies = {"Always", "Never"}
  Delays = {TRUE, FALSE}
  MaxTimers = 7
  MaxEdits = 4
  None = None
CHECK_DEADLOCK FALSE
INVARIANTS TypeOK RegistryAgrees
PROPERTIES RestartsWhenDue EndingsAreFinal Settles
