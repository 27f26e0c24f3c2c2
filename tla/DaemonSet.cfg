SPECIFICATION FairSpec
CONSTANTS
  NodeNames = {n1, n2}
  Images = {v1, v2}
  MaxEdits = 4
  MaxFaults = 1
  None = None
CHECK_DEADLOCK FALSE
INVARIANTS TypeOK StatusTruthful
PROPERTIES UndoGoesBack Settles
