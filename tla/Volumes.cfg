SPECIFICATION Spec
CONSTANTS
  Claims = {c1, c2}
  Statics = {v1}
  Pods = {p1}
  VolumeSpecs <- VolumesGiven
  ClaimSpecs <- ClaimsGiven
  StorageClasses <- Given
  DefaultClass = "standard"
  DynamicName <- Dynamic
  MaxBatch = 6
  MaxEdits = 4
  None = None
CHECK_DEADLOCK FALSE
INVARIANTS TypeOK   ReadinessFresh
 
