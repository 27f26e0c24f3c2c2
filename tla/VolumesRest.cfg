SPECIFICATION FairSpec
CONSTANTS
  Claims = {c1, c2}
  Statics = {v1}
  Pods = {p1}
  VolumeSpecs <- VolumesGiven
  ClaimSpecs <- ClaimsGiven
  StorageClasses <- Given
  DefaultClass = "standard"
  DynamicName <- Dynamic
  MaxBatch = 6
  MaxEdits = 2
  None = None
CHECK_DEADLOCK FALSE

PROPERTY ComesToRest
