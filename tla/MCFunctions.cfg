SPECIFICATION PartsSpec
CONSTANTS
  Values = {v1, v2}
  Default = v1
  NoNext = NoNext
  MaxStores = 4
  Unbound = Unbound
  Sides <- MCSides
  Offsets <- MCOffsets
  Models <- MCModels
  Frames <- MCFrames
  Size = 6
  Steps <- MCSteps
  LastId = 3
  Partitions <- MCPartitions
  Detections <- MCDetections
  Threshold = 45
  Called <- MCCalled
  Typed <- MCTyped
  MaxLine = 3
  MaxSize = 2
INVARIANTS
  UpdatedMeansApplied
  PixelsRight
  ResultsOfFrame
  ParsedAsWritten
  ModelsListed
  ResultsReported
  ExecutedAsWritten
PROPERTIES
  LatestSpec
  EveryWriteApplied
CHECK_DEADLOCK FALSE
