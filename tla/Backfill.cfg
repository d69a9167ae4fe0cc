SPECIFICATION FairSpec
CONSTANTS
  p1 = p1
  p2 = p2
  e1 = e1
  e2 = e2
  camA = camA
  Clips = {p1, p2}
  Events = {e1}
  Cameras = {camA}
  ClipInfo <- TwoCameras
  EventInfo <- Detections
  KeyOf <- Directory
  Tolerance = 1
  Grace = 1
  ShortMax = 2
  LongMin = 3
  LegacyEnabled = TRUE
  MaxTime = 3
  MaxFaults = 1
  NoRow = NoRow
  NoKey = NoKey
  NoEnd = NoEnd
INVARIANT ClipsExplained
PROPERTIES LabelsRefined BackfillWins
CHECK_DEADLOCK FALSE
