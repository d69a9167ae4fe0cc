SPECIFICATION Spec
CONSTANTS
  p1 = p1
  p2 = p2
  e1 = e1
  e2 = e2
  camA = camA
  Clips = {p1}
  Events = {e1}
  Cameras = {camA}
  ClipInfo <- OneCamera
  EventInfo <- Detections
  KeyOf <- Directory
  Tolerance = 1
  Grace = 1
  ShortMax = 2
  LongMin = 3
  LegacyEnabled = TRUE
  MaxTime = 4
  MaxFaults = 1
  NoRow = NoRow
  NoKey = NoKey
  NoEnd = NoEnd
PROPERTIES EndNeverLost
CHECK_DEADLOCK FALSE
