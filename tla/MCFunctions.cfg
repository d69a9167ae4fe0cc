SPECIFICATION InputsSpec
CONSTANTS
  Small <- MCSmall
  Capitals <- MCCapitals
  NonASCII = {"aring", "auml"}
  Types = {"licensePlate", "face", "person", "vehicle", "animal", "package", "fire"}
  MaxTypes = 3
  MaxThumbs = 2
  Characters = {"a", "B", "1", "-", " ", "aring"}
  MaxName = 4
  FirstHours <- MCFirstHours
  MaxHours = 3
  Offsets <- MCOffsets
INVARIANTS HeadlineMostSpecific DetailFromHeadline TimesSurvive KeysAgree
CHECK_DEADLOCK FALSE
