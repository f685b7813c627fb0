SPECIFICATION FairSpec
CONSTANTS
  cam = cam term = term lamp = lamp cab = cab
  NoEvent = NoEvent
  Device = {cam}
  Class <- MCClass
  Conditions <- CamPower
  Repeats = FALSE
  FilesMayFail = TRUE
  MaxChanges = 3
  MaxCrashes = 0
INVARIANTS TypeOK
PROPERTIES CamerasSettle
CHECK_DEADLOCK FALSE
