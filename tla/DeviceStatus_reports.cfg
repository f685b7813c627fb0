SPECIFICATION Spec
CONSTANTS
  cam = cam term = term lamp = lamp cab = cab
  NoEvent = NoEvent
  Device = {term, lamp, cab}
  Class <- MCClass
  Conditions <- ByController
  Repeats = TRUE
  FilesMayFail = FALSE
  MaxChanges = 4
  MaxCrashes = 1
INVARIANTS LogPairsUp StatusIsLastReport LoggedAreCounted EmptyOnlyByCrash
CHECK_DEADLOCK FALSE
