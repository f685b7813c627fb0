SPECIFICATION UploadFairSpec
CONSTANTS
  one = one two = two
  NoPkg = NoPkg
  CanPackages = {one, two}
  PingPackages = {}
  Kind <- MCKind
  Events <- MCEvents
  Cap = 4
  FirstEventNo = 7
  MaxRestarts = 0
  FilesMayFail = FALSE
  MaxSpurious = 0
  MaxEvents = 2
  MaxOutages = 0
  MaxCloses = 0
  MaxQueries = 0
  MaxPosts = 2
  MayRefuse = FALSE
  AppendMayFail = FALSE
  SleepOutlasts = TRUE
INVARIANTS NothingLost AnsweredIsAtServer NumbersReachOnce
PROPERTIES EveryEventArrives
CHECK_DEADLOCK FALSE
