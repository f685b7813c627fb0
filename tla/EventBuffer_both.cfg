SPECIFICATION FairSpec
CONSTANTS
  one = one two = two show = show other = other cam1 = cam1 cam2 = cam2
  NoPkg = NoPkg
  CanPackages = {one}
  PingPackages = {cam1}
  Kind <- MCKind
  Events <- MCEvents
  Cap = 4
  FirstEventNo = 7
  MaxRestarts = 1
  FilesMayFail = TRUE
  MaxSpurious = 1
INVARIANTS TypeOK NumbersUnique
PROPERTIES NumberingCompletes
CHECK_DEADLOCK FALSE
