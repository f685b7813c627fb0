SPECIFICATION FairServerSpec
CONSTANTS
  one = one two = two show = show other = other cam1 = cam1 cam2 = cam2
  NoPkg = NoPkg
  CanPackages = {one, two}
  PingPackages = {}
  Kind <- MCKind
  Events <- MCEvents
  Cap = 5
  FirstEventNo = 7
  MaxRestarts = 0
  FilesMayFail = FALSE
  MaxSpurious = 0
PROPERTIES SignalIsHeard
CHECK_DEADLOCK FALSE
