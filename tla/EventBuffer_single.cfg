SPECIFICATION FairSpec
CONSTANTS
  one = one two = two show = show other = other cam1 = cam1 cam2 = cam2
  NoPkg = NoPkg
  CanPackages = {one, two, show, other}
  PingPackages = {}
  Kind <- MCKind
  Events <- MCEvents
  Cap = 9
  FirstEventNo = 7
  MaxRestarts = 1
  FilesMayFail = FALSE
  MaxSpurious = 0
INVARIANTS UploadsWholeInOrder RecordsAgree NumbersDurable AnsweredIsKept
PROPERTIES ClearedAfterTaken Implements HeardIsFinished
CHECK_DEADLOCK FALSE
