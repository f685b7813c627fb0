SPECIFICATION PartsSpec
CONSTANTS
  u1 = u1
  u2 = u2
  User <- MCUser
  Page <- MCPage
  Stored <- MCStored
  Edits <- MCEdits
  Mobile <- MCMobile
  Leftovers <- MCLeftovers
  MaxSaves = 3
  MaxKills = 1
  Asking = {a1, a2}
  Loading = {l1, l2}
  MaxRows = 2
  MaxAsked = 3
  Sender = {"mcu", "cgi"}
  Forgotten = {"mcu"}
  Sizes = {15, 16, 17}
  Misread = {0, 14}
  MaxPackages = 3
  LENGTH = 60
  Events = {1, 4, 10, 17}
  Within = {0, 16}
  MaxNewlines = 2
  MaxStored = 2
  Message <- MCMessage
INVARIANTS
  SettingsTypeOK LastSaveWins LostOnlyByOpenRead
  TableTypeOK AloneIsWhole DownloadsMerge
  FramesInv WholeWhenEnded
  UnsentTypeOK PackagesComeApart
  TablesAreRight TypedInIsAccepted
CHECK_DEADLOCK FALSE
