SPECIFICATION SettingsSpec
CONSTANTS
  u1 = u1
  u2 = u2
  User <- MCUser
  Page <- MCPage
  Stored <- MCStored
  Edits <- MCEdits
  Mobile <- MCMobile
  Leftovers <- MCLeftovers
  MaxSaves = 1
  MaxKills = 0
INVARIANT SwitchesStayPut
CHECK_DEADLOCK FALSE
