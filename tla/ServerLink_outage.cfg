SPECIFICATION LinkFairSpec
CONSTANTS
  MaxEvents = 2
  MaxOutages = 1
  MaxCloses = 0
  MaxQueries = 0
  MaxPosts = 2
  MayRefuse = FALSE
  AppendMayFail = FALSE
  SleepOutlasts = TRUE
PROPERTIES SentWhenBack
CHECK_DEADLOCK FALSE
