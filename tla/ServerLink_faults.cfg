SPECIFICATION LinkSpec
CONSTANTS
  MaxEvents = 2
  MaxOutages = 1
  MaxCloses = 1
  MaxQueries = 1
  MaxPosts = 2
  MayRefuse = TRUE
  AppendMayFail = TRUE
  SleepOutlasts = FALSE
INVARIANTS LinkTypeOK ServedOnce OneExchange AnswerBelongs
CHECK_DEADLOCK FALSE
