SPECIFICATION ShowSpec
CONSTANTS
 N = 1
 Preset = {1}
 AnswerNum = 0
 Ahead = 2
 ByteBase = 128
 WordBase = 65536
 MaxTime = 1
 MaxSets = 0
INVARIANT HeaderStays
CHECK_DEADLOCK FALSE
