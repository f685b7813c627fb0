SPECIFICATION ShowSpec
CONSTANTS
 N = 1
 Preset = {}
 AnswerNum = 0
 Ahead = 2
 ByteBase = 128
 WordBase = 65536
 MaxTime = 3
 MaxSets = 2
INVARIANTS ShowTypeOK PairedUnlessReset
PROPERTIES RecordsAreRight CatchesUp
CHECK_DEADLOCK FALSE
