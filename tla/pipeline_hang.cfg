CONSTANTS
  NoThread = NoThread
  Compressors = {c1, c2}
  Writer = w
  NumNgrams = 2
  HaltAbove = 0
  ResumeAt = 0
SPECIFICATION FairSpec
PROPERTIES BuildEnds
CHECK_DEADLOCK FALSE
