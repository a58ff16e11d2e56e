CONSTANTS
  NoThread = NoThread
  Compressors = {c1, c2}
  Writer = w
  NumNgrams = 3
  HaltAbove = 0
  ResumeAt = 0
SPECIFICATION Spec
INVARIANTS ReportedNgramsAreIndexed
CHECK_DEADLOCK FALSE
