SPECIFICATION FairSpec
CONSTANTS
  s1 = s1  s2 = s2  s3 = s3
  Snp = {s1, s2}
  Beats <- MCBeats
  FinishCycles <- MCFinish
  Latencies = {0, 1}
  FifoSize = 16
  AnswerCycles = {0, 1}
  SnoopThreads = 1
INVARIANTS
  SnoopsConsistent
  ReuseIsClean
PROPERTY ServesSnoops
