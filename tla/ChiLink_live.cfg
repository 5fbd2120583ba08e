SPECIFICATION FairSpec
CONSTANTS
  t1 = t1  t2 = t2  s1 = s1  s2 = s2
  Reqs = {t1, t2}
  Snps = {s1, s2}
  TxnIds = {1, 2}
  Scenarios <- MCScenariosLive
  Configs <- MCConfigsLive
  Modes <- MCModesLive
  CrdTotal <- MCTotal
  SnpReqLimit = 100
  SnpLimit = 1
  CrespLimit = 1
  RdatLimit = 2
  ThreadLimit = 32
PROPERTIES
  Completes
  SnoopsAnswered
CHECK_DEADLOCK FALSE
