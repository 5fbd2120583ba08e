SPECIFICATION Spec
CONSTANTS
  t1 = t1  t2 = t2  s1 = s1  s2 = s2
  Reqs = {t1, t2}
  Snps = {s1, s2}
  TxnIds = {1, 2}
  Scenarios <- MCScenarios
  Configs <- MCConfigs
  Modes <- MCModes
  CrdTotal <- MCTotal
  SnpReqLimit = 100
  SnpLimit = 1
  CrespLimit = 1
  RdatLimit = 1
  ThreadLimit = 32
INVARIANTS
  NodeConsistent
  CreditsExact
  RequestsSerial
PROPERTY BurstsWhole
CHECK_DEADLOCK FALSE
