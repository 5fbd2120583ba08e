SPECIFICATION FairSpec
CONSTANTS
  r1 = r1  w1 = w1  w2 = w2
  NoTx = NoTx  NoId = NoId
  Tx = {r1, w1, w2}
  Ids = {1, 2}
  Cmd <- MCCmd
  Id <- MCId
  BurstLen <- MCBurstLen
  Coherent = FALSE
  MaxOutstanding = 1
  RdInterleaving = FALSE
  AcceptDelays = {"cycles"}
  BeatDelays = {"cycles"}
  ConstantLatency = FALSE
  BeatFifoSize = 128
  UMax = 3
INVARIANTS
  ProtocolKept
  ReturnedIsClean
PROPERTIES
  Completes
