SPECIFICATION Spec
CONSTANTS
  r1 = r1  r2 = r2  r3 = r3  r4 = r4  r5 = r5
  w1 = w1  w2 = w2  w3 = w3  i1 = i1  i2 = i2
  NoTx = NoTx  NoId = NoId
  Tx = {r1, r2, r3}
  Ids <- MCIds
  Cmd <- MCCmd
  Id <- MCId
  BurstLen <- MCBurstLen
  Coherent = TRUE
  MaxOutstanding = 0
  RdInterleaving = FALSE
  AcceptDelays = {"cycles"}
  BeatDelays = {"cycles"}
  ConstantLatency = FALSE
  BeatFifoSize = 128
  UMax = 3
  Ace = TRUE
  IdSerializing = TRUE
  WrInterleaving = FALSE
INVARIANTS
  InactiveWhenQuiescent
  ResponsesInOrder
  ReadBurstsNotInterleaved
