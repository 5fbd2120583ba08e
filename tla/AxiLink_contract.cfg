SPECIFICATION FairSpec
CONSTANTS
  r1 = r1  r2 = r2  r3 = r3  r4 = r4  r5 = r5
  w1 = w1  w2 = w2  w3 = w3  i1 = i1  i2 = i2
  NoTx = NoTx  NoId = NoId
  Tx = {w1, w2, r2}
  Ids <- MCIds
  Cmd <- MCCmd
  Id <- MCId
  BurstLen <- MCBurstLen
  Coherent = FALSE
  MaxOutstanding = 1
  RdInterleaving = TRUE
  AcceptDelays = {"cycles"}
  BeatDelays = {"cycles"}
  ConstantLatency = TRUE
  BeatFifoSize = 128
  UMax = 3
  Ace = FALSE
  IdSerializing = FALSE
  WrInterleaving = FALSE
INVARIANTS
  TypeOK
  BackPressureKept
  ScheduledOnce
PROPERTIES
  StallSlotKept
  ServesContract
