SPECIFICATION Spec
CONSTANTS
  r1 = r1  r2 = r2  r3 = r3  r4 = r4  r5 = r5
  w1 = w1  w2 = w2  w3 = w3  i1 = i1  i2 = i2
  NoTx = NoTx  NoId = NoId
  Tx = {r1, r2, w1}
  Ids <- MCIds
  Cmd <- MCCmd
  Id <- MCId
  BurstLen <- MCBurstLen3
  Coherent = FALSE
  MaxOutstanding = 0
  RdInterleaving = TRUE
  AcceptDelays = {"zero", "cycles"}
  BeatDelays = {"zero", "cycles"}
  ConstantLatency = TRUE
  BeatFifoSize = 128
  UMax = 3
  Ace = FALSE
  IdSerializing = FALSE
  WrInterleaving = TRUE
INVARIANTS
  SameIdReadsSerial
  FreedIsClean
  NoAlarm
  NoComplaint
  CountersExact
  ChannelOwned
PROPERTIES
