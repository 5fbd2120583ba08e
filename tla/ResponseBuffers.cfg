SPECIFICATION FairSpec
CONSTANTS
  Tx <- MCTx
  Ids <- MCIds
  Cmd <- MCCmd
  Id <- MCId
  Addr <- MCAddr
  Bytes <- MCBytes
  Qos <- MCQos
  Latencies = {0, 1}
  Den = 4
  Limits <- MCLimits
  Horizon = 3
  Recording <- MCRecording
  MinLatency = 1
  MaxLatency = 2
  WindowSize = 1
  Priorities <- MCPriorities
  Calls <- MCCalls
  Kinds = {"rate", "replay", "reorder"}
INVARIANTS
  BuffersConsistent LatencyKept OrderKept BandwidthKept ReplaysRecording
PROPERTY AllAnswered
CHECK_DEADLOCK FALSE
