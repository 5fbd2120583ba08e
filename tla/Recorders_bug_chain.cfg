SPECIFICATION Spec
CONSTANTS
  Recorders <- MCRecorderSet
  Kinds = {"axi_scv"}
  Uses = 1
  Depth = 1
  NestedEnds = TRUE
INVARIANT NoAbort
CHECK_DEADLOCK FALSE
