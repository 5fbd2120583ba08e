SPECIFICATION Spec
CONSTANTS
  Recorders <- MCRecorderSet
  Kinds <- MCKinds
  Uses = 2
  Depth = 2
  NestedEnds = FALSE
INVARIANTS
  TimedViewExact ExtensionsOwn
PROPERTY BlockingRestores
CHECK_DEADLOCK FALSE
