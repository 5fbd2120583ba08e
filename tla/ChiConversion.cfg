SPECIFICATION Spec
CONSTANTS
  Messages <- MCMessages
INVARIANTS
  ConversionSound
  NoDataNoBeats
CHECK_DEADLOCK FALSE
