SPECIFICATION Spec
CONSTANTS
  MaxWire = 1
  MaxSem = 2
  Polls = 1
  Radio = {"query", "channel"}
  HeadTracks = TRUE
INVARIANTS
  SuccessIsReal
  CancelledIsAsked
  
CHECK_DEADLOCK FALSE
