SPECIFICATION FairSpec
CONSTANTS
  MaxWire = 1
  MaxSem = 2
  Polls = 0
  Radio = {"channel"}
  HeadTracks = FALSE
PROPERTIES
  RepoweredAfterCancel
CHECK_DEADLOCK FALSE
