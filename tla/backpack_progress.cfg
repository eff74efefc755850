SPECIFICATION FairSpec
CONSTANTS
  MaxWire = 2
  MaxSem = 3
  Polls = 0
  Radio = {}
  HeadTracks = FALSE
INVARIANTS
  CancelWakes
PROPERTIES
  AnswerHeard
  ClickEnds
