SPECIFICATION Spec
CONSTANTS
  MaxMsgs = 2
  Sources = {"HDZ"}
  AutoRecord = TRUE
  Backpack = TRUE
  CardMoves = FALSE
  Sleeps = FALSE
  Crashes = FALSE
INVARIANTS
  MenuNotRecording
