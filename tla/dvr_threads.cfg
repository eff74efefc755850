SPECIFICATION Spec
CONSTANTS
  MaxMsgs = 1
  Sources = {"AV"}
  AutoRecord = TRUE
  Backpack = TRUE
  CardMoves = TRUE
  Sleeps = TRUE
  Crashes = TRUE
INVARIANTS
  KnownRecording
  MenuStops
