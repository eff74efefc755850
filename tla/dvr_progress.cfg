SPECIFICATION FairSpec
CONSTANTS
  MaxMsgs = 1
  Sources = {"HDZ", "HDMI"}
  AutoRecord = TRUE
  Backpack = FALSE
  CardMoves = FALSE
  Sleeps = FALSE
  Crashes = FALSE
PROPERTIES
  MissedRecordingSeen
  StoppedForGood
  ButtonsAnswered
