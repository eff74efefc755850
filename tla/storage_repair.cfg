SPECIFICATION FairSpec
CONSTANTS
  MaxScripts = 2
  MaxTimers = 1
  Habits = {{"fsck"}, {"mkfs"}}
  Slow = FALSE

  
PROPERTIES
  
  ControlsOff
  ControlsBack
  CardNoticed
