SPECIFICATION Spec
CONSTANTS
  RaceNum = 3
  LowNum = 2
  AnalogNum = 3
  TimerLen = 2
INVARIANTS
  
  PressUnderstood
  AskedIsConfirmed
  ReceiverFollows
