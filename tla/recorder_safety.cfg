SPECIFICATION Spec
CONSTANTS
  MaxMsgs = 1
  Commands = {"START", "STOP", "STARTL", "STOPL", "QUIT"}
  CardStates = {"absent", "ok", "full"}
  RolloverFails = TRUE
  LiveClients = TRUE
  LockFails = FALSE
INVARIANTS
  CrashNeedsFailedRollover
  
  StopLeavesNothing
  InputSharedRight
PROPERTIES
  FileStableInCallback
  ImplementsService
