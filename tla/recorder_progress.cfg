SPECIFICATION FairSpec
CONSTANTS
  MaxMsgs = 1
  Commands = {"START"}
  CardStates = {"absent", "ok"}
  RolloverFails = FALSE
  LiveClients = FALSE
  LockFails = TRUE
PROPERTIES
  StopCompletes
  
  
