SPECIFICATION FairSpec
CONSTANTS
  r1 = r1
  r2 = r2
  sync = sync
  pilot = pilot
  Request <- MCRequest
  Client <- MCClient
  Pilot <- MCPilot
  client <- MCOf
  MaxDaemons = 2
INVARIANTS OneSuccess OnlySilenceIsUncertain RestartIsInvisible
PROPERTIES EveryRequestAnswered
CHECK_DEADLOCK FALSE
