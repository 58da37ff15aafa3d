SPECIFICATION Spec
CONSTANTS
  bob = bob
  bobby = bobby
  Client <- MCClient
  NoClient = NoClient
  Beginnings <- MCBeginnings
  Cap = 1
  MaxOps = 2
  MaxChanges = 2
INVARIANTS OnlyPinnedRuns ClientVerdictsAreTrue
PROPERTIES LateDialogRunsNothing
CHECK_DEADLOCK FALSE
