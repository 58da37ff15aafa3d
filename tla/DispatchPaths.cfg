SPECIFICATION FairSpec
CONSTANTS
  r1 = r1
  r2 = r2
  r3 = r3
  NoInput = NoInput
  Request = {r1, r2}
  Action <- MCAction
  Privileged <- MCPrivileged
  Safe <- MCSafe
  Input <- AllInputs
  Slots = 1
  Workers = 2
  UseHelper = TRUE
  MaxCrashes = 1
INVARIANTS RefusedNeverRan OneTrueVerdict TwoRecords
PROPERTIES EveryRequestAnswered SlotsComeBack
CHECK_DEADLOCK FALSE
