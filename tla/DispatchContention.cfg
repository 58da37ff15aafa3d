SPECIFICATION Spec
CONSTANTS
  r1 = r1
  r2 = r2
  r3 = r3
  NoInput = NoInput
  Request = {r1, r2, r3}
  Action <- MCAction
  Privileged <- MCPrivileged
  Safe <- MCSafe
  Input <- SlottedInputs
  Slots = 1
  Workers = 3
  UseHelper = FALSE
  MaxCrashes = 1
SYMMETRY Symmetry
INVARIANTS NoActionWithoutIntent LogBracketsOperations DenialsConserved
PROPERTIES GateSpec
CHECK_DEADLOCK FALSE
