SPECIFICATION FairSpec
CONSTANTS
  MaxChanges = 1
INVARIANTS VerdictIsHonest NeverOkUnverified
PROPERTIES RepairsFitTheNetwork Concludes
CHECK_DEADLOCK FALSE
