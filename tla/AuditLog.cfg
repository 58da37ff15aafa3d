SPECIFICATION Spec
CONSTANTS
  Backups = 3
  Full = 2
  MaxEntries = 14
  MaxTears = 3
INVARIANTS NewestKept RetainedIsSuffix TornSpoilsNext
CHECK_DEADLOCK FALSE
