SPECIFICATION WindowSpec
CONSTANTS
  repair = repair
  diagnose = diagnose
  create = create
  list = list
  proposal = proposal
  NoTask = NoTask
  Task <- MCTask
  Ai <- MCAi
  follow <- MCFollow
  Workers = 3
INVARIANTS SignalEndsLoop
CHECK_DEADLOCK FALSE
