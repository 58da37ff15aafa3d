SPECIFICATION FairWindowSpec
CONSTANTS
  repair = repair
  diagnose = diagnose
  create = create
  list = list
  proposal = proposal
  NoTask = NoTask
  Task <- MCTask
  Ai <- MCAi
  follow <- MCFollow
  Workers = 1
INVARIANTS CountIsWork ShownIsTrue
PROPERTIES ControlsComeBack PaletteComesBack
CHECK_DEADLOCK FALSE
