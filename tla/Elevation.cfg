SPECIFICATION FairSpec
CONSTANTS
  c1 = c1
  c2 = c2
  NoCall = NoCall
  Call = {c1, c2}
  Plans = {1, 2}
  Timeout = 4
  Margin = 2
  StopTime = 3
INVARIANTS NoOverlap FittingVerbsEndFirst AnswerMatchesJournal OkMeansAllCommands
PROPERTIES EveryCallReturns
CHECK_DEADLOCK FALSE
