SPECIFICATION Spec
CONSTANTS
  MaxOps = 2
  MaxChanges = 1
  Polls = 2
INVARIANTS SuccessIsReal DismissedIsUntouched FirewallAnswerHolds
CHECK_DEADLOCK FALSE
