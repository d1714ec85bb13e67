CONSTANTS
  a = a
  b = b
  Clients = {a, b}
  Faults <- MCFaults
  MaxSent <- MCMaxSent
SPECIFICATION FairSpec
INVARIANTS TypeOK KiyoshiExactly AloneEarned AnswersOwn
PROPERTY Answered
CHECK_DEADLOCK FALSE
