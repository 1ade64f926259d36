SPECIFICATION TurnsSpec
CONSTANTS
  Early = FALSE
  MaxMessages = 3
  MaxEntries = 3
  Message = {1, 2}
  MaxSteps = 2
  Budgets <- MCBudgets
INVARIANTS  RightReply 
INVARIANTS AskedOnceAnsweredNew OneCardPerApproval AnnouncedIsPending
 
CHECK_DEADLOCK FALSE
