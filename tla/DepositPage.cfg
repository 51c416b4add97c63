SPECIFICATION FairSpec
CONSTANTS
  Paths = {1, 2, 3, 4}
  Folder <- MCFolder
  Name <- MCName
  Existing = {1, 3, 4}
  MaxAdds = 4
  MaxDeposits = 2
  MaxDismissals = 1
  MaxErrors = 1
INVARIANTS OneDepositAtATime ChoiceHonoured QueuedAreRegistered RegisteredAreQueued
 
\* the user may stop
CHECK_DEADLOCK FALSE
