SPECIFICATION FairSpec
CONSTANTS
  a = a
  b = b
  None = None
  Picks = {a, b}
  OverQuota = {b}
  RetryLimit = 2
  MaxPicks = 3
  MaxSubmits = 2
  MaxCancels = 2
INVARIANTS OneUpload CanBeCancelled SentAsListed
PROPERTY SubmitComesBack
\* the user may stop
CHECK_DEADLOCK FALSE
