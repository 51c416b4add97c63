SPECIFICATION FairSpec
CONSTANTS
  d1 = d1
  d2 = d2
  n1 = n1
  n2 = n2
  n3 = n3
  c1 = c1
  c2 = c2
  Files = {1, 2}
  Deposits = {d1}
  DepositOf <- TwoDeposits
  Nodes = {n1, n2, n3}
  NodeOf <- OwnNodes
  Contents = {c1, c2}
  ContentOf <- OwnContents
  N = 2
  None = None
  MaxCrashes = 1
  MaxFailures = 1
  MaxDeletes = 0
INVARIANTS OneEmail ReplicatedContentUndisturbed
PROPERTIES  EveryFileEnds SettledIsFinished
\* every deposit is finished, or waits for the user
CHECK_DEADLOCK FALSE
