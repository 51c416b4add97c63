SPECIFICATION Spec
CONSTANTS
  d1 = d1
  d2 = d2
  n1 = n1
  n2 = n2
  n3 = n3
  c1 = c1
  c2 = c2
  Files = {1, 2, 3}
  Deposits = {d1, d2}
  DepositOf <- TwoDeposits
  Nodes = {n1, n2, n3}
  NodeOf <- Replacing
  Contents = {c1, c2}
  ContentOf <- OwnContents
  N = 2
  None = None
  MaxCrashes = 0
  MaxFailures = 1
  MaxDeletes = 1
INVARIANTS StoredUnderItsSum FinishedIsSettled ReplicatedIsDone
INVARIANTS ShafsIntactUndisturbed
 
\* every deposit is finished, or waits for the user
CHECK_DEADLOCK FALSE
