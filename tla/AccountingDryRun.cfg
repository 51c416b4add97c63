SPECIFICATION Spec
CONSTANTS
  Nodes = {1, 2, 3, 4, 5}
  Users = {u1}
  Tree <- OneFile
  Sizes = {0, 2}
  IntMax = 1
  MaxWrites = 2
  MaxHeld = 2
  None = None
  u1 = u1
  u2 = u2
PROPERTY DryRunIsReadOnly
\* the table is full and nobody does anything
CHECK_DEADLOCK FALSE
