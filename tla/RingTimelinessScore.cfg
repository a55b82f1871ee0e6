\* Two accounts that pay each other, one flagged: violated.
SPECIFICATION RingsSpec
CONSTANTS
  Accounts = {n1, n2}
  KnownLabels = {{}, {n1, n2}}
  MaxTransfers = 3
  LastTransfer = 1
  Scale = 1
INVARIANT ScoreIsOfMembers
CHECK_DEADLOCK FALSE
