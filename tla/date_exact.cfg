SPECIFICATION Spec
CONSTANTS
  Epoch = 2010
  Starts <- MCStarts
  Amounts <- MCAmounts
  MaxMoves = 2
INVARIANTS
  TypeOK
  NoSecondLost
  OrderAgrees
CHECK_DEADLOCK FALSE
