SPECIFICATION FairSpec
CONSTANTS
  p1 = p1
  p2 = p2
  o1 = o1
  o2 = o2
  Own <- MCOwn
  Others = {o1, o2}
  Public = {p2, o2}
  NameOf <- MCNameOf
  Handle = "handle"
  Found <- MCFound
  Money <- MCMoney
  Pairs <- MCPairs
  Amounts = {2}
  Sums = {1}
  Fine = 1
  LoanStep = 2
  Interests = {1}
  MaxRating = 2
  MaxMoves = 3
  MaxFines = 2
  MaxShares = 1
  None = None
INVARIANTS TypeOK MoneyKept RobberyAnswered AssertsHold
PROPERTIES FinesEnd
CHECK_DEADLOCK FALSE
