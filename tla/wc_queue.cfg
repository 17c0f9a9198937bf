SPECIFICATION FairSpec
CONSTANTS
  FastSteps = {303, 86583}
  Delays = {0, 2}
  Warned <- MCWarned
  Periods <- MCPeriods
  Firsts = {0}
  Leaps = {20}
  GameStart = 25
  Worlds = {"new", "loaded"}
  MaxEvents = 4
  LastDate = 3
INVARIANTS
  OnTime
  InDueOrder
  NoDanglingWarning
PROPERTIES
  ClockForward
  AllRun
CHECK_DEADLOCK FALSE
