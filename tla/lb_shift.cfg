SPECIFICATION Spec
CONSTANTS
  Unused = Unused
  NoTask = NoTask
  Tasks = {t1, t2}
  MaxEntries = 3
  MaxTargets = 2
  Dates <- MCDates
  Routes <- MCRoutes
  Forgeries <- MCForgeries
PROPERTIES
  ShiftLosesNothing
CHECK_DEADLOCK FALSE
