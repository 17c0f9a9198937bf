SPECIFICATION FairSpec
CONSTANTS
  Unused = Unused
  NoTask = NoTask
  Tasks = {t1}
  MaxEntries = 3
  MaxTargets = 2
  Dates <- MCDates
  Routes <- MCRoutes
  Forgeries <- MCForgeries
INVARIANTS
  TypeOK
  BackupKept
  NoUndueConsequence
PROPERTIES
  TasksEnd
CHECK_DEADLOCK FALSE
