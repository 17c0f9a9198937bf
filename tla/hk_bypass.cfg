SPECIFICATION Spec
CONSTANTS
  bank = bank
  internic = internic
  Hosts = {bank, internic}
  Gateway = Gateway
  Systems <- MCSystems
  Tracing = {bank}
  Accounts <- MCAccounts
  Recodes <- MCRecodes
  HotKeys = {bank, internic}
  SavedRoute <- MCSavedRoute
  Programs = {p1}
  Idle = Idle
INVARIANTS
  BypassHeld
CHECK_DEADLOCK FALSE
