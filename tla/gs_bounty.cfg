SPECIFICATION Spec
CONSTANTS
  MaxPlayers = 1
  TimeoutTicks = 1
  SupabaseConfigured = TRUE
  RequestsMayFail = TRUE
  Accounts = {a1}
  NoAccount = NoAccount
  NoToken = NoToken
  BadToken = BadToken
  NoProfile = NoProfile
  StoredBalances = {5}
  StartBalance = 3
  Amounts <- MCWords
  WordSize = 16
  MaxConnections = 1
INVARIANTS
  BountiesDeducted
