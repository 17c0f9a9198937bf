SPECIFICATION FairSpec
CONSTANTS
  MaxPlayers = 2
  TimeoutTicks = 1
  SupabaseConfigured = TRUE
  RequestsMayFail = TRUE
  Accounts = {a1}
  NoAccount = NoAccount
  NoToken = NoToken
  BadToken = BadToken
  NoProfile = NoProfile
  StoredBalances = {1}
  StartBalance = 0
  Amounts <- MCWords
  WordSize = 4
  MaxConnections = 3
INVARIANTS
  TypeOK
  StaleSlotsHarmless
  CreditsBacked
  CreditsNotNegative
PROPERTIES
  ImplementsRegistry
  DeadPeersDropped
