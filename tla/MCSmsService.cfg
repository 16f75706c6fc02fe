\* Concurrent requests for one key: retries, a sandbox call, another application.
SPECIFICATION FairSpec
CONSTANTS
  a1 = a1
  a2 = a2
  k1 = k1
  NoKey = NoKey
  Nobody = Nobody
  Apps = {a1, a2}
  Keys = {k1}
  Requests <- Races
  DailyLimit = 2
  LastDay = 1
  MaxRetries = 0
  Workers = {}
  MaxCrashes = 0
INVARIANTS
  CacheAgreesWithTable
  LiveMessagesPaid
PROPERTIES
  ImplementsIdempotentCreate
  RequestsEnd
CHECK_DEADLOCK FALSE
