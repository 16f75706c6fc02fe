\* A notification, its retries, and another application with the same key.
SPECIFICATION Spec
CONSTANTS
  a = a
  b = b
  k = k
  NoKey = NoKey
  Nobody = Nobody
  Apps = {a, b}
  Keys = {k}
  Requests <- Calls
  DailyLimit = 2
INVARIANTS
  SentAgainOnlyAfterDeath
PROPERTIES
  ImplementsIdempotentCreate
CHECK_DEADLOCK FALSE
