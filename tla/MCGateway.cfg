\* Any two requests: races on a key, the limit of keys, an owner; audit of every answer.
SPECIFICATION Spec
CONSTANTS
  f = f
  e1 = e1
  NoKey = NoKey
  NoApp = NoApp
  Founders = {f}
  Emails = {e1}
  Requests = {1, 2, 3, 4, 5, 6, 7, 8}
  Call <- Calls
  Prefix <- Prefixes
  Burst = 1
  Window = 3
  MaxKeys = 2
  MaxCalls = 2
  MaxFlight = 2
  LastTick = 3
  MaxDelay = 1
INVARIANTS
  TypeOK
  KeysBounded
  KeySpentOnce
  OwnersDistinct
  RateBounded
  
CHECK_DEADLOCK FALSE
