\* Live and sandbox calls for one number, over the lifetime of a cached answer.
SPECIFICATION Spec
CONSTANTS
  a = a
  n = n
  NoRow = NoRow
  Apps = {a}
  Numbers = {n}
  Requests = {1, 2, 3}
  Call <- Calls
  Ttl = 2
  Recency = 2
  LastTick = 6
  MaxDelay = 1
INVARIANTS
  AnswersFresh
  VerifiedOnce
CHECK_DEADLOCK FALSE
