\* Two live messages, one of which fits into a day, and two workers, one of which may be lost.
SPECIFICATION FairSpec
CONSTANTS
  a1 = a1
  a2 = a2
  k1 = k1
  NoKey = NoKey
  Nobody = Nobody
  Apps = {a1}
  Keys = {k1}
  Requests <- TwoMessages
  DailyLimit = 1
  LastDay = 1
  MaxRetries = 1
  Workers = {w1, w2}
  MaxCrashes = 1
INVARIANTS
  TypeOK
  NoMessageStranded
  SendsAccounted
  LiveMessagesPaid
PROPERTIES
  SettledOnce
  AcceptedIsResolved
CHECK_DEADLOCK FALSE
