\* Live and sandbox calls around midnight, with late scripts and refunds.
SPECIFICATION Spec
CONSTANTS
  a1 = a1
  Apps = {a1}
  Requests <- MixedCalls
  BurstLimit <- Limits
  Window = 3
  DailyLimit = 1
  DayLength = 4
  LastTick = 6
  MaxDelay = 1
INVARIANTS
  TypeOK
  BurstInstantsBounded
  DailyLimitUntilLastSecond
  RefusedOnlyWhenSpent
CHECK_DEADLOCK FALSE
