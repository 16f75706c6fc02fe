\* Any four of: a login, two refreshes, a logout, a deactivation, two demotions and a registration.
SPECIFICATION Spec
CONSTANTS
  a = a
  b = b
  c = c
  Users = {a, b, c}
  Staff = {a, b}
  Requests = {1, 2, 3, 4, 5, 6, 7, 8}
  Call <- Calls
  Life = 1
  MaxCalls = 4
  LastTick = 2
INVARIANTS
  TokenExchangedOnce
  SessionsEnd
  AdminsRemain
CHECK_DEADLOCK FALSE
