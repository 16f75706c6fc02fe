\* Four rows on pages of two, and up to three that appear anywhere among them.
SPECIFICATION MonitoringSpec
CONSTANTS
  a = a
  b = b
  sms = sms
  ussd = ussd
  none = none
  Rows = {1, 2, 3, 4, 5, 6, 7}
  Existing = {1, 3, 5, 6}
  PageSize = 2
  Services = {sms, ussd}
  NoService = none
  Entry <- Entries
  Reader = a
  LogLimit = 2
  LastStart = 3
INVARIANTS
  WalkShowsAll
  DashboardAgrees
CHECK_DEADLOCK FALSE
