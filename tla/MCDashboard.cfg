SPECIFICATION Spec
CONSTANTS
  today = today
  yesterday = yesterday
  Date = {today, yesterday}
  Today = today
  LIVE = LIVE
  Port = {p1, p2}
  Timer = {t1, t2}
  NULL = NULL
  MaxPending = 3
  MaxFailures = 1
INVARIANTS
  OneInterval
  ShowsTheSelection
  LoadingIsAwaited
PROPERTIES
  RealtimeReturns
