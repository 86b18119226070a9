SPECIFICATION TrafficSpec
CONSTANTS
  Client = {c1, c2}
  Fds = 2
  MaxHeld = 1
  MaxEvents = 1
  MaxErrors = 0
  NULL = NULL
  LISTENER = LISTENER
  OTHERS = OTHERS
  Thread = {t1, t2}
  MAX_CONCURRENT_THREADS = 2
  MaxInt = 2
  Defaults <- DefaultConfig
  Files <- SmallFiles
INVARIANTS
  TrafficTypeOK
  SlotsAreKept
PROPERTIES
  BatchesFollowConfig
  TrafficGoesOn
