SPECIFICATION Safety
CONSTANTS
  p1 = p1
  p2 = p2
  Port = {p1, p2}
  Lists <- ScalerLists
  Tid = {t1, t2}
  Addr = {a1, a2}
  NULL = NULL
  Uninit = Uninit
  RRSpan = 2
  MaxWrites = 2
  Faults = {"calloc", "create", "sigpipe"}
SYMMETRY Symmetry
INVARIANTS
  TypeOK
  MonitorsUseLiveCounters
  LoggerUsesLiveCounters
  OldMonitorsStopped
  MonitorsMatchBackends
  CountersSized
  NoLeakedCounters
PROPERTIES
  ImplementsProxySafety
