SPECIFICATION Safety
CONSTANTS
  p1 = p1
  p2 = p2
  Port = {p1, p2}
  Lists <- ScalerLists
  Tid = {t1, t2, t3, t4}
  Addr = {a1, a2}
  NULL = NULL
  Uninit = Uninit
  RRSpan = 2
  MaxWrites = 1
  Faults = {"early"}
SYMMETRY Symmetry
INVARIANTS
  OldMonitorsStopped
