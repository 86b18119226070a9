SPECIFICATION Spec
CONSTANTS
  p1 = p1
  p2 = p2
  Port = {p1, p2}
  Lists <- Singles
  Tid = {t1}
  Addr = {a1, a2}
  NULL = NULL
  Uninit = Uninit
  RRSpan = 1
  MaxWrites = 2
  Faults = {"calloc", "create", "sigpipe"}
PROPERTIES
  ImplementsProxy
