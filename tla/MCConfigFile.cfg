SPECIFICATION Spec
CONSTANTS
  h1 = h1
  h2 = h2
  Host = {h1, h2}
  Lists <- ShortLists
  Node = {n1, n2, n3, n4}
  NULL = NULL
  MaxWrites = 3
SYMMETRY Symmetry
INVARIANTS
  ReadsOneVersion
  EveryIndexHasItsNode
PROPERTIES
  ReadsAtomically
  ListensElsewhereOnlyIfTruncated
