SPECIFICATION Spec
CONSTANTS
  Threads = {t1, t2}
  Keys = {k1}
  NoEntry = NoEntry
  t1 = t1
  t2 = t2
  k1 = k1
  Ttl = 1
  ProbeMax = 1
  MaxTime = 4
  MaxVersion = 2
SYMMETRY Symmetry
INVARIANTS
  TypeOK
  BoundedStaleness
  StaleOnlyByOverlap
