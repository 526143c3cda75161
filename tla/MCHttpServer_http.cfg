SPECIFICATION FairSpec
CONSTANTS
  None = None
  t1 = t1 t2 = t2 root = root
  Threads = {t1, t2} Roots = {root}
  MaxCores = 3 MaxMessages = 1
INVARIANTS AloneNothingFails RebuildIsFresh
PROPERTY RequestsEnd
