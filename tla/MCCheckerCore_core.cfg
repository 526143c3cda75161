SPECIFICATION FairSpec
CONSTANTS
  s = s r = r None = None
  t1 = t1 t2 = t2 p1 = p1 p2 = p2
  Threads = {t1, t2} Configs = {p1}
  Contents <- MCContents
  MaxWrites = 1 MaxRemovals = 1 MaxCrashes = 1
  SharedEarly = FALSE
INVARIANTS TakenForReadIsRead 
PROPERTIES EventuallyConfigured
