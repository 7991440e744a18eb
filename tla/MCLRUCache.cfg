SPECIFICATION FairSpec
CONSTANTS
  Threads = {t1, t2}
  CacheKeys = {k1, k2, k3}
  CacheValues = {v1, v2}
  Addr = {a1, a2, a3}
  Nil = Nil
  Costs = {0, 2}
  CostLimits = {0, 4}
  CountLimits = {1, 3}
  MaxLost = 2
INVARIANTS TypeOK NothingDangles ListComplete CostCovered OverLimitIsTransient
PROPERTIES ImplementsQueue CleanEnds
