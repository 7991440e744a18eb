SPECIFICATION Spec
CONSTANTS
  Threads = {t1}
  CacheKeys = {k1, k2}
  CacheValues = {v1}
  Addr = {a1, a2}
  Nil = Nil
  Costs = {1, 2}
  CostLimits = {2, 4}
  CountLimits = {1, 2}
  MaxLost = 2
INVARIANT TotalCostIsCurrent
