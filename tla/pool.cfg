SPECIFICATION PoolFairSpec
CONSTANTS
  l1 = l1
  l2 = l2
  l3 = l3
  s1 = s1
  c1 = c1
  c2 = c2
  c3 = c3
  Worker = {l1, l2, l3, s1}
  Lister = {l1, l2, l3}
  Conn = {c1, c2, c3}
  MaxRows = 2
  NoConn = NoConn
INVARIANT NeverStuck
PROPERTY EveryCallReturns
CHECK_DEADLOCK FALSE
