SPECIFICATION LiveSpec
CONSTANTS
  t1 = t1  t2 = t2  t3 = t3  c1 = c1  c2 = c2
  Threads = {t1, t2, t3}
  Conns = {c1, c2}
  NoThread = NoThread
  NoConn = NoConn
  ConnOf <- TwoAndOne
  OpsOf <- Mixed
  Stored = {1}
  MaxRowid = 2
  MaxCalls = 5
  MaxFaults = 1
INVARIANTS TypeOK ListIsComplete ReadsOneState LocksOwned
PROPERTIES CallsReturn
