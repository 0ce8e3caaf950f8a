SPECIFICATION LiveSpec
CONSTANTS
  t1 = t1  t2 = t2  t3 = t3  c1 = c1  c2 = c2  c3 = c3
  Threads = {t1, t2, t3}
  Conns = {c1, c2, c3}
  NoThread = NoThread
  NoConn = NoConn
  MaxRowid = 4
  MaxCalls <- ThreeThreeOne
  Uses <- Private
  FreeHand = {"insert", "delete", "begin", "commit", "rollback"}
  InitWhileBusy = TRUE
INVARIANTS PrivateInv ExecuteReturnsOwn NoLostInsert WriteLockReleased
PROPERTIES IsLinearizable CallsReturn
