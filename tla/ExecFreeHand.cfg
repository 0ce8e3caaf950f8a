SPECIFICATION Spec
CONSTANTS
  t1 = t1  t2 = t2  t3 = t3  c1 = c1  c2 = c2  c3 = c3
  Threads = {t1, t2}
  Conns = {c1}
  NoThread = NoThread
  NoConn = NoConn
  MaxRowid = 4
  MaxCalls <- TwoCalls
  Uses <- Shared
  FreeHand = {"insert"}
  InitWhileBusy = FALSE
INVARIANTS InsertReturnsOwn
