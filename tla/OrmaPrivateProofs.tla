------------------------- MODULE OrmaPrivateProofs -------------------------
(* A connection per thread: results and rows are right, whatever free-hand *)
(* SQL the threads run and whenever connections are opened.                *)
EXTENDS OrmaExecProofs

USE NoThreadAssumption, NoConnAssumption, UsesAssumption

(* Nothing runs, nothing is open, nothing is kept. *)
LEMMA PrivateInit == Init => PrivateInv
BY TypeInit DEF Init, SqliteInit, TypeInv, PrivateInv, StalledInv, OpenInv,
                KeptInv, CounterIsOwn, Idle

(* No other call runs on the connection of a running call. *)
LEMMA Alone ==
  ASSUME PrivateConns, PrivateInv, NEW t \in Threads, pc[t] # "idle"
  PROVE  /\ call[t].conn \in Conns
         /\ call[t].conn \in opened
         /\ \A u \in Threads : pc[u] # "idle" /\ u # t
                                 => call[u].conn # call[t].conn
         /\ pc[t] \notin {"unlock", "finalize"} => stalled[call[t].conn] = {}
<1>1. call[t].conn \in Conns /\ call[t].conn \in opened
  BY DEF PrivateInv, TypeOK, CallInv, OpenInv, Idle
<1>2. \A u \in Threads : pc[u] # "idle" /\ u # t
                           => call[u].conn # call[t].conn
  BY DEF PrivateConns, PrivateInv, CallInv, Idle
<1>3. ASSUME pc[t] \notin {"unlock", "finalize"}
      PROVE  stalled[call[t].conn] = {}
  <2>1. stalled[call[t].conn] \in SUBSET Threads
    BY <1>1 DEF PrivateInv, TypeOK, SqliteTypeOK
  <2>2. ASSUME NEW u \in stalled[call[t].conn] PROVE FALSE
    <3>1. call[u].conn = call[t].conn /\ pc[u] \in {"unlock", "finalize"}
      BY <1>1 DEF PrivateInv, StalledInv
    <3> QED
      BY <1>2, <1>3, <2>1, <3>1
  <2> QED
    BY <2>1, <2>2
<1> QED
  BY <1>1, <1>2, <1>3

(* What a statement of connection c leaves in the table: nothing is        *)
(* stalled on c, so the write is committed or in c's own transaction.      *)
LEMMA StoreKeeps ==
  ASSUME KeptInv, NEW c \in Conns, c \in opened, stalled[c] = {},
         CanWrite(c), NEW new, Store(c, new)
  PROVE  /\ kept \subseteq View(c)
         /\ writer' # NoConn => writer' = c /\ ~autocommit[c]
         /\ \A K : K \subseteq new /\ (autocommit[c] \/ K \subseteq rows)
                  => K \subseteq rows' /\ (writer' # NoConn => K \subseteq work')
<1>1. kept \subseteq View(c)
  BY DEF KeptInv, View, CanWrite
<1>2. writer' # NoConn => writer' = c /\ ~autocommit[c]
  BY DEF Store
<1>3. \A K : K \subseteq new /\ (autocommit[c] \/ K \subseteq rows)
               => K \subseteq rows' /\ (writer' # NoConn => K \subseteq work')
  BY DEF Store
<1> QED
  BY <1>1, <1>2, <1>3

(* An INSERT keeps what was kept, and its own row outside a transaction. *)
LEMMA InsertKeeps ==
  ASSUME KeptInv, NEW c \in Conns, c \in opened, stalled[c] = {},
         CanWrite(c), NEW id \in RowIds, Insert(c, id)
  PROVE  /\ KeptInv'
         /\ writer' # NoConn => writer' \in opened' /\ ~autocommit'[writer']
<1>1. Store(c, View(c) \cup {id})
  BY DEF Insert, StepInsert
<1>2. kept \subseteq rows
  BY DEF KeptInv
<1>3. kept' \subseteq View(c) \cup {id} /\ (autocommit[c] \/ kept' \subseteq rows)
  BY <1>1, <1>2, StoreKeeps DEF Insert
<1>4. kept' \subseteq rows' /\ (writer' # NoConn => kept' \subseteq work')
  BY <1>1, <1>3, StoreKeeps
<1> QED
  BY <1>1, <1>4, StoreKeeps DEF KeptInv, Insert, StepInsert

(* An UPDATE or DELETE keeps what it does not delete. *)
LEMMA ModifyKeeps ==
  ASSUME KeptInv, NEW c \in Conns, c \in opened, stalled[c] = {},
         CanWrite(c), NEW s, NEW hit, Modify(c, s, hit)
  PROVE  /\ KeptInv'
         /\ writer' # NoConn => writer' \in opened' /\ ~autocommit'[writer']
<1> DEFINE gone == IF s = "delete" THEN hit ELSE {}
<1>1. Store(c, View(c) \ gone) /\ kept' = kept \ gone
  BY DEF Modify, StepModify
<1>2. kept \subseteq rows
  BY DEF KeptInv
<1>3. kept \subseteq View(c)
  BY <1>1, StoreKeeps
<1>4. kept' \subseteq View(c) \ gone /\ kept' \subseteq rows
  BY <1>1, <1>2, <1>3
<1>5. kept' \subseteq rows' /\ (writer' # NoConn => kept' \subseteq work')
  BY <1>1, <1>4, StoreKeeps
<1> QED
  BY <1>1, <1>5, StoreKeeps DEF KeptInv, Modify, StepModify

(* A failed write keeps all of it. *)
LEMMA ErrorKeeps ==
  ASSUME KeptInv, NEW c \in Conns, c \in opened, stalled[c] = {},
         CanWrite(c), StepError(c), UNCHANGED kept
  PROVE  /\ KeptInv'
         /\ writer' # NoConn => writer' \in opened' /\ ~autocommit'[writer']
<1>1. Store(c, View(c))
  BY DEF StepError
<1>2. kept \subseteq rows /\ kept \subseteq View(c)
  BY <1>1, StoreKeeps DEF KeptInv
<1>3. kept' \subseteq rows' /\ (writer' # NoConn => kept' \subseteq work')
  BY <1>1, <1>2, StoreKeeps
<1> QED
  BY <1>1, <1>3, StoreKeeps DEF KeptInv, StepError

-----------------------------------------------------------------------------
(* One lemma per part of the invariant.                                    *)

(* A BUSY statement is finalized before its call returns. *)
LEMMA StalledStep ==
  ASSUME PrivateConns, PrivateInv, NEW t \in Threads, Continue(t)
  PROVE  StalledInv'
<1> USE DEF PrivateInv, StalledInv, TypeOK, SqliteTypeOK
<1> DEFINE c == call[t].conn
<1>1. CASE Prepare(t) \/ Lock(t) \/ Read(t)
  BY <1>1 DEF Prepare, Lock, Read, Goto, sqliteVars
<1>2. CASE BusyWait(t)
  BY <1>2 DEF BusyWait, callVars
<1>3. CASE Unlock(t)
  BY <1>3 DEF Unlock, Goto, sqliteVars
<1>4. CASE Step(t) \/ StepFails(t)
  <2>1. UNCHANGED <<stalled, call>> /\ pc[t] = "step"
    BY <1>4 DEF Step, StepFails, Insert, StepInsert, Modify, StepModify, StepError
  <2>2. \E label \in PCs : Goto(t, label)
    BY <1>4 DEF Step, StepFails, PCs
  <2> QED
    BY <2>1, <2>2 DEF Goto
<1>5. CASE StepTimesOut(t)
  <2>1. c \in Conns
    BY <1>5, Alone DEF StepTimesOut
  <2> QED
    BY <1>5, <2>1 DEF StepTimesOut, StepBusy, Goto
<1>6. CASE Finalize(t)
  <2>1. c \in Conns
    BY <1>6, Alone DEF Finalize
  <2>2. \A d \in Conns : stalled'[d] = stalled[d] \ {t}
    BY <1>6, <2>1 DEF Finalize, FinalizeStmt
  <2>3. call' = call /\ \A u \in Threads : u # t => pc'[u] = pc[u]
    BY <1>6 DEF Finalize, Goto
  <2> QED
    BY <2>2, <2>3
<1>7. CASE ExecWrite(t) \/ ExecTimesOut(t) \/ ExecTransaction(t)
  <2>1. UNCHANGED <<stalled, call>> /\ pc[t] = "exec" /\ Goto(t, "idle")
    BY <1>7 DEF ExecWrite, ExecTimesOut, ExecTransaction, ExecReturns, Insert,
                StepInsert, Modify, StepModify, StepError, BeginTx, CommitTx,
                RollbackTx
  <2> QED
    BY <2>1 DEF Goto
<1> QED
  BY <1>1, <1>2, <1>3, <1>4, <1>5, <1>6, <1>7 DEF Continue

(* The write lock and the rows kept, when nothing is stalled on the        *)
(* connection of a call that has yet to make its step.                     *)
LEMMA WriterStep ==
  ASSUME TypeOK, KeptInv, OpenInv, NEW t \in Threads, Continue(t),
         call[t].conn \in Conns, call[t].conn \in opened,
         pc[t] \notin {"unlock", "finalize"} => stalled[call[t].conn] = {}
  PROVE  KeptInv' /\ OpenInv'
<1> DEFINE c == call[t].conn
           WriterInv == writer # NoConn => writer \in opened /\ ~autocommit[writer]
<1>1. KeptInv /\ WriterInv
  BY DEF OpenInv
<1>2. UNCHANGED <<opened, call>>
  BY DEF Continue, Prepare, Lock, BusyWait, Step, StepFails, StepTimesOut, Read,
         Unlock, Finalize, ExecWrite, ExecTimesOut, ExecTransaction, ExecReturns,
         Insert, StepInsert, Modify, StepModify, StepError, StepBusy,
         FinalizeStmt, BeginTx, CommitTx, RollbackTx, sqliteVars, callVars
<1>3. pc[t] # "idle" /\ \A u \in Threads : u # t => pc'[u] = pc[u]
  BY DEF Continue, Prepare, Lock, BusyWait, Step, StepFails, StepTimesOut, Read,
         Unlock, Finalize, ExecWrite, ExecTimesOut, ExecTransaction, ExecReturns,
         Goto, callVars, TypeOK
<1>4. \A u \in Threads : ~Idle(u)' => call'[u].conn \in opened'
  BY <1>2, <1>3 DEF OpenInv, Idle
<1>5. c \in Conns /\ c \in opened
  OBVIOUS
<1>6. CASE Prepare(t) \/ Lock(t) \/ Read(t) \/ Unlock(t)
  <2>1. UNCHANGED <<rows, writer, work, autocommit, opened, kept>>
    BY <1>6 DEF Prepare, Lock, Read, Unlock, sqliteVars, ghostVars
  <2> QED
    BY <1>1, <1>4, <2>1 DEF KeptInv, OpenInv
<1>7. CASE BusyWait(t) \/ StepTimesOut(t) \/ ExecTimesOut(t)
  <2>1. UNCHANGED <<rows, writer, work, autocommit, opened, kept>>
    BY <1>7 DEF BusyWait, StepTimesOut, StepBusy, ExecTimesOut, ghostVars
  <2> QED
    BY <1>1, <1>4, <2>1 DEF KeptInv, OpenInv
<1>8. CASE Step(t) \/ StepFails(t) \/ ExecWrite(t)
  <2>1. CanWrite(c) /\ stalled[c] = {}
    BY <1>8 DEF Step, StepFails, ExecWrite, StepRuns
  <2>2. \/ \E id \in RowIds : Insert(c, id)
        \/ \E hit \in SUBSET View(c) : Modify(c, call[t].stmt, hit)
        \/ StepError(c) /\ UNCHANGED kept
    BY <1>8 DEF Step, StepFails, ExecWrite
  <2>3. KeptInv' /\ WriterInv'
    BY <1>5, <2>1, <2>2, InsertKeeps, ModifyKeeps, ErrorKeeps
  <2> QED
    BY <1>4, <2>3 DEF OpenInv
<1>9. CASE Finalize(t)
  <2>1. UNCHANGED <<rows, autocommit, opened, kept>>
    BY <1>9 DEF Finalize, FinalizeStmt, ghostVars
  <2>2. UNCHANGED <<writer, work>>
    BY <1>1, <1>5, <1>9 DEF Finalize, FinalizeStmt
  <2> QED
    BY <1>1, <1>4, <2>1, <2>2 DEF KeptInv, OpenInv
<1>10. CASE ExecTransaction(t)
  <2>1. stalled[c] = {} /\ UNCHANGED <<kept, opened>>
    BY <1>10, <1>2 DEF ExecTransaction
  <2>2. CASE BeginTx(c)
    BY <1>1, <1>4, <1>5, <2>1, <2>2
    DEF BeginTx, KeptInv, OpenInv, TypeOK, SqliteTypeOK
  <2>3. CASE CommitTx(c)
    BY <1>1, <1>4, <1>5, <2>1, <2>3
    DEF CommitTx, KeptInv, OpenInv, View, TypeOK, SqliteTypeOK
  <2>4. CASE RollbackTx(c)
    BY <1>1, <1>4, <1>5, <2>1, <2>4
    DEF RollbackTx, KeptInv, OpenInv, TypeOK, SqliteTypeOK
  <2>5. CASE UNCHANGED <<opened, rows, writer, work, autocommit, lastRowid,
                         changes, stalled>>
    BY <1>1, <1>4, <2>1, <2>5 DEF KeptInv, OpenInv
  <2> QED
    BY <1>10, <2>2, <2>3, <2>4, <2>5 DEF ExecTransaction
<1> QED
  BY <1>6, <1>7, <1>8, <1>9, <1>10 DEF Continue

(* Row ids and counters: those of c change only in steps of c's thread. *)
LEMMA CounterStep ==
  ASSUME PrivateConns, PrivateInv, NEW t \in Threads, Continue(t)
  PROVE  CounterIsOwn'
<1> DEFINE c == call[t].conn
           s == call[t].stmt
<1> USE DEF PrivateInv
<1>1. call' = call
  BY DEF Continue, Prepare, Lock, BusyWait, Step, StepFails, StepTimesOut, Read,
         Unlock, Finalize, ExecWrite, ExecTimesOut, ExecTransaction, ExecReturns,
         callVars
<1>2. pc[t] # "idle" /\ \A u \in Threads : u # t =>
         pc'[u] = pc[u] /\ ret'[u] = ret[u] /\ own'[u] = own[u]
  BY DEF Continue, Prepare, Lock, BusyWait, Step, StepFails, StepTimesOut, Read,
         Unlock, Finalize, ExecWrite, ExecTimesOut, ExecTransaction, ExecReturns,
         Goto, callVars, ghostVars, TypeOK
<1>3. c \in Conns
  BY <1>2, Alone
<1>4. \A d \in Conns : d # c =>
         lastRowid'[d] = lastRowid[d] /\ changes'[d] = changes[d]
  BY <1>3 DEF Continue, Prepare, Lock, BusyWait, Step, StepFails, StepTimesOut,
         Read, Unlock, Finalize, ExecWrite, ExecTimesOut, ExecTransaction,
         Insert, StepInsert, Modify, StepModify, StepError, StepBusy,
         FinalizeStmt, BeginTx, CommitTx, RollbackTx, sqliteVars, TypeOK,
         SqliteTypeOK
<1>5. ASSUME NEW u \in Threads, u # t
      PROVE  IF pc'[u] = "read"
             THEN own'[u] = IF call'[u].stmt = "insert"
                            THEN lastRowid'[call'[u].conn]
                            ELSE changes'[call'[u].conn]
             ELSE ret'[u] = own'[u]
  <2>1. CASE pc[u] = "read"
    <3>1. call[u].conn \in Conns /\ call[u].conn # c
      BY <1>2, <1>5, <2>1, Alone
    <3> QED
      BY <1>1, <1>2, <1>4, <1>5, <2>1, <3>1 DEF CounterIsOwn
  <2>2. CASE pc[u] # "read"
    BY <1>1, <1>2, <1>5, <2>2 DEF CounterIsOwn
  <2> QED
    BY <2>1, <2>2
<1>6. IF pc'[t] = "read"
      THEN own'[t] = IF s = "insert" THEN lastRowid'[c] ELSE changes'[c]
      ELSE ret'[t] = own'[t]
  <2>1. CASE Step(t)
    <3>1. pc'[t] = "read"
      BY <2>1 DEF Step, Goto, TypeOK
    <3>2. ASSUME s = "insert", NEW id \in RowIds, Insert(c, id),
                 own' = [own EXCEPT ![t] = id]
          PROVE  own'[t] = lastRowid'[c]
      BY <1>3, <3>2 DEF Insert, StepInsert, TypeOK, SqliteTypeOK
    <3>3. ASSUME s # "insert", NEW hit, Modify(c, s, hit),
                 own' = [own EXCEPT ![t] = Cardinality(hit)]
          PROVE  own'[t] = changes'[c]
      BY <1>3, <3>3 DEF Modify, StepModify, TypeOK, SqliteTypeOK
    <3> QED
      BY <2>1, <3>1, <3>2, <3>3 DEF Step
  <2>2. CASE Read(t)
    BY <2>2 DEF Read, Goto, CounterIsOwn, TypeOK, ghostVars
  <2>3. CASE Prepare(t) \/ Lock(t) \/ Unlock(t) \/ Finalize(t)
    BY <2>3 DEF Prepare, Lock, Unlock, Finalize, Goto, CounterIsOwn, TypeOK,
                ghostVars
  <2>4. CASE StepFails(t) \/ StepTimesOut(t)
    BY <2>4 DEF StepFails, StepTimesOut, Goto, TypeOK
  <2>5. CASE BusyWait(t)
    BY <2>5 DEF BusyWait, CounterIsOwn, callVars, ghostVars
  <2>6. CASE ExecWrite(t) \/ ExecTimesOut(t) \/ ExecTransaction(t)
    BY <2>6 DEF ExecWrite, ExecTimesOut, ExecTransaction, ExecReturns, Goto,
                CounterIsOwn, TypeOK
  <2> QED
    BY <2>1, <2>2, <2>3, <2>4, <2>5, <2>6 DEF Continue
<1> QED
  BY <1>1, <1>5, <1>6 DEF CounterIsOwn

(* Starting a call, opening and closing connections moves no row, and the  *)
(* connection of a running call stays open.                                *)
LEMMA WriterApplication ==
  ASSUME TypeOK, KeptInv, OpenInv, NEW t \in Threads, Application(t)
  PROVE  KeptInv' /\ OpenInv'
<1> PICK c \in Conns : \/ \E s \in Statements : StartTable(t, s, c)
                       \/ \E s \in FreeHand : StartFreeHand(t, s, c)
                       \/ OrmaInit(t, c)
                       \/ OrmaShutdown(t, c)
  BY DEF Application
<1>1. ASSUME NEW s, NEW label \in {"prepare", "exec"}, Start(t, s, c, label)
      PROVE  KeptInv' /\ OpenInv'
  BY <1>1 DEF Start, Goto, Idle, OpenInv, KeptInv, TypeOK, Calls, sqliteVars,
              ghostVars
<1>2. CASE OrmaInit(t, c)
  BY <1>2 DEF OrmaInit, OpenConn, OpenInv, KeptInv, Idle, TypeOK, SqliteTypeOK,
              ghostVars
<1>3. CASE OrmaShutdown(t, c)
  <2>1. KeptInv'
    BY <1>3 DEF OrmaShutdown, CloseConn, KeptInv, ghostVars
  <2>2. OpenInv'
    BY <1>3 DEF OrmaShutdown, CloseConn, OpenInv, Busy, Idle, callVars
  <2> QED
    BY <2>1, <2>2
<1> QED
  BY <1>1, <1>2, <1>3 DEF StartTable, StartFreeHand

(* Starting a call, opening and closing connections. *)
LEMMA PrivateApplication ==
  ASSUME PrivateConns, PrivateInv, NEW t \in Threads, Application(t)
  PROVE  StalledInv' /\ CounterIsOwn'
<1> USE DEF PrivateInv
<1> PICK c \in Conns : \/ \E s \in Statements : StartTable(t, s, c)
                       \/ \E s \in FreeHand : StartFreeHand(t, s, c)
                       \/ OrmaInit(t, c)
                       \/ OrmaShutdown(t, c)
  BY DEF Application
<1>1. ASSUME NEW s, NEW label \in {"prepare", "exec"}, Start(t, s, c, label)
      PROVE  StalledInv' /\ CounterIsOwn'
  <2>1. StalledInv'
    BY <1>1 DEF Start, Goto, Idle, StalledInv, TypeOK, SqliteTypeOK, sqliteVars
  <2>2. CounterIsOwn'
    BY <1>1 DEF Start, Goto, Idle, CounterIsOwn, TypeOK, sqliteVars, ghostVars
  <2> QED
    BY <2>1, <2>2
<1>2. CASE OrmaInit(t, c)
  <2>1. StalledInv'
    BY <1>2 DEF OrmaInit, OpenConn, StalledInv
  <2>2. \A u \in Threads : pc[u] = "read" => call[u].conn # c
    BY <1>2 DEF OrmaInit, OpenInv, Idle
  <2>3. CounterIsOwn'
    BY <1>2, <2>2 DEF OrmaInit, OpenConn, CounterIsOwn, TypeOK, SqliteTypeOK,
                      ghostVars
  <2> QED
    BY <2>1, <2>3
<1>3. CASE OrmaShutdown(t, c)
  BY <1>3 DEF OrmaShutdown, CloseConn, StalledInv, CounterIsOwn, callVars, ghostVars
<1> QED
  BY <1>1, <1>2, <1>3 DEF StartTable, StartFreeHand

(* Together: every step keeps PrivateInv. *)
LEMMA PrivateStep ==
  ASSUME PrivateConns, PrivateInv, [Next]_vars
  PROVE  PrivateInv'
<1>1. TypeInv'
  BY TypeStep DEF PrivateInv, TypeInv
<1>2. CASE UNCHANGED vars
  BY <1>2 DEF PrivateInv, StalledInv, OpenInv, KeptInv, CounterIsOwn, TypeOK,
              SqliteTypeOK, CallInv, Idle, vars, sqliteVars, callVars, ghostVars
<1>3. CASE Finished
  BY <1>2, <1>3 DEF Finished
<1>4. ASSUME NEW t \in Threads, Continue(t) PROVE PrivateInv'
  <2>1. pc[t] # "idle"
    BY <1>4 DEF Continue, Prepare, Lock, BusyWait, Step, StepFails, StepTimesOut,
                Read, Unlock, Finalize, ExecWrite, ExecTimesOut, ExecTransaction
  <2>2. KeptInv' /\ OpenInv'
    BY <1>4, <2>1, Alone, WriterStep DEF PrivateInv
  <2> QED
    BY <1>1, <1>4, <2>2, StalledStep, CounterStep DEF PrivateInv, TypeInv
<1>5. ASSUME NEW t \in Threads, Application(t) PROVE PrivateInv'
  BY <1>1, <1>5, PrivateApplication, WriterApplication DEF PrivateInv, TypeInv
<1> QED
  BY <1>2, <1>3, <1>4, <1>5 DEF Next

(* With a connection per thread, PrivateInv is kept by every step: each    *)
(* thread only finalizes its own BUSY statements, and only an explicit     *)
(* BEGIN leaves a connection with the write lock of the file.              *)
THEOREM PrivateInvariant ==
  ASSUME PrivateConns
  PROVE  Spec => []PrivateInv
<1>1. PrivateInv /\ [Next]_vars => PrivateInv'
  BY PrivateStep
<1> QED
  BY PrivateInit, <1>1, PTL DEF Spec

(* With a connection per thread, an update or delete returns the number of *)
(* rows it hit and an insert the id of its row, also when the mutex is     *)
(* initialised again by an OrmaDatabase_init in between.                   *)
THEOREM PrivateResults ==
  ASSUME PrivateConns
  PROVE  Spec => [](InsertReturnsOwn /\ ExecuteReturnsOwn)
<1>1. PrivateInv => InsertReturnsOwn /\ ExecuteReturnsOwn
  BY DEF PrivateInv, CounterIsOwn, InsertReturnsOwn, ExecuteReturnsOwn, Answered
<1> QED
  BY <1>1, PrivateInvariant, PTL

(* With a connection per thread, a row that was inserted outside a         *)
(* transaction is only taken out of the table by a delete.                 *)
THEOREM PrivateKeepsRows ==
  ASSUME PrivateConns
  PROVE  Spec => []NoLostInsert
<1>1. PrivateInv => NoLostInsert
  BY DEF PrivateInv, KeptInv, NoLostInsert, Latest
<1> QED
  BY <1>1, PrivateInvariant, PTL

(* With a connection per thread, the write lock is free when no call is    *)
(* running and no transaction is open.                                     *)
THEOREM PrivateReleasesLock ==
  ASSUME PrivateConns
  PROVE  Spec => []WriteLockReleased
<1>1. PrivateInv => WriteLockReleased
  BY DEF PrivateInv, OpenInv, WriteLockReleased
<1> QED
  BY <1>1, PrivateInvariant, PTL

(* With a connection per thread the write calls are linearizable, whatever *)
(* else the threads do: free-hand transactions, busy timeouts, connections *)
(* that come and go.                                                       *)
THEOREM PrivateLinearizable ==
  ASSUME PrivateConns
  PROVE  Spec => IsLinearizable
<1>1. PrivateInv => RefInv
  BY DEF PrivateInv, OpenInv, RefInv, TypeInv
<1>2. RefInv /\ [Next]_vars => [Table!Next]_(Table!vars)
  BY RefineStep
<1> QED
  BY RefineInit, <1>1, <1>2, PrivateInvariant, PTL DEF IsLinearizable, Table!Spec, Spec

-----------------------------------------------------------------------------
(* The rows, when one connection is all there is.                          *)

(* The inductive invariant: nothing ever waits for the write lock, so no   *)
(* statement is left active, and rows and lock are in order.               *)
SoleInv == /\ TypeInv
           /\ \A c \in Conns : stalled[c] = {}
           /\ OpenInv /\ KeptInv

(* A call that goes on leaves no statement active. *)
LEMMA SoleContinue ==
  ASSUME OneConn, SoleInv, NEW t \in Threads, Continue(t)
  PROVE  (\A c \in Conns : stalled'[c] = {}) /\ KeptInv' /\ OpenInv'
<1>1. TypeOK /\ pc[t] # "idle"
  BY DEF SoleInv, TypeInv, Continue, Prepare, Lock, BusyWait, Step, StepFails,
         StepTimesOut, Read, Unlock, Finalize, ExecWrite, ExecTimesOut,
         ExecTransaction
<1>2. /\ call[t].conn \in Conns /\ call[t].conn \in opened
      /\ CanWrite(call[t].conn) /\ stalled[call[t].conn] = {}
  BY <1>1, RunningConn, NeverBusy DEF SoleInv, OpenInv, Idle
<1>3. UNCHANGED stalled
  BY <1>2 DEF Continue, Prepare, Lock, BusyWait, Step, StepFails, StepTimesOut,
              Read, Unlock, Finalize, ExecWrite, ExecTimesOut, ExecTransaction,
              Insert, StepInsert, Modify, StepModify, StepError, FinalizeStmt,
              BeginTx, CommitTx, RollbackTx, sqliteVars
<1>4. KeptInv' /\ OpenInv'
  BY <1>1, <1>2, WriterStep DEF SoleInv
<1> QED
  BY <1>3, <1>4 DEF SoleInv

(* Every step keeps SoleInv. *)
LEMMA SoleStep ==
  ASSUME OneConn, SoleInv, [Next]_vars
  PROVE  SoleInv'
<1>1. TypeInv'
  BY TypeStep DEF SoleInv
<1>2. CASE UNCHANGED vars \/ Finished
  BY <1>1, <1>2 DEF SoleInv, Finished, OpenInv, KeptInv, Idle, vars, sqliteVars,
                    callVars, ghostVars
<1>3. ASSUME NEW t \in Threads, Continue(t) PROVE SoleInv'
  BY <1>1, <1>3, SoleContinue DEF SoleInv
<1>4. ASSUME NEW t \in Threads, Application(t) PROVE SoleInv'
  <2>1. UNCHANGED stalled
    BY <1>4 DEF Application, StartTable, StartFreeHand, Start, OrmaInit, OpenConn,
                OrmaShutdown, CloseConn, sqliteVars
  <2>2. KeptInv' /\ OpenInv'
    BY <1>4, WriterApplication DEF SoleInv, TypeInv
  <2> QED
    BY <1>1, <2>1, <2>2 DEF SoleInv
<1> QED
  BY <1>2, <1>3, <1>4 DEF Next

(* With one connection in the whole program no inserted row disappears and *)
(* the write lock is given back, whatever free-hand SQL the threads run    *)
(* and even when the mutex fails: losing a row, as in the run ExecLost,    *)
(* takes a second connection.                                              *)
THEOREM SoleKeepsRows ==
  ASSUME OneConn
  PROVE  Spec => [](NoLostInsert /\ WriteLockReleased)
<1>1. Init => SoleInv
  BY TypeInit DEF Init, SqliteInit, SoleInv, OpenInv, KeptInv, Idle
<1>2. SoleInv /\ [Next]_vars => SoleInv'
  BY SoleStep
<1>3. SoleInv => NoLostInsert /\ WriteLockReleased
  BY DEF SoleInv, OpenInv, KeptInv, NoLostInsert, WriteLockReleased, Latest
<1> QED
  BY <1>1, <1>2, <1>3, PTL DEF Spec
=============================================================================
