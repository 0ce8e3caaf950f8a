--------------------------- MODULE OrmaExecProofs ---------------------------
(* Theorems about OrmaExec, for any threads, connections and bounds.       *)
EXTENDS OrmaExec, FiniteSetTheorems, TLAPS

USE NoThreadAssumption, NoConnAssumption, MaxRowidAssumption, UsesAssumption,
    FreeHandAssumption, InitWhileBusyAssumption, MaxCallsAssumption

-----------------------------------------------------------------------------
(* Type correctness                                                        *)

(* The rows a statement hits can be counted. *)
LEMMA CountType ==
  ASSUME NEW S \in SUBSET RowIds
  PROVE  Cardinality(S) \in Nat
<1>1. IsFiniteSet(RowIds)
  BY FS_Interval DEF RowIds
<1> QED
  BY <1>1, FS_Subset, FS_CardinalityType

(* A connection sees a table of row ids. *)
LEMMA ViewType ==
  ASSUME SqliteTypeOK, NEW c \in Conns
  PROVE  View(c) \in SUBSET RowIds
BY DEF SqliteTypeOK, View

(* A write leaves a table of row ids, committed or in c's transaction. *)
LEMMA StoreType ==
  ASSUME SqliteTypeOK, NEW c \in Conns, NEW new \in SUBSET RowIds,
         Store(c, new)
  PROVE  /\ rows' \in SUBSET RowIds
         /\ writer' \in Conns \cup {NoConn}
         /\ work' \in SUBSET RowIds
BY DEF SqliteTypeOK, Store

(* An INSERT, an UPDATE or DELETE, and a failed write keep the types. *)
LEMMA InsertType ==
  ASSUME SqliteTypeOK, kept \in SUBSET RowIds, NEW c \in Conns,
         NEW id \in RowIds, Insert(c, id),
         waiter' \in [Conns -> Threads \cup {NoThread}]
  PROVE  SqliteTypeOK' /\ kept' \in SUBSET RowIds
<1>1. /\ rows' \in SUBSET RowIds
      /\ writer' \in Conns \cup {NoConn}
      /\ work' \in SUBSET RowIds
  BY StoreType, ViewType DEF Insert, StepInsert
<1> QED
  BY <1>1 DEF Insert, StepInsert, SqliteTypeOK

LEMMA ModifyType ==
  ASSUME SqliteTypeOK, kept \in SUBSET RowIds, NEW c \in Conns, NEW s,
         NEW hit \in SUBSET View(c), Modify(c, s, hit),
         waiter' \in [Conns -> Threads \cup {NoThread}]
  PROVE  SqliteTypeOK' /\ kept' \in SUBSET RowIds /\ Cardinality(hit) \in Nat
<1> DEFINE gone == IF s = "delete" THEN hit ELSE {}
<1>1. Cardinality(hit) \in Nat
  BY CountType, ViewType
<1>2. Store(c, View(c) \ gone)
  BY DEF Modify, StepModify
<1>3. View(c) \ gone \in SUBSET RowIds
  BY ViewType
<1>4. /\ rows' \in SUBSET RowIds
      /\ writer' \in Conns \cup {NoConn}
      /\ work' \in SUBSET RowIds
  BY <1>2, <1>3, StoreType
<1> QED
  BY <1>1, <1>4 DEF Modify, StepModify, SqliteTypeOK

LEMMA StepErrorType ==
  ASSUME SqliteTypeOK, NEW c \in Conns, StepError(c),
         waiter' \in [Conns -> Threads \cup {NoThread}]
  PROVE  SqliteTypeOK'
<1>1. /\ rows' \in SUBSET RowIds
      /\ writer' \in Conns \cup {NoConn}
      /\ work' \in SUBSET RowIds
  BY StoreType, ViewType DEF StepError
<1> QED
  BY <1>1 DEF StepError, SqliteTypeOK

(* The type invariant, with what a running call works on. *)
TypeInv == TypeOK /\ CallInv

LEMMA TypeInit == Init => TypeInv
BY DEF Init, SqliteInit, TypeInv, TypeOK, SqliteTypeOK, CallInv, Idle, PCs, Calls,
       Results, RowIds

(* A running call has a connection. *)
LEMMA RunningConn ==
  ASSUME TypeInv, NEW t \in Threads, pc[t] # "idle"
  PROVE  call[t].conn \in Conns
BY DEF TypeInv, CallInv, Idle

(* The types, step by step: the calls start, ... *)
LEMMA StartType ==
  ASSUME TypeInv, NEW t \in Threads, NEW c \in Conns,
         NEW s \in Statements \cup FreeHand, NEW label \in PCs,
         label = "exec" => s \in FreeHand, Start(t, s, c, label)
  PROVE  TypeInv'
<1>1. budget' \in [Threads -> Nat]
  BY DEF Start, TypeInv, TypeOK
<1>2. SqliteTypeOK'
  BY DEF Start, TypeInv, TypeOK, SqliteTypeOK, sqliteVars
<1>3. TypeOK'
  BY <1>1, <1>2 DEF Start, TypeInv, TypeOK, Calls, Goto, ghostVars
<1>4. CallInv'
  BY DEF Start, TypeInv, TypeOK, Calls, CallInv, Goto, Idle
<1> QED
  BY <1>3, <1>4 DEF TypeInv

(* ... connections are opened and closed, ... *)
LEMMA ApplicationType ==
  ASSUME TypeInv, NEW t \in Threads, Application(t)
  PROVE  TypeInv'
<1> PICK c \in Conns : \/ \E s \in Statements : StartTable(t, s, c)
                       \/ \E s \in FreeHand : StartFreeHand(t, s, c)
                       \/ OrmaInit(t, c)
                       \/ OrmaShutdown(t, c)
  BY DEF Application
<1>1. ASSUME NEW s \in Statements, StartTable(t, s, c)
      PROVE  TypeInv'
  BY <1>1, StartType DEF StartTable, PCs
<1>2. ASSUME NEW s \in FreeHand, StartFreeHand(t, s, c)
      PROVE  TypeInv'
  BY <1>2, StartType DEF StartFreeHand, PCs
<1>3. CASE OrmaInit(t, c)
  <2>1. budget' \in [Threads -> Nat]
    BY <1>3 DEF OrmaInit, TypeInv, TypeOK
  <2>2. SqliteTypeOK'
    BY <1>3 DEF OrmaInit, OpenConn, TypeInv, TypeOK, SqliteTypeOK
  <2> QED
    BY <1>3, <2>1, <2>2 DEF OrmaInit, TypeInv, TypeOK, CallInv, Idle, ghostVars
<1>4. CASE OrmaShutdown(t, c)
  <2>1. SqliteTypeOK'
    BY <1>4 DEF OrmaShutdown, CloseConn, TypeInv, TypeOK, SqliteTypeOK
  <2> QED
    BY <1>4, <2>1 DEF OrmaShutdown, TypeInv, TypeOK, CallInv, Idle, ghostVars,
                      callVars
<1> QED
  BY <1>1, <1>2, <1>3, <1>4

(* ... the calls go on. *)
LEMMA ContinueType ==
  ASSUME TypeInv, NEW t \in Threads, Continue(t)
  PROVE  TypeInv'
<1> DEFINE c == call[t].conn
           s == call[t].stmt
<1>1. CASE Prepare(t)
  BY <1>1 DEF Prepare, TypeInv, TypeOK, SqliteTypeOK, CallInv, Idle, Goto, PCs,
              Results, sqliteVars
<1>2. CASE Lock(t)
  BY <1>2 DEF Lock, TypeInv, TypeOK, SqliteTypeOK, CallInv, Idle, Goto, PCs,
              sqliteVars, ghostVars
<1>3. CASE BusyWait(t)
  BY <1>3 DEF BusyWait, TypeInv, TypeOK, SqliteTypeOK, CallInv, Idle,
              callVars, ghostVars
<1>4. CASE Step(t)
  <2>1. c \in Conns /\ pc[t] = "step"
    BY <1>4, RunningConn DEF Step
  <2>2. waiter' \in [Conns -> Threads \cup {NoThread}]
    BY <1>4, <2>1 DEF Step, StepRuns, TypeInv, TypeOK, SqliteTypeOK
  <2>3. SqliteTypeOK' /\ kept' \in SUBSET RowIds /\ own' \in [Threads -> Results]
    <3>1. ASSUME NEW id \in RowIds, Insert(c, id), own' = [own EXCEPT ![t] = id]
          PROVE  SqliteTypeOK' /\ kept' \in SUBSET RowIds
                 /\ own' \in [Threads -> Results]
      BY <2>1, <2>2, <3>1, InsertType DEF TypeInv, TypeOK, Results, RowIds
    <3>2. ASSUME NEW hit \in SUBSET View(c), Modify(c, s, hit),
                 own' = [own EXCEPT ![t] = Cardinality(hit)]
          PROVE  SqliteTypeOK' /\ kept' \in SUBSET RowIds
                 /\ own' \in [Threads -> Results]
      <4>1. SqliteTypeOK' /\ kept' \in SUBSET RowIds /\ Cardinality(hit) \in Nat
        BY <2>1, <2>2, <3>2, ModifyType DEF TypeInv, TypeOK
      <4> QED
        BY <3>2, <4>1 DEF TypeInv, TypeOK, Results
    <3> QED
      BY <1>4, <3>1, <3>2 DEF Step
  <2> QED
    BY <1>4, <2>3 DEF Step, TypeInv, TypeOK, CallInv, Idle, Goto, PCs
<1>5. CASE StepFails(t)
  <2>1. c \in Conns /\ pc[t] = "step"
    BY <1>5, RunningConn DEF StepFails
  <2>2. waiter' \in [Conns -> Threads \cup {NoThread}]
    BY <1>5, <2>1 DEF StepFails, StepRuns, TypeInv, TypeOK, SqliteTypeOK
  <2>3. SqliteTypeOK'
    BY <1>5, <2>1, <2>2, StepErrorType DEF StepFails, TypeInv, TypeOK
  <2> QED
    BY <1>5, <2>3 DEF StepFails, TypeInv, TypeOK, CallInv, Idle, Goto, PCs, Results
<1>6. CASE StepTimesOut(t)
  BY <1>6 DEF StepTimesOut, StepBusy, TypeInv, TypeOK, SqliteTypeOK, CallInv,
              Idle, Goto, PCs, Results
<1>7. CASE Read(t)
  <2>1. c \in Conns
    BY <1>7, RunningConn DEF Read
  <2>2. lastRowid[c] \in Results /\ changes[c] \in Results
    BY <2>1 DEF TypeInv, TypeOK, SqliteTypeOK, Results, RowIds
  <2> QED
    BY <1>7, <2>2 DEF Read, TypeInv, TypeOK, SqliteTypeOK, CallInv, Idle, Goto,
                      PCs, sqliteVars, ghostVars
<1>8. CASE Unlock(t)
  BY <1>8 DEF Unlock, TypeInv, TypeOK, SqliteTypeOK, CallInv, Idle, Goto, PCs,
              sqliteVars, ghostVars
<1>9. CASE Finalize(t)
  <2>1. SqliteTypeOK'
    BY <1>9 DEF Finalize, FinalizeStmt, TypeInv, TypeOK, SqliteTypeOK
  <2> QED
    BY <1>9, <2>1 DEF Finalize, TypeInv, TypeOK, CallInv, Idle, Goto, PCs,
                      ghostVars
<1>10. CASE ExecWrite(t)
  <2>1. c \in Conns /\ pc[t] = "exec"
    BY <1>10, RunningConn DEF ExecWrite
  <2>2. waiter' \in [Conns -> Threads \cup {NoThread}]
    BY <1>10, <2>1 DEF ExecWrite, StepRuns, TypeInv, TypeOK, SqliteTypeOK
  <2>3. kept \in SUBSET RowIds /\ SqliteTypeOK
    BY DEF TypeInv, TypeOK
  <2>4. SqliteTypeOK' /\ kept' \in SUBSET RowIds
    <3>1. CASE \E id \in RowIds : Insert(c, id)
      BY <2>1, <2>2, <2>3, <3>1, InsertType
    <3>2. CASE \E hit \in SUBSET View(c) : Modify(c, s, hit)
      BY <2>1, <2>2, <2>3, <3>2, ModifyType
    <3>3. CASE StepError(c) /\ UNCHANGED kept
      BY <2>1, <2>2, <2>3, <3>3, StepErrorType
    <3> QED
      BY <1>10, <3>1, <3>2, <3>3 DEF ExecWrite
  <2> QED
    BY <1>10, <2>4 DEF ExecWrite, ExecReturns, TypeInv, TypeOK, CallInv, Idle,
                       Goto, PCs
<1>11. CASE ExecTimesOut(t)
  BY <1>11 DEF ExecTimesOut, ExecReturns, TypeInv, TypeOK, SqliteTypeOK, CallInv,
               Idle, Goto, PCs
<1>12. CASE ExecTransaction(t)
  <2>1. c \in Conns
    BY <1>12, RunningConn DEF ExecTransaction
  <2>2. SqliteTypeOK'
    BY <1>12, <2>1, ViewType DEF ExecTransaction, BeginTx, CommitTx, RollbackTx,
                       TypeInv, TypeOK, SqliteTypeOK
  <2> QED
    BY <1>12, <2>2 DEF ExecTransaction, ExecReturns, TypeInv, TypeOK, CallInv,
                       Idle, Goto, PCs
<1> QED
  BY <1>1, <1>2, <1>3, <1>4, <1>5, <1>6, <1>7, <1>8, <1>9, <1>10, <1>11, <1>12
  DEF Continue

(* Together: every step. *)
LEMMA TypeStep ==
  ASSUME TypeInv, [Next]_vars
  PROVE  TypeInv'
<1>1. CASE UNCHANGED vars
  BY <1>1 DEF TypeInv, TypeOK, SqliteTypeOK, CallInv, Idle, vars, sqliteVars,
              callVars, ghostVars
<1>2. CASE Finished
  BY <1>1, <1>2 DEF Finished
<1>3. ASSUME NEW t \in Threads, Continue(t) PROVE TypeInv'
  BY <1>3, ContinueType
<1>4. ASSUME NEW t \in Threads, Application(t) PROVE TypeInv'
  BY <1>4, ApplicationType
<1> QED
  BY <1>1, <1>2, <1>3, <1>4 DEF Next

(* Every variable keeps its type, whatever the threads, the connections    *)
(* and the free-hand SQL of the application.                               *)
THEOREM TypeCorrect == Spec => []TypeOK
<1>1. TypeInv => TypeOK
  BY DEF TypeInv
<1> QED
  BY TypeInit, TypeStep, <1>1, PTL DEF Spec

-----------------------------------------------------------------------------
(* The mutex                                                               *)

(* Only the owner goes from lock to unlock, and nobody resets the mutex.   *)
LEMMA MutexStep ==
  ASSUME ~InitWhileBusy, TypeInv, OwnsMutex, [Next]_vars
  PROVE  OwnsMutex'
<1>1. CASE UNCHANGED vars
  BY <1>1 DEF OwnsMutex, Guarded, vars, callVars
<1>2. CASE Finished
  BY <1>1, <1>2 DEF Finished
<1>3. ASSUME NEW t \in Threads, Application(t) PROVE OwnsMutex'
  <2> PICK c \in Conns : \/ \E s \in Statements : StartTable(t, s, c)
                         \/ \E s \in FreeHand : StartFreeHand(t, s, c)
                         \/ OrmaInit(t, c)
                         \/ OrmaShutdown(t, c)
    BY <1>3 DEF Application
  <2>1. ASSUME NEW s, NEW label \in {"prepare", "exec"}, Start(t, s, c, label)
        PROVE  OwnsMutex'
    BY <2>1 DEF Start, Goto, OwnsMutex, Guarded, TypeInv, TypeOK
  <2>2. CASE OrmaInit(t, c)
    BY <2>2 DEF OrmaInit, OwnsMutex, Guarded, Idle
  <2>3. CASE OrmaShutdown(t, c)
    BY <2>3 DEF OrmaShutdown, OwnsMutex, Guarded, callVars
  <2> QED
    BY <2>1, <2>2, <2>3 DEF StartTable, StartFreeHand
<1>4. ASSUME NEW t \in Threads, Continue(t) PROVE OwnsMutex'
  <2>1. CASE Lock(t)
    BY <2>1 DEF Lock, Goto, OwnsMutex, Guarded, TypeInv, TypeOK
  <2>2. CASE Unlock(t)
    BY <2>2 DEF Unlock, Goto, OwnsMutex, Guarded, TypeInv, TypeOK
  <2>3. CASE BusyWait(t)
    BY <2>3 DEF BusyWait, OwnsMutex, Guarded, callVars
  <2>4. CASE Prepare(t) \/ Finalize(t)
    BY <2>4 DEF Prepare, Finalize, Goto, OwnsMutex, Guarded, TypeInv, TypeOK
  <2>5. CASE Step(t) \/ StepFails(t) \/ StepTimesOut(t) \/ Read(t)
    BY <2>5 DEF Step, StepFails, StepTimesOut, Read, Goto, OwnsMutex, Guarded,
                TypeInv, TypeOK
  <2>6. CASE ExecWrite(t) \/ ExecTimesOut(t) \/ ExecTransaction(t)
    BY <2>6 DEF ExecWrite, ExecTimesOut, ExecTransaction, ExecReturns, Goto,
                OwnsMutex, Guarded, TypeInv, TypeOK
  <2> QED
    BY <1>4, <2>1, <2>2, <2>3, <2>4, <2>5, <2>6 DEF Continue
<1> QED
  BY <1>1, <1>2, <1>3, <1>4 DEF Next

(* The mutex excludes: as long as no connection is opened while a call is  *)
(* running, at most one thread is between lock and unlock.                 *)
THEOREM MutexExcludes ==
  ASSUME ~InitWhileBusy
  PROVE  Spec => []MutualExclusion
<1>1. Init => OwnsMutex
  BY DEF Init, OwnsMutex, Guarded
<1>2. TypeInv /\ OwnsMutex /\ [Next]_vars => OwnsMutex'
  BY MutexStep
<1>3. OwnsMutex => MutualExclusion
  BY DEF OwnsMutex, MutualExclusion
<1> QED
  BY <1>1, <1>2, <1>3, TypeInit, TypeStep, PTL DEF Spec

-----------------------------------------------------------------------------
(* The row id of an insert                                                 *)

(* A call that reads takes its own row id, and a call that ends otherwise  *)
(* keeps the result it got.                                                *)
LEMMA InsertStep ==
  ASSUME ~InitWhileBusy, "insert" \notin FreeHand, InsertInv, [Next]_vars
  PROVE  LastRowidIsOwn' /\ InsertReturnsOwn'
<1> USE DEF InsertInv
<1>0. TypeInv
  BY DEF TypeInv
<1>1. CASE UNCHANGED vars
  BY <1>1 DEF LastRowidIsOwn, InsertReturnsOwn, Answered, vars, sqliteVars,
              callVars, ghostVars
<1>2. CASE Finished
  BY <1>1, <1>2 DEF Finished
<1>3. ASSUME NEW t \in Threads, Application(t)
      PROVE  LastRowidIsOwn' /\ InsertReturnsOwn'
  <2> PICK c \in Conns : \/ \E s \in Statements : StartTable(t, s, c)
                         \/ \E s \in FreeHand : StartFreeHand(t, s, c)
                         \/ OrmaInit(t, c)
                         \/ OrmaShutdown(t, c)
    BY <1>3 DEF Application
  <2>1. ASSUME NEW s, NEW label \in {"prepare", "exec"}, Start(t, s, c, label)
        PROVE  LastRowidIsOwn' /\ InsertReturnsOwn'
    BY <2>1 DEF Start, Goto, LastRowidIsOwn, InsertReturnsOwn, Answered, TypeOK,
                Calls, sqliteVars, ghostVars
  <2>2. CASE OrmaInit(t, c)
    BY <2>2 DEF OrmaInit, Idle, LastRowidIsOwn, InsertReturnsOwn, Answered,
                ghostVars
  <2>3. CASE OrmaShutdown(t, c)
    BY <2>3 DEF OrmaShutdown, CloseConn, LastRowidIsOwn, InsertReturnsOwn,
                Answered, callVars, ghostVars
  <2> QED
    BY <2>1, <2>2, <2>3 DEF StartTable, StartFreeHand
<1>4. ASSUME NEW t \in Threads, Continue(t)
      PROVE  LastRowidIsOwn' /\ InsertReturnsOwn'
  <2> DEFINE c == call[t].conn
             s == call[t].stmt
  <2>1. CASE Prepare(t)
    BY <2>1 DEF Prepare, Goto, LastRowidIsOwn, InsertReturnsOwn, Answered, TypeOK,
                sqliteVars
  <2>2. CASE Lock(t) \/ Unlock(t)
    BY <2>2 DEF Lock, Unlock, Goto, LastRowidIsOwn, InsertReturnsOwn, Answered,
                TypeOK, sqliteVars, ghostVars
  <2>3. CASE BusyWait(t)
    BY <2>3 DEF BusyWait, LastRowidIsOwn, InsertReturnsOwn, Answered, callVars,
                ghostVars
  <2>4. CASE Step(t)
    <3>1. c \in Conns /\ pc[t] = "step" /\ mutex = t
      BY <1>0, <2>4, RunningConn DEF Step, OwnsMutex, Guarded
    <3>2. \A u \in Threads : pc[u] = "read" => u = t
      BY <3>1 DEF OwnsMutex, Guarded
    <3>3. s = "insert" => lastRowid'[c] = own'[t]
      <4> SUFFICES ASSUME s = "insert" PROVE lastRowid'[c] = own'[t]
        OBVIOUS
      <4>1. PICK id \in RowIds : /\ Insert(c, id)
                                 /\ own' = [own EXCEPT ![t] = id]
        BY <2>4 DEF Step
      <4> QED
        BY <3>1, <4>1 DEF Insert, StepInsert, TypeOK, SqliteTypeOK
    <3>4. LastRowidIsOwn'
      BY <2>4, <3>1, <3>2, <3>3 DEF Step, Goto, LastRowidIsOwn, TypeOK
    <3>5. InsertReturnsOwn'
      BY <2>4, <3>1 DEF Step, Goto, InsertReturnsOwn, Answered, TypeOK
    <3> QED
      BY <3>4, <3>5
  <2>5. CASE StepFails(t)
    BY <2>5 DEF StepFails, StepError, Goto, LastRowidIsOwn, InsertReturnsOwn,
                Answered, TypeOK
  <2>6. CASE StepTimesOut(t)
    BY <2>6 DEF StepTimesOut, StepBusy, Goto, LastRowidIsOwn, InsertReturnsOwn,
                Answered, TypeOK
  <2>7. CASE Read(t)
    BY <2>7 DEF Read, Goto, LastRowidIsOwn, InsertReturnsOwn, Answered, TypeOK,
                sqliteVars, ghostVars
  <2>8. CASE Finalize(t)
    BY <2>8 DEF Finalize, FinalizeStmt, Goto, LastRowidIsOwn, InsertReturnsOwn,
                Answered, TypeOK, ghostVars
  <2>9. CASE ExecWrite(t)
    <3>1. s # "insert"
      BY <2>9 DEF ExecWrite, CallInv
    <3>2. UNCHANGED lastRowid
      BY <2>9, <3>1 DEF ExecWrite, Modify, StepModify, StepError
    <3> QED
      BY <2>9, <3>1, <3>2 DEF ExecWrite, ExecReturns, Goto, LastRowidIsOwn,
                        InsertReturnsOwn, Answered, TypeOK
  <2>10. CASE ExecTimesOut(t)
    BY <2>10 DEF ExecTimesOut, ExecReturns, Goto, CallInv, LastRowidIsOwn,
                 InsertReturnsOwn, Answered, TypeOK
  <2>11. CASE ExecTransaction(t)
    BY <2>11 DEF ExecTransaction, CallInv, ExecReturns, BeginTx, CommitTx, RollbackTx, Goto,
                 LastRowidIsOwn, InsertReturnsOwn, Answered, TypeOK
  <2> QED
    BY <1>4, <2>1, <2>2, <2>3, <2>4, <2>5, <2>6, <2>7, <2>8, <2>9, <2>10, <2>11
    DEF Continue
<1> QED
  BY <1>1, <1>2, <1>3, <1>4 DEF Next

(* Threads may share connections: as long as nobody opens one while a call *)
(* is running and no free-hand SQL inserts, InsertInv is kept by every     *)
(* step: an insert's row id is safe from its step until it is read.        *)
THEOREM InsertInvariant ==
  ASSUME ~InitWhileBusy, "insert" \notin FreeHand
  PROVE  Spec => []InsertInv
<1>1. Init => InsertInv
  BY TypeInit DEF Init, InsertInv, TypeInv, OwnsMutex, Guarded, LastRowidIsOwn,
                  InsertReturnsOwn
<1>2. InsertInv /\ [Next]_vars => InsertInv'
  <2> SUFFICES ASSUME InsertInv, [Next]_vars PROVE InsertInv'
    OBVIOUS
  <2>1. TypeInv'
    <3>1. TypeInv
      BY DEF InsertInv, TypeInv
    <3> QED
      BY <3>1, TypeStep
  <2>2. OwnsMutex'
    BY MutexStep DEF InsertInv, TypeInv
  <2> QED
    BY <2>1, <2>2, InsertStep DEF InsertInv, TypeInv
<1> QED
  BY <1>1, <1>2, PTL DEF Spec

(* So the row id an insert returns is that of the row it inserted.         *)
THEOREM InsertOwn ==
  ASSUME ~InitWhileBusy, "insert" \notin FreeHand
  PROVE  Spec => []InsertReturnsOwn
<1>1. InsertInv => InsertReturnsOwn
  BY DEF InsertInv
<1> QED
  BY <1>1, InsertInvariant, PTL

-----------------------------------------------------------------------------
(* Linearizability: OrmaExec implements AtomicTable, step by step          *)

(* What the refinement needs of a state: until it is read the result of a  *)
(* call is there, and a BUSY statement has nothing to roll back.           *)
RefInv == /\ TypeInv
          /\ CounterIsOwn
          /\ \A c \in Conns : stalled[c] # {} /\ writer = c => ~autocommit[c]

(* The abstract state, by name. *)
Phase(t) == IF Idle(t) THEN "idle"
            ELSE IF pc[t] \in {"prepare", "lock", "step", "exec"}
                 THEN "called" ELSE "done"
Outcome(t) == IF pc[t] = "read" THEN own[t] ELSE ret[t]

TPhase == [t \in Threads |-> Phase(t)]
TResult == [t \in Threads |-> Outcome(t)]
TVars == <<Latest, TPhase, TResult>>

(* AtomicTable counts as everybody does. *)
LEMMA CardinalityIs == \A S : Table!Cardinality(S) = Cardinality(S)
BY DEF Table!Cardinality, Cardinality

(* The empty table, with nothing called. *)
LEMMA RefineInit == Init => Table!Init
BY DEF Init, SqliteInit, Table!Init, Latest, Idle

(* A step of thread t moves t alone in the abstract state. *)
LEMMA ThreadStep ==
  ASSUME TypeInv, NEW t \in Threads, NEW label \in PCs, Goto(t, label),
         ret' = [ret EXCEPT ![t] = ret'[t]], own' = [own EXCEPT ![t] = own'[t]]
  PROVE  /\ pc'[t] = label
         /\ TPhase[t] = Phase(t)
         /\ TPhase' = [TPhase EXCEPT ![t] = Phase(t)']
         /\ TResult[t] = Outcome(t)
         /\ TResult' = [TResult EXCEPT ![t] = Outcome(t)']
<1>1. \A u \in Threads : /\ pc'[u] = IF u = t THEN label ELSE pc[u]
                         /\ u # t => ret'[u] = ret[u] /\ own'[u] = own[u]
  BY DEF Goto, TypeInv, TypeOK
<1>2. \A u \in Threads : u # t => Phase(u)' = Phase(u) /\ Outcome(u)' = Outcome(u)
  BY <1>1 DEF Phase, Idle, Outcome
<1> QED BY <1>1, <1>2 DEF TPhase, TResult

(* A row id, a count or an error code is an answer of the abstract table. *)
LEMMA AnswerStep ==
  ASSUME TypeInv, NEW t \in Threads, NEW label \in {"read", "unlock", "finalize"},
         Goto(t, label), pc[t] \in {"prepare", "step"},
         ret' = [ret EXCEPT ![t] = ret'[t]], own' = [own EXCEPT ![t] = own'[t]]
  PROVE  \A value : value = (IF label = "read" THEN own'[t] ELSE ret'[t])
                     => Table!Answer(t, value)
<1>1. label \in PCs
  BY DEF PCs
<1>2. Phase(t) = "called" /\ Phase(t)' = "done"
  BY <1>1, ThreadStep DEF Phase, Idle
<1> QED
  BY <1>1, <1>2, ThreadStep
  DEF Table!Answer, Table!Move, TPhase, TResult, Phase, Outcome

(* A write statement that runs sees the newest table and leaves new.       *)
LEMMA LatestStored ==
  ASSUME NEW c \in Conns, CanWrite(c), NEW new, Store(c, new)
  PROVE  View(c) = Latest /\ Latest' = new
BY DEF CanWrite, Store, View, Latest

(* A call that does not end and touches neither table nor result stutters, *)
LEMMA Stutter ==
  ASSUME RefInv, NEW t \in Threads,
         \/ Prepare(t) /\ Goto(t, "lock")
         \/ Lock(t) \/ BusyWait(t) \/ Read(t) \/ Unlock(t)
  PROVE  UNCHANGED TVars
<1>1. Latest' = Latest
  BY DEF Prepare, Lock, BusyWait, Read, Unlock, sqliteVars, Latest
<1>2. CASE BusyWait(t)
  BY <1>1, <1>2 DEF BusyWait, callVars, ghostVars, TVars, TPhase, TResult, Phase,
                    Idle, Outcome
<1>3. ASSUME ~BusyWait(t) PROVE UNCHANGED <<TPhase, TResult>>
  <2>1. PICK label \in PCs : Goto(t, label)
    BY <1>3 DEF Prepare, Lock, Read, Unlock, PCs
  <2>2. ret' = [ret EXCEPT ![t] = ret'[t]] /\ own' = [own EXCEPT ![t] = own'[t]]
    BY <1>3 DEF Prepare, Lock, Read, Unlock, ghostVars, RefInv, TypeInv, TypeOK
  <2>3. /\ TPhase[t] = Phase(t)
        /\ TPhase' = [TPhase EXCEPT ![t] = Phase(t)']
        /\ TResult[t] = Outcome(t)
        /\ TResult' = [TResult EXCEPT ![t] = Outcome(t)']
    BY <2>1, <2>2, ThreadStep DEF RefInv
  <2>4. Phase(t)' = Phase(t) /\ Outcome(t)' = Outcome(t)
    <3>1. CASE Prepare(t) /\ Goto(t, "lock")
      <4>1. pc'[t] = "lock"
        BY <3>1 DEF Goto, RefInv, TypeInv, TypeOK
      <4>2. UNCHANGED <<ret, own>> /\ pc[t] = "prepare"
        BY <3>1, <4>1 DEF Prepare, Goto, RefInv, TypeInv, TypeOK
      <4> QED
        BY <4>1, <4>2 DEF Phase, Idle, Outcome
    <3>2. CASE Lock(t) \/ Unlock(t)
      BY <3>2 DEF Lock, Unlock, Goto, ghostVars, RefInv, TypeInv, TypeOK, Phase,
                  Idle, Outcome
    <3>3. CASE Read(t)
      BY <3>3 DEF Read, Goto, ghostVars, RefInv, CounterIsOwn, TypeInv, TypeOK,
                  Phase, Idle, Outcome
    <3> QED
      BY <1>3, <3>1, <3>2, <3>3
  <2> QED
    BY <2>3, <2>4 DEF TPhase, TResult
<1> QED
  BY <1>1, <1>2, <1>3 DEF TVars

(* The step of a statement is its effect on the abstract table, ...        *)
LEMMA StepRefines ==
  ASSUME RefInv, NEW t \in Threads, Step(t)
  PROVE  Table!Insert(t) \/ Table!Modify(t)
<1> DEFINE c == call[t].conn
           s == call[t].stmt
<1>1. TypeInv /\ pc[t] = "step" /\ CanWrite(c) /\ UNCHANGED ret
  BY DEF Step, StepRuns, RefInv
<1>2. c \in Conns
  BY <1>1, RunningConn
<1>3. ASSUME NEW value, own' = [own EXCEPT ![t] = value]
      PROVE  Table!Answer(t, value)
  <2>1. own'[t] = value /\ own' = [own EXCEPT ![t] = own'[t]]
    BY <1>1, <1>3 DEF TypeInv, TypeOK
  <2>2. ret' = [ret EXCEPT ![t] = ret'[t]] /\ Goto(t, "read")
    BY <1>1 DEF TypeInv, TypeOK, Step
  <2> QED
    BY <1>1, <2>1, <2>2, AnswerStep
<1>4. ASSUME NEW id \in RowIds, Insert(c, id), own' = [own EXCEPT ![t] = id]
      PROVE  Table!Insert(t)
  <2>1. Store(c, View(c) \cup {id}) /\ \A r \in View(c) : r < id
    BY <1>4 DEF Insert, StepInsert, IsNextRowid
  <2>2. View(c) = Latest /\ Latest' = View(c) \cup {id}
    BY <1>1, <1>2, <2>1, LatestStored
  <2>3. Table!Answer(t, id)
    BY <1>3, <1>4
  <2> QED
    BY <2>1, <2>2, <2>3 DEF Table!Insert, RowIds
<1>5. ASSUME NEW hit \in SUBSET View(c), Modify(c, s, hit),
             own' = [own EXCEPT ![t] = Cardinality(hit)]
      PROVE  Table!Modify(t)
  <2> DEFINE gone == IF s = "delete" THEN hit ELSE {}
  <2>1. Store(c, View(c) \ gone)
    BY <1>5 DEF Modify, StepModify
  <2>2. View(c) = Latest /\ Latest' = View(c) \ gone
    BY <1>1, <1>2, <2>1, LatestStored
  <2>3. Table!Answer(t, Cardinality(hit))
    BY <1>3, <1>5
  <2>4. hit \in SUBSET Latest /\ Latest' \in {Latest, Latest \ hit}
    BY <2>2
  <2>5. \E h \in SUBSET Latest : /\ Latest' \in {Latest, Latest \ h}
                                 /\ Table!Answer(t, Cardinality(h))
    BY Zenon, <2>3, <2>4
  <2> QED
    BY <2>5, CardinalityIs DEF Table!Modify
<1> QED
  BY <1>4, <1>5 DEF Step

(* ... a call that fails changes nothing, ...                              *)
LEMMA FailRefines ==
  ASSUME RefInv, NEW t \in Threads,
         \/ Prepare(t) /\ ~Goto(t, "lock")
         \/ StepFails(t) \/ StepTimesOut(t)
  PROVE  Table!Fail(t)
<1>1. PICK label \in {"unlock", "finalize"} :
        Goto(t, label) /\ pc[t] \in {"prepare", "step"}
  BY DEF Prepare, StepFails, StepTimesOut
<1>2. PICK code \in {-2, -3} : ret' = [ret EXCEPT ![t] = code]
                             /\ own' = [own EXCEPT ![t] = code]
  BY DEF Prepare, StepFails, StepTimesOut
<1>3. ret'[t] = code /\ ret' = [ret EXCEPT ![t] = ret'[t]]
      /\ own' = [own EXCEPT ![t] = own'[t]]
  BY <1>2 DEF RefInv, TypeInv, TypeOK
<1>4. Table!Answer(t, code)
  BY <1>1, <1>3, AnswerStep DEF RefInv
<1>5. Latest' = Latest
  <2>1. CASE Prepare(t) \/ StepTimesOut(t)
    BY <2>1 DEF Prepare, StepTimesOut, StepBusy, sqliteVars, Latest
  <2>2. CASE StepFails(t)
    <3>1. call[t].conn \in Conns
      BY <2>2, RunningConn DEF StepFails, RefInv
    <3> QED
      BY <2>2, <3>1, LatestStored DEF StepFails, StepRuns, StepError
  <2> QED
    BY <2>1, <2>2
<1> QED
  BY <1>4, <1>5 DEF Table!Fail

(* ... the return leaves the table, for a BUSY statement had no change     *)
(* pending, ...                                                            *)
LEMMA ReturnRefines ==
  ASSUME RefInv, NEW t \in Threads, Finalize(t)
  PROVE  Table!Return(t)
<1> DEFINE c == call[t].conn
<1>1. TypeInv /\ pc[t] = "finalize" /\ Goto(t, "idle") /\ FinalizeStmt(t, c)
      /\ UNCHANGED <<ret, own>>
  BY DEF Finalize, RefInv, ghostVars
<1>2. c \in Conns
  BY <1>1, RunningConn
<1>3. UNCHANGED <<rows, writer, work>>
  BY <1>1, <1>2 DEF FinalizeStmt, RefInv
<1>4. ret' = [ret EXCEPT ![t] = ret'[t]] /\ own' = [own EXCEPT ![t] = own'[t]]
  BY <1>1 DEF TypeInv, TypeOK
<1>5. /\ pc'[t] = "idle"
      /\ TPhase[t] = Phase(t)
      /\ TPhase' = [TPhase EXCEPT ![t] = Phase(t)']
      /\ TResult[t] = Outcome(t)
      /\ TResult' = [TResult EXCEPT ![t] = Outcome(t)']
  BY <1>1, <1>4, ThreadStep DEF PCs
<1>6. Phase(t) = "done" /\ Phase(t)' = "idle" /\ Outcome(t)' = Outcome(t)
  BY <1>1, <1>5 DEF Phase, Idle, Outcome
<1>7. UNCHANGED TResult
  BY <1>5, <1>6 DEF TResult
<1> QED
  BY <1>3, <1>5, <1>6, <1>7
  DEF Table!Return, Table!Move, TPhase, TResult, Phase, Outcome, Latest

(* ... free-hand SQL does what it likes with the table, ...                *)
LEMMA ExecRefines ==
  ASSUME RefInv, NEW t \in Threads, [Next]_vars,
         ExecWrite(t) \/ ExecTimesOut(t) \/ ExecTransaction(t)
  PROVE  Table!FreeHandSql(t)
<1>1. TypeInv /\ pc[t] = "exec" /\ Goto(t, "idle") /\ UNCHANGED <<ret, own>>
  BY DEF ExecWrite, ExecTimesOut, ExecTransaction, ExecReturns, RefInv
<1>2. Latest' \in SUBSET RowIds
  BY <1>1, TypeStep DEF TypeInv, TypeOK, SqliteTypeOK, Latest
<1>3. ret' = [ret EXCEPT ![t] = ret'[t]] /\ own' = [own EXCEPT ![t] = own'[t]]
  BY <1>1 DEF TypeInv, TypeOK
<1>4. /\ pc'[t] = "idle"
      /\ TPhase[t] = Phase(t)
      /\ TPhase' = [TPhase EXCEPT ![t] = Phase(t)']
      /\ TResult[t] = Outcome(t)
      /\ TResult' = [TResult EXCEPT ![t] = Outcome(t)']
  BY <1>1, <1>3, ThreadStep DEF PCs
<1>5. Phase(t) = "called" /\ Phase(t)' = "idle" /\ Outcome(t)' = Outcome(t)
  BY <1>1, <1>4 DEF Phase, Idle, Outcome
<1>6. UNCHANGED TResult
  BY <1>4, <1>5 DEF TResult
<1> QED
  BY <1>2, <1>4, <1>5, <1>6
  DEF Table!FreeHandSql, Table!Move, TPhase, TResult, Phase, Outcome, RowIds

(* ... and the application calls, opens and closes.                        *)
LEMMA ApplicationRefines ==
  ASSUME RefInv, NEW t \in Threads, [Next]_vars, Application(t)
  PROVE  Table!Call(t) \/ Table!Shutdown \/ UNCHANGED TVars
<1> PICK c \in Conns : \/ \E s \in Statements : StartTable(t, s, c)
                       \/ \E s \in FreeHand : StartFreeHand(t, s, c)
                       \/ OrmaInit(t, c)
                       \/ OrmaShutdown(t, c)
  BY DEF Application
<1>1. ASSUME NEW s, NEW label \in {"prepare", "exec"}, Start(t, s, c, label)
      PROVE  Table!Call(t)
  <2>1. /\ TypeInv /\ pc[t] = "idle" /\ Goto(t, label) /\ label \in PCs
        /\ UNCHANGED <<ret, own, sqliteVars>>
    BY <1>1 DEF Start, Idle, RefInv, ghostVars, PCs
  <2>2. ret' = [ret EXCEPT ![t] = ret'[t]] /\ own' = [own EXCEPT ![t] = own'[t]]
    BY <2>1 DEF TypeInv, TypeOK
  <2>3. /\ pc'[t] = label
        /\ TPhase[t] = Phase(t)
        /\ TPhase' = [TPhase EXCEPT ![t] = Phase(t)']
        /\ TResult[t] = Outcome(t)
        /\ TResult' = [TResult EXCEPT ![t] = Outcome(t)']
    BY <2>1, <2>2, ThreadStep
  <2>4. Phase(t) = "idle" /\ Phase(t)' = "called" /\ Outcome(t)' = Outcome(t)
    BY <2>1, <2>3 DEF Phase, Idle, Outcome
  <2>5. UNCHANGED <<TResult, Latest>>
    BY <2>1, <2>3, <2>4 DEF TResult, Latest, sqliteVars
  <2> QED
    BY <2>3, <2>4, <2>5 DEF Table!Call, Table!Move, TPhase, TResult, Phase, Outcome
<1>2. CASE OrmaInit(t, c)
  BY <1>2 DEF OrmaInit, OpenConn, ghostVars, TVars, TPhase, TResult, Phase, Idle,
              Outcome, Latest
<1>3. CASE OrmaShutdown(t, c)
  <2>1. Latest' \in SUBSET RowIds
    BY TypeStep DEF RefInv, TypeInv, TypeOK, SqliteTypeOK, Latest
  <2>2. TPhase[t] = "idle" /\ UNCHANGED <<TPhase, TResult>>
    BY <1>3 DEF OrmaShutdown, callVars, ghostVars, TPhase, TResult, Phase, Idle,
                Outcome
  <2> QED
    BY <2>1, <2>2 DEF Table!Shutdown, TPhase, TResult, Phase, Outcome, RowIds
<1> QED
  BY <1>1, <1>2, <1>3 DEF StartTable, StartFreeHand

(* Every step is one of the abstract table, or a stutter.                  *)
LEMMA RefineStep ==
  ASSUME RefInv, [Next]_vars
  PROVE  [Table!Next]_(Table!vars)
<1>1. CASE UNCHANGED vars \/ Finished
  BY <1>1 DEF Finished, vars, sqliteVars, callVars, ghostVars, Table!vars, Latest,
              Idle
<1>2. ASSUME NEW t \in Threads, Application(t)
      PROVE  [Table!Next]_(Table!vars)
  BY <1>2, ApplicationRefines
  DEF Table!Next, Table!vars, TVars, TPhase, TResult, Phase, Outcome
<1>3. ASSUME NEW t \in Threads, Continue(t)
      PROVE  [Table!Next]_(Table!vars)
  <2>1. \/ Table!Insert(t) \/ Table!Modify(t) \/ Table!Fail(t)
        \/ Table!Return(t) \/ Table!FreeHandSql(t) \/ UNCHANGED TVars
    BY <1>3, Stutter, StepRefines, FailRefines, ReturnRefines, ExecRefines
    DEF Continue
  <2> QED
    BY <2>1 DEF Table!Next, Table!vars, TVars, TPhase, TResult, Phase, Outcome
<1> QED
  BY <1>1, <1>2, <1>3 DEF Next

-----------------------------------------------------------------------------
(* One connection for the whole application                                *)

(* All threads work on the same connection. *)
OneConn == \A c, d \in Conns : c = d

(* The inductive invariant: no statement was ever refused with BUSY, and   *)
(* who reads a counter owns the mutex.                                     *)
SharedInv == /\ TypeInv
             /\ OwnsMutex
             /\ \A c \in Conns : stalled[c] = {}
             /\ CounterIsOwn

(* Nothing runs. *)
LEMMA SharedInit == Init => SharedInv
BY TypeInit DEF Init, SqliteInit, SharedInv, OwnsMutex, Guarded, CounterIsOwn

(* The one connection never waits for the write lock. *)
LEMMA NeverBusy ==
  ASSUME OneConn, TypeInv, NEW t \in Threads, pc[t] # "idle"
  PROVE  CanWrite(call[t].conn)
BY RunningConn DEF OneConn, TypeInv, TypeOK, SqliteTypeOK, CanWrite

(* A counter that is still to be read changes in no other thread's step:   *)
(* table calls need the mutex, and free-hand SQL here changes no rows.     *)
LEMMA SharedContinue ==
  ASSUME OneConn, FreeHand \cap {"insert", "delete"} = {}, SharedInv,
         NEW t \in Threads, Continue(t)
  PROVE  (\A d \in Conns : stalled'[d] = {}) /\ CounterIsOwn'
<1> DEFINE c == call[t].conn
           s == call[t].stmt
<1> USE DEF SharedInv
<1>1. TypeOK /\ pc[t] # "idle"
  BY DEF TypeInv, Continue, Prepare, Lock, BusyWait, Step, StepFails,
         StepTimesOut, Read, Unlock, Finalize, ExecWrite, ExecTimesOut,
         ExecTransaction
<1>2. c \in Conns /\ CanWrite(c)
  BY <1>1, RunningConn, NeverBusy
<1>3. CASE Prepare(t) \/ Lock(t) \/ Unlock(t)
  BY <1>1, <1>3 DEF Prepare, Lock, Unlock, Goto, CounterIsOwn, TypeOK,
                    sqliteVars, ghostVars
<1>4. CASE BusyWait(t) \/ StepTimesOut(t) \/ ExecTimesOut(t)
  BY <1>2, <1>4 DEF BusyWait, StepTimesOut, ExecTimesOut
<1>5. CASE Step(t)
  <2>1. \A u \in Threads : pc[u] = "read" => u = t
    BY <1>5 DEF Step, OwnsMutex, Guarded
  <2>2. UNCHANGED <<stalled, ret, call>> /\ Goto(t, "read")
    BY <1>5 DEF Step, Insert, StepInsert, Modify, StepModify
  <2>3. own'[t] = IF s = "insert" THEN lastRowid'[c] ELSE changes'[c]
    <3>1. ASSUME s = "insert", NEW id \in RowIds, Insert(c, id),
                 own' = [own EXCEPT ![t] = id]
          PROVE  own'[t] = lastRowid'[c]
      BY <1>1, <1>2, <3>1 DEF Insert, StepInsert, TypeOK, SqliteTypeOK
    <3>2. ASSUME s # "insert", NEW hit, Modify(c, s, hit),
                 own' = [own EXCEPT ![t] = Cardinality(hit)]
          PROVE  own'[t] = changes'[c]
      BY <1>1, <1>2, <3>2 DEF Modify, StepModify, TypeOK, SqliteTypeOK
    <3> QED
      BY <1>5, <3>1, <3>2 DEF Step
  <2>4. \A u \in Threads : u # t => own'[u] = own[u]
    BY <1>1, <1>5 DEF Step, TypeOK
  <2> QED
    BY <1>1, <2>1, <2>2, <2>3, <2>4 DEF Goto, CounterIsOwn, TypeOK
<1>6. CASE StepFails(t)
  <2>1. \A u \in Threads : pc[u] = "read" => u = t
    BY <1>6 DEF StepFails, OwnsMutex, Guarded
  <2> QED
    BY <1>1, <1>6, <2>1 DEF StepFails, StepError, Goto, CounterIsOwn, TypeOK
<1>7. CASE Read(t)
  BY <1>1, <1>7 DEF Read, Goto, CounterIsOwn, TypeOK, sqliteVars, ghostVars
<1>8. CASE Finalize(t)
  BY <1>1, <1>2, <1>8 DEF Finalize, FinalizeStmt, Goto, CounterIsOwn, TypeOK,
                          ghostVars
<1>9. CASE ExecWrite(t)
  BY <1>9 DEF ExecWrite, TypeInv, CallInv
<1>10. CASE ExecTransaction(t)
  BY <1>1, <1>10 DEF ExecTransaction, ExecReturns, BeginTx, CommitTx,
                     RollbackTx, Goto, CounterIsOwn, TypeOK
<1> QED
  BY <1>3, <1>4, <1>5, <1>6, <1>7, <1>8, <1>9, <1>10 DEF Continue

(* Starting a call, opening and closing the connection. *)
LEMMA SharedApplication ==
  ASSUME ~InitWhileBusy, SharedInv, NEW t \in Threads, Application(t)
  PROVE  (\A d \in Conns : stalled'[d] = {}) /\ CounterIsOwn'
<1> USE DEF SharedInv
<1> PICK c \in Conns : \/ \E s \in Statements : StartTable(t, s, c)
                       \/ \E s \in FreeHand : StartFreeHand(t, s, c)
                       \/ OrmaInit(t, c)
                       \/ OrmaShutdown(t, c)
  BY DEF Application
<1>1. ASSUME NEW s, NEW label \in {"prepare", "exec"}, Start(t, s, c, label)
      PROVE  (\A d \in Conns : stalled'[d] = {}) /\ CounterIsOwn'
  BY <1>1 DEF Start, Goto, Idle, CounterIsOwn, TypeInv, TypeOK, sqliteVars,
              ghostVars
<1>2. CASE OrmaInit(t, c)
  BY <1>2 DEF OrmaInit, OpenConn, Idle, CounterIsOwn, ghostVars
<1>3. CASE OrmaShutdown(t, c)
  BY <1>3 DEF OrmaShutdown, CloseConn, CounterIsOwn, callVars, ghostVars
<1> QED
  BY <1>1, <1>2, <1>3 DEF StartTable, StartFreeHand

(* Together: every step. *)
LEMMA SharedStep ==
  ASSUME OneConn, ~InitWhileBusy, FreeHand \cap {"insert", "delete"} = {},
         SharedInv, [Next]_vars
  PROVE  SharedInv'
<1>1. TypeInv' /\ OwnsMutex'
  BY TypeStep, MutexStep DEF SharedInv
<1>2. CASE UNCHANGED vars \/ Finished
  BY <1>1, <1>2 DEF SharedInv, CounterIsOwn, Finished, vars, sqliteVars,
                    callVars, ghostVars
<1>3. ASSUME NEW t \in Threads, Continue(t) \/ Application(t) PROVE SharedInv'
  BY <1>1, <1>3, SharedContinue, SharedApplication DEF SharedInv
<1> QED
  BY <1>2, <1>3 DEF Next

(* Threads that share the only connection: as long as the connection is    *)
(* not opened while a call is running and no free-hand SQL inserts or      *)
(* deletes, every insert, update and delete returns its own row id or      *)
(* count.                                                                  *)
THEOREM SharedResults ==
  ASSUME OneConn, ~InitWhileBusy, FreeHand \cap {"insert", "delete"} = {}
  PROVE  Spec => [](InsertReturnsOwn /\ ExecuteReturnsOwn)
<1>1. SharedInv /\ [Next]_vars => SharedInv'
  BY SharedStep
<1>2. SharedInv => InsertReturnsOwn /\ ExecuteReturnsOwn
  BY DEF SharedInv, CounterIsOwn, InsertReturnsOwn, ExecuteReturnsOwn, Answered
<1> QED
  BY SharedInit, <1>1, <1>2, PTL DEF Spec

(* Under the same conditions the calls are linearizable: the threads see   *)
(* the table of a program whose calls take effect one at a time, at once.  *)
THEOREM SharedLinearizable ==
  ASSUME OneConn, ~InitWhileBusy, FreeHand \cap {"insert", "delete"} = {}
  PROVE  Spec => IsLinearizable
<1>1. SharedInv /\ [Next]_vars => SharedInv'
  BY SharedStep
<1>2. SharedInv => RefInv
  BY DEF SharedInv, RefInv
<1>3. RefInv /\ [Next]_vars => [Table!Next]_(Table!vars)
  BY RefineStep
<1> QED
  BY SharedInit, RefineInit, <1>1, <1>2, <1>3, PTL
  DEF IsLinearizable, Table!Spec, Spec
=============================================================================
