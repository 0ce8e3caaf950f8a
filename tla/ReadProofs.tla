----------------------------- MODULE ReadProofs -----------------------------
(* Theorems about OrmaRead, for any threads, connections, rows and bounds, *)
(* in both journal modes.                                                  *)
EXTENDS OrmaRead, FiniteSetTheorems, TLAPS

USE NamesAssumption, MaxRowidAssumption, ConnOfAssumption, OpsOfAssumption,
    BoundsAssumption, StoredAssumption

-----------------------------------------------------------------------------
(* Types                                                                   *)

LockTypes ==
  /\ rows \in SUBSET RowIds /\ work \in SUBSET RowIds
  /\ writer \in Conns \cup {NoConn} /\ pending \in Conns \cup {NoConn}
  /\ shared \in SUBSET Conns /\ stale \in SUBSET shared
  /\ snap \in [Conns -> SUBSET RowIds]

(* What a statement sees can be counted. *)
LEMMA CountType ==
  ASSUME NEW S \in SUBSET RowIds
  PROVE  Cardinality(S) \in Nat
<1>1. IsFiniteSet(RowIds)
  BY FS_Interval DEF RowIds
<1> QED
  BY <1>1, FS_Subset, FS_CardinalityType

(* A connection sees a table of row ids, before and after a step. *)
LEMMA ViewType ==
  /\ LockTypes => \A c \in Conns : View(c) \in SUBSET RowIds
  /\ LockTypes' => \A c \in Conns : View(c)' \in SUBSET RowIds
BY DEF LockTypes, View

(* The operations on the locks keep the types. *)
LEMMA LocksStepType ==
  ASSUME LockTypes, NEW c \in Conns, NEW new \in SUBSET RowIds,
         NEW needed \in BOOLEAN,
         \/ Share(c)
         \/ Leave(c, needed) /\ UNCHANGED <<rows, writer, work, pending>>
         \/ Reserve(c, new, needed)
         \/ Commit(c, new, needed)
         \/ RollBack(c, needed)
         \/ UNCHANGED locks
  PROVE  LockTypes'
<1> USE DEF LockTypes
<1>1. CASE Share(c)
  BY <1>1 DEF Share
<1>2. CASE Leave(c, needed) /\ UNCHANGED <<rows, writer, work, pending>>
  BY <1>2 DEF Leave
<1>3. CASE Reserve(c, new, needed)
  BY <1>3 DEF Reserve
<1>4. CASE Commit(c, new, needed)
  BY <1>4 DEF Commit
<1>5. CASE RollBack(c, needed)
  BY <1>5 DEF RollBack, Leave
<1>6. CASE UNCHANGED locks
  BY <1>6 DEF locks
<1> QED
  BY <1>1, <1>2, <1>3, <1>4, <1>5, <1>6

(* What a write would make of the table is a table. *)
LEMMA ResultType ==
  ASSUME LockTypes, NEW t \in Threads
  PROVE  Result(t) \subseteq SUBSET RowIds
<1>1. ConnOf[t] \in Conns
  OBVIOUS
<1>2. View(ConnOf[t]) \in SUBSET RowIds
  BY <1>1, ViewType
<1> QED
  BY <1>2 DEF Result

(* The ghosts are sets of rows and of tables. *)
GhostTypes ==
  /\ shares \subseteq Threads
  /\ stay \in [Threads -> SUBSET RowIds] /\ ever \in [Threads -> SUBSET RowIds]
  /\ states \in [Threads -> SUBSET SUBSET RowIds]

(* What a step records in the ghosts is of their types. *)
LEMMA ObserveType ==
  ASSUME LockTypes', GhostTypes, Observe
  PROVE  GhostTypes'
<1>1. \A t \in Threads : View(ConnOf[t])' \in SUBSET RowIds
  <2>1. \A t \in Threads : ConnOf[t] \in Conns
    OBVIOUS
  <2>2. \A c \in Conns : View(c)' \in SUBSET RowIds
    BY ViewType
  <2> QED
    BY <2>1, <2>2
<1>2. rows' \in SUBSET RowIds
  BY DEF LockTypes
<1>3. shares' \subseteq Threads
  BY DEF Observe
<1>4. stay' \in [Threads -> SUBSET RowIds] /\ ever' \in [Threads -> SUBSET RowIds]
  BY <1>1 DEF Observe, Track, GhostTypes
<1>5. states' \in [Threads -> SUBSET SUBSET RowIds]
  BY <1>2 DEF Observe, Track, GhostTypes
<1> QED
  BY <1>3, <1>4, <1>5 DEF GhostTypes

(* Where a thread is in its call: a SELECT that is stepped is there, only  *)
(* read calls have one that is active, and a list only grows in a call.    *)
PcInv ==
  \A t \in Threads :
    /\ pc[t] = "step" => t \in stmts
    /\ pc[t] \in {"step", "finalize"} => op[t] \in Reads
    /\ t \in reading => pc[t] \in {"step", "finalize"}
    /\ list[t] # {} => pc[t] \in {"step", "finalize"}

TypeInv == TypeOK /\ PcInv

(* The types hold at the start. *)
LEMMA TypeInit == Init => TypeInv
BY DEF Init, LocksInit, TypeInv, TypeOK, LocksTypeOK, PcInv

(* What a step knows of the thread and the connection it is about. *)
CallTypes ==
  /\ wal \in BOOLEAN
  /\ autocommit \in [Conns -> BOOLEAN]
  /\ waiter \in [Conns -> Threads \cup {NoThread}]
  /\ handle \in [Conns -> {"open", "closed", "leaked"}]
  /\ op \in [Threads -> Ops \cup {"none"}]
  /\ pc \in [Threads -> {"idle", "step", "write", "commit", "finalize"}]
  /\ reading \subseteq stmts /\ stmts \subseteq Threads
  /\ list \in [Threads -> SUBSET RowIds]
  /\ ret \in [Threads -> Int]
  /\ budget \in [calls : Nat, faults : Nat]
  /\ failed \subseteq Threads

(* The types are those of the locks, of the calls and of the ghosts. *)
LEMMA TypeParts ==
  /\ TypeOK <=> LockTypes /\ CallTypes /\ GhostTypes
  /\ TypeOK' <=> LockTypes' /\ CallTypes' /\ GhostTypes'
BY DEF TypeOK, LocksTypeOK, LockTypes, CallTypes, GhostTypes

(* A call goes on: its locks are ... *)
LEMMA ContinueLocks ==
  ASSUME TypeInv, NEW t \in Threads, Continue(t)
  PROVE  LockTypes'
<1> DEFINE c == ConnOf[t]
<1>1. LockTypes /\ c \in Conns
  BY TypeParts DEF TypeInv
<1>2. CASE StepRow(t) \/ StepCount(t)
  BY <1>1, <1>2, LocksStepType DEF StepRow, StepCount
<1>3. CASE StepDone(t)
  <2>1. \/ Share(c) \/ UNCHANGED locks
        \/ Leave(c, Needed(t)) /\ UNCHANGED <<rows, writer, work, pending>>
    BY <1>3 DEF StepDone
  <2>2. Needed(t) \in BOOLEAN
    BY DEF Needed
  <2> QED
    BY <1>1, <2>1, <2>2, LocksStepType
<1>4. CASE StepSleep(t) \/ StepBusy(t) \/ WriteFails(t)
  BY <1>1, <1>4, LocksStepType DEF StepSleep, StepBusy, WriteFails
<1>5. CASE StepError(t) \/ Finalize(t)
  <2>1. (t \notin reading \/ Needed(t)) \in BOOLEAN
    OBVIOUS
  <2>2. /\ Leave(c, t \notin reading \/ Needed(t))
        /\ UNCHANGED <<rows, writer, work, pending>>
    BY <1>5 DEF StepError, Finalize
  <2> QED
    BY <1>1, <2>1, <2>2, LocksStepType
<1>6. CASE Write(t)
  <2>1. PICK new \in SUBSET RowIds :
             \/ Reserve(c, new, FALSE)
             \/ Commit(c, new, Siblings(t) \cap reading # {})
             \/ Reserve(c, new, TRUE)
    BY <1>1, <1>6, ResultType DEF Write
  <2>2. (Siblings(t) \cap reading # {}) \in BOOLEAN
    OBVIOUS
  <2> QED
    BY <1>1, <2>1, <2>2, LocksStepType
<1>7. CASE CommitDone(t) \/ CommitSleeps(t) \/ CommitTimesOut(t)
  <2> DEFINE needed == Siblings(t) \cap reading # {}
  <2>1. \/ Commit(c, work, needed) \/ RollBack(c, needed)
        \/ Leave(c, needed) /\ UNCHANGED <<rows, writer, work, pending>>
        \/ Reserve(c, work, TRUE) \/ UNCHANGED locks
    BY <1>7 DEF CommitDone, CommitSleeps, CommitTimesOut
  <2>2. needed \in BOOLEAN /\ work \in SUBSET RowIds
    BY <1>1 DEF LockTypes
  <2> HIDE DEF needed
  <2> QED
    BY <1>1, <2>1, <2>2, LocksStepType
<1> QED
  BY <1>2, <1>3, <1>4, <1>5, <1>6, <1>7 DEF Continue

(* ... and so are its own variables, and where it is.                      *)
LEMMA ContinueCall ==
  ASSUME TypeInv, NEW t \in Threads, Continue(t)
  PROVE  CallTypes' /\ PcInv'
<1> DEFINE c == ConnOf[t]
<1>1. CallTypes /\ LockTypes /\ PcInv /\ c \in Conns
  BY TypeParts DEF TypeInv
<1>2. View(c) \in SUBSET RowIds
  BY <1>1, ViewType
<1>3. budget.faults \in Nat /\ budget.calls \in Nat
  BY <1>1 DEF CallTypes
<1> USE DEF CallTypes, PcInv, Goto, Awake, Return
<1>4. CASE StepRow(t)
  <2>1. list' \in [Threads -> SUBSET RowIds]
    BY <1>1, <1>2, <1>4 DEF StepRow, Ahead
  <2> QED
    BY <1>1, <1>4, <2>1 DEF StepRow
<1>5. CASE StepDone(t)
  BY <1>1, <1>5 DEF StepDone
<1>6. CASE StepCount(t)
  <2>1. Cardinality(View(c)) \in Int
    BY <1>2, CountType
  <2> QED
    BY <1>1, <1>6, <2>1 DEF StepCount
<1>7. CASE StepSleep(t)
  BY <1>1, <1>7 DEF StepSleep, Sleep, calls
<1>8. CASE StepBusy(t)
  BY <1>1, <1>8 DEF StepBusy
<1>9. CASE StepError(t)
  <2>1. budget' \in [calls : Nat, faults : Nat]
    BY <1>1, <1>3, <1>9 DEF StepError
  <2>2. ret' \in [Threads -> Int]
    BY <1>1, <1>9 DEF StepError
  <2> QED
    BY <1>1, <1>9, <2>1, <2>2 DEF StepError
<1>10. CASE Finalize(t)
  BY <1>1, <1>10 DEF Finalize
<1>11. CASE Write(t)
  <2>1. waiter' \in [Conns -> Threads \cup {NoThread}]
    <3>1. \/ waiter' = [waiter EXCEPT ![c] = NoThread]
          \/ waiter' = [waiter EXCEPT ![c] = t]
      BY <1>11 DEF Write
    <3> QED
      BY <1>1, <3>1
  <2>2. \/ Goto(t, "commit") \/ Return(t)
    BY <1>11 DEF Write
  <2> QED
    BY <1>1, <1>11, <2>1, <2>2 DEF Write
<1>12. CASE WriteFails(t)
  BY <1>1, <1>12 DEF WriteFails
<1>13. CASE CommitDone(t)
  BY <1>1, <1>13 DEF CommitDone
<1>14. CASE CommitSleeps(t)
  BY <1>1, <1>14 DEF CommitSleeps, Sleep, calls
<1>15. CASE CommitTimesOut(t)
  BY <1>1, <1>15 DEF CommitTimesOut
<1> QED
  BY <1>4, <1>5, <1>6, <1>7, <1>8, <1>9, <1>10, <1>11, <1>12, <1>13, <1>14, <1>15
  DEF Continue

(* The application calls and closes. *)
LEMMA ApplicationType ==
  ASSUME TypeInv, Application
  PROVE  LockTypes' /\ CallTypes' /\ PcInv'
<1>1. CallTypes /\ LockTypes /\ PcInv
  BY TypeParts DEF TypeInv
<1>2. budget.faults \in Nat /\ budget.calls \in Nat
  BY <1>1 DEF CallTypes
<1> USE DEF CallTypes, PcInv, CanCall, Start, Idle
<1>3. ASSUME NEW t \in Threads, NEW o \in Ops, Call(t, o)
      PROVE  LockTypes' /\ CallTypes' /\ PcInv'
  <2>1. ConnOf[t] \in Conns
    OBVIOUS
  <2>2. budget' \in [calls : Nat, faults : Nat]
    BY <1>1, <1>2, <1>3 DEF Call
  <2>3. CASE CallRead(t, o) \/ CallWrite(t, o)
    <3>1. LockTypes'
      BY <1>1, <2>1, <2>3, LocksStepType DEF CallRead, CallWrite
    <3>2. stmts' \subseteq Threads /\ reading' \subseteq stmts'
      BY <1>1, <1>3, <2>3 DEF Call, CallRead, CallWrite
    <3>3. CallTypes'
      BY <1>1, <1>3, <2>2, <2>3, <3>2 DEF Call, CallRead, CallWrite
    <3>4. PcInv'
      BY <1>1, <1>3, <2>3 DEF Call, CallRead, CallWrite
    <3> QED
      BY <3>1, <3>3, <3>4
  <2>4. CASE CallBegin(t, o)
    BY <1>1, <1>3, <2>1, <2>2, <2>4, LocksStepType DEF Call, CallBegin
  <2>5. CASE CallRollback(t, o)
    <3>1. LockTypes'
      <4> DEFINE needed == Siblings(t) \cap reading # {}
      <4>1. needed \in BOOLEAN /\ RollBack(ConnOf[t], needed)
        BY <2>5 DEF CallRollback
      <4>2. LockTypes /\ rows \in SUBSET RowIds
        BY <1>1 DEF LockTypes
      <4> HIDE DEF needed
      <4> QED
        BY <2>1, <4>1, <4>2, LocksStepType
    <3> QED
      BY <1>1, <1>3, <2>2, <2>5, <3>1 DEF Call, CallRollback
  <2> QED
    BY <1>3, <2>3, <2>4, <2>5 DEF Call
<1>4. ASSUME NEW t \in Threads, NEW o \in Ops, PrepareFails(t, o)
      PROVE  LockTypes' /\ CallTypes' /\ PcInv'
  <2>1. budget' \in [calls : Nat, faults : Nat]
    BY <1>1, <1>2, <1>4 DEF PrepareFails
  <2>2. LockTypes'
    BY <1>1, <1>4 DEF PrepareFails, LockTypes, sqliteVars, locks
  <2>3. ret' \in [Threads -> Int] /\ failed' \subseteq Threads
    BY <1>1, <1>4 DEF PrepareFails
  <2>4. CallTypes'
    BY <1>1, <1>4, <2>1, <2>3 DEF PrepareFails, sqliteVars
  <2> QED
    BY <1>1, <1>4, <2>2, <2>4 DEF PrepareFails
<1>5. ASSUME NEW c \in Conns, Shutdown(c)
      PROVE  LockTypes' /\ CallTypes' /\ PcInv'
  <2>1. budget' \in [calls : Nat, faults : Nat]
    BY <1>1, <1>2, <1>5 DEF Shutdown
  <2>2. LockTypes'
    BY <1>1, <1>5, LocksStepType DEF Shutdown
  <2> QED
    BY <1>1, <1>5, <2>1, <2>2 DEF Shutdown, calls
<1> QED
  BY <1>3, <1>4, <1>5 DEF Application

(* Together: every step. *)
LEMMA TypeStep ==
  ASSUME TypeInv, [Next]_vars
  PROVE  TypeInv'
<1>1. CASE UNCHANGED vars \/ Finished
  BY <1>1 DEF Finished, TypeInv, TypeOK, LocksTypeOK, PcInv, vars, sqliteVars,
              locks, calls, ghosts
<1>2. ASSUME LockTypes' /\ CallTypes' /\ PcInv', Observe PROVE TypeInv'
  BY <1>2, ObserveType, TypeParts DEF TypeInv
<1>3. ASSUME NEW t \in Threads, Continue(t) PROVE TypeInv'
  <2>1. Observe
    BY <1>3 DEF Continue
  <2> QED
    BY <1>2, <1>3, <2>1, ContinueLocks, ContinueCall
<1>4. CASE Application
  <2>1. Observe
    BY <1>4 DEF Application
  <2> QED
    BY <1>2, <1>4, <2>1, ApplicationType
<1> QED
  BY <1>1, <1>3, <1>4 DEF Next

(* Every variable keeps its type, whatever the threads call, on whatever   *)
(* connections, and whatever fails.                                        *)
THEOREM ReadTypes == Spec => []TypeOK
<1>1. TypeInv => TypeOK
  BY DEF TypeInv
<1> QED
  BY TypeInit, TypeStep, <1>1, PTL DEF Spec

-----------------------------------------------------------------------------
(* Locks                                                                   *)

(* A step of thread t, in a call or to start one. *)
StepOf(t) == Continue(t) \/ \E o \in Ops : Call(t, o) \/ PrepareFails(t, o)

(* What an operation on the locks of c does to another connection d. *)
LEMMA OtherLocks ==
  ASSUME LockTypes, NEW c \in Conns, NEW d \in Conns, d # c, NEW new,
         NEW needed,
         \/ Share(c)
         \/ Leave(c, needed) /\ UNCHANGED <<rows, writer, work, pending>>
         \/ Reserve(c, new, needed) /\ writer \in {NoConn, c}
         \/ Commit(c, new, needed) /\ writer \in {NoConn, c}
         \/ RollBack(c, needed)
         \/ UNCHANGED locks
  PROVE  /\ d \in shared' <=> d \in shared
         /\ snap'[d] = snap[d]
         /\ writer' = d <=> writer = d
<1> USE DEF LockTypes
<1>1. CASE Share(c)
  BY <1>1 DEF Share
<1>2. CASE Leave(c, needed) /\ UNCHANGED <<rows, writer, work, pending>>
  BY <1>2 DEF Leave
<1>3. CASE Reserve(c, new, needed) /\ writer \in {NoConn, c}
  BY <1>3 DEF Reserve
<1>4. CASE Commit(c, new, needed) /\ writer \in {NoConn, c}
  BY <1>4 DEF Commit
<1>5. CASE RollBack(c, needed)
  BY <1>5 DEF RollBack, Leave
<1>6. CASE UNCHANGED locks
  BY <1>6 DEF locks
<1> QED
  BY <1>1, <1>2, <1>3, <1>4, <1>5, <1>6

(* What a step does to the locks is one of these. *)
LEMMA StepLocks ==
  ASSUME NEW t \in Threads, StepOf(t)
  PROVE  \E new, needed :
           \/ Share(ConnOf[t])
           \/ /\ Leave(ConnOf[t], needed)
              /\ UNCHANGED <<rows, writer, work, pending>>
           \/ /\ Reserve(ConnOf[t], new, needed)
              /\ writer \in {NoConn, ConnOf[t]}
           \/ /\ Commit(ConnOf[t], new, needed)
              /\ writer \in {NoConn, ConnOf[t]}
           \/ RollBack(ConnOf[t], needed)
           \/ UNCHANGED locks
<1> DEFINE c == ConnOf[t]
<1> HIDE DEF c
<1>1. CASE StepRow(t) \/ StepCount(t) \/ StepSleep(t) \/ StepBusy(t) \/ WriteFails(t)
  BY <1>1 DEF StepRow, StepCount, StepSleep, StepBusy, WriteFails
<1>2. CASE StepDone(t) \/ StepError(t) \/ Finalize(t)
  BY <1>2 DEF StepDone, StepError, Finalize
<1>3. CASE Write(t)
  BY <1>3 DEF Write, CanReserve
<1>4. CASE CommitDone(t) \/ CommitSleeps(t) \/ CommitTimesOut(t)
  BY <1>4 DEF CommitDone, CommitSleeps, CommitTimesOut
<1>5. ASSUME NEW o \in Ops, Call(t, o) \/ PrepareFails(t, o)
      PROVE  UNCHANGED locks \/ \E needed : RollBack(ConnOf[t], needed)
  BY <1>5 DEF Call, PrepareFails, CallRead, CallWrite, CallBegin, CallRollback,
              sqliteVars
<1> QED
  BY <1>1, <1>2, <1>3, <1>4, <1>5 DEF StepOf, Continue

(* A step of t leaves other threads and other connections as they are. *)
LEMMA Elsewhere ==
  ASSUME TypeInv, NEW t \in Threads, StepOf(t)
  PROVE  /\ \A u \in Threads : u # t =>
              /\ pc'[u] = pc[u] /\ op'[u] = op[u]
              /\ list'[u] = list[u] /\ ret'[u] = ret[u]
              /\ u \in reading' <=> u \in reading
              /\ u \in stmts' <=> u \in stmts
              /\ u \in failed' <=> u \in failed
         /\ \A d \in Conns : d # ConnOf[t] =>
              /\ d \in shared' <=> d \in shared
              /\ snap'[d] = snap[d]
              /\ writer' = d <=> writer = d
              /\ autocommit'[d] = autocommit[d]
              /\ waiter'[d] = waiter[d]
<1>1. LockTypes /\ CallTypes /\ ConnOf[t] \in Conns
  BY TypeParts DEF TypeInv
<1>2. \A d \in Conns : d # ConnOf[t] => /\ d \in shared' <=> d \in shared
                                        /\ snap'[d] = snap[d]
                                        /\ writer' = d <=> writer = d
  BY <1>1, StepLocks, OtherLocks
<1> USE DEF CallTypes, Goto, Awake, Return, Start, StepOf
<1>3. \A d \in Conns : d # ConnOf[t] => /\ autocommit'[d] = autocommit[d]
                                        /\ waiter'[d] = waiter[d]
  <2>1. \/ UNCHANGED autocommit
        \/ \E v : autocommit' = [autocommit EXCEPT ![ConnOf[t]] = v]
    BY DEF Continue, StepRow, StepDone, StepCount, StepSleep, StepBusy, StepError,
       Finalize, Write, WriteFails, CommitDone, CommitSleeps, CommitTimesOut, Call,
       CallRead, CallWrite, CallBegin, CallRollback, PrepareFails, sqliteVars
  <2>2. \/ UNCHANGED waiter
        \/ \E v : waiter' = [waiter EXCEPT ![ConnOf[t]] = v]
    BY DEF Continue, StepRow, StepDone, StepCount, StepSleep, StepBusy, StepError,
       Finalize, Write, WriteFails, CommitDone, CommitSleeps, CommitTimesOut, Call,
       PrepareFails, Sleep, sqliteVars
  <2> QED
    BY <1>1, <2>1, <2>2
<1>4. ASSUME NEW u \in Threads, u # t
      PROVE  /\ pc'[u] = pc[u] /\ op'[u] = op[u]
             /\ list'[u] = list[u] /\ ret'[u] = ret[u]
             /\ u \in reading' <=> u \in reading
             /\ u \in stmts' <=> u \in stmts
             /\ u \in failed' <=> u \in failed
  <2>1. CASE StepRow(t) \/ StepCount(t) \/ StepDone(t)
    BY <1>1, <1>4, <2>1 DEF StepRow, StepDone, StepCount
  <2>2. CASE StepSleep(t) \/ StepBusy(t) \/ StepError(t) \/ Finalize(t)
    BY <1>1, <1>4, <2>2 DEF StepSleep, StepBusy, StepError, Finalize, calls
  <2>3. CASE Write(t)
    BY <1>1, <1>4, <2>3 DEF Write
  <2>4. CASE WriteFails(t) \/ CommitDone(t) \/ CommitSleeps(t) \/ CommitTimesOut(t)
    BY <1>1, <1>4, <2>4 DEF WriteFails, CommitDone, CommitSleeps, CommitTimesOut,
                            calls
  <2>5. ASSUME NEW o \in Ops, Call(t, o) \/ PrepareFails(t, o)
        PROVE  /\ pc'[u] = pc[u] /\ op'[u] = op[u]
               /\ list'[u] = list[u] /\ ret'[u] = ret[u]
               /\ u \in reading' <=> u \in reading
               /\ u \in stmts' <=> u \in stmts
               /\ u \in failed' <=> u \in failed
    BY <1>1, <1>4, <2>5 DEF Call, CallRead, CallWrite, CallBegin, CallRollback,
                            PrepareFails
  <2> QED
    BY <2>1, <2>2, <2>3, <2>4, <2>5 DEF Continue
<1> QED
  BY <1>2, <1>3, <1>4

(* PENDING goes with the write lock.  In autocommit mode a connection has  *)
(* the write lock only while a thread that commits sleeps in its busy      *)
(* handler, and reads only for that thread or an active SELECT.            *)
Committing(c) == /\ waiter[c] \in Threads /\ ConnOf[waiter[c]] = c
                 /\ pc[waiter[c]] = "commit"

Held(c) ==
  autocommit[c] => /\ writer = c => Committing(c)
                   /\ c \in shared => \/ writer = c
                                      \/ \E u \in reading : ConnOf[u] = c

LockInv == /\ pending # NoConn => pending = writer
           /\ \A c \in Conns : Held(c)

(* At the start no connection holds a lock. *)
LEMMA LockInit == Init => LockInv
BY DEF Init, LocksInit, LockInv, Held

(* PENDING, in any step. *)
LEMMA PendingStep ==
  ASSUME TypeInv, LockInv, NEW t \in Threads, StepOf(t)
  PROVE  pending' # NoConn => pending' = writer'
<1> PICK new, needed :
      \/ Share(ConnOf[t])
      \/ /\ Leave(ConnOf[t], needed)
         /\ UNCHANGED <<rows, writer, work, pending>>
      \/ Reserve(ConnOf[t], new, needed) /\ writer \in {NoConn, ConnOf[t]}
      \/ Commit(ConnOf[t], new, needed) /\ writer \in {NoConn, ConnOf[t]}
      \/ RollBack(ConnOf[t], needed)
      \/ UNCHANGED locks
  BY StepLocks
<1> QED
  BY DEF LockInv, Share, Reserve, Commit, RollBack, locks

(* The connection of the thread that goes on. *)
LEMMA HeldStep ==
  ASSUME TypeInv, LockInv, NEW t \in Threads, StepOf(t)
  PROVE  Held(ConnOf[t])'
<1> DEFINE c == ConnOf[t]
<1>1. LockTypes /\ CallTypes /\ PcInv /\ c \in Conns /\ Held(c)
  BY TypeParts DEF TypeInv, LockInv
<1>2. /\ \A u \in Threads : u # t => /\ pc'[u] = pc[u]
                                     /\ u \in reading' <=> u \in reading
      /\ \A u \in Siblings(t) : u \in Threads /\ u # t /\ ConnOf[u] = c
      /\ \A u \in Threads : u # t /\ ConnOf[u] = c => u \in Siblings(t)
  BY Elsewhere DEF Siblings
<1>3. /\ reading \subseteq Threads
      /\ waiter[c] \in Threads \cup {NoThread}
      /\ waiter \in [Conns -> Threads \cup {NoThread}]
      /\ pc \in [Threads -> {"idle", "step", "write", "commit", "finalize"}]
      /\ autocommit \in [Conns -> BOOLEAN]
      /\ t \in reading => pc[t] \in {"step", "finalize"}
      /\ c # NoConn
  BY <1>1 DEF CallTypes, PcInv
<1>4. pc[t] # "commit" /\ Serialized(t, c) /\ autocommit[c] => writer # c
  BY <1>1, <1>3 DEF Serialized, Held, Committing
<1>5. CASE StepRow(t) \/ StepCount(t)
  <2>1. /\ c \in shared' /\ t \in reading' /\ UNCHANGED <<autocommit, writer>>
        /\ pc[t] = "step" /\ Serialized(t, c)
    BY <1>5 DEF StepRow, StepCount, Share
  <2> QED
    BY <1>4, <2>1 DEF Held
<1>6. CASE StepDone(t)
  <2>1. /\ UNCHANGED <<autocommit, writer>> /\ pc[t] = "step" /\ Serialized(t, c)
        /\ reading' = reading \ {t}
    BY <1>6 DEF StepDone, locks, Share
  <2>2. CASE t \in reading
    <3>1. Leave(c, Needed(t))
      BY <1>6, <2>2 DEF StepDone
    <3> QED
      BY <1>2, <1>4, <2>1, <3>1 DEF Held, Leave, Needed
  <2>3. CASE t \notin reading
    <3>1. autocommit[c] => UNCHANGED shared
      BY <1>6, <2>3 DEF StepDone, locks
    <3> QED
      BY <1>1, <1>4, <2>1, <2>3, <3>1 DEF Held
  <2> QED
    BY <2>2, <2>3
<1>7. CASE StepSleep(t)
  <2>1. /\ UNCHANGED <<locks, autocommit, reading>> /\ c \notin shared
        /\ waiter[c] = NoThread /\ pc[t] # "commit"
    BY <1>7 DEF StepSleep, Sleep, calls
  <2> QED
    BY <1>4, <2>1 DEF Held, locks, Serialized
<1>8. CASE StepBusy(t) \/ WriteFails(t)
  <2>1. /\ UNCHANGED <<locks, autocommit, reading>>
        /\ Serialized(t, c) /\ pc[t] # "commit"
    BY <1>8 DEF StepBusy, WriteFails, Serialized
  <2> QED
    BY <1>1, <1>4, <2>1 DEF Held, locks
<1>9. CASE StepError(t) \/ Finalize(t)
  <2>1. /\ UNCHANGED <<autocommit, writer>> /\ pc[t] # "commit" /\ Serialized(t, c)
        /\ reading' = reading \ {t} /\ Leave(c, t \notin reading \/ Needed(t))
    BY <1>9 DEF StepError, Finalize
  <2>2. CASE t \in reading
    BY <1>2, <1>4, <2>1, <2>2 DEF Held, Leave, Needed
  <2>3. CASE t \notin reading
    BY <1>1, <1>4, <2>1, <2>3 DEF Held, Leave
  <2> QED
    BY <2>2, <2>3
<1>10. CASE Write(t)
  <2>1. UNCHANGED <<autocommit, reading>>
    BY <1>10 DEF Write
  <2>2. CASE ~autocommit[c]
    BY <2>1, <2>2 DEF Held
  <2>3. ASSUME NEW new, Commit(c, new, Siblings(t) \cap reading # {})
        PROVE  Held(c)'
    BY <1>2, <1>3, <2>1, <2>3 DEF Commit, Held
  <2>4. ASSUME NEW new, Reserve(c, new, TRUE), Goto(t, "commit"),
               waiter' = [waiter EXCEPT ![c] = t]
        PROVE  Held(c)'
    <3>1. waiter'[c] = t /\ pc'[t] = "commit" /\ writer' = c
      BY <1>1, <1>3, <2>4 DEF Goto, Reserve
    <3> QED
      BY <3>1 DEF Held, Committing
  <2> QED
    BY <1>10, <2>2, <2>3, <2>4 DEF Write
<1>11. CASE CommitDone(t)
  <2>1. /\ UNCHANGED reading /\ pc[t] = "commit" /\ t \notin reading
        /\ autocommit'[c]
    BY <1>1, <1>3, <1>11 DEF CommitDone
  <2>2. writer' # c /\ (c \in shared' => Siblings(t) \cap reading # {})
    BY <1>3, <1>11 DEF CommitDone, Commit, Leave
  <2> QED
    BY <1>2, <2>1, <2>2 DEF Held
<1>12. CASE CommitSleeps(t)
  <2>1. waiter'[c] = t /\ pc'[t] = "commit" /\ writer' = c
    BY <1>1, <1>3, <1>12 DEF CommitSleeps, Sleep, Reserve, calls
  <2> QED
    BY <2>1 DEF Held, Committing
<1>13. CASE CommitTimesOut(t)
  <2>1. UNCHANGED <<autocommit, reading>> /\ pc[t] = "commit" /\ t \notin reading
    BY <1>3, <1>13 DEF CommitTimesOut
  <2>2. CASE autocommit[c]
    <3>1. RollBack(c, Siblings(t) \cap reading # {})
      BY <1>13, <2>2 DEF CommitTimesOut
    <3>2. writer' # c /\ (c \in shared' => Siblings(t) \cap reading # {})
      BY <1>3, <3>1 DEF RollBack, Leave
    <3> QED
      BY <1>2, <2>1, <3>2 DEF Held
  <2>3. CASE ~autocommit[c]
    BY <2>1, <2>3 DEF Held
  <2> QED
    BY <2>2, <2>3
<1>14. ASSUME NEW o \in Ops, Call(t, o) \/ PrepareFails(t, o)
       PROVE  Held(c)'
  <2>1. pc[t] = "idle" /\ Serialized(t, c) /\ UNCHANGED reading /\ t \notin reading
    BY <1>3, <1>14 DEF Call, PrepareFails, CanCall, Idle
  <2>2. CASE UNCHANGED <<locks, autocommit>>
    BY <1>1, <1>4, <2>1, <2>2 DEF Held, locks
  <2>3. CASE CallBegin(t, o)
    BY <1>1, <1>3, <2>3 DEF CallBegin, Held
  <2>4. CASE CallRollback(t, o)
    <3>1. writer' # c /\ (c \in shared' => Siblings(t) \cap reading # {})
      BY <1>3, <2>4 DEF CallRollback, RollBack, Leave
    <3> QED
      BY <1>2, <2>1, <3>1 DEF Held
  <2> QED
    BY <1>14, <2>2, <2>3, <2>4 DEF Call, PrepareFails, CallRead, CallWrite, sqliteVars
<1> QED
  BY <1>5, <1>6, <1>7, <1>8, <1>9, <1>10, <1>11, <1>12, <1>13, <1>14
  DEF StepOf, Continue

(* Closing a connection. *)
LEMMA ShutdownLocks ==
  ASSUME TypeInv, LockInv, NEW c \in Conns, Shutdown(c)
  PROVE  LockInv'
<1>1. /\ LockTypes /\ CallTypes /\ PcInv
      /\ UNCHANGED <<waiter, pc, reading>>
  BY TypeParts DEF TypeInv, Shutdown, calls
<1>2. CASE \E t \in stmts : ConnOf[t] = c
  BY <1>1, <1>2 DEF Shutdown, locks, LockInv, Held, Committing
<1>3. CASE ~\E t \in stmts : ConnOf[t] = c
  <2>1. RollBack(c, FALSE) /\ autocommit' = [autocommit EXCEPT ![c] = TRUE]
    BY <1>3 DEF Shutdown
  <2>2. Held(c)'
    BY <1>1, <2>1 DEF RollBack, Leave, Held, LockTypes
  <2>3. ASSUME NEW d \in Conns, d # c PROVE Held(d)'
    <3>1. /\ d \in shared' <=> d \in shared
          /\ writer' = d <=> writer = d
          /\ autocommit'[d] = autocommit[d]
      BY <1>1, <2>1, <2>3 DEF RollBack, Leave, CallTypes, LockTypes
    <3> QED
      BY <1>1, <3>1 DEF LockInv, Held, Committing
  <2>4. pending' # NoConn => pending' = writer'
    BY <2>1 DEF RollBack, LockInv
  <2> QED
    BY <2>2, <2>3, <2>4 DEF LockInv
<1> QED
  BY <1>2, <1>3

(* Every step leaves locks only with calls and transactions that run. *)
LEMMA LockStep ==
  ASSUME TypeInv, LockInv, [Next]_vars
  PROVE  LockInv'
<1>1. CASE UNCHANGED vars \/ Finished
  BY <1>1 DEF Finished, LockInv, Held, Committing, vars, sqliteVars, locks, calls
<1>2. ASSUME NEW t \in Threads, StepOf(t) PROVE LockInv'
  <2>1. ASSUME NEW d \in Conns, d # ConnOf[t] PROVE Held(d)'
    <3>1. /\ d \in shared' <=> d \in shared
          /\ writer' = d <=> writer = d
          /\ autocommit'[d] = autocommit[d]
          /\ waiter'[d] = waiter[d]
          /\ \A u \in Threads : u # t => /\ pc'[u] = pc[u]
                                         /\ u \in reading' <=> u \in reading
      BY <1>2, <2>1, Elsewhere
    <3>2. reading \subseteq Threads /\ Held(d)
      BY TypeParts DEF TypeInv, CallTypes, LockInv
    <3>3. ASSUME Committing(d) PROVE Committing(d)'
      <4> DEFINE u == waiter[d]
      <4>1. u \in Threads /\ ConnOf[u] = d /\ pc[u] = "commit"
        BY <3>3 DEF Committing
      <4>2. u # t
        BY <2>1, <4>1
      <4>3. pc'[u] = "commit" /\ waiter'[d] = u
        BY <3>1, <4>1, <4>2
      <4> QED
        BY <4>1, <4>3 DEF Committing
    <3>4. ASSUME NEW u \in reading, ConnOf[u] = d PROVE u \in reading'
      BY <2>1, <3>1, <3>2, <3>4
    <3> QED
      BY <3>1, <3>2, <3>3, <3>4 DEF Held
  <2>2. Held(ConnOf[t])'
    BY <1>2, HeldStep
  <2> QED
    BY <1>2, <2>1, <2>2, PendingStep DEF LockInv
<1>3. ASSUME NEW c \in Conns, Shutdown(c) PROVE LockInv'
  BY <1>3, ShutdownLocks
<1> QED
  BY <1>1, <1>2, <1>3 DEF Next, Application, StepOf

(* A connection in autocommit mode with no call running holds no lock:     *)
(* every statement that ended, failed, timed out or was rolled back gave   *)
(* its locks back, whatever its siblings on the connection did meanwhile.  *)
THEOREM LocksAreOwned == Spec => []LocksOwned
<1>1. TypeInv /\ LockInv => LocksOwned
  <2> SUFFICES ASSUME TypeInv, LockInv, NEW c \in Conns, autocommit[c],
                      \A t \in Threads : ConnOf[t] = c => Idle(t)
               PROVE  c \notin shared /\ writer # c /\ pending # c
    BY DEF LocksOwned
  <2>1. Held(c) /\ ~Committing(c)
    BY DEF LockInv, Committing, Idle
  <2>2. ~\E u \in reading : ConnOf[u] = c
    BY DEF TypeInv, TypeOK, PcInv, Idle
  <2> QED
    BY <2>1, <2>2 DEF Held, LockInv
<1>2. TypeInv /\ LockInv /\ [Next]_vars => TypeInv' /\ LockInv'
  BY TypeStep, LockStep
<1> QED
  BY TypeInit, LockInit, <1>1, <1>2, PTL DEF Spec

-----------------------------------------------------------------------------
(* Lists                                                                   *)

(* r has been passed by the loop of t or is still ahead of it. *)
Seen(t, r) == r \in list[t] \/ \A q \in list[t] : r > q

(* In the loop: stay is visible and ever is all that was; what is in stay  *)
(* and not in the list is still ahead.                                     *)
InLoop(t) ==
  pc[t] = "step" =>
    /\ stay[t] \subseteq View(ConnOf[t]) /\ View(ConnOf[t]) \subseteq ever[t]
    /\ list[t] \subseteq ever[t]
    /\ \A r \in stay[t] : Seen(t, r)

(* ListIsComplete, for one thread.                                         *)
AtEnd(t) ==
  pc[t] = "finalize" /\ op[t] = "toList" /\ t \notin failed
    => stay[t] \subseteq list[t] /\ list[t] \subseteq ever[t]

ListInv == \A t \in Threads : InLoop(t) /\ AtEnd(t)

(* At the start no loop runs. *)
LEMMA ListInit == Init => ListInv
BY DEF Init, ListInv, InLoop, AtEnd

(* What the ghosts of a thread become. *)
LEMMA Tracked ==
  ASSUME TypeInv, LockTypes', Observe, NEW t \in Threads
  PROVE  /\ pc'[t] = "step" /\ Idle(t) =>
              stay'[t] = View(ConnOf[t])' /\ ever'[t] = View(ConnOf[t])'
         /\ pc'[t] = "step" /\ ~Idle(t) =>
              /\ stay'[t] = stay[t] \cap View(ConnOf[t])'
              /\ ever'[t] = ever[t] \cup View(ConnOf[t])'
         /\ pc'[t] = "finalize" => stay'[t] = stay[t] /\ ever'[t] = ever[t]
         /\ pc'[t] = "step" /\ Idle(t) => states'[t] = {rows'}
         /\ pc'[t] = "step" /\ ~Idle(t) => states'[t] = states[t] \cup {rows'}
         /\ pc'[t] = "finalize" => states'[t] = states[t]
BY DEF Observe, Track

(* A thread whose pc and list stay as they are. *)
LEMMA ListElsewhere ==
  ASSUME TypeInv, ListInv, LockTypes', Observe, NEW t \in Threads,
         pc'[t] = pc[t], op'[t] = op[t], list'[t] = list[t],
         t \in failed' <=> t \in failed
  PROVE  InLoop(t)' /\ AtEnd(t)'
<1>1. CASE pc[t] = "step"
  <2>1. /\ stay'[t] = stay[t] \cap View(ConnOf[t])'
        /\ ever'[t] = ever[t] \cup View(ConnOf[t])'
    BY <1>1, Tracked DEF Idle
  <2> QED
    BY <1>1, <2>1 DEF ListInv, InLoop, AtEnd, Seen
<1>2. CASE pc[t] = "finalize"
  BY <1>2, Tracked DEF ListInv, InLoop, AtEnd
<1> QED
  BY <1>1, <1>2 DEF InLoop, AtEnd

(* A row is taken: the smallest that is ahead, so none is left behind.     *)
LEMMA RowTaken ==
  ASSUME TypeInv, ListInv, NEW t \in Threads, StepRow(t), Observe, TypeInv'
  PROVE  InLoop(t)'
<1> DEFINE c == ConnOf[t]
<1>1. LockTypes /\ CallTypes /\ LockTypes' /\ c \in Conns
  BY TypeParts DEF TypeInv
<1>2. pc[t] = "step" /\ pc'[t] = "step"
  BY <1>1, TypeParts DEF StepRow, TypeInv, CallTypes
<1>3. PICK r \in Ahead(t) : /\ \A q \in Ahead(t) : r <= q
                            /\ list' = [list EXCEPT ![t] = @ \cup {r}]
  BY DEF StepRow
<1>4. list'[t] = list[t] \cup {r}
  BY <1>1, <1>3 DEF CallTypes
<1>5. /\ stay[t] \subseteq View(c) /\ View(c) \subseteq ever[t]
      /\ list[t] \subseteq ever[t] /\ \A q \in stay[t] : Seen(t, q)
  BY <1>2 DEF ListInv, InLoop
<1>6. /\ stay'[t] = stay[t] \cap View(c)' /\ ever'[t] = ever[t] \cup View(c)'
  BY <1>1, <1>2, Tracked DEF Idle
<1>7. View(c) \subseteq Nat /\ list[t] \subseteq Nat
  BY <1>1, ViewType DEF RowIds, CallTypes
<1>8. ASSUME NEW q \in stay'[t] PROVE Seen(t, q)'
  <2>1. q \in View(c) /\ Seen(t, q) /\ q \in Nat /\ r \in Nat
    BY <1>5, <1>6, <1>7, <1>8 DEF Ahead
  <2>2. CASE q \in list[t]
    BY <1>4, <2>2 DEF Seen
  <2>3. CASE q \notin list[t]
    <3>1. q \in Ahead(t)
      BY <2>1, <2>3 DEF Seen, Ahead
    <3>2. q = r \/ q > r
      BY <1>3, <2>1, <3>1
    <3> QED
      BY <1>4, <2>1, <2>3, <3>2 DEF Seen
  <2> QED
    BY <2>2, <2>3
<1> QED
  BY <1>3, <1>4, <1>5, <1>6, <1>8 DEF Ahead, InLoop

(* The loop ends with SQLITE_DONE: nothing is ahead, so all is in the list. *)
LEMMA LoopDone ==
  ASSUME TypeInv, ListInv, NEW t \in Threads, StepDone(t), Observe, TypeInv'
  PROVE  AtEnd(t)'
<1>1. LockTypes' /\ CallTypes
  BY TypeParts DEF TypeInv
<1>2. pc[t] = "step" /\ pc'[t] = "finalize" /\ list' = list /\ Ahead(t) = {}
  BY <1>1 DEF StepDone, Goto, CallTypes
<1>3. stay'[t] = stay[t] /\ ever'[t] = ever[t]
  BY <1>1, <1>2, Tracked
<1>4. /\ stay[t] \subseteq View(ConnOf[t]) /\ list[t] \subseteq ever[t]
      /\ \A r \in stay[t] : Seen(t, r)
  BY <1>2 DEF ListInv, InLoop
<1>5. ASSUME NEW r \in stay[t] PROVE r \in list[t]
  BY <1>2, <1>4, <1>5 DEF Ahead, Seen
<1> QED
  BY <1>2, <1>3, <1>4, <1>5 DEF AtEnd

(* The thread whose step it is. *)
LEMMA ListOwnStep ==
  ASSUME TypeInv, ListInv, NEW t \in Threads, StepOf(t), Observe, TypeInv'
  PROVE  InLoop(t)' /\ AtEnd(t)'
<1>1. LockTypes' /\ CallTypes /\ PcInv
  BY TypeParts DEF TypeInv
<1>2. /\ pc \in [Threads -> {"idle", "step", "write", "commit", "finalize"}]
      /\ op \in [Threads -> Ops \cup {"none"}]
  BY <1>1 DEF CallTypes
<1>3. CASE StepRow(t)
  <2>1. pc'[t] = "step"
    BY <1>3 DEF StepRow
  <2> QED
    BY <1>3, <2>1, RowTaken DEF AtEnd
<1>4. CASE StepDone(t)
  <2>1. pc'[t] = "finalize"
    BY <1>2, <1>4 DEF StepDone, Goto
  <2> QED
    BY <1>4, <2>1, LoopDone DEF InLoop
<1>5. CASE \/ StepSleep(t)
           \/ StepBusy(t) /\ op[t] = "toList"
  <2>1. UNCHANGED <<pc, op, list, failed>>
    BY <1>5 DEF StepSleep, StepBusy, calls
  <2> QED
    BY <1>1, <2>1, ListElsewhere
<1>6. CASE StepCount(t)
  BY <1>2, <1>6 DEF StepCount, Goto, InLoop, AtEnd
<1>7. CASE \/ StepBusy(t) /\ op[t] # "toList"
           \/ StepError(t)
  BY <1>2, <1>7 DEF StepBusy, StepError, Goto, InLoop, AtEnd
<1>8. CASE \/ Finalize(t) \/ Write(t) \/ WriteFails(t) \/ CommitDone(t)
           \/ CommitSleeps(t) \/ CommitTimesOut(t)
  <2>1. pc'[t] \notin {"step", "finalize"}
    BY <1>2, <1>8 DEF Finalize, Write, WriteFails, CommitDone, CommitSleeps,
                      CommitTimesOut, Return, Goto, calls
  <2> QED
    BY <2>1 DEF InLoop, AtEnd
<1>9. ASSUME NEW o \in Ops, Call(t, o) \/ PrepareFails(t, o)
      PROVE  InLoop(t)' /\ AtEnd(t)'
  <2>1. pc[t] = "idle" /\ list' = list /\ list[t] = {}
    BY <1>1, <1>9 DEF Call, PrepareFails, CanCall, Idle, PcInv
  <2>2. pc'[t] = "finalize" => t \in failed'
    BY <1>2, <1>9, <2>1 DEF Call, CallRead, CallWrite, CallBegin, CallRollback,
                            PrepareFails, Start
  <2>3. pc'[t] = "step" => stay'[t] = View(ConnOf[t])' /\ ever'[t] = View(ConnOf[t])'
    BY <1>1, <2>1, Tracked DEF Idle
  <2> QED
    BY <2>1, <2>2, <2>3 DEF Seen, InLoop, AtEnd
<1> QED
  BY <1>3, <1>4, <1>5, <1>6, <1>7, <1>8, <1>9 DEF StepOf, Continue

(* Every step keeps what the loops know of their lists. *)
LEMMA ListStep ==
  ASSUME TypeInv, ListInv, [Next]_vars, TypeInv'
  PROVE  ListInv'
<1>1. LockTypes'
  BY TypeParts DEF TypeInv
<1>2. CASE UNCHANGED vars \/ Finished
  BY <1>2 DEF Finished, ListInv, InLoop, AtEnd, Seen, View, vars,
              sqliteVars, locks, calls, ghosts
<1>3. ASSUME NEW t \in Threads, StepOf(t), Observe PROVE ListInv'
  <2>1. ASSUME NEW u \in Threads, u # t
        PROVE  /\ pc'[u] = pc[u] /\ op'[u] = op[u] /\ list'[u] = list[u]
               /\ u \in failed' <=> u \in failed
    BY <1>3, <2>1, Elsewhere
  <2> QED
    BY <1>1, <1>3, <2>1, ListElsewhere, ListOwnStep DEF ListInv
<1>4. ASSUME NEW c \in Conns, Shutdown(c), Observe PROVE ListInv'
  <2>1. UNCHANGED <<pc, op, list, failed>>
    BY <1>4 DEF Shutdown, calls
  <2> QED
    BY <1>1, <1>4, <2>1, ListElsewhere DEF ListInv
<1> QED
  BY <1>2, <1>3, <1>4 DEF Next, Application, Continue, StepOf

(* toList loses no row that was in the table all through the call and has  *)
(* none that never was, however many writes of other threads it is         *)
(* interleaved with, and however often SQLITE_BUSY interrupts it.          *)
THEOREM ListsAreComplete == Spec => []ListIsComplete
<1>1. TypeInv /\ ListInv /\ [Next]_vars => TypeInv' /\ ListInv'
  BY TypeStep, ListStep
<1>2. ListInv => ListIsComplete
  BY DEF ListInv, AtEnd, ListIsComplete
<1> QED
  BY TypeInit, ListInit, <1>1, <1>2, PTL DEF Spec

-----------------------------------------------------------------------------
(* Reading one state                                                       *)

(* ReadsOneState, for one thread.                                          *)
GivesState(t) ==
  pc[t] = "finalize" /\ t \notin failed \cup shares
    => IF op[t] = "count" THEN \E S \in states[t] : ret[t] = Cardinality(S)
                          ELSE list[t] \in states[t]

(* A call that has the connection to itself: before its first row it will  *)
(* read what is committed now, and from then on reads what was committed   *)
(* at that row.                                                            *)
Alone(t) == pc[t] # "idle" /\ t \notin shares

InState(t) ==
  Alone(t) =>
    /\ autocommit[ConnOf[t]]
    /\ \A u \in Siblings(t) : Idle(u)
    /\ pc[t] = "step" =>
         /\ rows \in states[t]
         /\ t \notin reading => list[t] = {}
         /\ t \in reading => /\ ConnOf[t] \in shared
                             /\ snap[ConnOf[t]] \in states[t]
                             /\ list[t] \subseteq snap[ConnOf[t]]
                             /\ \A r \in snap[ConnOf[t]] : Seen(t, r)

StateInv == \A t \in Threads : InState(t) /\ GivesState(t)

(* At the start no call runs. *)
LEMMA StateInit == Init => StateInv
BY DEF Init, StateInv, InState, GivesState, Alone

(* A thread that is alone after a step was alone before it, or has just    *)
(* started, and no sibling had a call or a transaction on either side.     *)
LEMMA StaysAlone ==
  ASSUME TypeInv, Observe, NEW t \in Threads, Alone(t)'
  PROVE  /\ autocommit[ConnOf[t]] /\ autocommit'[ConnOf[t]]
         /\ \A u \in Siblings(t) : Idle(u) /\ pc'[u] = "idle"
         /\ ~Idle(t) => Alone(t)
BY DEF Observe, Alone, Idle

(* So a sibling cannot have made the step.                                 *)
LEMMA NoSiblingStep ==
  ASSUME TypeInv, Observe, NEW t \in Threads, Alone(t)',
         NEW u \in Siblings(t), StepOf(u)
  PROVE  FALSE
<1>1. /\ u \in Threads /\ ConnOf[u] = ConnOf[t] /\ ConnOf[u] \in Conns
      /\ CallTypes
  BY TypeParts DEF Siblings, TypeInv
<1>2. /\ autocommit[ConnOf[u]] /\ autocommit'[ConnOf[u]]
      /\ pc[u] = "idle" /\ pc'[u] = "idle"
  BY <1>1, StaysAlone DEF Idle
<1>3. ~Continue(u)
  BY <1>2 DEF Continue, StepRow, StepDone, StepCount, StepSleep, StepBusy,
              StepError, Finalize, Write, WriteFails, CommitDone, CommitSleeps,
              CommitTimesOut
<1>4. ASSUME NEW o \in Ops PROVE ~(Call(u, o) \/ PrepareFails(u, o))
  BY <1>1, <1>2, <1>4 DEF Call, PrepareFails, CallRead, CallWrite, CallBegin,
                          CallRollback, Start, CallTypes
<1> QED
  BY <1>3, <1>4 DEF StepOf

(* What a thread in its loop sees, when it is alone.                       *)
LEMMA AloneSees ==
  ASSUME TypeInv, LockInv, StateInv, NEW t \in Threads, Alone(t), pc[t] = "step"
  PROVE  /\ writer # ConnOf[t]
         /\ t \in reading => View(ConnOf[t]) = snap[ConnOf[t]]
         /\ t \notin reading => /\ View(ConnOf[t]) = rows
                                /\ ConnOf[t] \notin shared
<1> DEFINE c == ConnOf[t]
<1>1. /\ CallTypes /\ PcInv /\ Held(c) /\ autocommit[c] /\ c \in Conns
      /\ \A u \in Siblings(t) : pc[u] = "idle"
  BY TypeParts DEF TypeInv, LockInv, StateInv, InState, Idle
<1>2. \A u \in Threads : u # t /\ ConnOf[u] = c => pc[u] = "idle"
  BY <1>1 DEF Siblings
<1>3. writer # c
  BY <1>1, <1>2 DEF Held, Committing
<1>4. c \in shared => t \in reading
  BY <1>1, <1>2, <1>3 DEF Held, PcInv, CallTypes
<1>5. t \in reading => c \in shared
  BY DEF StateInv, InState
<1> QED
  BY <1>3, <1>4, <1>5 DEF View

(* A thread whose own variables, and whose connection, stay as they are:   *)
(* what others commit meanwhile is one more state of its call.             *)
LEMMA StateElsewhere ==
  ASSUME TypeInv, StateInv, LockTypes', Observe, NEW t \in Threads,
         pc'[t] = pc[t], op'[t] = op[t], list'[t] = list[t], ret'[t] = ret[t],
         t \in reading' <=> t \in reading,
         t \in failed' <=> t \in failed,
         ConnOf[t] \in shared' <=> ConnOf[t] \in shared,
         snap'[ConnOf[t]] = snap[ConnOf[t]]
  PROVE  InState(t)' /\ GivesState(t)'
<1> SUFFICES ASSUME Alone(t)' PROVE InState(t)' /\ GivesState(t)'
  BY DEF InState, GivesState, Alone
<1>1. /\ Alone(t) /\ autocommit'[ConnOf[t]]
      /\ \A u \in Siblings(t) : pc'[u] = "idle"
  BY StaysAlone DEF Idle, Alone
<1>2. CASE pc[t] = "step"
  <2>1. states'[t] = states[t] \cup {rows'}
    BY <1>2, Tracked DEF Idle
  <2>2. /\ t \notin reading => list[t] = {}
        /\ t \in reading => /\ ConnOf[t] \in shared
                            /\ snap[ConnOf[t]] \in states[t]
                            /\ list[t] \subseteq snap[ConnOf[t]]
                            /\ \A r \in snap[ConnOf[t]] : Seen(t, r)
    BY <1>1, <1>2 DEF StateInv, InState
  <2> QED
    BY <1>1, <1>2, <2>1, <2>2 DEF InState, GivesState, Seen, Idle, Siblings
<1>3. CASE pc[t] = "finalize"
  <2>1. states'[t] = states[t] /\ GivesState(t) /\ t \notin shares
    BY <1>1, <1>3, Tracked DEF StateInv, Alone
  <2> QED
    BY <1>1, <1>3, <2>1 DEF InState, GivesState, Idle, Siblings
<1>4. CASE pc[t] \notin {"step", "finalize"}
  BY <1>1, <1>4 DEF InState, GivesState, Idle, Siblings
<1> QED
  BY <1>2, <1>3, <1>4

(* A row is taken: from the snapshot, which the first row takes.           *)
LEMMA RowInState ==
  ASSUME TypeInv, LockInv, StateInv, NEW t \in Threads, StepRow(t), Observe,
         TypeInv', Alone(t)'
  PROVE  /\ rows' \in states'[t] /\ t \in reading'
         /\ ConnOf[t] \in shared' /\ snap'[ConnOf[t]] \in states'[t]
         /\ list'[t] \subseteq snap'[ConnOf[t]]
         /\ \A r \in snap'[ConnOf[t]] : Seen(t, r)'
<1> DEFINE c == ConnOf[t]
<1>1. LockTypes /\ CallTypes /\ LockTypes' /\ c \in Conns
  BY TypeParts DEF TypeInv
<1>2. /\ pc[t] = "step" /\ pc'[t] = "step" /\ rows' = rows
      /\ reading' = reading \cup {t} /\ Share(c)
  BY DEF StepRow, Share
<1>3. Alone(t) /\ states'[t] = states[t] \cup {rows}
  BY <1>1, <1>2, StaysAlone, Tracked DEF Idle
<1>4. PICK r \in Ahead(t) : /\ \A q \in Ahead(t) : r <= q
                            /\ list' = [list EXCEPT ![t] = @ \cup {r}]
  BY DEF StepRow
<1>5. list'[t] = list[t] \cup {r} /\ r \in View(c) /\ \A q \in list[t] : r > q
  BY <1>1, <1>4 DEF CallTypes, Ahead
<1>6. snap'[c] = View(c) /\ c \in shared'
  BY <1>1, <1>2, <1>3, AloneSees DEF Share, LockTypes, StateInv, InState
<1>7. /\ View(c) \in states'[t] /\ list[t] \subseteq View(c)
      /\ \A q \in View(c) : Seen(t, q)
  BY <1>2, <1>3, AloneSees DEF StateInv, InState, Seen
<1>8. View(c) \subseteq Nat /\ list[t] \subseteq Nat
  BY <1>1, ViewType DEF RowIds, CallTypes
<1>9. ASSUME NEW q \in View(c) PROVE Seen(t, q)'
  <2>1. q \in Nat /\ r \in Nat /\ Seen(t, q)
    BY <1>5, <1>7, <1>8, <1>9
  <2>2. CASE q \in list[t]
    BY <1>5, <2>2 DEF Seen
  <2>3. CASE q \notin list[t]
    <3>1. q \in Ahead(t)
      BY <1>9, <2>1, <2>3 DEF Seen, Ahead
    <3>2. q = r \/ q > r
      BY <1>4, <2>1, <3>1
    <3> QED
      BY <1>5, <2>1, <2>3, <3>2 DEF Seen
  <2> QED
    BY <2>2, <2>3
<1> QED
  BY <1>2, <1>3, <1>5, <1>6, <1>7, <1>9

(* The loop of toList is done, or count has its row.                       *)
LEMMA DoneInState ==
  ASSUME TypeInv, LockInv, StateInv, NEW t \in Threads,
         StepDone(t) \/ StepCount(t), Observe, TypeInv', Alone(t)'
  PROVE  GivesState(t)'
<1> DEFINE c == ConnOf[t]
<1>1. LockTypes /\ CallTypes /\ LockTypes' /\ c \in Conns
  BY TypeParts DEF TypeInv
<1>2. pc[t] = "step" /\ pc'[t] = "finalize" /\ op' = op
  BY <1>1 DEF StepDone, StepCount, Goto, CallTypes
<1>3. Alone(t) /\ states'[t] = states[t]
  BY <1>1, <1>2, StaysAlone, Tracked DEF Idle
<1>4. View(c) \in states[t]
  BY <1>2, <1>3, AloneSees DEF StateInv, InState
<1>5. CASE StepCount(t)
  <2>1. op[t] = "count" /\ ret'[t] = Cardinality(View(c))
    BY <1>1, <1>5 DEF StepCount, CallTypes
  <2> QED
    BY <1>2, <1>3, <1>4, <2>1 DEF GivesState
<1>6. CASE StepDone(t)
  <2>1. op[t] = "toList" /\ list' = list /\ Ahead(t) = {}
    BY <1>6 DEF StepDone
  <2>2. /\ list[t] \subseteq View(c)
        /\ \A q \in View(c) : Seen(t, q)
    BY <1>2, <1>3, AloneSees DEF StateInv, InState, Seen
  <2>3. list[t] = View(c)
    BY <2>1, <2>2 DEF Ahead, Seen
  <2> QED
    BY <1>2, <1>3, <1>4, <2>1, <2>3 DEF GivesState
<1> QED
  BY <1>5, <1>6

(* The thread whose step it is. *)
LEMMA StateOwnStep ==
  ASSUME TypeInv, LockInv, StateInv, NEW t \in Threads, StepOf(t), Observe,
         TypeInv'
  PROVE  InState(t)' /\ GivesState(t)'
<1> SUFFICES ASSUME Alone(t)' PROVE InState(t)' /\ GivesState(t)'
  BY DEF InState, GivesState, Alone
<1>1. LockTypes' /\ CallTypes /\ PcInv
  BY TypeParts DEF TypeInv
<1>2. /\ pc \in [Threads -> {"idle", "step", "write", "commit", "finalize"}]
      /\ op \in [Threads -> Ops \cup {"none"}]
  BY <1>1 DEF CallTypes
<1>3. /\ autocommit'[ConnOf[t]]
      /\ \A u \in Siblings(t) : Idle(u)'
  BY StaysAlone DEF Idle
<1>4. CASE StepRow(t)
  <2>1. pc'[t] = "step"
    BY <1>4 DEF StepRow
  <2> QED
    BY <1>3, <1>4, <2>1, RowInState DEF InState, GivesState, Siblings
<1>5. CASE StepDone(t) \/ StepCount(t)
  <2>1. pc'[t] = "finalize"
    BY <1>2, <1>5 DEF StepDone, StepCount, Goto
  <2> QED
    BY <1>3, <1>5, <2>1, DoneInState DEF InState, Siblings
<1>6. CASE \/ StepSleep(t)
           \/ StepBusy(t) /\ op[t] = "toList"
  <2>1. UNCHANGED <<pc, op, reading, list, ret, failed, shared, snap>>
    BY <1>6 DEF StepSleep, StepBusy, calls, locks
  <2> QED
    BY <1>1, <2>1, StateElsewhere
<1>7. CASE \/ StepBusy(t) /\ op[t] # "toList"
           \/ StepError(t)
  <2>1. pc'[t] = "finalize" /\ t \in failed'
    BY <1>2, <1>7 DEF StepBusy, StepError, Goto
  <2> QED
    BY <1>3, <2>1 DEF InState, GivesState, Siblings
<1>8. CASE \/ Finalize(t) \/ Write(t) \/ WriteFails(t) \/ CommitDone(t)
           \/ CommitSleeps(t) \/ CommitTimesOut(t)
  <2>1. pc'[t] \notin {"step", "finalize"}
    BY <1>2, <1>8 DEF Finalize, Write, WriteFails, CommitDone, CommitSleeps,
                      CommitTimesOut, Return, Goto, calls
  <2> QED
    BY <1>3, <2>1 DEF InState, GivesState, Siblings
<1>9. ASSUME NEW o \in Ops, Call(t, o) \/ PrepareFails(t, o)
      PROVE  InState(t)' /\ GivesState(t)'
  <2>1. /\ pc[t] = "idle" /\ list' = list /\ list[t] = {}
        /\ reading' = reading /\ t \notin reading
    BY <1>1, <1>9 DEF Call, PrepareFails, CanCall, Idle, PcInv
  <2>2. pc'[t] = "finalize" => t \in failed'
    BY <1>2, <1>9, <2>1 DEF Call, CallRead, CallWrite, CallBegin, CallRollback,
                            PrepareFails, Start
  <2>3. pc'[t] = "step" => rows' \in states'[t]
    BY <1>1, <2>1, Tracked DEF Idle
  <2> QED
    BY <1>3, <2>1, <2>2, <2>3 DEF InState, GivesState, Siblings
<1> QED
  BY <1>4, <1>5, <1>6, <1>7, <1>8, <1>9 DEF StepOf, Continue

(* Together: every step. *)
LEMMA StateStep ==
  ASSUME TypeInv, LockInv, StateInv, [Next]_vars, TypeInv'
  PROVE  StateInv'
<1>1. LockTypes' /\ CallTypes /\ LockTypes
  BY TypeParts DEF TypeInv
<1>2. CASE UNCHANGED vars \/ Finished
  BY <1>2 DEF Finished, StateInv, InState, GivesState, Alone, Seen, Idle, Siblings,
              vars, sqliteVars, locks, calls, ghosts
<1>3. ASSUME NEW u \in Threads, StepOf(u), Observe PROVE StateInv'
  <2>1. ASSUME NEW t \in Threads, t # u PROVE InState(t)' /\ GivesState(t)'
    <3>1. CASE t \in Siblings(u)
      <4>1. u \in Siblings(t)
        BY <2>1, <3>1 DEF Siblings
      <4>2. ~Alone(t)'
        BY <1>3, <4>1, NoSiblingStep
      <4> QED
        BY <4>2 DEF InState, GivesState, Alone
    <3>2. CASE t \notin Siblings(u)
      <4>1. ConnOf[t] # ConnOf[u] /\ ConnOf[t] \in Conns
        BY <2>1, <3>2 DEF Siblings
      <4>2. /\ pc'[t] = pc[t] /\ op'[t] = op[t]
            /\ list'[t] = list[t] /\ ret'[t] = ret[t]
            /\ t \in reading' <=> t \in reading
            /\ t \in failed' <=> t \in failed
            /\ ConnOf[t] \in shared' <=> ConnOf[t] \in shared
            /\ snap'[ConnOf[t]] = snap[ConnOf[t]]
        BY <1>3, <2>1, <4>1, Elsewhere
      <4> QED
        BY <1>1, <1>3, <4>2, StateElsewhere
    <3> QED
      BY <3>1, <3>2
  <2> QED
    BY <1>3, <2>1, StateOwnStep DEF StateInv
<1>4. ASSUME NEW c \in Conns, Shutdown(c), Observe PROVE StateInv'
  <2>1. UNCHANGED <<pc, op, reading, list, ret, failed, stmts>>
    BY <1>4 DEF Shutdown, calls
  <2>2. ASSUME NEW t \in Threads PROVE InState(t)' /\ GivesState(t)'
    <3>1. CASE pc[t] = "idle"
      BY <2>1, <3>1 DEF InState, GivesState, Alone
    <3>2. CASE pc[t] # "idle"
      <4>1. /\ ConnOf[t] \in shared' <=> ConnOf[t] \in shared
            /\ snap'[ConnOf[t]] = snap[ConnOf[t]]
        <5>1. CASE \E u \in stmts : ConnOf[u] = c
          BY <1>4, <5>1 DEF Shutdown, locks
        <5>2. CASE ~\E u \in stmts : ConnOf[u] = c
          <6>1. RollBack(c, FALSE) /\ ConnOf[t] # c
            BY <1>4, <3>2, <5>2 DEF Shutdown, Idle
          <6> QED
            BY <1>1, <6>1 DEF RollBack, Leave, LockTypes
        <5> QED
          BY <5>1, <5>2
      <4> QED
        BY <1>1, <1>4, <2>1, <4>1, StateElsewhere
    <3> QED
      BY <3>1, <3>2
  <2> QED
    BY <2>2 DEF StateInv
<1> QED
  BY <1>2, <1>3, <1>4 DEF Next, Application, Continue, StepOf

(* A read call that is alone on its connection gives the table as it was   *)
(* committed at one moment of the call, however many rows it steps through *)
(* while other connections commit, in both journal modes.                  *)
THEOREM OneStateIsRead == Spec => []ReadsOneState
<1>1. TypeInv /\ LockInv /\ StateInv /\ [Next]_vars
      => TypeInv' /\ LockInv' /\ StateInv'
  BY TypeStep, LockStep, StateStep
<1>2. StateInv => ReadsOneState
  BY DEF StateInv, GivesState, ReadsOneState
<1> QED
  BY TypeInit, LockInit, StateInit, <1>1, <1>2, PTL DEF Spec
=============================================================================
