------------------------------ MODULE OrmaRead ------------------------------
(***************************************************************************)
(* The read calls of csorma: _to_list and _count of a table (_table.c) and *)
(* OrmaDatabase_run_sql_int64 (csorma.c), while other threads read, write  *)
(* and use transactions over the same and other connections.               *)
(*                                                                         *)
(* toList and run_sql_int64 step through the rows in the same loop: a row  *)
(* is taken, SQLITE_BUSY steps again, anything else ends the loop; the     *)
(* result of run_sql_int64 is of the last row of "list".  Each             *)
(* sqlite3_step is one action, with a second one when it sleeps in the     *)
(* busy handler.  Writes are one action when they need not wait: OrmaExec  *)
(* looks inside them.                                                      *)
(***************************************************************************)
EXTENDS SqliteLocks

CONSTANTS ConnOf,    \* the connection of each thread
          Stored,    \* the rows at the start
          OpsOf,     \* the calls each thread makes
          MaxCalls,  \* bound on calls
          MaxFaults  \* bound on errors that come from outside

Reads == {"toList", "count"}
Writes == {"insert", "delete"}
Ops == Reads \cup Writes \cup {"begin", "commit", "rollback"}

ASSUME ConnOfAssumption == ConnOf \in [Threads -> Conns]
ASSUME OpsOfAssumption == OpsOf \in [Threads -> SUBSET Ops]
ASSUME BoundsAssumption == MaxCalls \in Nat /\ MaxFaults \in Nat
ASSUME StoredAssumption == Stored \in SUBSET RowIds

VARIABLES handle,  \* per connection: "open", "closed", or "leaked"
          op, pc,  \* per thread: the call and where it is
          stmts,   \* threads with a statement that is not finalized
          reading, \* the ones of them whose statement is active
          list,    \* per thread: the rows its loop has taken
          ret,     \* per thread: the result of count
          budget,  \* calls and faults that may still happen
          failed,  \* ghost: threads whose call met an error or timeout
          shares,  \* ghost: threads whose call overlapped another call or a
                   \* transaction of their connection
          stay,    \* ghost: rows that were visible all through the call
          ever,    \* ghost: rows that were visible at some time in it
          states   \* ghost: committed tables there were during the call

calls == <<op, pc, stmts, reading, list, ret>>
ghosts == <<failed, shares, stay, ever, states>>
vars == <<sqliteVars, handle, calls, budget, ghosts>>

TypeOK ==
  /\ LocksTypeOK
  /\ handle \in [Conns -> {"open", "closed", "leaked"}]
  /\ op \in [Threads -> Ops \cup {"none"}]
  /\ pc \in [Threads -> {"idle", "step", "write", "commit", "finalize"}]
  /\ reading \subseteq stmts /\ stmts \subseteq Threads
  /\ list \in [Threads -> SUBSET RowIds]
  /\ ret \in [Threads -> Int]
  /\ budget \in [calls : Nat, faults : Nat]
  /\ failed \subseteq Threads /\ shares \subseteq Threads
  /\ stay \in [Threads -> SUBSET RowIds] /\ ever \in [Threads -> SUBSET RowIds]
  /\ states \in [Threads -> SUBSET SUBSET RowIds]

Idle(t) == pc[t] = "idle"
Goto(t, label) == pc' = [pc EXCEPT ![t] = label] /\ UNCHANGED op
Return(t) == /\ pc' = [pc EXCEPT ![t] = "idle"]
             /\ op' = [op EXCEPT ![t] = "none"]
Siblings(t) == {u \in Threads \ {t} : ConnOf[u] = ConnOf[t]}

(* The read transaction of t's connection outlives t's statement.          *)
Needed(t) == ~autocommit[ConnOf[t]] \/ Siblings(t) \cap reading # {}

Init ==
  /\ wal \in BOOLEAN
  /\ LocksInit(Stored)
  /\ handle = [c \in Conns |-> "open"]
  /\ op = [t \in Threads |-> "none"]
  /\ pc = [t \in Threads |-> "idle"]
  /\ stmts = {} /\ reading = {}
  /\ list = [t \in Threads |-> {}]
  /\ ret = [t \in Threads |-> -1]
  /\ budget = [calls |-> MaxCalls, faults |-> MaxFaults]
  /\ failed = {} /\ shares = {}
  /\ stay = [t \in Threads |-> {}] /\ ever = [t \in Threads |-> {}]
  /\ states = [t \in Threads |-> {}]

-----------------------------------------------------------------------------
Start(t, o, label) == /\ pc' = [pc EXCEPT ![t] = label]
                      /\ op' = [op EXCEPT ![t] = o]

(* A read call starts and prepares its SELECT, which takes no lock once    *)
(* the connection knows the schema.                                        *)
CallRead(t, o) ==
  /\ o \in Reads
  /\ Start(t, o, "step")
  /\ stmts' = stmts \cup {t}
  /\ UNCHANGED <<locks, autocommit>>

(* A write or COMMIT starts.  BEGIN and ROLLBACK never wait.               *)
CallWrite(t, o) ==
  /\ \/ o \in Writes /\ Start(t, o, "write")
     \/ o = "commit" /\ ~autocommit[ConnOf[t]] /\ Start(t, o, "commit")
  /\ UNCHANGED <<locks, autocommit, stmts>>

CallBegin(t, o) ==
  /\ o = "begin" /\ autocommit[ConnOf[t]]
  /\ autocommit' = [autocommit EXCEPT ![ConnOf[t]] = FALSE]
  /\ UNCHANGED <<locks, op, pc, stmts>>

CallRollback(t, o) ==
  /\ o = "rollback" /\ ~autocommit[ConnOf[t]]
  /\ autocommit' = [autocommit EXCEPT ![ConnOf[t]] = TRUE]
  /\ RollBack(ConnOf[t], Siblings(t) \cap reading # {})
  /\ UNCHANGED <<op, pc, stmts>>

CanCall(t) == /\ Idle(t)
              /\ handle[ConnOf[t]] = "open"
              /\ Serialized(t, ConnOf[t])
              /\ budget.calls > 0

Call(t, o) ==
  /\ CanCall(t)
  /\ budget' = [budget EXCEPT !.calls = @ - 1]
  /\ CallRead(t, o) \/ CallWrite(t, o) \/ CallBegin(t, o) \/ CallRollback(t, o)
  /\ UNCHANGED <<wal, waiter, handle, reading, list, ret, failed>>

(* sqlite3_prepare_v2 fails.  The loops go on with a null statement, which *)
(* sqlite3_step refuses: an empty list, or 0.                              *)
PrepareFails(t, o) ==
  /\ CanCall(t)
  /\ o \in Reads
  /\ budget.faults > 0
  /\ budget' = [calls |-> budget.calls - 1, faults |-> budget.faults - 1]
  /\ Start(t, o, "finalize")
  /\ ret' = [ret EXCEPT ![t] = IF o = "count" THEN -3 ELSE -1]
  /\ failed' = failed \cup {t}
  /\ UNCHANGED <<sqliteVars, handle, stmts, reading, list>>

-----------------------------------------------------------------------------
(* The loop of toList and run_sql_int64, and the one step of count.        *)

Ahead(t) == {r \in View(ConnOf[t]) : \A q \in list[t] : r > q}

(* Mutant: the loop ends after one row. *)
StepLastRow(t) ==
  /\ pc[t] = "step" /\ op[t] = "toList"
  /\ Serialized(t, ConnOf[t]) /\ CanShare(ConnOf[t])
  /\ \E r \in Ahead(t) :
       /\ \A q \in Ahead(t) : r <= q
       /\ list' = [list EXCEPT ![t] = @ \cup {r}]
  /\ Share(ConnOf[t])
  /\ reading' = reading \cup {t}
  /\ Awake(ConnOf[t])
  /\ Goto(t, "finalize")
  /\ UNCHANGED <<wal, autocommit, handle, stmts, ret, budget, failed>>

(* SQLITE_ROW: the next row. *)
StepRow(t) ==
  /\ pc[t] = "step" /\ op[t] = "toList"
  /\ Serialized(t, ConnOf[t]) /\ CanShare(ConnOf[t])
  /\ \E r \in Ahead(t) :
       /\ \A q \in Ahead(t) : r <= q
       /\ list' = [list EXCEPT ![t] = @ \cup {r}]
  /\ Share(ConnOf[t])
  /\ reading' = reading \cup {t}
  /\ Awake(ConnOf[t])
  /\ UNCHANGED <<wal, autocommit, handle, op, pc, stmts, ret, budget, failed>>

(* Mutant: SQLITE_DONE does not end the loop. *)
StepDoneContinues(t) ==
  /\ pc[t] = "step" /\ op[t] = "toList"
  /\ Serialized(t, ConnOf[t]) /\ CanShare(ConnOf[t])
  /\ Ahead(t) = {}
  /\ Awake(ConnOf[t])
  /\ UNCHANGED <<wal, locks, autocommit, handle, calls, budget, failed>>

(* SQLITE_DONE: the statement ends, and with it the read transaction.      *)
StepDone(t) ==
  /\ pc[t] = "step" /\ op[t] = "toList"
  /\ Serialized(t, ConnOf[t]) /\ CanShare(ConnOf[t])
  /\ Ahead(t) = {}
  /\ IF t \in reading
     THEN Leave(ConnOf[t], Needed(t)) /\ UNCHANGED <<rows, writer, work, pending>>
     ELSE IF autocommit[ConnOf[t]] THEN UNCHANGED locks ELSE Share(ConnOf[t])
  /\ reading' = reading \ {t}
  /\ Awake(ConnOf[t])
  /\ Goto(t, "finalize")
  /\ UNCHANGED <<wal, autocommit, handle, stmts, list, ret, budget, failed>>

(* count takes its one row; the statement stays active until finalize.     *)
StepCount(t) ==
  /\ pc[t] = "step" /\ op[t] = "count"
  /\ Serialized(t, ConnOf[t]) /\ CanShare(ConnOf[t])
  /\ ret' = [ret EXCEPT ![t] = Cardinality(View(ConnOf[t]))]
  /\ Share(ConnOf[t])
  /\ reading' = reading \cup {t}
  /\ Awake(ConnOf[t])
  /\ Goto(t, "finalize")
  /\ UNCHANGED <<wal, autocommit, handle, stmts, list, budget, failed>>

(* A commit keeps new readers out: the thread sleeps in the busy handler,  *)
(* at most three seconds.                                                  *)
StepSleep(t) ==
  /\ pc[t] \in {"step", "write"}
  /\ ConnOf[t] \notin shared
  /\ ~(IF pc[t] = "step" THEN CanShare(ConnOf[t]) ELSE CanReserve(ConnOf[t]))
  /\ Sleep(t, ConnOf[t])
  /\ UNCHANGED <<wal, locks, autocommit, handle, calls, budget, failed>>

(* Mutant: a loop that ends on SQLITE_BUSY. *)
StepBusyEnds(t) ==
  /\ pc[t] = "step"
  /\ waiter[ConnOf[t]] = t
  /\ Awake(ConnOf[t])
  /\ Goto(t, "finalize")
  /\ ret' = [ret EXCEPT ![t] = -2]
  /\ failed' = IF op[t] = "toList" THEN failed ELSE failed \cup {t}
  /\ UNCHANGED <<wal, locks, autocommit, handle, stmts, reading, list, budget>>

(* SQLITE_BUSY: the loops step again, count gives up with -2.              *)
StepBusy(t) ==
  /\ pc[t] = "step"
  /\ waiter[ConnOf[t]] = t
  /\ Awake(ConnOf[t])
  /\ IF op[t] = "toList"
     THEN UNCHANGED <<pc, op, ret, failed>>
     ELSE /\ Goto(t, "finalize")
          /\ ret' = [ret EXCEPT ![t] = -2]
          /\ failed' = failed \cup {t}
  /\ UNCHANGED <<wal, locks, autocommit, handle, stmts, reading, list, budget>>

(* Any other answer ends the loop like SQLITE_DONE does; count gives -2.   *)
StepError(t) ==
  /\ pc[t] = "step"
  /\ Serialized(t, ConnOf[t])
  /\ budget.faults > 0
  /\ budget' = [budget EXCEPT !.faults = @ - 1]
  /\ Leave(ConnOf[t], t \notin reading \/ Needed(t))
  /\ reading' = reading \ {t}
  /\ ret' = [ret EXCEPT ![t] = IF op[t] = "count" THEN -2 ELSE @]
  /\ failed' = failed \cup {t}
  /\ Awake(ConnOf[t])
  /\ Goto(t, "finalize")
  /\ UNCHANGED <<wal, rows, writer, work, pending, autocommit, handle, stmts,
                 list>>

(* Mutant: an active statement stays active. *)
FinalizeNothing(t) ==
  /\ pc[t] = "finalize"
  /\ stmts' = stmts \ {t}
  /\ Return(t)
  /\ list' = [list EXCEPT ![t] = {}]
  /\ ret' = [ret EXCEPT ![t] = -1]
  /\ failed' = failed \ {t}
  /\ UNCHANGED <<sqliteVars, handle, reading, budget>>

(* sqlite3_finalize, and the call returns.  It ends count's statement.     *)
Finalize(t) ==
  /\ pc[t] = "finalize"
  /\ Serialized(t, ConnOf[t])
  /\ Leave(ConnOf[t], t \notin reading \/ Needed(t))
  /\ stmts' = stmts \ {t}
  /\ reading' = reading \ {t}
  /\ Return(t)
  /\ list' = [list EXCEPT ![t] = {}]
  /\ ret' = [ret EXCEPT ![t] = -1]
  /\ failed' = failed \ {t}
  /\ UNCHANGED <<wal, rows, writer, work, pending, autocommit, waiter, handle,
                 budget>>

-----------------------------------------------------------------------------
(* The write calls, one step each unless they wait.                        *)

Result(t) ==
  IF op[t] = "insert"
  THEN {View(ConnOf[t]) \cup {r} : r \in {q \in RowIds :
          \A p \in View(ConnOf[t]) : p < q /\ (q - 1 \in View(ConnOf[t]) \/ q = 1)}}
  ELSE {View(ConnOf[t]) \ {r} : r \in View(ConnOf[t])}

(* The row is inserted or deleted: committed at once in autocommit mode,   *)
(* unless other connections still read.                                    *)
Write(t) ==
  /\ pc[t] = "write"
  /\ Serialized(t, ConnOf[t]) /\ CanReserve(ConnOf[t])
  /\ \E new \in Result(t) :
       \/ /\ ~autocommit[ConnOf[t]]
          /\ Reserve(ConnOf[t], new, FALSE)
          /\ Awake(ConnOf[t]) /\ Return(t)
       \/ /\ autocommit[ConnOf[t]] /\ CanCommit(ConnOf[t])
          /\ Commit(ConnOf[t], new, Siblings(t) \cap reading # {})
          /\ Awake(ConnOf[t]) /\ Return(t)
       \/ /\ autocommit[ConnOf[t]] /\ ~CanCommit(ConnOf[t])
          /\ Reserve(ConnOf[t], new, TRUE)
          /\ waiter' = [waiter EXCEPT ![ConnOf[t]] = t] /\ Goto(t, "commit")
  /\ UNCHANGED <<wal, autocommit, handle, stmts, reading, list, ret, budget,
                 failed>>

(* The row cannot be written, or there is none to write. *)
WriteFails(t) ==
  /\ pc[t] = "write"
  /\ Serialized(t, ConnOf[t])
  /\ IF CanReserve(ConnOf[t]) THEN Result(t) = {} ELSE BusyAnswer(t, ConnOf[t])
  /\ Awake(ConnOf[t])
  /\ Return(t)
  /\ UNCHANGED <<wal, locks, autocommit, handle, stmts, reading, list, ret,
                 budget, failed>>

CommitDone(t) ==
  /\ pc[t] = "commit"
  /\ Serialized(t, ConnOf[t])
  /\ IF writer = ConnOf[t]
     THEN /\ CanCommit(ConnOf[t])
          /\ Commit(ConnOf[t], work, Siblings(t) \cap reading # {})
     ELSE /\ Leave(ConnOf[t], Siblings(t) \cap reading # {})
          /\ UNCHANGED <<rows, writer, work, pending>>
  /\ autocommit' = [autocommit EXCEPT ![ConnOf[t]] = TRUE]
  /\ Awake(ConnOf[t])
  /\ Return(t)
  /\ UNCHANGED <<wal, handle, stmts, reading, list, ret, budget, failed>>

(* COMMIT takes PENDING and sleeps while other connections read. *)
CommitSleeps(t) ==
  /\ pc[t] = "commit"
  /\ writer = ConnOf[t] /\ ~CanCommit(ConnOf[t])
  /\ Sleep(t, ConnOf[t])
  /\ Reserve(ConnOf[t], work, TRUE)
  /\ UNCHANGED <<wal, autocommit, handle, calls, budget, failed>>

(* The busy timeout: a write in autocommit mode is rolled back, a COMMIT   *)
(* leaves the transaction open and keeps PENDING.                          *)
CommitTimesOut(t) ==
  /\ pc[t] = "commit"
  /\ waiter[ConnOf[t]] = t
  /\ IF autocommit[ConnOf[t]]
     THEN RollBack(ConnOf[t], Siblings(t) \cap reading # {})
     ELSE UNCHANGED locks
  /\ Awake(ConnOf[t])
  /\ Return(t)
  /\ UNCHANGED <<wal, autocommit, handle, stmts, reading, list, ret, budget,
                 failed>>

(* OrmaDatabase_shutdown ignores that sqlite3_close refuses to close a     *)
(* connection with a statement: nothing is left to close it with.          *)
Shutdown(c) ==
  /\ handle[c] = "open"
  /\ waiter[c] = NoThread
  /\ budget.calls > 0
  /\ budget' = [budget EXCEPT !.calls = @ - 1]
  /\ \A t \in Threads : ConnOf[t] = c => Idle(t) \/ t \in stmts
  /\ IF \E t \in stmts : ConnOf[t] = c
     THEN /\ handle' = [handle EXCEPT ![c] = "leaked"]
          /\ UNCHANGED <<locks, autocommit>>
     ELSE /\ handle' = [handle EXCEPT ![c] = "closed"]
          /\ RollBack(c, FALSE)
          /\ autocommit' = [autocommit EXCEPT ![c] = TRUE]
  /\ UNCHANGED <<wal, waiter, calls, failed>>

-----------------------------------------------------------------------------
(* What the ghosts record of the state a step leads to: from the call on,  *)
(* while the loop runs, and until the call returns.                        *)
Track(t, old, first, more) ==
  IF pc'[t] = "step" THEN IF Idle(t) THEN first ELSE more
  ELSE IF pc'[t] = "finalize" THEN old ELSE {}

Observe ==
  /\ shares' = {t \in Threads :
       /\ pc'[t] # "idle"
       /\ \/ t \in shares /\ ~Idle(t)
          \/ ~autocommit[ConnOf[t]] \/ ~autocommit'[ConnOf[t]]
          \/ \E u \in Siblings(t) : ~Idle(u) \/ pc'[u] # "idle"}
  /\ stay' = [t \in Threads |-> Track(t, stay[t], View(ConnOf[t])',
                                      stay[t] \cap View(ConnOf[t])')]
  /\ ever' = [t \in Threads |-> Track(t, ever[t], View(ConnOf[t])',
                                      ever[t] \cup View(ConnOf[t])')]
  /\ states' = [t \in Threads |-> Track(t, states[t], {rows'},
                                        states[t] \cup {rows'})]

Continue(t) ==
  /\ \/ StepRow(t) \/ StepDone(t) \/ StepCount(t) \/ StepSleep(t) \/ StepBusy(t)
     \/ StepError(t) \/ Finalize(t)
     \/ Write(t) \/ WriteFails(t) \/ CommitDone(t) \/ CommitSleeps(t)
     \/ CommitTimesOut(t)
  /\ Observe

Application ==
  /\ \/ \E t \in Threads, o \in Ops :
          o \in OpsOf[t] /\ (Call(t, o) \/ PrepareFails(t, o))
     \/ \E c \in Conns : Shutdown(c)
  /\ Observe

Finished == (\A t \in Threads : Idle(t)) /\ UNCHANGED vars

Next == (\E t \in Threads : Continue(t)) \/ Application \/ Finished

Spec == Init /\ [][Next]_vars

(* A thread in a call goes on.  Nobody has to make a call, for instance to *)
(* try a COMMIT again.                                                     *)
LiveSpec == Spec /\ \A t \in Threads : WF_vars(Continue(t))

-----------------------------------------------------------------------------
(* Properties                                                              *)

(* At the end of a loop that met no error the list has every row that was  *)
(* visible all through the call and none that never was, whatever other    *)
(* threads did to the table: SQLITE_BUSY never cuts it short.              *)
ListIsComplete ==
  \A t \in Threads :
    pc[t] = "finalize" /\ op[t] = "toList" /\ t \notin failed
      => stay[t] \subseteq list[t] /\ list[t] \subseteq ever[t]

(* With the connection to itself and no transaction open, a read call that *)
(* met no error gives the table as it was committed at one moment of the   *)
(* call, in both journal modes: never half of another connection's writes, *)
(* never a table from before the call.                                     *)
ReadsOneState ==
  \A t \in Threads :
    pc[t] = "finalize" /\ t \notin failed \cup shares
      => IF op[t] = "count" THEN \E S \in states[t] : ret[t] = Cardinality(S)
                            ELSE list[t] \in states[t]

(* A connection is in a read transaction, and has the write lock, only for *)
(* a call that has not returned or an open transaction; so also after a    *)
(* close that was refused.                                                 *)
LocksOwned ==
  \A c \in Conns :
    autocommit[c] /\ (\A t \in Threads : ConnOf[t] = c => Idle(t))
      => c \notin shared /\ writer # c /\ pending # c

(* Every call returns if in the end no commit that failed keeps readers    *)
(* out: threads that wait for each other's locks, or for the mutex of the  *)
(* connection, get them or their busy timeout.                             *)
CallsReturn ==
  (<>[](pending = NoConn)) => \A t \in Threads : ~Idle(t) ~> Idle(t)

(* What test_busy.c wants (no infinite spin on SQLITE_BUSY), and the code  *)
(* does not do.                                                            *)
NoInfiniteSpin == \A t \in Threads : ~Idle(t) ~> Idle(t)
=============================================================================
