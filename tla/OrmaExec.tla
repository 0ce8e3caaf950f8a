------------------------------ MODULE OrmaExec ------------------------------
(***************************************************************************)
(* The write path of csorma under concurrency: threads that insert,        *)
(* update and delete through the generated tables (__insert_into_ and      *)
(* _execute of _table.c), run free-hand SQL (OrmaDatabase_run_multi_sql),  *)
(* and open and close connections (OrmaDatabase_init, _shutdown).          *)
(*                                                                         *)
(* One process-wide mutex guards the step of a statement and the reading   *)
(* of the per-connection row id or change counter that belongs to it.      *)
(***************************************************************************)
EXTENDS Sqlite

CONSTANTS Uses,          \* which connections a thread works on
          FreeHand,      \* the kinds of free-hand SQL the application runs
          InitWhileBusy, \* may a connection be opened during other calls?
          MaxCalls       \* bound on the calls the application makes per thread

Statements == {"insert", "update", "delete"}

ASSUME UsesAssumption == Uses \in [Threads -> SUBSET Conns]
ASSUME FreeHandAssumption ==
  FreeHand \subseteq {"insert", "delete", "begin", "commit", "rollback"}
ASSUME InitWhileBusyAssumption == InitWhileBusy \in BOOLEAN
ASSUME MaxCallsAssumption == MaxCalls \in [Threads -> Nat]

VARIABLES mutex,   \* owner of __sorma_global_last_inserted_rowid___mutex
          forgotten, \* threads that sleep on the mutex and that its
                   \*        initialisation forgot
          pc,      \* per thread: the next thing its call does
          call,    \* per thread: the statement and connection of its call
          ret,     \* per thread: last_insert_id or afftect_rows
          budget,  \* per thread: calls the application may still make
          own,     \* ghost, per thread: what its own statement produced
          kept     \* ghost: row ids inserted outside a transaction and never
                   \*        deleted since

callVars == <<mutex, forgotten, pc, call, ret, budget>>
ghostVars == <<own, kept>>
vars == <<sqliteVars, callVars, ghostVars>>

(* _execute and __insert_into_ run over the first six; run_multi_sql is    *)
(* one sqlite3_exec, which holds the connection for the whole script.      *)
PCs == {"idle", "prepare", "lock", "step", "read", "unlock", "finalize",
        "exec"}

Calls == [stmt : Statements \cup FreeHand \cup {"none"},
          conn : Conns \cup {NoConn}]

(* The values the ORM calls return: a row id or a number of rows, -2 when  *)
(* the step failed, -3 when the statement could not be prepared.           *)
Results == Nat \cup {-2, -3}

(* Types: a result is a row id, a count, -2 or -3, and a call names a      *)
(* statement and a connection.                                             *)
TypeOK ==
  /\ SqliteTypeOK
  /\ mutex \in Threads \cup {NoThread}
  /\ forgotten \in SUBSET Threads
  /\ pc \in [Threads -> PCs]
  /\ call \in [Threads -> Calls]
  /\ ret \in [Threads -> Results]
  /\ budget \in [Threads -> Nat]
  /\ own \in [Threads -> Results]
  /\ kept \in SUBSET RowIds

Init ==
  /\ SqliteInit
  /\ mutex = NoThread
  /\ forgotten = {}
  /\ pc = [t \in Threads |-> "idle"]
  /\ call = [t \in Threads |-> [stmt |-> "none", conn |-> NoConn]]
  /\ ret = [t \in Threads |-> 0]
  /\ budget = MaxCalls
  /\ own = [t \in Threads |-> 0]
  /\ kept = {}

Idle(t) == pc[t] = "idle"
Busy(c) == \E t \in Threads : ~Idle(t) /\ call[t].conn = c
Goto(t, label) == pc' = [pc EXCEPT ![t] = label]

-----------------------------------------------------------------------------
(* The application starts a call: of a generated table, or free-hand.      *)
Start(t, s, c, label) ==
  /\ Idle(t)
  /\ budget[t] > 0
  /\ c \in Uses[t] \cap opened
  /\ budget' = [budget EXCEPT ![t] = @ - 1]
  /\ call' = [call EXCEPT ![t] = [stmt |-> s, conn |-> c]]
  /\ Goto(t, label)
  /\ UNCHANGED <<sqliteVars, mutex, forgotten, ret, ghostVars>>

StartTable(t, s, c) == s \in Statements /\ Start(t, s, c, "prepare")
StartFreeHand(t, s, c) == s \in FreeHand /\ Start(t, s, c, "exec")

(* A thread that sleeps until the owner of the mutex unlocks it. *)
Waits(t) == pc[t] = "lock" /\ mutex # NoThread

(* OrmaDatabase_init: opens the connection and initialises the mutex, the  *)
(* one every other connection of the process uses.  That frees a mutex     *)
(* some thread owns, and may forget who waits for it: the owner's unlock   *)
(* then finds nobody to wake.                                              *)
OrmaInit(t, c) ==
  /\ Idle(t)
  /\ budget[t] > 0
  /\ c \in Uses[t] \ opened
  /\ InitWhileBusy \/ \A u \in Threads : Idle(u)
  /\ budget' = [budget EXCEPT ![t] = @ - 1]
  /\ mutex' = NoThread
  /\ \E gone \in SUBSET {u \in Threads : Waits(u)} :
       forgotten' = forgotten \cup gone
  /\ OpenConn(c)
  /\ UNCHANGED <<pc, call, ret, ghostVars>>

(* OrmaDatabase_shutdown, when no call is using the connection. *)
OrmaShutdown(t, c) ==
  /\ Idle(t)
  /\ c \in Uses[t] \cap opened
  /\ ~Busy(c)
  /\ CloseConn(c)
  /\ UNCHANGED <<callVars, ghostVars>>

-----------------------------------------------------------------------------
(* __insert_into_ and _execute.                                            *)

(* sqlite3_prepare_v2: on failure the result is -3 and the mutex is never  *)
(* taken; sqlite3_finalize then gets a NULL statement.                     *)
Prepare(t) ==
  /\ pc[t] = "prepare"
  /\ Serialized(t, call[t].conn)
  /\ \/ /\ Goto(t, "lock")
        /\ UNCHANGED <<ret, own>>
     \/ /\ Goto(t, "finalize")
        /\ ret' = [ret EXCEPT ![t] = -3]
        /\ own' = [own EXCEPT ![t] = -3]
  /\ UNCHANGED <<sqliteVars, mutex, forgotten, call, budget, kept>>

(* Mutant: the step is not guarded. *)
LockNothing(t) ==
  /\ pc[t] = "lock"
  /\ mutex' = t
  /\ forgotten' = forgotten \ {t}
  /\ Goto(t, "step")
  /\ UNCHANGED <<sqliteVars, call, ret, budget, ghostVars>>

(* pthread_mutex_lock.  A forgotten thread gets the mutex only if a later  *)
(* owner's unlock happens to wake it, which nothing guarantees.            *)
Lock(t) ==
  /\ pc[t] = "lock"
  /\ mutex = NoThread
  /\ mutex' = t
  /\ forgotten' = forgotten \ {t}
  /\ Goto(t, "step")
  /\ UNCHANGED <<sqliteVars, call, ret, budget, ghostVars>>

(* A statement that needs the write lock while another connection has it   *)
(* sleeps in the busy handler, holding its connection.                     *)
BusyWait(t) ==
  LET c == call[t].conn IN
  /\ pc[t] = "step" \/ (pc[t] = "exec" /\ call[t].stmt \in {"insert", "delete"})
  /\ waiter[c] = NoThread
  /\ ~CanWrite(c)
  /\ waiter' = [waiter EXCEPT ![c] = t]
  /\ UNCHANGED <<opened, rows, writer, work, autocommit, lastRowid, changes,
                 stalled, callVars, ghostVars>>

(* sqlite3_step can run: nobody else is inside the connection, no other    *)
(* connection has the write lock, and t leaves the busy handler.           *)
StepRuns(t, c) ==
  /\ Serialized(t, c)
  /\ CanWrite(c)
  /\ waiter' = [waiter EXCEPT ![c] = NoThread]

(* A row inserted outside a transaction is there to stay. *)
Insert(c, id) ==
  /\ IsNextRowid(id, View(c))
  /\ StepInsert(c, id)
  /\ kept' = IF autocommit[c] THEN kept \cup {id} ELSE kept

Modify(c, s, hit) ==
  LET gone == IF s = "delete" THEN hit ELSE {} IN
  /\ StepModify(c, hit, View(c) \ gone)
  /\ kept' = kept \ gone

Step(t) ==
  LET c == call[t].conn
      s == call[t].stmt IN
  /\ pc[t] = "step"
  /\ StepRuns(t, c)
  /\ \/ /\ s = "insert"
        /\ \E id \in RowIds : /\ Insert(c, id)
                              /\ own' = [own EXCEPT ![t] = id]
     \/ /\ s \in {"update", "delete"}
        /\ \E hit \in SUBSET View(c) :
             /\ Modify(c, s, hit)
             /\ own' = [own EXCEPT ![t] = Cardinality(hit)]
  /\ Goto(t, "read")
  /\ UNCHANGED <<mutex, forgotten, call, ret, budget>>

(* step != SQLITE_DONE: an error that ends the statement ... *)
StepFails(t) ==
  LET c == call[t].conn IN
  /\ pc[t] = "step"
  /\ StepRuns(t, c)
  /\ StepError(c)
  /\ ret' = [ret EXCEPT ![t] = -2]
  /\ own' = [own EXCEPT ![t] = -2]
  /\ Goto(t, "unlock")
  /\ UNCHANGED <<mutex, forgotten, call, budget, kept>>

(* ... or the busy timeout, which leaves it active. *)
StepTimesOut(t) ==
  LET c == call[t].conn IN
  /\ pc[t] = "step"
  /\ waiter[c] = t
  /\ ~CanWrite(c)
  /\ StepBusy(t, c)
  /\ waiter' = [waiter EXCEPT ![c] = NoThread]
  /\ ret' = [ret EXCEPT ![t] = -2]
  /\ own' = [own EXCEPT ![t] = -2]
  /\ Goto(t, "unlock")
  /\ UNCHANGED <<mutex, forgotten, call, budget, kept>>

(* Mutant: an insert reads the number of changes, an update the row id. *)
ReadOther(t) ==
  LET c == call[t].conn IN
  /\ pc[t] = "read"
  /\ ret' = [ret EXCEPT ![t] = IF call[t].stmt = "insert" THEN changes[c]
                                                          ELSE lastRowid[c]]
  /\ Goto(t, "unlock")
  /\ UNCHANGED <<sqliteVars, mutex, forgotten, call, budget, ghostVars>>

(* sqlite3_last_insert_rowid or sqlite3_changes64. *)
Read(t) ==
  LET c == call[t].conn IN
  /\ pc[t] = "read"
  /\ ret' = [ret EXCEPT ![t] = IF call[t].stmt = "insert" THEN lastRowid[c]
                                                          ELSE changes[c]]
  /\ Goto(t, "unlock")
  /\ UNCHANGED <<sqliteVars, mutex, forgotten, call, budget, ghostVars>>

(* Mutant: the mutex stays locked when the step failed. *)
UnlockOnSuccess(t) ==
  /\ pc[t] = "unlock"
  /\ mutex' = IF ret[t] = -2 THEN mutex ELSE NoThread
  /\ Goto(t, "finalize")
  /\ UNCHANGED <<sqliteVars, forgotten, call, ret, budget, ghostVars>>

(* pthread_mutex_unlock frees the mutex whoever owns it. *)
Unlock(t) ==
  /\ pc[t] = "unlock"
  /\ mutex' = NoThread
  /\ Goto(t, "finalize")
  /\ UNCHANGED <<sqliteVars, forgotten, call, ret, budget, ghostVars>>

(* Mutant: the statement is not finalized. *)
FinalizeNothing(t) ==
  /\ pc[t] = "finalize"
  /\ Goto(t, "idle")
  /\ UNCHANGED <<sqliteVars, mutex, forgotten, call, ret, budget, ghostVars>>

(* sqlite3_finalize, after the mutex was released, and the return. *)
Finalize(t) ==
  LET c == call[t].conn IN
  /\ pc[t] = "finalize"
  /\ Serialized(t, c)
  /\ FinalizeStmt(t, c)
  /\ Goto(t, "idle")
  /\ UNCHANGED <<waiter, mutex, forgotten, call, ret, budget, ghostVars>>

-----------------------------------------------------------------------------
(* OrmaDatabase_run_multi_sql: sqlite3_exec, without the mutex.            *)
ExecReturns(t) ==
  /\ Goto(t, "idle")
  /\ UNCHANGED <<mutex, forgotten, call, ret, budget, own>>

ExecWrite(t) ==
  LET c == call[t].conn
      s == call[t].stmt IN
  /\ pc[t] = "exec"
  /\ StepRuns(t, c)
  /\ \/ s = "insert" /\ \E id \in RowIds : Insert(c, id)
     \/ s = "delete" /\ \E hit \in SUBSET View(c) : Modify(c, s, hit)
     \/ s \in {"insert", "delete"} /\ StepError(c) /\ UNCHANGED kept
  /\ ExecReturns(t)

(* A busy script gives up, and finalizes its statement before it returns. *)
ExecTimesOut(t) ==
  LET c == call[t].conn IN
  /\ pc[t] = "exec"
  /\ waiter[c] = t
  /\ ~CanWrite(c)
  /\ waiter' = [waiter EXCEPT ![c] = NoThread]
  /\ changes' = [changes EXCEPT ![c] = 0]
  /\ ExecReturns(t)
  /\ UNCHANGED <<opened, rows, writer, work, autocommit, lastRowid, stalled,
                 kept>>

(* Transaction control; in the wrong state the statement is an error. *)
ExecTransaction(t) ==
  LET c == call[t].conn
      s == call[t].stmt IN
  /\ pc[t] = "exec"
  /\ Serialized(t, c)
  /\ \/ s = "begin" /\ BeginTx(c)
     \/ s = "commit" /\ CommitTx(c)
     \/ s = "rollback" /\ RollbackTx(c)
     \/ /\ \/ s = "begin" /\ ~autocommit[c]
           \/ s = "commit" /\ (autocommit[c] \/ stalled[c] # {})
           \/ s = "rollback" /\ autocommit[c]
        /\ UNCHANGED <<opened, rows, writer, work, autocommit, lastRowid,
                       changes, stalled>>
  /\ UNCHANGED <<waiter, kept>>
  /\ ExecReturns(t)

-----------------------------------------------------------------------------
(* What a call that was started goes on to do. *)
Continue(t) ==
  \/ Prepare(t) \/ Lock(t) \/ BusyWait(t)
  \/ Step(t) \/ StepFails(t) \/ StepTimesOut(t)
  \/ Read(t) \/ Unlock(t) \/ Finalize(t)
  \/ ExecWrite(t) \/ ExecTimesOut(t) \/ ExecTransaction(t)

Application(t) ==
  \E c \in Conns :
    \/ \E s \in Statements : StartTable(t, s, c)
    \/ \E s \in FreeHand : StartFreeHand(t, s, c)
    \/ OrmaInit(t, c)
    \/ OrmaShutdown(t, c)

(* The application has made its calls and all of them returned. *)
Finished == /\ \A t \in Threads : Idle(t)
            /\ UNCHANGED vars

Next == (\E t \in Threads : Continue(t) \/ Application(t)) \/ Finished

Spec == Init /\ [][Next]_vars

(* Every thread inside a call is scheduled, unless it sleeps on the mutex  *)
(* and was forgotten; nobody has to start a call.                          *)
Fairness == \A t \in Threads : WF_vars(t \notin forgotten /\ Continue(t))

LiveSpec == Spec /\ Fairness

-----------------------------------------------------------------------------
(* Properties                                                              *)

(* What holds of every call, and is inductive with TypeOK: a thread inside *)
(* a call works on one of its connections, and run_multi_sql on free-hand  *)
(* SQL.                                                                    *)
CallInv == \A t \in Threads : /\ ~Idle(t) => call[t].conn \in Uses[t]
                              /\ pc[t] = "exec" => call[t].stmt \in FreeHand

Guarded(t) == pc[t] \in {"step", "read", "unlock"}

(* A thread between lock and unlock owns the mutex. *)
OwnsMutex == \A t \in Threads : Guarded(t) => mutex = t

(* At most one thread of the process is between OrmaDatabase_lock_ and     *)
(* OrmaDatabase_unlock_lastrowid_mutex, whatever connections they use.     *)
MutualExclusion ==
  \A t, u \in Threads : Guarded(t) /\ Guarded(u) => t = u

Answered(t) == pc[t] \in {"unlock", "finalize", "idle"}

(* The row id an insert returns is the one of the row it inserted, and not *)
(* of a row that another call added to the same connection meanwhile.      *)
InsertReturnsOwn ==
  \A t \in Threads : Answered(t) /\ call[t].stmt = "insert"
                      => ret[t] = own[t]

(* What makes it so: until t reads it, the connection's last row id is its *)
(* own.  With the three above this is an inductive invariant.              *)
LastRowidIsOwn ==
  \A t \in Threads : pc[t] = "read" /\ call[t].stmt = "insert"
                      => lastRowid[call[t].conn] = own[t]

(* Row ids under a shared connection: the inductive invariant.             *)
InsertInv == TypeOK /\ CallInv /\ OwnsMutex /\ LastRowidIsOwn /\ InsertReturnsOwn

(* The number of rows an update or delete returns is the number it hit.    *)
ExecuteReturnsOwn ==
  \A t \in Threads : Answered(t) /\ call[t].stmt \in {"update", "delete"}
                      => ret[t] = own[t]

(* A row whose insert ended with SQLITE_DONE outside a transaction stays   *)
(* in the table until a delete takes it: no other call makes it disappear. *)
NoLostInsert == kept \subseteq Latest

(* When all calls have returned and no transaction is open, no connection  *)
(* is left holding the write lock of the database file.                    *)
WriteLockReleased ==
  (\A t \in Threads : Idle(t)) /\ (\A c \in opened : autocommit[c])
    => writer = NoConn

(* With a connection per thread all of these hold, even when connections   *)
(* are opened during other calls.  The inductive invariant: an active      *)
(* BUSY statement belongs to a call that only has to finalize it, no       *)
(* connection in autocommit mode has the write lock, and a kept row is     *)
(* both committed and in the writer's transaction.                         *)
PrivateConns == \A t, u \in Threads : t # u => Uses[t] \cap Uses[u] = {}

StalledInv == \A c \in Conns : \A t \in stalled[c] :
                call[t].conn = c /\ pc[t] \in {"unlock", "finalize"}
OpenInv == /\ \A t \in Threads : ~Idle(t) => call[t].conn \in opened
           /\ writer # NoConn => writer \in opened /\ ~autocommit[writer]
KeptInv == /\ kept \subseteq rows
           /\ writer # NoConn => kept \subseteq work
CounterIsOwn ==
  \A t \in Threads :
    IF pc[t] = "read"
    THEN own[t] = IF call[t].stmt = "insert" THEN lastRowid[call[t].conn]
                                             ELSE changes[call[t].conn]
    ELSE ret[t] = own[t]

(* A call's result is its own and the lock and the rows are in order, with *)
(* a connection per thread.                                                *)
PrivateInv == /\ TypeOK /\ CallInv
              /\ StalledInv /\ OpenInv /\ KeptInv /\ CounterIsOwn

(* Every call returns, also when its thread sleeps in the busy handler     *)
(* with the mutex while the owner of the write lock waits for the mutex.   *)
(* The one exception is a thread that waits for the mutex while some other *)
(* thread initialises it again: whatever happens to such a thread, no      *)
(* other call has to wait for it.                                          *)
CallsReturn == \A t \in Threads : ~Idle(t) ~> Idle(t) \/ t \in forgotten

(* The calls are linearizable: the table and the results behave as if each *)
(* call took effect at once.  A call has its effect when its step is done; *)
(* until it reads its row id or counter, its result is the one it owns.    *)
Table == INSTANCE AtomicTable WITH
  store <- Latest,
  phase <- [t \in Threads |->
              IF Idle(t) THEN "idle"
              ELSE IF pc[t] \in {"prepare", "lock", "step", "exec"}
                   THEN "called" ELSE "done"],
  result <- [t \in Threads |-> IF pc[t] = "read" THEN own[t] ELSE ret[t]]

(* __insert_into_ and _execute are linearizable.                           *)
IsLinearizable == Table!Spec
=============================================================================
