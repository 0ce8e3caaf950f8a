------------------------------- MODULE Sqlite -------------------------------
(***************************************************************************)
(* What csorma relies on in the SQLite library: connections to one         *)
(* database file with one table, seen through the calls csorma.c and       *)
(* _table.c make.  SQLite is built in serialized mode, so every sqlite3_   *)
(* call that runs a statement holds its connection's own mutex until it    *)
(* returns, also while the busy handler of sqlite3_busy_timeout sleeps.    *)
(*                                                                         *)
(* A connection is in autocommit mode until a BEGIN.  A write statement    *)
(* that gave SQLITE_BUSY stays active until it is finalized ("stalled");   *)
(* while one is active, a successful write in autocommit mode is not       *)
(* committed, and finalizing the last one rolls back what is pending and   *)
(* clears the connection's change counter (sqlite3VdbeHalt).               *)
(***************************************************************************)
EXTENDS Integers, FiniteSets

CONSTANTS Threads,    \* the threads of the application
          NoThread,
          Conns,      \* the connections, all to the same database file
          NoConn,
          MaxRowid    \* bound on row ids

ASSUME NoThreadAssumption == NoThread \notin Threads
ASSUME NoConnAssumption == NoConn \notin Conns
ASSUME MaxRowidAssumption == MaxRowid \in Nat

VARIABLES opened,     \* the connections that are open
          rows,       \* the row ids in the committed table
          writer,     \* the connection with the write lock on the file
          work,       \* the row ids as the writer's open transaction sees them
          autocommit, \* per connection: not inside BEGIN ... COMMIT
          lastRowid,  \* per connection: sqlite3_last_insert_rowid
          changes,    \* per connection: sqlite3_changes64
          stalled,    \* per connection: threads whose statement gave BUSY
          waiter      \* per connection: the thread in its busy handler

sqliteVars == <<opened, rows, writer, work, autocommit, lastRowid, changes,
                stalled, waiter>>

RowIds == 1..MaxRowid

SqliteTypeOK ==
  /\ opened \in SUBSET Conns
  /\ rows \in SUBSET RowIds
  /\ writer \in Conns \cup {NoConn}
  /\ work \in SUBSET RowIds
  /\ autocommit \in [Conns -> BOOLEAN]
  /\ lastRowid \in [Conns -> RowIds \cup {0}]
  /\ changes \in [Conns -> Nat]
  /\ stalled \in [Conns -> SUBSET Threads]
  /\ waiter \in [Conns -> Threads \cup {NoThread}]

SqliteInit ==
  /\ opened = {}
  /\ rows = {}
  /\ writer = NoConn
  /\ work = {}
  /\ autocommit = [c \in Conns |-> TRUE]
  /\ lastRowid = [c \in Conns |-> 0]
  /\ changes = [c \in Conns |-> 0]
  /\ stalled = [c \in Conns |-> {}]
  /\ waiter = [c \in Conns |-> NoThread]

-----------------------------------------------------------------------------
(* The table as connection c sees it, and as the newest write left it. *)
View(c) == IF writer = c THEN work ELSE rows
Latest == IF writer = NoConn THEN rows ELSE work

CanWrite(c) == writer \in {NoConn, c}

(* No other thread is inside a sqlite3_ call of connection c. *)
Serialized(t, c) == waiter[c] \in {NoThread, t}

(* The row id an INSERT gives: one more than the largest in the table. *)
IsNextRowid(id, S) ==
  /\ id \in RowIds
  /\ \A r \in S : r < id
  /\ id = 1 \/ id - 1 \in S

-----------------------------------------------------------------------------
(* A write statement of c ends and leaves the table new: a commit in       *)
(* autocommit mode when no other write statement of c is active, otherwise *)
(* the write stays in c's open transaction.                                *)
Store(c, new) ==
  IF autocommit[c] /\ stalled[c] = {}
  THEN /\ rows' = new
       /\ writer' = NoConn
       /\ work' = {}
  ELSE /\ writer' = c
       /\ work' = new
       /\ UNCHANGED rows

(* sqlite3_step of an INSERT that adds row id. *)
StepInsert(c, id) ==
  /\ Store(c, View(c) \cup {id})
  /\ lastRowid' = [lastRowid EXCEPT ![c] = id]
  /\ changes' = [changes EXCEPT ![c] = 1]
  /\ UNCHANGED <<opened, autocommit, stalled>>

(* sqlite3_step of an UPDATE or DELETE that hits the rows of hit. *)
StepModify(c, hit, left) ==
  /\ Store(c, left)
  /\ changes' = [changes EXCEPT ![c] = Cardinality(hit)]
  /\ UNCHANGED <<opened, autocommit, lastRowid, stalled>>

(* sqlite3_step that ends with a constraint violation: halted, undone. *)
StepError(c) ==
  /\ Store(c, View(c))
  /\ changes' = [changes EXCEPT ![c] = 0]
  /\ UNCHANGED <<opened, autocommit, lastRowid, stalled>>

(* sqlite3_step gives SQLITE_BUSY: t's statement stays active. *)
StepBusy(t, c) ==
  /\ stalled' = [stalled EXCEPT ![c] = @ \cup {t}]
  /\ UNCHANGED <<opened, rows, writer, work, autocommit, lastRowid, changes>>

(* sqlite3_finalize of t's statement on c: nothing left to do for one that *)
(* ended; a stalled one is halted here, with its error code.               *)
FinalizeStmt(t, c) ==
  IF t \notin stalled[c]
  THEN UNCHANGED <<opened, rows, writer, work, autocommit, lastRowid, changes,
                   stalled>>
  ELSE /\ stalled' = [stalled EXCEPT ![c] = @ \ {t}]
       /\ changes' = [changes EXCEPT ![c] = 0]
       /\ IF autocommit[c] /\ stalled[c] = {t} /\ writer = c
          THEN writer' = NoConn /\ work' = {}
          ELSE UNCHANGED <<writer, work>>
       /\ UNCHANGED <<opened, rows, autocommit, lastRowid>>

(* BEGIN, COMMIT and ROLLBACK.  COMMIT is refused while a write statement  *)
(* of the connection is active.                                            *)
BeginTx(c) ==
  /\ autocommit[c]
  /\ autocommit' = [autocommit EXCEPT ![c] = FALSE]
  /\ UNCHANGED <<opened, rows, writer, work, lastRowid, changes, stalled>>

CommitTx(c) ==
  /\ ~autocommit[c]
  /\ stalled[c] = {}
  /\ autocommit' = [autocommit EXCEPT ![c] = TRUE]
  /\ rows' = View(c)
  /\ IF writer = c THEN writer' = NoConn /\ work' = {}
                   ELSE UNCHANGED <<writer, work>>
  /\ UNCHANGED <<opened, lastRowid, changes, stalled>>

RollbackTx(c) ==
  /\ ~autocommit[c]
  /\ autocommit' = [autocommit EXCEPT ![c] = TRUE]
  /\ IF writer = c THEN writer' = NoConn /\ work' = {}
                   ELSE UNCHANGED <<writer, work>>
  /\ UNCHANGED <<opened, rows, lastRowid, changes, stalled>>

(* sqlite3_open and sqlite3_close of a connection with no active statement: *)
(* closing rolls back an open transaction.                                  *)
OpenConn(c) ==
  /\ opened' = opened \cup {c}
  /\ autocommit' = [autocommit EXCEPT ![c] = TRUE]
  /\ lastRowid' = [lastRowid EXCEPT ![c] = 0]
  /\ changes' = [changes EXCEPT ![c] = 0]
  /\ UNCHANGED <<rows, writer, work, stalled, waiter>>

CloseConn(c) ==
  /\ opened' = opened \ {c}
  /\ IF writer = c THEN writer' = NoConn /\ work' = {}
                   ELSE UNCHANGED <<writer, work>>
  /\ UNCHANGED <<rows, autocommit, lastRowid, changes, stalled, waiter>>
=============================================================================
