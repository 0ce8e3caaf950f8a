---------------------------- MODULE SqliteLocks ----------------------------
(***************************************************************************)
(* What the read calls of csorma meet in SQLite: the locks of connections  *)
(* to one database file, in both journal modes.                            *)
(*                                                                         *)
(* With a rollback journal a connection reads under a SHARED lock, writes  *)
(* under RESERVED as well, and commits by taking PENDING, which keeps new  *)
(* readers out, and waiting for the SHARED locks of the others.  With a    *)
(* write-ahead log readers keep the snapshot they began with and a commit  *)
(* waits for nobody; a connection whose snapshot is stale cannot write.    *)
(*                                                                         *)
(* Sqlite.tla is about the write calls alone and needs none of this.       *)
(***************************************************************************)
EXTENDS Integers, FiniteSets

CONSTANTS Threads, NoThread,
          Conns,      \* the connections, all to the same database file
          NoConn,
          MaxRowid    \* bound on row ids

ASSUME NamesAssumption == NoThread \notin Threads /\ NoConn \notin Conns
ASSUME MaxRowidAssumption == MaxRowid \in Nat

VARIABLES wal,        \* the journal is a write-ahead log
          rows,       \* the row ids in the committed table
          writer,     \* the connection with the RESERVED lock
          work,       \* the row ids as the writer's open transaction sees them
          pending,    \* the connection with the PENDING lock
          shared,     \* the connections in a read transaction
          snap,       \* per connection in shared: what it reads
          stale,      \* the ones of shared whose snapshot is out of date
          autocommit, \* per connection: not inside BEGIN ... COMMIT
          waiter      \* per connection: the thread in its busy handler

locks == <<rows, writer, work, pending, shared, snap, stale>>
sqliteVars == <<wal, locks, autocommit, waiter>>

RowIds == 1..MaxRowid

LocksTypeOK ==
  /\ wal \in BOOLEAN
  /\ rows \in SUBSET RowIds /\ work \in SUBSET RowIds
  /\ writer \in Conns \cup {NoConn} /\ pending \in Conns \cup {NoConn}
  /\ shared \in SUBSET Conns /\ stale \in SUBSET shared
  /\ snap \in [Conns -> SUBSET RowIds]
  /\ autocommit \in [Conns -> BOOLEAN]
  /\ waiter \in [Conns -> Threads \cup {NoThread}]

LocksInit(stored) ==
  /\ rows = stored
  /\ writer = NoConn /\ work = {} /\ pending = NoConn
  /\ shared = {} /\ snap = [c \in Conns |-> {}] /\ stale = {}
  /\ autocommit = [c \in Conns |-> TRUE]
  /\ waiter = [c \in Conns |-> NoThread]

-----------------------------------------------------------------------------
(* The table as a statement of connection c sees it. *)
View(c) == IF writer = c THEN work
           ELSE IF c \in shared THEN snap[c] ELSE rows

(* No other thread is inside a sqlite3_ call of connection c. *)
Serialized(t, c) == waiter[c] \in {NoThread, t}

CanShare(c) == c \in shared \/ wal \/ pending = NoConn
CanReserve(c) == CanShare(c) /\ writer \in {NoConn, c} /\ c \notin stale
CanCommit(c) == wal \/ shared \subseteq {c}

(* A thread that cannot have its lock sleeps in the busy handler, with the *)
(* connection's mutex; a connection in a read transaction gets SQLITE_BUSY *)
(* at once.                                                                *)
Sleep(t, c) == waiter[c] = NoThread /\ waiter' = [waiter EXCEPT ![c] = t]
Awake(c) == waiter' = [waiter EXCEPT ![c] = NoThread]
BusyAnswer(t, c) == waiter[c] = t \/ c \in shared

(* sqlite3_step of a SELECT: c is in a read transaction. *)
Share(c) ==
  /\ shared' = shared \cup {c}
  /\ snap' = IF c \in shared THEN snap ELSE [snap EXCEPT ![c] = rows]
  /\ UNCHANGED <<rows, writer, work, pending, stale>>

(* c leaves its read transaction, when nothing of it needs it any longer.  *)
Leave(c, needed) ==
  IF needed THEN UNCHANGED <<shared, snap, stale>>
  ELSE /\ shared' = shared \ {c}
       /\ stale' = stale \ {c}
       /\ snap' = [snap EXCEPT ![c] = {}]

(* A write of c is made but not committed; asking says that it is taking   *)
(* PENDING in order to commit.                                             *)
Reserve(c, new, asking) ==
  /\ writer' = c
  /\ work' = new
  /\ pending' = IF asking /\ ~wal THEN c ELSE pending
  /\ shared' = shared \cup {c}
  /\ snap' = IF c \in shared THEN snap ELSE [snap EXCEPT ![c] = rows]
  /\ UNCHANGED <<rows, stale>>

(* c commits new, or drops what it wrote; needed: a reader of c goes on.   *)
Commit(c, new, needed) ==
  /\ rows' = new
  /\ writer' = NoConn /\ work' = {}
  /\ pending' = NoConn
  /\ shared' = IF needed THEN shared \cup {c} ELSE shared \ {c}
  /\ snap' = [snap EXCEPT ![c] = IF needed THEN new ELSE {}]
  /\ stale' = (stale \cup shared) \ {c}

RollBack(c, needed) ==
  /\ IF writer = c THEN writer' = NoConn /\ work' = {} /\ pending' = NoConn
                   ELSE UNCHANGED <<writer, work, pending>>
  /\ Leave(c, needed)
  /\ UNCHANGED rows
=============================================================================
