----------------------------- MODULE Generator -----------------------------
(***************************************************************************)
(* The code generator, csorma_generator.java: it reads the class files of  *)
(* a directory line by line, gathers what it will write in static          *)
(* variables that live on from table to table, and writes as it goes.      *)
(*                                                                         *)
(* An annotation and the declaration after it (annotations in between are  *)
(* skipped) are one step; lines that are none of both change nothing.  A   *)
(* file ends at its end or at the SORMA_END marker.  A file that ends      *)
(* inside of a declaration, or whose declaration has no name, raises an    *)
(* exception and is left as it is.  Text is abstracted to its columns; the *)
(* .txt file of a table is the text of its .sql file once more.            *)
(***************************************************************************)
EXTENDS Naturals, Sequences, SequencesExt

CONSTANTS Names,    \* names of columns
          Tables,   \* names of tables, spelled as cap_first makes them
          NoName,   \* the empty name
          Types,    \* COLTYPE of the declared types
          MaxFiles, MaxDecls  \* bounds on files and declarations

ASSUME NamesAssumption == NoName \notin Names \cup Tables
ASSUME TypesAssumption == Types \subseteq {"LONG", "INT", "STRING", "BOOLEAN", "UNKNOWN"}
ASSUME BoundsAssumption == MaxFiles \in Nat /\ MaxDecls \in Nat

Columns == [name : Names, type : Types]
Known == {"LONG", "INT", "STRING", "BOOLEAN"}
SqlType(type) == CASE type \in {"LONG", "INT"} -> "INTEGER"
                   [] type = "BOOLEAN" -> "BOOLEAN"
                   [] OTHER -> "TEXT"

VARIABLES reading,  \* a file is being read
          files,    \* files and declarations that may still come
          ignore,   \* no @Table so far in this file
          table,    \* the table of this file
          key,      \* the primary key of this file
          num,      \* column_num
          acc,      \* the text for the table's .h and .c
          section,  \* the text for the runtime header, filled in or not
          sql,      \* per table: its .sql file
          stub,     \* csorma_stub.c
          code,     \* per table: its .h and .c file, or Nothing
          runtime,  \* the sections of csorma_runtime.h
          given,    \* ghost: what this file declares, with its flaws
          done,     \* ghost: the files read to their end
          ends      \* ghost: how long stub and runtime were at the end of each

vars == <<reading, files, ignore, table, key, num, acc, section, sql, stub,
          code, runtime, given, done, ends>>

NoKey == [name |-> NoName, auto |-> FALSE]
Nothing == [struct |-> <<>>, setters |-> <<>>, frees |-> <<>>, names |-> <<>>,
            marks |-> <<>>, binds |-> <<>>]
NoSection == [table |-> NoName, filled |-> FALSE, struct |-> <<>>]
NothingGiven == [tables |-> <<>>, keys |-> <<>>, columns |-> <<>>, broken |-> FALSE]

Init ==
  /\ reading = FALSE /\ ignore = TRUE
  /\ files = [left |-> MaxFiles, decls |-> MaxDecls]
  /\ table = NoName /\ key = NoKey /\ num = 0
  /\ acc = Nothing /\ section = NoSection
  /\ sql = [t \in Tables \cup {NoName} |-> <<>>]
  /\ code = [t \in Tables \cup {NoName} |-> Nothing]
  /\ stub = <<>> /\ runtime = <<>>
  /\ given = NothingGiven /\ done = <<>> /\ ends = <<>>

-----------------------------------------------------------------------------
(* append_to_sql *)
AppendToSql(line) == /\ sql' = [sql EXCEPT ![table] = Append(@, line)]
                     /\ stub' = Append(stub, line)

(* Mutant: the table of the file before stays. *)
OpenFileKeepsTable ==
  /\ ~reading /\ files.left > 0
  /\ files' = [files EXCEPT !.left = @ - 1]
  /\ reading' = TRUE /\ ignore' = TRUE
  /\ key' = NoKey
  /\ given' = NothingGiven
  /\ UNCHANGED <<table, num, acc, section, sql, stub, code, runtime, done, ends>>

(* generate_table forgets what it knows of the file before. *)
OpenFile ==
  /\ ~reading /\ files.left > 0
  /\ files' = [files EXCEPT !.left = @ - 1]
  /\ reading' = TRUE /\ ignore' = TRUE
  /\ table' = NoName /\ key' = NoKey
  /\ given' = NothingGiven
  /\ UNCHANGED <<num, acc, section, sql, stub, code, runtime, done, ends>>

Declares == /\ reading /\ files.decls > 0
            /\ files' = [files EXCEPT !.decls = @ - 1]

(* Mutant: begin_table forgets to clear the fields of the struct. *)
BeginTableKeepsStruct(t) ==
  /\ Declares
  /\ ignore' = FALSE
  /\ table' = t
  /\ num' = 0
  /\ acc' = [Nothing EXCEPT !.struct = acc.struct]
  /\ section' = [NoSection EXCEPT !.table = t]
  /\ sql' = [sql EXCEPT ![t] = <<<<"create", t>>>>]
  /\ stub' = Append(stub, <<"create", t>>)
  /\ given' = [given EXCEPT !.tables = Append(@, t)]
  /\ UNCHANGED <<reading, key, code, runtime, done, ends>>

(* @Table: begin_table clears the text and starts the .sql file anew.      *)
BeginTable(t) ==
  /\ Declares
  /\ ignore' = FALSE
  /\ table' = t
  /\ num' = 0
  /\ acc' = Nothing
  /\ section' = [NoSection EXCEPT !.table = t]
  /\ sql' = [sql EXCEPT ![t] = <<<<"create", t>>>>]
  /\ stub' = Append(stub, <<"create", t>>)
  /\ given' = [given EXCEPT !.tables = Append(@, t)]
  /\ UNCHANGED <<reading, key, code, runtime, done, ends>>

(* add_col_setters_func, add_free_func01, tbl_columns_for_struct_01 *)
WithField(a, c) ==
  [a EXCEPT !.struct = Append(@, c),
            !.setters = IF c.type \in Known THEN Append(@, c) ELSE @,
            !.frees = IF c.type = "STRING" THEN Append(@, c.name) ELSE @]

(* add_col_inserters, add_col_inserter_bind *)
Inserted(a, c, n) ==
  [a EXCEPT !.names = Append(@, c.name),
            !.marks = Append(@, n),
            !.binds = IF c.type \in Known
                      THEN Append(@, [mark |-> n, name |-> c.name, type |-> c.type])
                      ELSE @]

(* Mutant: a key that SQLite numbers gets a number here too. *)
ProcessPrimaryKeyNumbered(c, autoincrement) ==
  /\ Declares /\ ~ignore
  /\ key' = [name |-> c.name, auto |-> c.type = "LONG" /\ autoincrement]
  /\ AppendToSql(<<"column", c.name, SqlType(c.type)>>)
  /\ num' = num + 1
  /\ acc' = IF key'.auto THEN WithField(acc, c)
            ELSE Inserted(WithField(acc, c), c, num + 1)
  /\ given' = [given EXCEPT !.keys = Append(@, c.name), !.columns = Append(@, c)]
  /\ UNCHANGED <<reading, ignore, table, section, code, runtime, done, ends>>

(* @PrimaryKey: a LONG key with "autoincrement = true" is not inserted.    *)
ProcessPrimaryKey(c, autoincrement) ==
  /\ Declares /\ ~ignore
  /\ key' = [name |-> c.name, auto |-> c.type = "LONG" /\ autoincrement]
  /\ AppendToSql(<<"column", c.name, SqlType(c.type)>>)
  /\ IF key'.auto
     THEN acc' = WithField(acc, c) /\ UNCHANGED num
     ELSE acc' = Inserted(WithField(acc, c), c, num + 1) /\ num' = num + 1
  /\ given' = [given EXCEPT !.keys = Append(@, c.name), !.columns = Append(@, c)]
  /\ UNCHANGED <<reading, ignore, table, section, code, runtime, done, ends>>

(* @Column *)
ProcessColumn(c) ==
  /\ Declares /\ ~ignore
  /\ AppendToSql(<<"column", c.name, SqlType(c.type)>>)
  /\ num' = num + 1
  /\ acc' = Inserted(WithField(acc, c), c, num + 1)
  /\ given' = [given EXCEPT !.columns = Append(@, c)]
  /\ UNCHANGED <<reading, ignore, table, key, section, code, runtime, done, ends>>

(* The end of a file that gave g. *)
FileDone(g) == /\ reading' = FALSE
               /\ done' = Append(done, g)
               /\ ends' = Append(ends, [stub |-> Len(stub'), runtime |-> Len(runtime')])
               /\ given' = NothingGiven

(* The exception that ends a file without finish_table. *)
Abandon ==
  /\ Declares
  /\ UNCHANGED <<ignore, table, key, num, acc, section, sql, stub, code, runtime>>
  /\ FileDone([given EXCEPT !.broken = TRUE])

KeyAndEnd == <<<<"key", key.name, key.auto>>, <<"end">>>>

(* Mutant: the block of the stub is not closed. *)
FinishTableOpen ==
  /\ reading
  /\ code' = [code EXCEPT ![table] = acc]
  /\ sql' = [sql EXCEPT ![table] = @ \o KeyAndEnd]
  /\ stub' = stub \o KeyAndEnd
  /\ section' = IF section.filled THEN section
                ELSE [section EXCEPT !.filled = TRUE, !.struct = acc.struct]
  /\ runtime' = Append(runtime, section')
  /\ FileDone(given)
  /\ UNCHANGED <<files, ignore, table, key, num, acc>>

(* finish_table, at the end of every file. *)
FinishTable ==
  /\ reading
  /\ code' = [code EXCEPT ![table] = acc]
  /\ sql' = [sql EXCEPT ![table] = @ \o KeyAndEnd]
  /\ stub' = stub \o KeyAndEnd \o <<<<"close">>>>
  /\ section' = IF section.filled THEN section
                ELSE [section EXCEPT !.filled = TRUE, !.struct = acc.struct]
  /\ runtime' = Append(runtime, section')
  /\ FileDone(given)
  /\ UNCHANGED <<files, ignore, table, key, num, acc>>

Next ==
  \/ OpenFile
  \/ \E t \in Tables : BeginTable(t)
  \/ \E c \in Columns, auto \in BOOLEAN : ProcessPrimaryKey(c, auto)
  \/ \E c \in Columns : ProcessColumn(c)
  \/ Abandon
  \/ FinishTable
  \/ ~reading /\ UNCHANGED vars

Spec == Init /\ [][Next]_vars

-----------------------------------------------------------------------------
(* Properties                                                              *)

TypeOK ==
  /\ table \in Tables \cup {NoName}
  /\ key \in [name : Names \cup {NoName}, auto : BOOLEAN]
  /\ num \in 0..MaxDecls
  /\ acc.struct \in Seq(Columns) /\ acc.setters \in Seq(Columns)
  /\ reading => ignore = (table = NoName)

(* A class file as the README wants it: one table, with one primary key,   *)
(* and no column twice.                                                    *)
WellFormed(g) ==
  /\ ~g.broken
  /\ Len(g.tables) = 1 /\ Len(g.keys) = 1
  /\ \A i, j \in DOMAIN g.columns : g.columns[i].name = g.columns[j].name => i = j

(* The only file so far with its table, finished or not. *)
Alone(i) ==
  \A j \in DOMAIN done \ {i} : done[i].tables[1] \notin ToSet(done[j].tables)
NotAgain(g) == g.tables[1] \notin ToSet(given.tables)

(* In the C code of every table, whatever its file was like, the INSERT    *)
(* has placeholders 1, 2, ..., one for each of its columns; columns and    *)
(* values line up, and only a column of unknown type is left unbound.      *)
InsertLinesUp ==
  \A t \in Tables : LET c == code[t] IN
    /\ c.marks = [k \in DOMAIN c.names |-> k]
    /\ \A b \in ToSet(c.binds) : /\ b.mark \in DOMAIN c.names
                                 /\ c.names[b.mark] = b.name
                                 /\ [name |-> b.name, type |-> b.type] \in ToSet(c.struct)
    /\ \A k \in DOMAIN c.names :
         (\E b \in ToSet(c.binds) : b.mark = k)
         \/ [name |-> c.names[k], type |-> "UNKNOWN"] \in ToSet(c.struct)

(* A well-formed file gives the table it declares, whatever other files    *)
(* there are, broken ones too: the struct and CREATE TABLE have the        *)
(* columns in their order, the key is one of them, the INSERT leaves out a *)
(* key that SQLite numbers and nothing else, and a list has all columns of *)
(* a known type and frees all strings.                                     *)
TableAsDeclared ==
  \A i \in DOMAIN done :
    WellFormed(done[i]) /\ Alone(i) /\ NotAgain(done[i]) =>
      LET t == done[i].tables[1]
          cols == done[i].columns
          auto == sql[t][Len(cols) + 2][3] IN
      /\ code[t].struct = cols
      /\ sql[t] = <<<<"create", t>>>>
                  \o [k \in DOMAIN cols |-> <<"column", cols[k].name, SqlType(cols[k].type)>>]
                  \o <<<<"key", done[i].keys[1], auto>>, <<"end">>>>
      /\ ToSet(code[t].names) = {c.name : c \in ToSet(cols)}
                                \ (IF auto THEN ToSet(done[i].keys) ELSE {})
      /\ ToSet(code[t].setters) = {c \in ToSet(cols) : c.type \in Known}
      /\ ToSet(code[t].frees) = {c.name : c \in {d \in ToSet(cols) : d.type = "STRING"}}

(* How long stub and runtime header were when file i began. *)
Begin(i) == IF i = 1 THEN [stub |-> 0, runtime |-> 0] ELSE ends[i - 1]

(* The stub program is made of what each file adds to it, one after the    *)
(* other.  A well-formed file adds its CREATE TABLE in a block of its own  *)
(* and one section of the runtime header, the one for its table, whatever  *)
(* other files there are.                                                  *)
StubComplete ==
  /\ ~reading => Begin(Len(done) + 1) = [stub |-> Len(stub), runtime |-> Len(runtime)]
  /\ \A i \in DOMAIN done :
       WellFormed(done[i]) /\ Alone(i) /\ NotAgain(done[i]) =>
         LET t == done[i].tables[1] IN
         /\ SubSeq(stub, Begin(i).stub + 1, ends[i].stub) = Append(sql[t], <<"close">>)
         /\ ends[i].runtime = Begin(i).runtime + 1
         /\ runtime[ends[i].runtime]
              = [table |-> t, filled |-> TRUE, struct |-> done[i].columns]
=============================================================================
