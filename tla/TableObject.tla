---------------------------- MODULE TableObject ----------------------------
(***************************************************************************)
(* Who owns the memory of csorma: table objects, the strings given to      *)
(* them, lists of objects and running statements (_table.c), and what      *)
(* becomes of the bytes of a string on its way through SQLite and back.    *)
(*                                                                         *)
(* One thread works on its objects.  It keeps the rules the examples show: *)
(* a string given to an object belongs to the object; toList, count and    *)
(* execute consume the object, an insert leaves it to the application.     *)
(* The texts of an object's clauses (TableQuery) and its bind arrays count *)
(* as one block with the object.  All columns are strings.                 *)
(***************************************************************************)
EXTENDS CsormaStr, FiniteSets, SequencesExt

CONSTANTS Columns,   \* the column names in the order of the table
          Texts,     \* the bytes strings are made of
          Stored,    \* the rows there are at the start
          MaxBlocks, \* bounds: blocks in memory, rows, actions of the
          MaxRows,   \* application, and failures that come from outside
          MaxActions,
          MaxFaults

ASSUME ColumnsAssumption ==
  /\ Columns \in Seq(Seq(STRING))
  /\ \A i, j \in DOMAIN Columns : Columns[i] = Columns[j] => i = j
ASSUME TextsAssumption == \A b \in Texts : b \in Seq(0..255)
ASSUME StoredAssumption == \A r \in DOMAIN Stored :
                              Stored[r] \in [DOMAIN Columns -> Seq(Int)]
ASSUME BoundsAssumption == {MaxBlocks, MaxRows, MaxActions, MaxFaults} \subseteq Nat

Blocks == 1..MaxBlocks
NoBlock == 0              \* the null pointer
Cols == DOMAIN Columns
RowIds == 1..MaxRows
DbNull == <<-2>>          \* NULL in the database
NoRow == <<>>

VARIABLES mem,    \* allocated blocks
          str,    \* the csorma_s in a block
          obj,    \* the table object in a block
          mine,   \* strings and objects the application has to free
          list,   \* the list of the application, or of the running toList
          call,   \* the running call
          table,  \* the rows in the database, each a value per column
          budget, \* actions and faults that may still happen
          said,   \* ghost: the bytes the application put into a string
          asked,  \* ghost: the rows the application asked for
          lost,   \* ghost: blocks that a failed realloc lost
          trouble \* ghost: a realloc has failed

memory == <<mem, str, said>>
ghosts == <<asked, lost, trouble>>
vars == <<memory, obj, mine, list, call, table, budget, ghosts>>

(* made: what it was made for; cols: its columns; set, where: its bind     *)
(* variables; gone: the clauses whose text was lost.                       *)
NoObject == [made |-> "none", cols |-> [c \in Cols |-> NoBlock],
             set |-> <<>>, where |-> <<>>, gone |-> {}]
NoCall == [fn |-> "none", at |-> "none", o |-> NoBlock, txt |-> NoBlock,
           bound |-> {}, left |-> {}, failed |-> FALSE]
NoList == [l |-> NoBlock, items |-> <<>>]

Objects == {o \in Blocks : obj[o] # NoObject}
Strings(o) == ({obj[o].cols[c] : c \in Cols} \ {NoBlock})
              \cup {b[2] : b \in ToSet(obj[o].set) \cup ToSet(obj[o].where)}

(* The k-th block that malloc gives out. *)
Fresh(k) == CHOOSE b \in Blocks \ mem :
              Cardinality({x \in Blocks \ mem : x <= b}) = k
Room(k) == Cardinality(Blocks \ mem) >= k

Init ==
  /\ mem = {} /\ mine = {} /\ lost = {} /\ trouble = FALSE
  /\ str = [b \in Blocks |-> Blank]
  /\ said = [b \in Blocks |-> <<>>]
  /\ obj = [b \in Blocks |-> NoObject]
  /\ list = NoList /\ call = NoCall
  /\ table = [r \in RowIds |-> IF r \in DOMAIN Stored THEN Stored[r] ELSE NoRow]
  /\ asked = table
  /\ budget = [actions |-> MaxActions, faults |-> MaxFaults]

(* The application does something, or it does and a realloc fails. *)
Acts(faults) ==
  /\ call = NoCall
  /\ budget.actions > 0 /\ budget.faults >= faults
  /\ budget' = [actions |-> budget.actions - 1, faults |-> budget.faults - faults]
App == Acts(0) /\ UNCHANGED trouble
AppReallocFails == Acts(1) /\ trouble' = TRUE

-----------------------------------------------------------------------------
(* Strings of the application *)

(* csc(b): a new string, whose realloc may fail. *)
NewString(b) ==
  /\ Room(1)
  /\ \/ App /\ str' = [str EXCEPT ![Fresh(1)] = Con(Blank, b)]
     \/ AppReallocFails /\ str' = [str EXCEPT ![Fresh(1)] = ConFails(Blank)]
  /\ mem' = mem \cup {Fresh(1)}
  /\ mine' = mine \cup {Fresh(1)}
  /\ said' = [said EXCEPT ![Fresh(1)] = b]
  /\ UNCHANGED <<obj, list, call, table, asked, lost>>

(* csorma_str_con on a string of the application.  When realloc fails the  *)
(* old block stays allocated and nobody knows it any longer.               *)
Extend(s, b) ==
  /\ s \in mine \ Objects
  /\ \/ /\ App
        /\ str' = [str EXCEPT ![s] = Con(@, b)]
        /\ UNCHANGED <<mem, lost>>
     \/ /\ AppReallocFails /\ Room(1)
        /\ str' = [str EXCEPT ![s] = ConFails(@)]
        /\ IF str[s].s = Null THEN UNCHANGED <<mem, lost>>
           ELSE mem' = mem \cup {Fresh(1)} /\ lost' = lost \cup {Fresh(1)}
  /\ said' = [said EXCEPT ![s] = @ \o b]
  /\ UNCHANGED <<obj, mine, list, call, table, asked>>

-----------------------------------------------------------------------------
(* Table objects *)

Made == {"new", "select", "update", "delete"}

(* The texts of a new object that its statement is made of.                *)
Clauses(made) == CASE made = "new" -> {}
                   [] made = "select" -> {"where"}
                   [] made = "update" -> {"start", "set", "where"}
                   [] made = "delete" -> {"start", "where"}

(* One of the reallocs of a text may fail, and loses what is there of it;  *)
(* "set" and "where" have nothing yet.                                     *)
NewWith(made, gone, leak) ==
  /\ Room(1)
  /\ mem' = mem \cup {Fresh(1)} \cup leak
  /\ lost' = lost \cup leak
  /\ obj' = [obj EXCEPT ![Fresh(1)] =
                [NoObject EXCEPT !.made = made, !.gone = gone]]
  /\ mine' = mine \cup {Fresh(1)}
  /\ UNCHANGED <<str, said, list, call, table, asked>>

New(made) ==
  \/ App /\ NewWith(made, {}, {})
  \/ /\ AppReallocFails
     /\ \E clause \in Clauses(made) :
          \/ NewWith(made, {clause}, {})
          \/ clause = "start" /\ Room(2) /\ NewWith(made, {clause}, {Fresh(2)})

(* The application gives a string of its own to an object of its own: it   *)
(* stores it in a column of one to insert, ...                             *)
SetColumn(o, c, s) ==
  /\ App
  /\ obj[o].made = "new" /\ obj[o].cols[c] = NoBlock
  /\ obj' = [obj EXCEPT ![o].cols[c] = s]
  /\ mine' = mine \ {s}
  /\ UNCHANGED <<memory, list, call, table, asked, lost>>

(* ... or as a value of one that it builds a statement with.               *)
(* bind_to_set_sql_string, bind_to_where_sql_string: one of the reallocs   *)
(* of the clause's text may fail, and the terms in it are gone.            *)
AddTerm(o, clause, c, s) ==
  /\ obj[o].made \in IF clause = "set" THEN {"update"}
                                       ELSE {"select", "update", "delete"}
  /\ LET with == IF clause = "set"
                 THEN [obj EXCEPT ![o].set = Append(@, <<c, s>>)]
                 ELSE [obj EXCEPT ![o].where = Append(@, <<c, s>>)]
     IN \/ App /\ obj' = with /\ UNCHANGED <<mem, lost>>
        \/ /\ AppReallocFails /\ Room(1)
           /\ obj' = [with EXCEPT ![o].gone = @ \cup {clause}]
           /\ mem' = mem \cup {Fresh(1)} /\ lost' = lost \cup {Fresh(1)}
  /\ mine' = mine \ {s}
  /\ UNCHANGED <<str, said, list, call, table, asked>>

(* Mutant: the strings of the bind variables are not freed. *)
BlocksOfColumnsOnly(o) == {o} \cup ({obj[o].cols[c] : c \in Cols} \ {NoBlock})

(* What freeing an object frees: its strings, its bind variables' strings. *)
BlocksOf(o) == {o} \cup Strings(o)

Release(bs) ==
  /\ mem' = mem \ bs
  /\ str' = [b \in Blocks |-> IF b \in bs THEN Blank ELSE str[b]]
  /\ said' = [b \in Blocks |-> IF b \in bs THEN <<>> ELSE said[b]]
  /\ obj' = [b \in Blocks |-> IF b \in bs THEN NoObject ELSE obj[b]]

(* The application frees a string or an object of its own, ... *)
Free(b) ==
  /\ App
  /\ b \in mine
  /\ Release(IF b \in Objects THEN BlocksOf(b) ELSE {b})
  /\ mine' = mine \ {b}
  /\ UNCHANGED <<list, call, table, asked, lost>>

(* ... or a list with the objects in it.                                   *)
FreeList ==
  /\ App
  /\ list # NoList
  /\ Release({list.l} \cup UNION {BlocksOf(o) : o \in ToSet(list.items)})
  /\ list' = NoList
  /\ UNCHANGED <<mine, call, table, asked, lost>>

-----------------------------------------------------------------------------
(* A call: its statement is prepared and bound, stepped and finalized; then *)
(* its text is freed, and the object unless it was inserted.               *)

CanRun(o) == CASE obj[o].made \in {"new", "inserted"} -> {"insert"}
               [] obj[o].made = "select" -> {"toList", "count"}
               [] obj[o].made \in {"update", "delete"} -> {"execute"}

BoundBy(o, fn) ==
  CASE fn = "insert" -> Strings(o)
    [] fn = "execute" -> Strings(o)
    [] OTHER -> {b[2] : b \in ToSet(obj[o].where)}

(* Mutant: text is bound up to its first NUL byte. *)
ValueToNul(s) == IF s = NoBlock THEN DbNull
                 ELSE IF str[s].s = Null THEN DbNull ELSE CString(TextOf(str[s]))

(* What SQLite takes from a bound string when it steps. *)
Value(s) == IF s = NoBlock THEN DbNull
            ELSE IF str[s].s = Null THEN DbNull ELSE TextOf(str[s])

(* What the strings mean: to SQLite, and to the application. *)
Bound == [s \in {NoBlock} \cup Blocks |-> Value(s)]
Said == [s \in {NoBlock} \cup Blocks |-> IF s = NoBlock THEN DbNull ELSE said[s]]

(* The rows of t that the conditions of o hold for, given what their       *)
(* strings mean.  NULL equals nothing.                                     *)
Matching(o, t, meaning) ==
  {r \in RowIds :
     /\ t[r] # NoRow
     /\ \A w \in ToSet(obj[o].where) :
          meaning[w[2]] # DbNull /\ t[r][w[1]] = meaning[w[2]]}

(* Without the text of its conditions a statement has no condition.        *)
Hits(o) == IF "where" \in obj[o].gone
           THEN {r \in RowIds : table[r] # NoRow}
           ELSE Matching(o, table, Bound)

Prepare(o, fn, refused, leak) ==
  /\ o \in mine \cap Objects /\ fn \in CanRun(o)
  /\ fn = "toList" => list = NoList
  /\ LET hits == IF fn = "toList" THEN Hits(o) ELSE {} IN
       /\ Room(2 + Cardinality(hits) * (1 + Len(Columns)))
       /\ call' = [fn |-> fn, at |-> IF refused THEN "finalize" ELSE "step",
                   o |-> o, txt |-> Fresh(1), left |-> hits, failed |-> refused,
                   bound |-> IF refused THEN {} ELSE BoundBy(o, fn)]
  /\ IF fn = "toList"
     THEN /\ list' = [l |-> Fresh(2), items |-> <<>>]
          /\ mem' = mem \cup {Fresh(1), Fresh(2)} \cup leak
     ELSE UNCHANGED list /\ mem' = mem \cup {Fresh(1)} \cup leak
  /\ IF fn = "insert"
     THEN obj' = [obj EXCEPT ![o].made = "inserted"] /\ UNCHANGED mine
     ELSE UNCHANGED obj /\ mine' = mine \ {o}
  /\ lost' = lost \cup leak
  /\ UNCHANGED <<str, said, table, asked>>

(* A second insert is refused (TableQuery), and an UPDATE without SET or   *)
(* one that lost it, and what lost its start; one that lost its conditions *)
(* may be (there may be garbage in their place), and any may be for        *)
(* reasons of the database.  When a realloc of sql_start or sql_txt fails, *)
(* what is left is no statement: it is refused, and the text there was,    *)
(* if any, is lost.                                                        *)
Senseless(o) == \/ obj[o].made = "inserted"
                \/ obj[o].made = "update" /\ obj[o].set = <<>>
                \/ obj[o].made = "update" /\ "set" \in obj[o].gone
                \/ "start" \in obj[o].gone

Start(o, fn) ==
  \/ App /\ ~Senseless(o) /\ Prepare(o, fn, FALSE, {})
  \/ App /\ (Senseless(o) \/ "where" \in obj[o].gone) /\ Prepare(o, fn, TRUE, {})
  \/ Acts(1) /\ Prepare(o, fn, TRUE, {}) /\ UNCHANGED trouble
  \/ AppReallocFails /\ Room(3) /\ Prepare(o, fn, TRUE, {Fresh(3)})

Step(fn) == call.fn = fn /\ call.at = "step"
Ends == call' = [call EXCEPT !.at = "finalize"]

(* Mutant: the first column whose name starts with the wanted one. *)
FindColumnByPrefix(name) ==
  CHOOSE i \in Cols : /\ IsPrefix(name, Columns[i])
                      /\ \A j \in 1..(i - 1) : ~IsPrefix(name, Columns[j])

(* rs_find_column_idx.  The wanted columns are the generated ones of the   *)
(* table and are all there: its -1 for a missing one does not occur.       *)
FindColumn(name) ==
  CHOOSE i \in Cols : Columns[i] = name /\ \A j \in 1..(i - 1) : Columns[j] # name

(* __rs_getString: NULL gives an empty string. *)
GetString(row, name) ==
  LET v == row[FindColumn(name)] IN IF v = DbNull THEN Build(<<>>) ELSE Build(v)

(* toList makes an object of the next row. *)
Row ==
  /\ Step("toList")
  /\ Room(1 + Len(Columns))
  /\ \E r \in call.left :
       /\ \A q \in call.left : r <= q
       /\ call' = [call EXCEPT !.left = @ \ {r}]
       /\ str' = [b \in Blocks |->
            IF \E c \in Cols : b = Fresh(1 + c)
            THEN GetString(table[r], Columns[CHOOSE c \in Cols : b = Fresh(1 + c)])
            ELSE str[b]]
  /\ obj' = [obj EXCEPT ![Fresh(1)] =
       [NoObject EXCEPT !.made = "row", !.cols = [c \in Cols |-> Fresh(1 + c)]]]
  /\ mem' = mem \cup {Fresh(k) : k \in 1..(1 + Len(Columns))}
  /\ list' = [list EXCEPT !.items = Append(@, Fresh(1))]
  /\ UNCHANGED <<said, mine, table, budget, ghosts>>

Done ==
  /\ \/ Step("toList") /\ call.left = {}
     \/ Step("count")
  /\ Ends
  /\ UNCHANGED <<memory, obj, mine, list, table, budget, ghosts>>

Insert ==
  /\ Step("insert")
  /\ \E r \in RowIds :
       /\ table[r] = NoRow /\ \A q \in RowIds : table[q] = NoRow => r <= q
       /\ table' = [table EXCEPT ![r] = [c \in Cols |-> Bound[obj[call.o].cols[c]]]]
       /\ asked' = [asked EXCEPT ![r] = [c \in Cols |-> Said[obj[call.o].cols[c]]]]
  /\ Ends
  /\ UNCHANGED <<memory, obj, mine, list, budget, lost, trouble>>

(* The row that an UPDATE or DELETE makes of row; the last assignment to a *)
(* column counts.                                                          *)
Changed(o, row, meaning) ==
  IF obj[o].made = "delete" THEN NoRow
  ELSE [c \in Cols |->
          LET ks == {k \in DOMAIN obj[o].set : obj[o].set[k][1] = c} IN
          IF ks = {} THEN row[c]
          ELSE meaning[obj[o].set[CHOOSE k \in ks : \A j \in ks : j <= k][2]]]

Execute ==
  /\ Step("execute")
  /\ table' = [r \in RowIds |-> IF r \in Hits(call.o)
                                THEN Changed(call.o, table[r], Bound) ELSE table[r]]
  /\ asked' = [r \in RowIds |-> IF r \in Matching(call.o, asked, Said)
                                THEN Changed(call.o, asked[r], Said) ELSE asked[r]]
  /\ Ends
  /\ UNCHANGED <<memory, obj, mine, list, budget, lost, trouble>>

(* An error, or the timeout of a write. *)
StepFails ==
  /\ call.at = "step"
  /\ \/ budget.faults > 0 /\ budget' = [budget EXCEPT !.faults = @ - 1]
     \/ Step("insert") /\ (\A r \in RowIds : table[r] # NoRow) /\ UNCHANGED budget
  /\ call' = [call EXCEPT !.at = "finalize", !.failed = TRUE]
  /\ UNCHANGED <<memory, obj, mine, list, table, ghosts>>

(* Mutant: the object is freed first. *)
FinalizeLate ==
  /\ call.at = "finalize"
  /\ call' = [call EXCEPT !.at = "free"]
  /\ Release(IF call.fn = "insert" THEN {} ELSE BlocksOf(call.o))
  /\ UNCHANGED <<mine, list, table, budget, ghosts>>

Finalize ==
  /\ call.at = "finalize"
  /\ call' = [call EXCEPT !.at = "free", !.bound = {}]
  /\ UNCHANGED <<memory, obj, mine, list, table, budget, ghosts>>

(* Mutant: an insert frees its object too. *)
ReturnFreesAlways ==
  /\ call.at = "free"
  /\ call' = NoCall
  /\ Release({call.txt} \cup BlocksOf(call.o))
  /\ UNCHANGED <<mine, list, table, budget, ghosts>>

Return ==
  /\ call.at = "free"
  /\ call' = NoCall
  /\ Release({call.txt} \cup IF call.fn = "insert" THEN {} ELSE BlocksOf(call.o))
  /\ UNCHANGED <<mine, list, table, budget, ghosts>>

-----------------------------------------------------------------------------
Application ==
  \/ \E b \in Texts : NewString(b)
  \/ \E b \in Texts, s \in mine : Extend(s, b)
  \/ \E made \in Made : New(made)
  \/ \E o \in mine \cap Objects, s \in mine \ Objects, c \in Cols :
       SetColumn(o, c, s) \/ AddTerm(o, "set", c, s) \/ AddTerm(o, "where", c, s)
  \/ \E b \in mine : Free(b)
  \/ FreeList
  \/ \E o \in mine, fn \in {"insert", "toList", "count", "execute"} : Start(o, fn)

Running == Row \/ Done \/ Insert \/ Execute \/ StepFails \/ Finalize \/ Return

Finished == call = NoCall /\ UNCHANGED vars

Next == Application \/ Running \/ Finished

Spec == Init /\ [][Next]_vars

-----------------------------------------------------------------------------
(* Properties                                                              *)

(* The pointers to blocks: the places they are in, and the block of each.  *)
PointersOf(o) ==
  {<<"column", o, c, obj[o].cols[c]>> : c \in Cols}
  \cup {<<"set", o, k, obj[o].set[k][2]>> : k \in DOMAIN obj[o].set}
  \cup {<<"where", o, k, obj[o].where[k][2]>> : k \in DOMAIN obj[o].where}
Pointers ==
  {p \in {<<"mine", NoBlock, 0, b>> : b \in mine}
         \cup {<<"item", NoBlock, i, list.items[i]>> : i \in DOMAIN list.items}
         \cup {<<"list", NoBlock, 0, list.l>>, <<"text", NoBlock, 0, call.txt>>,
               <<"call", NoBlock, 0, IF call.fn = "insert" THEN NoBlock ELSE call.o>>}
         \cup UNION {PointersOf(o) : o \in Objects} : p[4] # NoBlock}

(* Whatever is allocated has exactly one owner that will free it, and      *)
(* nothing that is freed has one: no leak, no second free, no pointer to   *)
(* freed memory.  Only what a failed realloc lost has no owner.            *)
Owned ==
  /\ {p[4] : p \in Pointers} = mem \ lost
  /\ \A p, q \in Pointers : p[4] = q[4] => p = q
  /\ call.o \in {NoBlock} \cup (mem \ lost)

(* Strings are bound SQLITE_STATIC: until the statement is finalized they  *)
(* are alive and belong to the object of the call.                         *)
BoundAlive ==
  call.bound # {} => call.bound \subseteq mem /\ call.bound \subseteq Strings(call.o)

(* Every string that has a block is as long as it says, however it was     *)
(* made; one that a failed realloc left without a block has no text.       *)
StringsTerminated == \A b \in Blocks : Terminated(str[b])

(* The database has the rows the application asked for, byte by byte, NUL  *)
(* bytes included, and changes only where its conditions hold, unless a    *)
(* realloc has failed.                                                     *)
TableAsAsked == ~trouble /\ call.at \in {"none", "finalize"} => table = asked

(* toList has made its list, and neither a realloc nor the call failed.    *)
Listed == call.fn = "toList" /\ call.at = "finalize" /\ ~call.failed /\ ~trouble

(* What the list has in column c for row r, the one of the rows that is as *)
(* far down; and what it should have there: NULL is an empty text.         *)
Given(rows, r, c) ==
  TextOf(str[obj[list.items[Cardinality({q \in rows : q <= r})]].cols[c]])
Stated(r, c) == IF asked[r][c] = DbNull THEN <<>> ELSE asked[r][c]

(* toList gives the rows that match and no others, each in its place, with *)
(* the bytes of every text that has no NUL byte.                           *)
ListAsAsked ==
  Listed => LET rows == Matching(call.o, asked, Said)
            IN /\ Len(list.items) = Cardinality(rows)
               /\ \A r \in rows, c \in Cols :
                    NUL \notin ToSet(Stated(r, c)) => Given(rows, r, c) = Stated(r, c)

(* Texts come back from the database byte by byte, whatever bytes they     *)
(* are: src/README.md:26 promises "safe Strings (UTF-8 or even broken      *)
(* UTF-8 or just random bytes)".  __rs_getString does not give the bytes   *)
(* from the first NUL on.                                                  *)
BytesComeBack ==
  Listed => LET rows == Matching(call.o, asked, Said)
            IN \A r \in rows, c \in Cols : Given(rows, r, c) = Stated(r, c)

TypeOK ==
  /\ mem \subseteq Blocks /\ mine \subseteq mem /\ lost \subseteq mem
  /\ \A b \in Blocks : str[b] # Blank => b \in mem
  /\ call.at \in {"none", "step", "finalize", "free"}
  /\ call.left \subseteq RowIds
=============================================================================
