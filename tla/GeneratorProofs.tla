-------------------------- MODULE GeneratorProofs --------------------------
(***************************************************************************)
(* For every number of files, declarations, names and types: the INSERT in *)
(* the C code of every table has its columns, placeholders and values in   *)
(* line, the code and the .sql file of every well-formed file are as the   *)
(* file declares its table, and the stub program has its CREATE TABLE.     *)
(*                                                                         *)
(* What holds of the finished code holds of the text it is made from at    *)
(* any time, when column_num is the number of columns in it: GInv.  While  *)
(* a file with one table, one key and distinct columns is read, its text   *)
(* is that of the columns declared so far: FileInv.  A finished table      *)
(* stays as it is because only a file of its own name writes it.  The stub *)
(* is made of the files' parts one behind the other: StubInv.              *)
(***************************************************************************)
EXTENDS Generator, TLAPS

Binds == [mark : Nat, name : Names, type : Types]

(* The text of one table has its columns, placeholders and values in line. *)
TextTyped(a) ==
  a \in [struct : Seq(Columns), setters : Seq(Columns), frees : Seq(Names),
         names : Seq(Names), marks : Seq(Nat), binds : Seq(Binds)]

LinedUp(a) ==
  /\ Len(a.marks) = Len(a.names)
  /\ \A k \in 1..Len(a.names) : a.marks[k] = k
  /\ \A i \in 1..Len(a.binds) :
       /\ a.binds[i].mark \in 1..Len(a.names)
       /\ a.names[a.binds[i].mark] = a.binds[i].name
       /\ \E j \in 1..Len(a.struct) :
            a.struct[j] = [name |-> a.binds[i].name, type |-> a.binds[i].type]
  /\ \A k \in 1..Len(a.names) :
       \/ \E i \in 1..Len(a.binds) : a.binds[i].mark = k
       \/ \E j \in 1..Len(a.struct) :
            a.struct[j] = [name |-> a.names[k], type |-> "UNKNOWN"]

GoodText(a) == TextTyped(a) /\ LinedUp(a)

GInv ==
  /\ num = Len(acc.names)
  /\ GoodText(acc)
  /\ table \in Tables \cup {NoName}
  /\ code = [t \in Tables \cup {NoName} |-> code[t]]
  /\ \A t \in Tables \cup {NoName} : GoodText(code[t])

-----------------------------------------------------------------------------
(* The empty text is in line. *)
LEMMA NothingGood == GoodText(Nothing) /\ Len(Nothing.names) = 0
BY DEF GoodText, TextTyped, LinedUp, Nothing

(* A field of the struct more leaves the INSERT in line. *)
LEMMA WithFieldGood ==
  ASSUME NEW a, NEW c \in Columns, GoodText(a)
  PROVE  /\ GoodText(WithField(a, c))
         /\ WithField(a, c).names = a.names
         /\ Len(WithField(a, c).struct) \in Nat \ {0}
         /\ WithField(a, c).struct[Len(WithField(a, c).struct)] = c
<1> DEFINE w == WithField(a, c)
<1>1. /\ w.struct = Append(a.struct, c)
      /\ w.names = a.names /\ w.marks = a.marks /\ w.binds = a.binds
  BY DEF WithField, GoodText, TextTyped
<1>2. TextTyped(w)
  <2> DEFINE setters == IF c.type \in Known THEN Append(a.setters, c) ELSE a.setters
             frees == IF c.type = "STRING" THEN Append(a.frees, c.name) ELSE a.frees
  <2>1. w = [a EXCEPT !.struct = Append(a.struct, c), !.setters = setters,
                      !.frees = frees]
    BY DEF WithField
  <2>2. c.name \in Names
    BY DEF Columns
  <2>3. /\ Append(a.struct, c) \in Seq(Columns)
        /\ setters \in Seq(Columns) /\ frees \in Seq(Names)
    BY <2>2 DEF GoodText, TextTyped
  <2> HIDE DEF setters, frees, w
  <2> QED BY <2>1, <2>3 DEF GoodText, TextTyped
<1>3. /\ Len(w.struct) = Len(a.struct) + 1
      /\ Len(a.struct) \in Nat
      /\ \A j \in 1..Len(a.struct) : w.struct[j] = a.struct[j]
      /\ w.struct[Len(w.struct)] = c
  BY <1>1 DEF GoodText, TextTyped
<1>4. LinedUp(w)
  <2>1. \A x : (\E j \in 1..Len(a.struct) : a.struct[j] = x)
               => \E j \in 1..Len(w.struct) : w.struct[j] = x
    BY <1>3
  <2> HIDE DEF w
  <2> QED BY <1>1, <2>1 DEF GoodText, LinedUp
<1> QED BY <1>1, <1>2, <1>3, <1>4 DEF GoodText

(* A column that has its field and gets the next number is in line. *)
LEMMA InsertedGood ==
  ASSUME NEW a, NEW c \in Columns, NEW n, GoodText(a), n = Len(a.names) + 1,
         c.type \in Known \cup {"UNKNOWN"},
         \E j \in 1..Len(a.struct) : a.struct[j] = c
  PROVE  GoodText(Inserted(a, c, n)) /\ Len(Inserted(a, c, n).names) = n
<1> DEFINE w == Inserted(a, c, n)
           new == [mark |-> n, name |-> c.name, type |-> c.type]
           binds == IF c.type \in Known THEN Append(a.binds, new) ELSE a.binds
<1>0. w = [a EXCEPT !.names = Append(a.names, c.name), !.marks = Append(a.marks, n),
                    !.binds = binds]
  BY DEF Inserted
<1>1. /\ w.struct = a.struct /\ w.names = Append(a.names, c.name)
      /\ w.marks = Append(a.marks, n)
      /\ w.binds = binds
  <2> HIDE DEF binds, w
  <2> QED BY <1>0 DEF GoodText, TextTyped
<1>2. /\ a.struct \in Seq(Columns) /\ a.names \in Seq(Names)
      /\ a.marks \in Seq(Nat) /\ a.binds \in Seq(Binds)
      /\ n \in Nat /\ Len(a.names) \in Nat /\ Len(a.binds) \in Nat
      /\ Len(a.marks) = Len(a.names)
  BY DEF GoodText, TextTyped, LinedUp
<1>3. c.name \in Names /\ c.type \in Types /\ c = [name |-> c.name, type |-> c.type]
  BY DEF Columns
<1>4. new \in Binds
  BY <1>2, <1>3 DEF Binds
<1>5. TextTyped(w)
  <2>1. /\ Append(a.names, c.name) \in Seq(Names)
        /\ Append(a.marks, n) \in Seq(Nat) /\ binds \in Seq(Binds)
    BY <1>2, <1>3, <1>4
  <2> HIDE DEF binds, w
  <2> QED BY <1>0, <2>1 DEF GoodText, TextTyped
<1> HIDE DEF w
<1>6. /\ Len(w.names) = n /\ Len(w.marks) = n
      /\ w.names[n] = c.name /\ w.marks[n] = n
      /\ \A k \in 1..Len(a.names) : /\ w.names[k] = a.names[k]
                                    /\ w.marks[k] = a.marks[k]
  BY <1>1, <1>2
<1>7. \A i \in 1..Len(a.binds) : w.binds[i] = a.binds[i] /\ i \in 1..Len(w.binds)
  BY <1>1, <1>2
<1>8. \A i \in 1..Len(w.binds) :
        i \in 1..Len(a.binds) \/ (c.type \in Known /\ w.binds[i] = new)
  <2>1. CASE c.type \in Known
    <3>1. w.binds = Append(a.binds, new)
      BY <1>1, <2>1
    <3> HIDE DEF new, binds
    <3> QED BY <1>2, <1>4, <2>1, <3>1
  <2>2. CASE c.type \notin Known
    BY <1>1, <2>2
  <2> QED BY <2>1, <2>2
<1>9. ASSUME NEW i \in 1..Len(w.binds)
      PROVE  /\ w.binds[i].mark \in 1..Len(w.names)
             /\ w.names[w.binds[i].mark] = w.binds[i].name
             /\ \E j \in 1..Len(w.struct) :
                  w.struct[j] = [name |-> w.binds[i].name, type |-> w.binds[i].type]
  <2>1. CASE i \in 1..Len(a.binds)
    <3>1. /\ a.binds[i].mark \in 1..Len(a.names)
          /\ a.names[a.binds[i].mark] = a.binds[i].name
          /\ \E j \in 1..Len(a.struct) :
               a.struct[j] = [name |-> a.binds[i].name, type |-> a.binds[i].type]
      BY <2>1 DEF GoodText, LinedUp
    <3>2. w.binds[i] = a.binds[i] /\ w.struct = a.struct
      BY <1>1, <1>7, <2>1
    <3>3. w.names[a.binds[i].mark] = a.names[a.binds[i].mark]
      BY <1>6, <3>1
    <3>4. a.binds[i].mark \in 1..Len(w.names)
      BY <1>2, <1>6, <3>1
    <3> QED BY <3>1, <3>2, <3>3, <3>4
  <2>2. CASE w.binds[i] = new
    <3>1. w.binds[i].mark = n /\ w.binds[i].name = c.name /\ w.binds[i].type = c.type
      BY <2>2
    <3>2. n \in 1..Len(w.names) /\ w.names[n] = c.name
      BY <1>2, <1>6
    <3>3. \E j \in 1..Len(w.struct) : w.struct[j] = c
      BY <1>1
    <3> HIDE DEF new, binds
    <3> QED BY <1>3, <3>1, <3>2, <3>3
  <2> QED BY <1>8, <2>1, <2>2
<1>10. ASSUME NEW k \in 1..Len(w.names)
       PROVE  \/ \E i \in 1..Len(w.binds) : w.binds[i].mark = k
              \/ \E j \in 1..Len(w.struct) :
                   w.struct[j] = [name |-> w.names[k], type |-> "UNKNOWN"]
  <2>1. CASE k \in 1..Len(a.names)
    <3>1. \/ \E i \in 1..Len(a.binds) : a.binds[i].mark = k
          \/ \E j \in 1..Len(a.struct) :
               a.struct[j] = [name |-> a.names[k], type |-> "UNKNOWN"]
      BY <2>1 DEF GoodText, LinedUp
    <3> QED BY <1>1, <1>6, <1>7, <2>1, <3>1
  <2>2. CASE k = n /\ c.type \in Known
    <3>1. Len(w.binds) \in 1..Len(w.binds) /\ w.binds[Len(w.binds)] = new
      BY <1>1, <1>2, <2>2
    <3> QED BY <2>2, <3>1
  <2>3. CASE k = n /\ c.type = "UNKNOWN"
    BY <1>1, <1>3, <1>6, <2>3
  <2> QED BY <1>2, <1>6, <2>1, <2>2, <2>3
<1>11. \A k \in 1..Len(w.names) : w.marks[k] = k
  <2>1. \A k \in 1..Len(a.names) : a.marks[k] = k
    BY DEF GoodText, LinedUp
  <2>2. \A k \in 1..Len(w.names) : k \in 1..Len(a.names) \/ k = n
    BY <1>2, <1>6
  <2> QED BY <1>6, <2>1, <2>2
<1>12. LinedUp(w)
  BY <1>6, <1>9, <1>10, <1>11 DEF LinedUp
<1> QED BY <1>5, <1>6, <1>12 DEF GoodText, w

-----------------------------------------------------------------------------
(* Every type is known or "UNKNOWN". *)
LEMMA TypesKnown == \A c \in Columns : c.type \in Known \cup {"UNKNOWN"}
BY TypesAssumption DEF Columns, Known

(* The invariant holds at the start, ... *)
LEMMA GInit == Init => GInv
<1> SUFFICES ASSUME Init PROVE GInv OBVIOUS
<1>1. acc = Nothing /\ num = 0 /\ table = NoName
      /\ code = [t \in Tables \cup {NoName} |-> Nothing]
  BY DEF Init
<1> QED BY <1>1, NothingGood DEF GInv

(* ... every step keeps it, ... *)
LEMMA GNext == GInv /\ [Next]_vars => GInv'
<1> SUFFICES ASSUME GInv, [Next]_vars PROVE GInv'
  OBVIOUS
<1>1. ASSUME NEW c \in Columns
      PROVE  /\ GoodText(WithField(acc, c))
             /\ Len(WithField(acc, c).names) = num
             /\ GoodText(Inserted(WithField(acc, c), c, num + 1))
             /\ Len(Inserted(WithField(acc, c), c, num + 1).names) = num + 1
  <2> DEFINE w == WithField(acc, c)
  <2>1. /\ GoodText(w) /\ w.names = acc.names
        /\ Len(w.struct) \in Nat \ {0} /\ w.struct[Len(w.struct)] = c
    BY WithFieldGood DEF GInv
  <2> HIDE DEF w
  <2>2. Len(w.names) = num /\ \E j \in 1..Len(w.struct) : w.struct[j] = c
    BY <2>1 DEF GInv
  <2>3. GoodText(Inserted(w, c, num + 1)) /\ Len(Inserted(w, c, num + 1).names) = num + 1
    BY <2>1, <2>2, InsertedGood, TypesKnown
  <2> QED BY <2>1, <2>2, <2>3 DEF w
<1>2. CASE OpenFile
  BY <1>2 DEF GInv, OpenFile
<1>3. ASSUME NEW t \in Tables, BeginTable(t) PROVE GInv'
  BY <1>3, NothingGood DEF GInv, BeginTable
<1>4. ASSUME NEW c \in Columns, NEW auto \in BOOLEAN, ProcessPrimaryKey(c, auto)
      PROVE  GInv'
  <2>1. UNCHANGED <<table, code>> /\ GoodText(acc') /\ num' = Len(acc'.names)
    <3>1. CASE key'.auto
      BY <1>1, <1>4, <3>1 DEF ProcessPrimaryKey
    <3>2. CASE ~key'.auto
      BY <1>1, <1>4, <3>2 DEF ProcessPrimaryKey
    <3> QED BY <3>1, <3>2
  <2> QED BY <2>1 DEF GInv
<1>5. ASSUME NEW c \in Columns, ProcessColumn(c) PROVE GInv'
  <2>1. UNCHANGED <<table, code>> /\ GoodText(acc') /\ num' = Len(acc'.names)
    BY <1>1, <1>5 DEF ProcessColumn
  <2> QED BY <2>1 DEF GInv
<1>6. CASE Abandon
  BY <1>6 DEF GInv, Abandon
<1>7. CASE FinishTable
  <2>1. UNCHANGED <<num, acc, table>> /\ code' = [code EXCEPT ![table] = acc]
    BY <1>7 DEF FinishTable
  <2> QED BY <2>1 DEF GInv
<1>8. CASE UNCHANGED vars
  BY <1>8 DEF GInv, vars
<1> QED BY <1>2, <1>3, <1>4, <1>5, <1>6, <1>7, <1>8 DEF Next

(* ... and it says what InsertLinesUp says of the finished code.           *)
LEMMA GImplies == GInv => InsertLinesUp
<1> SUFFICES ASSUME GInv, NEW t \in Tables
             PROVE  LET c == code[t] IN
    /\ c.marks = [k \in DOMAIN c.names |-> k]
    /\ \A b \in ToSet(c.binds) : /\ b.mark \in DOMAIN c.names
                                 /\ c.names[b.mark] = b.name
                                 /\ [name |-> b.name, type |-> b.type] \in ToSet(c.struct)
    /\ \A k \in DOMAIN c.names :
         (\E b \in ToSet(c.binds) : b.mark = k)
         \/ [name |-> c.names[k], type |-> "UNKNOWN"] \in ToSet(c.struct)
  BY DEF InsertLinesUp
<1> DEFINE c == code[t]
<1>1. TextTyped(c) /\ LinedUp(c)
  BY DEF GInv, GoodText
<1> HIDE DEF c
<1>2. /\ DOMAIN c.names = 1..Len(c.names) /\ DOMAIN c.marks = 1..Len(c.marks)
      /\ DOMAIN c.binds = 1..Len(c.binds) /\ DOMAIN c.struct = 1..Len(c.struct)
      /\ c.marks = [k \in DOMAIN c.marks |-> c.marks[k]]
  BY <1>1 DEF TextTyped
<1>3. c.marks = [k \in DOMAIN c.names |-> k]
  BY <1>1, <1>2 DEF LinedUp
<1>4. ASSUME NEW b \in ToSet(c.binds)
      PROVE  /\ b.mark \in DOMAIN c.names
             /\ c.names[b.mark] = b.name
             /\ [name |-> b.name, type |-> b.type] \in ToSet(c.struct)
  <2>1. PICK i \in DOMAIN c.binds : b = c.binds[i]
    BY DEF ToSet
  <2> QED BY <1>1, <1>2, <2>1 DEF LinedUp, ToSet
<1>5. ASSUME NEW k \in DOMAIN c.names
      PROVE  \/ \E b \in ToSet(c.binds) : b.mark = k
             \/ [name |-> c.names[k], type |-> "UNKNOWN"] \in ToSet(c.struct)
  BY <1>1, <1>2 DEF LinedUp, ToSet
<1> QED BY <1>3, <1>4, <1>5 DEF c

(* In every C file the generator writes, columns, placeholders and bound   *)
(* values of the INSERT line up, whatever the class files are like.        *)
THEOREM InsertAlwaysLinesUp == Spec => []InsertLinesUp
<1>1. Spec => []GInv
  BY GInit, GNext, PTL DEF Spec
<1> QED BY <1>1, GImplies, PTL

-----------------------------------------------------------------------------
(* What a file gives.                                                      *)

FileRecords == [tables : Seq(Tables), keys : Seq(Names), columns : Seq(Columns),
                broken : BOOLEAN]

ColumnLine(c) == <<"column", c.name, SqlType(c.type)>>
ColumnLines(cols) == [k \in DOMAIN cols |-> ColumnLine(cols[k])]
Lines == ({"create"} \X Tables) \cup ({"column"} \X Names \X {"INTEGER", "BOOLEAN", "TEXT"})
         \cup ({"key"} \X (Names \cup {NoName}) \X BOOLEAN) \cup {<<"end">>}

Distinct(cols) == \A i, j \in DOMAIN cols : cols[i].name = cols[j].name => i = j
NamesOf(cols) == {c.name : c \in ToSet(cols)}

(* The text of a table is what its file has declared so far.               *)
AsGiven ==
  /\ acc.struct = given.columns
  /\ ToSet(acc.setters) = {c \in ToSet(given.columns) : c.type \in Known}
  /\ ToSet(acc.frees) = {c.name : c \in {d \in ToSet(given.columns) : d.type = "STRING"}}
  /\ sql[table] = <<<<"create", table>>>> \o ColumnLines(given.columns)
  /\ given.keys = <<>> => key = NoKey
  /\ Len(given.keys) = 1 => key.name = given.keys[1] /\ key.name \in NamesOf(given.columns)
  /\ Distinct(given.columns) /\ Len(given.keys) <= 1 =>
       ToSet(acc.names) = NamesOf(given.columns) \ (IF key.auto THEN {key.name} ELSE {})

(* A file with one table; what a file gives is the last of its tables'.    *)
FileInv ==
  /\ given \in FileRecords /\ done \in Seq(FileRecords)
  /\ files \in [left : Nat, decls : Nat] /\ num + files.decls <= MaxDecls
  /\ key \in [name : Names \cup {NoName}, auto : BOOLEAN]
  /\ sql \in [Tables \cup {NoName} -> Seq(Lines)]
  /\ ~given.broken
  /\ ~reading => given = NothingGiven
  /\ given.tables = <<>> => given.columns = <<>> /\ given.keys = <<>>
  /\ reading =>
       /\ ignore = (table = NoName)
       /\ table = NoName <=> given.tables = <<>>
       /\ table = NoName => key = NoKey
       /\ table # NoName => table \in ToSet(given.tables)
       /\ Len(given.tables) = 1 => AsGiven

(* Appending adds one member to the set of what a list holds, as its last. *)
LEMMA AppendIs ==
  ASSUME NEW S, NEW q \in Seq(S), NEW e \in S
  PROVE  /\ Append(q, e) \in Seq(S) /\ Append(q, e) # <<>>
         /\ ToSet(Append(q, e)) = ToSet(q) \cup {e}
         /\ Len(Append(q, e)) = Len(q) + 1 /\ Len(q) \in Nat
         /\ DOMAIN q = 1..Len(q) /\ DOMAIN Append(q, e) = 1..(Len(q) + 1)
         /\ \A i \in 1..Len(q) : Append(q, e)[i] = q[i]
         /\ Append(q, e)[Len(q) + 1] = e
<1>1. Append(q, e) \in Seq(S) /\ DOMAIN q = 1..Len(q)
      /\ DOMAIN Append(q, e) = 1..(Len(q) + 1) /\ Len(q) \in Nat
      /\ \A i \in 1..Len(q) : Append(q, e)[i] = q[i]
      /\ Append(q, e)[Len(q) + 1] = e /\ Len(Append(q, e)) = Len(q) + 1
  OBVIOUS
<1>2. 1..(Len(q) + 1) = 1..Len(q) \cup {Len(q) + 1}
  BY <1>1
<1>3. ToSet(Append(q, e)) = ToSet(q) \cup {e}
  BY <1>1, <1>2 DEF ToSet
<1> QED
  BY <1>1, <1>3

(* An empty list holds nothing. *)
LEMMA NoneIs == ToSet(<<>>) = {} /\ Len(<<>>) = 0 /\ DOMAIN <<>> = {}
BY DEF ToSet

(* The line of a column is a line of a .sql file. *)
LEMMA ColumnLineIs ==
  ASSUME NEW c \in Columns
  PROVE  ColumnLine(c) \in Lines
<1>1. c.name \in Names /\ SqlType(c.type) \in {"INTEGER", "BOOLEAN", "TEXT"}
  BY DEF Columns, SqlType
<1>2. ColumnLine(c) \in {"column"} \X Names \X {"INTEGER", "BOOLEAN", "TEXT"}
  BY <1>1 DEF ColumnLine
<1> QED
  BY <1>2 DEF Lines

(* A column more is a line more of the CREATE TABLE. *)
LEMMA LinesAppend ==
  ASSUME NEW cols \in Seq(Columns), NEW c \in Columns, NEW x \in Lines
  PROVE  /\ ColumnLines(cols) \in Seq(Lines) /\ Len(ColumnLines(cols)) = Len(cols)
         /\ Append(<<x>> \o ColumnLines(cols), ColumnLine(c))
              = <<x>> \o ColumnLines(Append(cols, c))
<1>1. /\ Append(cols, c) \in Seq(Columns) /\ Len(Append(cols, c)) = Len(cols) + 1
      /\ Len(cols) \in Nat /\ DOMAIN cols = 1..Len(cols)
      /\ DOMAIN Append(cols, c) = 1..(Len(cols) + 1)
      /\ \A i \in 1..Len(cols) : Append(cols, c)[i] = cols[i] /\ cols[i] \in Columns
      /\ Append(cols, c)[Len(cols) + 1] = c
  BY AppendIs
<1> DEFINE n == Len(cols)
           s == ColumnLines(cols)
           t == ColumnLines(Append(cols, c))
           l == ColumnLine(c)
<1>2. /\ s = [k \in 1..n |-> ColumnLine(cols[k])]
      /\ t = [k \in 1..(n + 1) |-> ColumnLine(Append(cols, c)[k])]
  BY <1>1 DEF ColumnLines
<1>3. \A k \in 1..n : ColumnLine(cols[k]) \in Lines
  BY <1>1, ColumnLineIs
<1>4. s \in Seq(Lines) /\ Len(s) = n /\ l \in Lines
  BY <1>1, <1>2, <1>3, ColumnLineIs
<1>5. \A k \in 1..n : t[k] = s[k]
  BY <1>1, <1>2
<1>6. t[n + 1] = l
  BY <1>1, <1>2
<1>7. t \in Seq(Lines) /\ Len(t) = n + 1
  <2>1. \A k \in 1..(n + 1) : ColumnLine(Append(cols, c)[k]) \in Lines
    BY <1>1, ColumnLineIs
  <2> QED
    BY <1>1, <1>2, <2>1
<1> HIDE DEF s, t, l, n
<1>8. n \in Nat
  BY <1>1 DEF n
<1>9. Append(<<x>> \o s, l) = <<x>> \o t
  <2>1. t = Append(s, l)
    BY <1>4, <1>5, <1>6, <1>7, <1>8
  <2> QED
    BY <1>4, <2>1
<1> QED
  BY <1>4, <1>9 DEF s, t, l, n

(* No file is open at the start. *)
LEMMA FileInit == Init => FileInv
<1> SUFFICES ASSUME Init PROVE FileInv
  OBVIOUS
<1>1. /\ reading = FALSE /\ key = NoKey /\ num = 0 /\ given = NothingGiven /\ done = <<>>
      /\ files = [left |-> MaxFiles, decls |-> MaxDecls]
      /\ sql = [t \in Tables \cup {NoName} |-> <<>>]
  BY DEF Init
<1>2. given \in FileRecords /\ ~given.broken /\ given.columns = <<>> /\ given.keys = <<>>
  BY <1>1 DEF NothingGiven, FileRecords
<1>3. key \in [name : Names \cup {NoName}, auto : BOOLEAN]
  BY <1>1 DEF NoKey
<1>4. files \in [left : Nat, decls : Nat] /\ num + files.decls <= MaxDecls
  BY <1>1, BoundsAssumption
<1>5. done \in Seq(FileRecords) /\ sql \in [Tables \cup {NoName} -> Seq(Lines)]
  <2>1. \A S : <<>> \in Seq(S)
    OBVIOUS
  <2> QED
    BY <1>1, <2>1
<1> QED
  BY <1>1, <1>2, <1>3, <1>4, <1>5 DEF FileInv

(* A column more is a name more, and a new one if the columns differ. *)
LEMMA NamesAppend ==
  ASSUME NEW cols \in Seq(Columns), NEW c \in Columns
  PROVE  /\ ToSet(Append(cols, c)) = ToSet(cols) \cup {c}
         /\ NamesOf(Append(cols, c)) = NamesOf(cols) \cup {c.name}
         /\ Distinct(Append(cols, c)) => Distinct(cols) /\ c.name \notin NamesOf(cols)
<1> DEFINE n == Len(cols)
           q == Append(cols, c)
<1>1. /\ ToSet(q) = ToSet(cols) \cup {c}
      /\ n \in Nat /\ DOMAIN cols = 1..n /\ DOMAIN q = 1..(n + 1)
      /\ \A i \in 1..n : q[i] = cols[i]
      /\ q[n + 1] = c
  BY AppendIs
<1> HIDE DEF n, q
<1>2. NamesOf(q) = NamesOf(cols) \cup {c.name}
  BY <1>1 DEF NamesOf
<1>3. ASSUME Distinct(q) PROVE Distinct(cols) /\ c.name \notin NamesOf(cols)
  <2>1. n + 1 \in DOMAIN q /\ \A i \in 1..n : i \in DOMAIN q /\ i # n + 1
    BY <1>1
  <2>2. \A i \in 1..n : cols[i].name # c.name
    BY <1>1, <1>3, <2>1 DEF Distinct
  <2>3. Distinct(cols)
    BY <1>1, <1>3, <2>1 DEF Distinct
  <2> QED
    BY <1>1, <2>2, <2>3 DEF NamesOf, ToSet
<1> QED
  BY <1>1, <1>2, <1>3 DEF q

(* What a column adds to the text of its table. *)
LEMMA TextAdds ==
  ASSUME NEW a, TextTyped(a), NEW c \in Columns, NEW n
  PROVE  LET w == WithField(a, c)
             i == Inserted(w, c, n) IN
         /\ w.struct = Append(a.struct, c) /\ i.struct = w.struct
         /\ ToSet(w.setters) = ToSet(a.setters) \cup (IF c.type \in Known THEN {c} ELSE {})
         /\ ToSet(w.frees) = ToSet(a.frees) \cup (IF c.type = "STRING" THEN {c.name} ELSE {})
         /\ i.setters = w.setters /\ i.frees = w.frees
         /\ w.names = a.names /\ ToSet(i.names) = ToSet(a.names) \cup {c.name}
<1> DEFINE w == WithField(a, c)
           i == Inserted(w, c, n)
           setters == IF c.type \in Known THEN Append(a.setters, c) ELSE a.setters
           frees == IF c.type = "STRING" THEN Append(a.frees, c.name) ELSE a.frees
<1>1. /\ w.struct = Append(a.struct, c) /\ w.names = a.names
      /\ w.setters = setters /\ w.frees = frees
  BY DEF WithField, TextTyped
<1>2. DOMAIN w = DOMAIN a /\ {"names", "marks", "binds"} \subseteq DOMAIN w
  BY DEF WithField, TextTyped
<1> HIDE DEF w
<1>3. /\ i.struct = w.struct /\ i.setters = w.setters /\ i.frees = w.frees
      /\ i.names = Append(w.names, c.name)
  BY <1>2 DEF Inserted
<1>4. c.name \in Names
  BY DEF Columns
<1>5. a.setters \in Seq(Columns) /\ a.frees \in Seq(Names) /\ a.names \in Seq(Names)
  BY DEF TextTyped
<1>6. /\ ToSet(setters) = ToSet(a.setters) \cup (IF c.type \in Known THEN {c} ELSE {})
      /\ ToSet(frees) = ToSet(a.frees) \cup (IF c.type = "STRING" THEN {c.name} ELSE {})
      /\ ToSet(Append(a.names, c.name)) = ToSet(a.names) \cup {c.name}
  BY <1>4, <1>5, AppendIs
<1> HIDE DEF i, setters, frees
<1> QED
  BY <1>1, <1>3, <1>6 DEF w, i

(* A declaration of a column adds a field, a setter and a line to what the *)
(* table has; whether it is inserted depends on the key.                   *)
LEMMA ColumnGiven ==
  ASSUME GInv, FileInv, reading, Len(given.tables) = 1, NEW c \in Columns, NEW n,
         acc' \in {WithField(acc, c), Inserted(WithField(acc, c), c, n)},
         AppendToSql(ColumnLine(c)), UNCHANGED table,
         given'.columns = Append(given.columns, c),
         given'.keys = <<>> => key' = NoKey,
         Len(given'.keys) = 1 =>
           key'.name = given'.keys[1] /\ key'.name \in NamesOf(given'.columns),
         Distinct(given'.columns) /\ Len(given'.keys) <= 1 =>
           ToSet(acc'.names) = NamesOf(given'.columns) \ (IF key'.auto THEN {key'.name} ELSE {})
  PROVE  AsGiven'
<1>1. AsGiven /\ given.columns \in Seq(Columns) /\ TextTyped(acc)
  BY DEF FileInv, FileRecords, GInv, GoodText
<1>2. /\ acc'.struct = Append(acc.struct, c)
      /\ ToSet(acc'.setters) = ToSet(acc.setters) \cup (IF c.type \in Known THEN {c} ELSE {})
      /\ ToSet(acc'.frees) = ToSet(acc.frees) \cup (IF c.type = "STRING" THEN {c.name} ELSE {})
  <2> DEFINE w == WithField(acc, c)
             i == Inserted(w, c, n)
  <2>1. /\ w.struct = Append(acc.struct, c) /\ i.struct = w.struct
        /\ ToSet(w.setters) = ToSet(acc.setters) \cup (IF c.type \in Known THEN {c} ELSE {})
        /\ ToSet(w.frees) = ToSet(acc.frees) \cup (IF c.type = "STRING" THEN {c.name} ELSE {})
        /\ i.setters = w.setters /\ i.frees = w.frees
    BY <1>1, TextAdds
  <2>2. acc' = w \/ acc' = i
    OBVIOUS
  <2> HIDE DEF w, i
  <2> QED
    BY <2>1, <2>2
<1>3. ToSet(given'.columns) = ToSet(given.columns) \cup {c}
  BY <1>1, NamesAppend
<1>4. acc'.struct = given'.columns
  BY <1>1, <1>2 DEF AsGiven
<1>5. ToSet(acc'.setters) = {d \in ToSet(given'.columns) : d.type \in Known}
  BY <1>1, <1>2, <1>3 DEF AsGiven
<1>6. ToSet(acc'.frees) = {d.name : d \in {e \in ToSet(given'.columns) : e.type = "STRING"}}
  BY <1>1, <1>2, <1>3 DEF AsGiven
<1>7. sql'[table'] = <<<<"create", table'>>>> \o ColumnLines(given'.columns)
  <2>1. table \in Tables
    BY DEF FileInv, GInv, FileRecords
  <2> DEFINE x == <<"create", table>>
  <2>2. x \in Lines
    BY <2>1 DEF Lines
  <2>3. sql[table] = <<x>> \o ColumnLines(given.columns)
    BY <1>1 DEF AsGiven
  <2> HIDE DEF x
  <2>4. sql'[table] = Append(sql[table], ColumnLine(c))
    BY <2>1 DEF AppendToSql, FileInv
  <2>5. sql'[table] = <<x>> \o ColumnLines(given'.columns)
    BY <1>1, <2>2, <2>3, <2>4, LinesAppend
  <2> QED
    BY <2>5 DEF x
<1> QED
  BY <1>4, <1>5, <1>6, <1>7 DEF AsGiven

(* A file is opened: nothing is given yet. *)
LEMMA FileOpen ==
  ASSUME GInv, FileInv, OpenFile
  PROVE  FileInv'
<1>1. /\ reading' = TRUE /\ ignore' = TRUE /\ table' = NoName /\ key' = NoKey
      /\ given' = NothingGiven /\ UNCHANGED <<num, acc, sql, done>>
      /\ files' = [files EXCEPT !.left = @ - 1] /\ files.left > 0 /\ given = NothingGiven
  BY DEF OpenFile, FileInv
<1>2. files' \in [left : Nat, decls : Nat] /\ files'.decls = files.decls
  BY <1>1 DEF FileInv
<1>3. NothingGiven.tables = <<>> /\ NothingGiven.columns = <<>> /\ NothingGiven.keys = <<>>
  BY DEF NothingGiven
<1>4. key' \in [name : Names \cup {NoName}, auto : BOOLEAN]
  BY <1>1 DEF NoKey
<1>5. Len(given'.tables) # 1
  BY <1>1, <1>3, NoneIs
<1> QED
  BY <1>1, <1>2, <1>3, <1>4, <1>5 DEF FileInv

(* A declaration counts. *)
LEMMA FileDeclares ==
  ASSUME FileInv, GInv, Declares
  PROVE  /\ reading /\ files' \in [left : Nat, decls : Nat]
         /\ num \in Nat /\ num + 1 + files'.decls <= MaxDecls /\ files'.decls \in Nat
         /\ files'.decls <= MaxDecls
<1>1. num \in Nat
  BY DEF GInv, GoodText, TextTyped
<1>2. /\ files \in [left : Nat, decls : Nat] /\ num + files.decls <= MaxDecls
      /\ reading /\ files.decls > 0 /\ files' = [files EXCEPT !.decls = @ - 1]
  BY DEF FileInv, Declares
<1>3. files'.decls = files.decls - 1 /\ files' \in [left : Nat, decls : Nat]
  BY <1>2
<1> QED
  BY <1>1, <1>2, <1>3, BoundsAssumption

(* A table is begun: its text is empty. *)
LEMMA FileBegin ==
  ASSUME GInv, FileInv, NEW t \in Tables, BeginTable(t)
  PROVE  FileInv'
<1>1. /\ Declares /\ ignore' = FALSE /\ table' = t /\ num' = 0 /\ acc' = Nothing
      /\ sql' = [sql EXCEPT ![t] = <<<<"create", t>>>>]
      /\ given' = [given EXCEPT !.tables = Append(@, t)]
      /\ UNCHANGED <<reading, key, done>>
  BY DEF BeginTable
<1>2. t # NoName
  BY NamesAssumption
<1>3. reading /\ files' \in [left : Nat, decls : Nat] /\ num' + files'.decls <= MaxDecls
  BY <1>1, FileDeclares
<1>4. given \in FileRecords /\ given.tables \in Seq(Tables)
  BY DEF FileInv, FileRecords
<1>5. /\ Append(given.tables, t) \in Seq(Tables) /\ Append(given.tables, t) # <<>>
      /\ ToSet(Append(given.tables, t)) = ToSet(given.tables) \cup {t}
      /\ Len(Append(given.tables, t)) = 1 => given.tables = <<>>
  BY <1>4, AppendIs
<1>6. /\ given' \in FileRecords /\ given'.tables = Append(given.tables, t)
      /\ given'.columns = given.columns /\ given'.keys = given.keys
      /\ given'.broken = given.broken
  BY <1>1, <1>4, <1>5 DEF FileRecords
<1>7. sql' \in [Tables \cup {NoName} -> Seq(Lines)]
      /\ sql'[t] = <<<<"create", t>>>>
  <2> DEFINE x == <<"create", t>>
  <2>1. x \in Lines
    BY DEF Lines
  <2> HIDE DEF x
  <2>2. <<x>> \in Seq(Lines)
    BY <2>1
  <2>3. sql' = [sql EXCEPT ![t] = <<x>>]
    BY <1>1 DEF x
  <2>4. sql' \in [Tables \cup {NoName} -> Seq(Lines)] /\ sql'[t] = <<x>>
    BY <2>2, <2>3 DEF FileInv
  <2> QED
    BY <2>4 DEF x
<1>8. ASSUME Len(given'.tables) = 1 PROVE AsGiven'
  <2>1. given.tables = <<>> /\ key = NoKey /\ given'.columns = <<>> /\ given'.keys = <<>>
    BY <1>3, <1>5, <1>6, <1>8 DEF FileInv
  <2>2. /\ acc'.struct = <<>> /\ ToSet(acc'.setters) = {} /\ ToSet(acc'.frees) = {}
        /\ ToSet(acc'.names) = {}
    BY <1>1, NoneIs DEF Nothing
  <2>3. ColumnLines(<<>>) = <<>>
    BY NoneIs DEF ColumnLines
  <2>4. sql'[t] = <<<<"create", t>>>> \o ColumnLines(<<>>)
    <3> DEFINE x == <<"create", t>>
    <3>1. <<x>> \o <<>> = <<x>>
      OBVIOUS
    <3> QED
      BY <1>7, <2>3, <3>1
  <2>5. NamesOf(<<>>) = {} /\ ToSet(given'.columns) = {}
    BY <2>1, NoneIs DEF NamesOf
  <2> QED
    BY <1>1, <2>1, <2>2, <2>4, <2>5, NoneIs DEF AsGiven
<1> QED
  BY <1>1, <1>2, <1>3, <1>5, <1>6, <1>7, <1>8 DEF FileInv

(* A column is given to the table. *)
LEMMA FileColumn ==
  ASSUME GInv, FileInv, NEW c \in Columns, ProcessColumn(c)
  PROVE  FileInv'
<1>1. /\ Declares /\ ~ignore /\ AppendToSql(ColumnLine(c)) /\ num' = num + 1
      /\ acc' = Inserted(WithField(acc, c), c, num + 1)
      /\ given' = [given EXCEPT !.columns = Append(@, c)]
      /\ UNCHANGED <<reading, ignore, table, key, done>>
  BY DEF ProcessColumn, ColumnLine
<1>2. reading /\ files' \in [left : Nat, decls : Nat] /\ num' + files'.decls <= MaxDecls
  BY <1>1, FileDeclares
<1>3. given \in FileRecords /\ given.columns \in Seq(Columns)
  BY DEF FileInv, FileRecords
<1>4. Append(given.columns, c) \in Seq(Columns)
  BY <1>3, AppendIs
<1>5. /\ given' \in FileRecords /\ given'.columns = Append(given.columns, c)
      /\ given'.tables = given.tables /\ given'.keys = given.keys
      /\ given'.broken = given.broken
  BY <1>1, <1>3, <1>4 DEF FileRecords
<1>6. sql' \in [Tables \cup {NoName} -> Seq(Lines)]
  <2>1. table \in Tables \cup {NoName} /\ sql[table] \in Seq(Lines)
    BY DEF FileInv, GInv
  <2>2. Append(sql[table], ColumnLine(c)) \in Seq(Lines)
    BY <2>1, ColumnLineIs, AppendIs
  <2> QED
    BY <1>1, <2>1, <2>2 DEF AppendToSql, FileInv
<1>7. given.tables # <<>> /\ table # NoName
  BY <1>1, <1>2 DEF FileInv
<1>8. ASSUME Len(given.tables) = 1 PROVE AsGiven'
  <2>1. AsGiven
    BY <1>2, <1>8 DEF FileInv
  <2>2. ToSet(acc'.names) = ToSet(acc.names) \cup {c.name}
    BY <1>1, TextAdds DEF GInv, GoodText
  <2>3. /\ NamesOf(given'.columns) = NamesOf(given.columns) \cup {c.name}
        /\ Distinct(given'.columns) =>
             Distinct(given.columns) /\ c.name \notin NamesOf(given.columns)
    BY <1>3, <1>5, NamesAppend
  <2>4. given.keys \in Seq(Names) /\ (Len(given.keys) <= 1 => given.keys = <<>> \/ Len(given.keys) = 1)
    <3>1. given.keys \in Seq(Names) /\ Len(given.keys) \in Nat
      BY <1>3 DEF FileRecords
    <3>2. Len(given.keys) = 0 => given.keys = <<>>
      BY <3>1
    <3>3. \A n \in Nat : n <= 1 => n = 0 \/ n = 1
      OBVIOUS
    <3>4. Len(given.keys) <= 1 => Len(given.keys) = 0 \/ Len(given.keys) = 1
      BY <3>1, <3>3
    <3> QED
      BY ONLY <3>1, <3>2, <3>4
  <2>5. NoKey.auto = FALSE
    BY DEF NoKey
  <2>6. given'.keys = <<>> => key' = NoKey
    BY <1>1, <1>5, <2>1 DEF AsGiven
  <2>7. Len(given'.keys) = 1 =>
          key'.name = given'.keys[1] /\ key'.name \in NamesOf(given'.columns)
    BY <1>1, <1>5, <2>1, <2>3 DEF AsGiven
  <2>8. Distinct(given'.columns) /\ Len(given'.keys) <= 1 =>
          ToSet(acc'.names) = NamesOf(given'.columns) \ (IF key'.auto THEN {key'.name} ELSE {})
    BY <1>1, <1>5, <2>1, <2>2, <2>3, <2>4, <2>5 DEF AsGiven
  <2> QED
    BY <1>1, <1>2, <1>5, <1>8, <2>6, <2>7, <2>8, ColumnGiven
<1> QED
  BY <1>1, <1>2, <1>5, <1>6, <1>7, <1>8 DEF FileInv

(* A key is given to the table. *)
LEMMA FileKey ==
  ASSUME GInv, FileInv, NEW c \in Columns, NEW auto \in BOOLEAN, ProcessPrimaryKey(c, auto)
  PROVE  FileInv'
<1>1. /\ Declares /\ ~ignore /\ AppendToSql(ColumnLine(c))
      /\ key' = [name |-> c.name, auto |-> c.type = "LONG" /\ auto]
      /\ given' = [given EXCEPT !.keys = Append(@, c.name), !.columns = Append(@, c)]
      /\ UNCHANGED <<reading, ignore, table, done>>
  BY DEF ProcessPrimaryKey, ColumnLine
<1>2. \/ key'.auto /\ acc' = WithField(acc, c) /\ num' = num
      \/ ~key'.auto /\ acc' = Inserted(WithField(acc, c), c, num + 1) /\ num' = num + 1
  BY DEF ProcessPrimaryKey
<1>3. reading /\ files' \in [left : Nat, decls : Nat] /\ num' + files'.decls <= MaxDecls
  <2>1. /\ reading /\ files' \in [left : Nat, decls : Nat] /\ num \in Nat
        /\ num + 1 + files'.decls <= MaxDecls /\ files'.decls \in Nat
    BY <1>1, FileDeclares
  <2>2. num' = num \/ num' = num + 1
    BY <1>2
  <2> QED
    BY <2>1, <2>2, BoundsAssumption
<1>4. given \in FileRecords /\ given.columns \in Seq(Columns) /\ given.keys \in Seq(Names)
  BY DEF FileInv, FileRecords
<1>5. /\ Append(given.columns, c) \in Seq(Columns) /\ c.name \in Names
      /\ Append(given.keys, c.name) \in Seq(Names) /\ Append(given.keys, c.name) # <<>>
      /\ Len(Append(given.keys, c.name)) <= 1 => given.keys = <<>>
      /\ given.keys = <<>> => Append(given.keys, c.name)[1] = c.name
  <2>1. c.name \in Names
    BY DEF Columns
  <2> QED
    BY <1>4, <2>1, AppendIs
<1>6. /\ given' \in FileRecords /\ given'.columns = Append(given.columns, c)
      /\ given'.tables = given.tables /\ given'.keys = Append(given.keys, c.name)
      /\ given'.broken = given.broken
  BY <1>1, <1>4, <1>5 DEF FileRecords
<1>7. key' \in [name : Names \cup {NoName}, auto : BOOLEAN] /\ key'.name = c.name
  BY <1>1, <1>5
<1>8. sql' \in [Tables \cup {NoName} -> Seq(Lines)]
  <2>1. table \in Tables \cup {NoName} /\ sql[table] \in Seq(Lines)
    BY DEF FileInv, GInv
  <2>2. Append(sql[table], ColumnLine(c)) \in Seq(Lines)
    BY <2>1, ColumnLineIs, AppendIs
  <2> QED
    BY <1>1, <2>1, <2>2 DEF AppendToSql, FileInv
<1>9. given.tables # <<>> /\ table # NoName
  BY <1>1, <1>3 DEF FileInv
<1>10. ASSUME Len(given.tables) = 1 PROVE AsGiven'
  <2>1. AsGiven
    BY <1>3, <1>10 DEF FileInv
  <2>2. ToSet(acc'.names) = ToSet(acc.names) \cup (IF key'.auto THEN {} ELSE {c.name})
    <3> DEFINE w == WithField(acc, c)
               i == Inserted(w, c, num + 1)
    <3>1. ToSet(w.names) = ToSet(acc.names) /\ ToSet(i.names) = ToSet(acc.names) \cup {c.name}
      BY TextAdds DEF GInv, GoodText
    <3>2. (key'.auto /\ acc' = w) \/ (~key'.auto /\ acc' = i)
      BY <1>2
    <3> HIDE DEF w, i
    <3> QED
      BY <3>1, <3>2
  <2>3. /\ NamesOf(given'.columns) = NamesOf(given.columns) \cup {c.name}
        /\ Distinct(given'.columns) =>
             Distinct(given.columns) /\ c.name \notin NamesOf(given.columns)
    BY <1>4, <1>6, NamesAppend
  <2>4. Len(given'.keys) <= 1 =>
          given.keys = <<>> /\ Len(given.keys) <= 1 /\ key.auto = FALSE
    BY <1>5, <1>6, <2>1, NoneIs DEF AsGiven, NoKey
  <2>5. Len(given'.keys) = 1 =>
          key'.name = given'.keys[1] /\ key'.name \in NamesOf(given'.columns)
    BY <1>5, <1>6, <1>7, <2>3
  <2>6. Distinct(given'.columns) /\ Len(given'.keys) <= 1 =>
          ToSet(acc'.names) = NamesOf(given'.columns) \ (IF key'.auto THEN {key'.name} ELSE {})
    BY <1>7, <2>1, <2>2, <2>3, <2>4 DEF AsGiven
  <2>7. acc' \in {WithField(acc, c), Inserted(WithField(acc, c), c, num + 1)}
    BY <1>2
  <2> QED
    BY <1>1, <1>3, <1>5, <1>6, <1>10, <2>5, <2>6, <2>7, ColumnGiven
<1> QED
  BY <1>1, <1>3, <1>6, <1>7, <1>8, <1>9, <1>10 DEF FileInv

(* A file ends: nothing is given any longer. *)
LEMMA FileEnds ==
  ASSUME FileInv, GInv, reading' = FALSE, given' = NothingGiven, UNCHANGED key,
         NEW g \in FileRecords, done' = Append(done, g),
         sql' \in [Tables \cup {NoName} -> Seq(Lines)],
         files' \in [left : Nat, decls : Nat], num' + files'.decls <= MaxDecls
  PROVE  FileInv'
<1>1. /\ NothingGiven \in FileRecords /\ NothingGiven.columns = <<>>
      /\ NothingGiven.keys = <<>> /\ ~NothingGiven.broken
  BY DEF NothingGiven, FileRecords
<1>2. done' \in Seq(FileRecords)
  BY AppendIs DEF FileInv
<1> QED
  BY <1>1, <1>2 DEF FileInv

(* The two lines that end a .sql file. *)
LEMMA EndIs ==
  ASSUME FileInv
  PROVE  KeyAndEnd \in Seq(Lines) /\ Len(KeyAndEnd) = 2 /\ KeyAndEnd[1][3] = key.auto
<1> DEFINE k == <<"key", key.name, key.auto>>
           e == <<"end">>
<1>1. k \in {"key"} \X (Names \cup {NoName}) \X BOOLEAN
  BY DEF FileInv
<1>2. k \in Lines /\ e \in Lines /\ k[3] = key.auto
  BY <1>1 DEF Lines
<1>3. KeyAndEnd = <<k, e>>
  BY DEF KeyAndEnd
<1> HIDE DEF k, e
<1> QED
  BY <1>2, <1>3

(* Every step keeps what is known of the file. *)
LEMMA FileNext ==
  ASSUME GInv, FileInv, [Next]_vars
  PROVE  FileInv'
<1>1. CASE Abandon
  <2> DEFINE g == [given EXCEPT !.broken = TRUE]
  <2>1. g \in FileRecords
    BY DEF FileInv, FileRecords
  <2>2. /\ Declares /\ reading' = FALSE /\ given' = NothingGiven /\ done' = Append(done, g)
        /\ UNCHANGED <<key, num, sql>>
    BY <1>1 DEF Abandon, FileDone
  <2>3. files' \in [left : Nat, decls : Nat] /\ num' + files'.decls <= MaxDecls
    BY <2>2, FileDeclares, BoundsAssumption
  <2>4. sql' \in [Tables \cup {NoName} -> Seq(Lines)]
    BY <2>2 DEF FileInv
  <2> HIDE DEF g
  <2> QED
    BY <2>1, <2>2, <2>3, <2>4, FileEnds
<1>2. CASE FinishTable
  <2>1. /\ reading' = FALSE /\ given' = NothingGiven /\ done' = Append(done, given)
        /\ sql' = [sql EXCEPT ![table] = @ \o KeyAndEnd] /\ UNCHANGED <<key, num, files>>
    BY <1>2 DEF FinishTable, FileDone
  <2>2. sql' \in [Tables \cup {NoName} -> Seq(Lines)]
    <3>1. table \in Tables \cup {NoName} /\ sql[table] \in Seq(Lines)
      BY DEF FileInv, GInv
    <3>2. sql[table] \o KeyAndEnd \in Seq(Lines)
      BY <3>1, EndIs
    <3> QED
      BY <2>1, <3>1, <3>2 DEF FileInv
  <2>3. /\ given \in FileRecords
        /\ files' \in [left : Nat, decls : Nat] /\ num' + files'.decls <= MaxDecls
    BY <2>1 DEF FileInv
  <2> QED
    BY <2>1, <2>2, <2>3, FileEnds
<1>3. CASE UNCHANGED vars
  BY <1>3 DEF vars, FileInv, AsGiven
<1> QED
  BY <1>1, <1>2, <1>3, FileOpen, FileBegin, FileKey, FileColumn DEF Next

(* The invariants together. *)
LEMMA GeneratorInvariant == Spec => [](GInv /\ FileInv)
BY GInit, GNext, FileInit, FileNext, PTL DEF Spec

(* column_num never exceeds the number of declarations, and the lines of a *)
(* file are ignored just until its table is known.                         *)
THEOREM GeneratorTypes == Spec => []TypeOK
<1>1. GInv /\ FileInv => TypeOK
  <2> SUFFICES ASSUME GInv, FileInv PROVE TypeOK
    OBVIOUS
  <2>1. num \in Nat /\ acc.struct \in Seq(Columns) /\ acc.setters \in Seq(Columns)
    BY DEF GInv, GoodText, TextTyped
  <2>2. num \in 0..MaxDecls
    <3>1. files.decls \in Nat /\ num + files.decls <= MaxDecls
      BY DEF FileInv
    <3> QED
      BY <2>1, <3>1, BoundsAssumption
  <2> QED
    BY <2>1, <2>2 DEF TypeOK, FileInv, GInv
<1> QED
  BY <1>1, GeneratorInvariant, PTL

-----------------------------------------------------------------------------
(* The finished tables.                                                    *)

(* The code and the .sql file of a file's table are as it declares them.   *)
DeclaredAs(g) ==
  LET t == g.tables[1]
      cols == g.columns
      auto == sql[t][Len(cols) + 2][3] IN
  /\ code[t].struct = cols
  /\ sql[t] = <<<<"create", t>>>>
              \o [k \in DOMAIN cols |-> <<"column", cols[k].name, SqlType(cols[k].type)>>]
              \o <<<<"key", g.keys[1], auto>>, <<"end">>>>
  /\ ToSet(code[t].names) = {c.name : c \in ToSet(cols)}
                            \ (IF auto THEN ToSet(g.keys) ELSE {})
  /\ ToSet(code[t].setters) = {c \in ToSet(cols) : c.type \in Known}
  /\ ToSet(code[t].frees) = {c.name : c \in {d \in ToSet(cols) : d.type = "STRING"}}

(* The property, file by file. *)
LEMMA DeclaredIs ==
  TableAsDeclared <=> \A i \in DOMAIN done :
    WellFormed(done[i]) /\ Alone(i) /\ NotAgain(done[i]) => DeclaredAs(done[i])
BY DEF TableAsDeclared, DeclaredAs

(* A step writes the files of no table but those of the file that is read, *)
(* and a file that ends has the tables that were given.                    *)
LEMMA Untouched ==
  ASSUME GInv, FileInv, [Next]_vars
  PROVE  \E g \in FileRecords :
           /\ \/ done' = done /\ ToSet(given.tables) \subseteq ToSet(given'.tables)
              \/ done' = Append(done, g) /\ g.tables = given.tables
           /\ \A t \in Tables : t \notin ToSet(given.tables) \cup ToSet(given'.tables) =>
                                 sql'[t] = sql[t] /\ code'[t] = code[t]
<1> DEFINE Only(g) ==
             /\ \/ done' = done /\ ToSet(given.tables) \subseteq ToSet(given'.tables)
                \/ done' = Append(done, g) /\ g.tables = given.tables
             /\ \A t \in Tables : t \notin ToSet(given.tables) \cup ToSet(given'.tables) =>
                                   sql'[t] = sql[t] /\ code'[t] = code[t]
<1>0. given \in FileRecords /\ given.tables \in Seq(Tables)
  BY DEF FileInv, FileRecords
<1>1. reading => \A t \in Tables : t \notin ToSet(given.tables) => t # table
  BY NamesAssumption DEF FileInv
<1>2. CASE OpenFile
  <2>1. done' = done /\ given' = given /\ sql' = sql /\ code' = code
    BY <1>2 DEF OpenFile, FileInv
  <2> QED
    BY <1>0, <2>1
<1>3. ASSUME NEW t \in Tables, BeginTable(t) PROVE Only(given)
  <2>1. /\ done' = done /\ code' = code /\ given'.tables = Append(given.tables, t)
        /\ sql' = [sql EXCEPT ![t] = <<<<"create", t>>>>]
    BY <1>0, <1>3 DEF BeginTable, FileRecords
  <2>2. ToSet(given'.tables) = ToSet(given.tables) \cup {t}
    BY <1>0, <2>1, AppendIs
  <2>3. \A u \in Tables : u # t => sql'[u] = sql[u]
    BY <2>1 DEF FileInv
  <2> QED
    BY <2>1, <2>2, <2>3
<1>4. ASSUME NEW c \in Columns,
             ProcessColumn(c) \/ \E auto \in BOOLEAN : ProcessPrimaryKey(c, auto)
      PROVE  Only(given)
  <2>1. done' = done /\ code' = code /\ given'.tables = given.tables /\ reading
    BY <1>0, <1>4 DEF ProcessColumn, ProcessPrimaryKey, Declares, FileRecords
  <2>2. \A u \in Tables : u # table => sql'[u] = sql[u]
    BY <1>4 DEF ProcessColumn, ProcessPrimaryKey, AppendToSql, FileInv
  <2> QED
    BY <1>1, <2>1, <2>2
<1>5. CASE Abandon
  <2> DEFINE g == [given EXCEPT !.broken = TRUE]
  <2>1. g \in FileRecords /\ g.tables = given.tables
    BY <1>0 DEF FileRecords
  <2>2. done' = Append(done, g) /\ sql' = sql /\ code' = code
    BY <1>5 DEF Abandon, FileDone
  <2> HIDE DEF g
  <2> QED
    BY <2>1, <2>2
<1>6. CASE FinishTable
  <2>1. /\ done' = Append(done, given) /\ reading
        /\ code' = [code EXCEPT ![table] = acc]
        /\ sql' = [sql EXCEPT ![table] = @ \o KeyAndEnd]
    BY <1>6 DEF FinishTable, FileDone
  <2>2. \A u \in Tables : u # table => sql'[u] = sql[u] /\ code'[u] = code[u]
    BY <2>1 DEF FileInv, GInv
  <2> QED
    BY <1>0, <1>1, <2>1, <2>2
<1>7. CASE UNCHANGED vars
  BY <1>0, <1>7 DEF vars
<1> QED
  BY <1>0, <1>2, <1>3, <1>4, <1>5, <1>6, <1>7 DEF Next

(* The list of finished files only grows. *)
LEMMA FinishedStay ==
  ASSUME GInv, FileInv, [Next]_vars, NEW i \in DOMAIN done
  PROVE  i \in DOMAIN done' /\ done'[i] = done[i]
<1>1. /\ done \in Seq(FileRecords) /\ DOMAIN done = 1..Len(done) /\ Len(done) \in Nat
      /\ i \in 1..Len(done)
  BY DEF FileInv
<1>2. PICK g \in FileRecords : done' = done \/ done' = Append(done, g)
  BY Untouched
<1>3. i \in 1..(Len(done) + 1)
  BY <1>1
<1> QED
  BY <1>1, <1>2, <1>3, AppendIs

(* A file that is still alone with its table after a step was alone before *)
(* it, and the step did not write its files.                               *)
LEMMA StillThere ==
  ASSUME GInv, FileInv, [Next]_vars,
         NEW i \in DOMAIN done, WellFormed(done[i]), Alone(i)', NotAgain(done[i])'
  PROVE  LET t == done[i].tables[1] IN
         /\ i \in DOMAIN done' /\ done'[i] = done[i]
         /\ t \in Tables /\ Alone(i) /\ NotAgain(done[i])
         /\ sql'[t] = sql[t] /\ code'[t] = code[t]
<1>1. /\ done \in Seq(FileRecords) /\ DOMAIN done = 1..Len(done) /\ Len(done) \in Nat
      /\ done[i] \in FileRecords
  BY DEF FileInv
<1>2. PICK g \in FileRecords :
         /\ \/ done' = done /\ ToSet(given.tables) \subseteq ToSet(given'.tables)
            \/ done' = Append(done, g) /\ g.tables = given.tables
         /\ \A t \in Tables : t \notin ToSet(given.tables) \cup ToSet(given'.tables) =>
                               sql'[t] = sql[t] /\ code'[t] = code[t]
  BY Untouched
<1>3. /\ Append(done, g)[Len(done) + 1] = g
      /\ DOMAIN Append(done, g) = 1..(Len(done) + 1)
      /\ \A j \in DOMAIN done : Append(done, g)[j] = done[j] /\ j \in DOMAIN Append(done, g)
                                /\ j # Len(done) + 1
      /\ Len(done) + 1 \in DOMAIN Append(done, g)
  BY <1>1, AppendIs
<1>4. \A j \in DOMAIN done : done'[j] = done[j] /\ j \in DOMAIN done'
  BY <1>1, <1>2, <1>3
<1> DEFINE t == done[i].tables[1]
<1>5. t \in Tables
  BY <1>1 DEF WellFormed, FileRecords
<1>6. Alone(i)
  BY <1>1, <1>4 DEF Alone
<1>7. t \notin ToSet(given.tables) /\ t \notin ToSet(given'.tables)
  <2>1. t \notin ToSet(given'.tables)
    BY <1>4 DEF NotAgain
  <2>2. CASE done' = Append(done, g) /\ g.tables = given.tables
    BY <1>3, <1>4, <2>1, <2>2 DEF Alone
  <2> QED
    BY <1>2, <2>1, <2>2
<1> QED
  BY <1>2, <1>4, <1>5, <1>6, <1>7 DEF NotAgain

(* A well-formed file that is new among the finished ones is the one that  *)
(* was read.                                                               *)
LEMMA NewFile ==
  ASSUME GInv, FileInv, [Next]_vars,
         NEW i \in DOMAIN done', i \notin DOMAIN done, WellFormed(done'[i])
  PROVE  FinishTable /\ i = Len(done) + 1 /\ done'[i] = given
<1>1. /\ done \in Seq(FileRecords) /\ DOMAIN done = 1..Len(done) /\ Len(done) \in Nat
      /\ given \in FileRecords
  BY DEF FileInv
<1>2. ASSUME NEW g \in FileRecords, done' = Append(done, g)
      PROVE  i = Len(done) + 1 /\ done'[i] = g
  <2>1. DOMAIN done' = 1..(Len(done) + 1) /\ done'[Len(done) + 1] = g
    BY <1>1, <1>2, AppendIs
  <2> QED
    BY <1>1, <2>1
<1>3. CASE Abandon
  <2> DEFINE g == [given EXCEPT !.broken = TRUE]
  <2>1. g \in FileRecords /\ ~WellFormed(g)
    BY <1>1 DEF FileRecords, WellFormed
  <2>2. done' = Append(done, g)
    BY <1>3 DEF Abandon, FileDone
  <2> HIDE DEF g
  <2> QED
    BY <1>2, <2>1, <2>2
<1>4. CASE FinishTable
  BY <1>1, <1>2, <1>4 DEF FinishTable, FileDone
<1>5. done' = done \/ Abandon \/ FinishTable
  BY DEF Next, OpenFile, BeginTable, ProcessColumn, ProcessPrimaryKey, vars
<1> QED
  BY <1>3, <1>4, <1>5

(* What a sequence holds that is put together of two. *)
LEMMA PutTogether ==
  ASSUME NEW S, NEW p \in Seq(S), NEW q \in Seq(S)
  PROVE  /\ p \o q \in Seq(S) /\ Len(p \o q) = Len(p) + Len(q)
         /\ \A i \in 1..(Len(p) + Len(q)) :
               (p \o q)[i] = IF i <= Len(p) THEN p[i] ELSE q[i - Len(p)]
OBVIOUS

(* It does not matter what is put together first. *)
LEMMA PutInAnyOrder ==
  ASSUME NEW S, NEW p \in Seq(S), NEW q \in Seq(S), NEW r \in Seq(S)
  PROVE  p \o q \o r = p \o (q \o r)
OBVIOUS

(* A piece of a sequence, element by element. *)
LEMMA PieceIs ==
  ASSUME NEW S, NEW q \in Seq(S), NEW b \in Nat, NEW e \in Nat, b <= e, e <= Len(q)
  PROVE  /\ SubSeq(q, b + 1, e) \in Seq(S) /\ Len(SubSeq(q, b + 1, e)) = e - b
         /\ \A i \in 1..(e - b) : SubSeq(q, b + 1, e)[i] = q[b + i]
OBVIOUS

(* Sequences are the same that hold the same. *)
LEMMA SameSequence ==
  ASSUME NEW S, NEW p \in Seq(S), NEW q \in Seq(S), Len(p) = Len(q),
         \A i \in 1..Len(p) : p[i] = q[i]
  PROVE  p = q
OBVIOUS

(* A piece stays the same when more is put behind. *)
LEMMA PieceStays ==
  ASSUME NEW S, NEW q \in Seq(S), NEW z \in Seq(S),
         NEW b \in Nat, NEW e \in Nat, b <= e, e <= Len(q)
  PROVE  SubSeq(q \o z, b + 1, e) = SubSeq(q, b + 1, e)
<1> DEFINE w == q \o z
<1>1. w \in Seq(S) /\ Len(w) = Len(q) + Len(z) /\ Len(q) \in Nat /\ Len(z) \in Nat
      /\ \A i \in 1..(Len(q) + Len(z)) : w[i] = IF i <= Len(q) THEN q[i] ELSE z[i - Len(q)]
  BY PutTogether
<1> HIDE DEF w
<1>2. \A i \in 1..(e - b) : w[b + i] = q[b + i]
  BY <1>1
<1>3. e <= Len(w)
  BY <1>1
<1>4. \A i \in 1..(e - b) : SubSeq(w, b + 1, e)[i] = SubSeq(q, b + 1, e)[i]
  BY <1>1, <1>2, <1>3, PieceIs
<1>5. e - b \in Nat OBVIOUS
<1>6. SubSeq(w, b + 1, e) = SubSeq(q, b + 1, e)
  <2> DEFINE l == SubSeq(w, b + 1, e)
             p == SubSeq(q, b + 1, e)
  <2>1. l \in Seq(S) /\ Len(l) = e - b
    BY <1>1, <1>3, PieceIs
  <2>2. p \in Seq(S) /\ Len(p) = e - b
    BY PieceIs
  <2>3. \A i \in 1..Len(l) : l[i] = p[i]
    BY <1>4, <2>1
  <2> HIDE DEF l, p
  <2>4. l = p
    BY <2>1, <2>2, <2>3, SameSequence
  <2> QED
    BY <2>4 DEF l, p
<1> QED
  BY <1>6 DEF w

(* The last piece grows by what is put behind. *)
LEMMA PieceGrows ==
  ASSUME NEW S, NEW q \in Seq(S), NEW z \in Seq(S), NEW b \in Nat, b <= Len(q)
  PROVE  SubSeq(q \o z, b + 1, Len(q \o z)) = SubSeq(q, b + 1, Len(q)) \o z
<1> DEFINE w == q \o z
           l == SubSeq(w, b + 1, Len(w))
           p == SubSeq(q, b + 1, Len(q))
           r == p \o z
<1>1. w \in Seq(S) /\ Len(w) = Len(q) + Len(z) /\ Len(q) \in Nat /\ Len(z) \in Nat
      /\ \A i \in 1..(Len(q) + Len(z)) : w[i] = IF i <= Len(q) THEN q[i] ELSE z[i - Len(q)]
  BY PutTogether
<1> HIDE DEF w
<1>2. p \in Seq(S) /\ Len(p) = Len(q) - b /\ \A i \in 1..(Len(q) - b) : p[i] = q[b + i]
  BY <1>1, PieceIs
<1>3. l \in Seq(S) /\ Len(l) = Len(w) - b /\ \A i \in 1..(Len(w) - b) : l[i] = w[b + i]
  BY <1>1, PieceIs
<1> HIDE DEF p, l
<1>4. /\ r \in Seq(S) /\ Len(r) = Len(p) + Len(z)
      /\ \A i \in 1..(Len(p) + Len(z)) : r[i] = IF i <= Len(p) THEN p[i] ELSE z[i - Len(p)]
  <2>1. p \in Seq(S)
    BY <1>2
  <2> QED
    BY ONLY <2>1, z \in Seq(S), PutTogether
<1> HIDE DEF r
<1>5. Len(l) = Len(r) /\ Len(l) = Len(q) - b + Len(z)
  BY <1>1, <1>2, <1>3, <1>4
<1>6. ASSUME NEW i \in 1..Len(l) PROVE l[i] = r[i]
  <2>1. l[i] = w[b + i]
    BY <1>1, <1>3
  <2>2. CASE i <= Len(q) - b
    <3>1. w[b + i] = q[b + i]
      BY <1>1, <1>5, <2>2
    <3>2. i <= Len(p) /\ i \in 1..(Len(p) + Len(z)) /\ i \in 1..(Len(q) - b)
      BY <1>1, <1>2, <1>5, <2>2
    <3>3. r[i] = p[i] /\ p[i] = q[b + i]
      BY <1>2, <1>4, <3>2
    <3> QED
      BY <2>1, <3>1, <3>3
  <2>3. CASE ~(i <= Len(q) - b)
    <3>1. w[b + i] = z[(b + i) - Len(q)]
      BY <1>1, <1>5, <2>3
    <3>2. r[i] = z[i - (Len(q) - b)]
      BY <1>1, <1>2, <1>4, <1>5, <2>3
    <3>3. (b + i) - Len(q) = i - (Len(q) - b)
      BY <1>1
    <3> QED
      BY <2>1, <3>1, <3>2, <3>3
  <2> QED
    BY <2>2, <2>3
<1>7. l = r
  BY <1>3, <1>4, <1>5, <1>6, SameSequence
<1> QED
  BY <1>7 DEF l, r, p, w

(* Appending is putting one thing behind. *)
LEMMA AppendAsConcat ==
  ASSUME NEW S, NEW q \in Seq(S), NEW x \in S
  PROVE  Append(q, x) = q \o <<x>> /\ <<x>> \in Seq(S) /\ Len(<<x>>) = 1
OBVIOUS

(* Behind the end there is nothing. *)
LEMMA EmptyPiece ==
  ASSUME NEW S, NEW q \in Seq(S)
  PROVE SubSeq(q, Len(q) + 1, Len(q)) = <<>>
OBVIOUS

(* What stands behind the columns is the first of the lines that follow.   *)
LEMMA BehindTheColumns ==
  ASSUME NEW S, NEW x \in S, NEW s \in Seq(S), NEW k \in Seq(S), Len(k) = 2
  PROVE  (<<x>> \o s \o k)[Len(s) + 2] = k[1]
<1> DEFINE h == <<x>> \o s
<1>1. <<x>> \in Seq(S) /\ Len(<<x>>) = 1 /\ Len(s) \in Nat
  OBVIOUS
<1>2. h \in Seq(S) /\ Len(h) = Len(s) + 1
  BY <1>1, PutTogether
<1> HIDE DEF h
<1>3. (h \o k)[Len(s) + 2] = k[(Len(s) + 2) - Len(h)]
  <2>1. Len(s) + 2 \in 1..(Len(h) + Len(k)) /\ ~(Len(s) + 2 <= Len(h))
    BY <1>1, <1>2
  <2> QED
    BY <1>2, <2>1, PutTogether
<1>4. (Len(s) + 2) - Len(h) = 1
  BY <1>1, <1>2
<1> QED
  BY <1>3, <1>4 DEF h

(* A .sql file has one line per column. *)
LEMMA ColumnLinesAre ==
  ASSUME NEW cols \in Seq(Columns)
  PROVE  ColumnLines(cols) \in Seq(Lines) /\ Len(ColumnLines(cols)) = Len(cols)
<1>1. Len(cols) \in Nat /\ DOMAIN cols = 1..Len(cols)
      /\ \A i \in 1..Len(cols) : cols[i] \in Columns
  OBVIOUS
<1> DEFINE n == Len(cols)
           s == ColumnLines(cols)
<1>2. s = [i \in 1..n |-> ColumnLine(cols[i])]
  BY <1>1 DEF ColumnLines
<1>3. \A i \in 1..n : ColumnLine(cols[i]) \in Lines
  BY <1>1, ColumnLineIs
<1> HIDE DEF s
<1> QED
  BY <1>1, <1>2, <1>3 DEF s

(* The table of a well-formed file is the one it gives. *)
LEMMA GivenTable ==
  ASSUME GInv, FileInv, reading, WellFormed(given)
  PROVE  table = given.tables[1] /\ table \in Tables /\ AsGiven
<1>1. Len(given.tables) = 1 /\ given.tables \in Seq(Tables)
  BY DEF WellFormed, FileInv, FileRecords
<1>2. given.tables # <<>>
  BY <1>1, NoneIs
<1>3. table \in ToSet(given.tables)
  BY <1>2 DEF FileInv
<1>4. DOMAIN given.tables = 1..1 /\ given.tables[1] \in Tables
  BY <1>1
<1>5. table = given.tables[1]
  BY <1>3, <1>4 DEF ToSet
<1> QED
  BY <1>1, <1>4, <1>5 DEF FileInv

(* A file that ends well leaves its table as declared. *)
LEMMA FinishDeclares ==
  ASSUME GInv, FileInv, FinishTable, WellFormed(given)
  PROVE  LET g == given IN
         /\ sql'[g.tables[1]][Len(g.columns) + 2][3] = key.auto
         /\ code'[g.tables[1]].struct = g.columns
         /\ sql'[g.tables[1]] = <<<<"create", g.tables[1]>>>> \o ColumnLines(g.columns)
                                \o <<<<"key", g.keys[1], key.auto>>, <<"end">>>>
         /\ ToSet(code'[g.tables[1]].names) = {c.name : c \in ToSet(g.columns)}
                                   \ (IF key.auto THEN ToSet(g.keys) ELSE {})
         /\ ToSet(code'[g.tables[1]].setters) = {c \in ToSet(g.columns) : c.type \in Known}
         /\ ToSet(code'[g.tables[1]].frees)
              = {c.name : c \in {d \in ToSet(g.columns) : d.type = "STRING"}}
<1>1. /\ reading /\ code' = [code EXCEPT ![table] = acc]
      /\ sql' = [sql EXCEPT ![table] = @ \o KeyAndEnd]
  BY DEF FinishTable
<1>2. /\ given \in FileRecords /\ Len(given.tables) = 1 /\ Len(given.keys) = 1
      /\ Distinct(given.columns)
  BY DEF WellFormed, Distinct, FileInv
<1>3. table = given.tables[1] /\ table \in Tables
  BY <1>1, GivenTable
<1>4. AsGiven
  BY <1>1, GivenTable
<1>5. code'[table] = acc /\ sql'[table] = sql[table] \o KeyAndEnd
  BY <1>1, <1>3 DEF GInv, FileInv
<1>6. key.name = given.keys[1] /\ ToSet(given.keys) = {key.name}
  <2>1. key.name = given.keys[1]
    BY <1>2, <1>4 DEF AsGiven
  <2>2. DOMAIN given.keys = 1..1
    BY <1>2 DEF FileRecords
  <2> QED
    BY <2>1, <2>2 DEF ToSet
<1>7. KeyAndEnd = <<<<"key", given.keys[1], key.auto>>, <<"end">>>>
  BY <1>6 DEF KeyAndEnd
<1>8. sql'[table][Len(given.columns) + 2][3] = key.auto
  <2> DEFINE x == <<"create", table>>
             s == ColumnLines(given.columns)
             n == Len(given.columns)
  <2>1. given.columns \in Seq(Columns) /\ x \in Lines
    BY <1>2, <1>3 DEF FileRecords, Lines
  <2>2. s \in Seq(Lines) /\ Len(s) = n
    BY <2>1, ColumnLinesAre
  <2>3. sql'[table] = <<x>> \o s \o KeyAndEnd
    BY <1>4, <1>5 DEF AsGiven
  <2>4. KeyAndEnd \in Seq(Lines) /\ Len(KeyAndEnd) = 2 /\ KeyAndEnd[1][3] = key.auto
    BY EndIs
  <2> HIDE DEF x, s, n
  <2>5. (<<x>> \o s \o KeyAndEnd)[Len(s) + 2] = KeyAndEnd[1]
    BY <2>1, <2>2, <2>4, BehindTheColumns
  <2> QED
    BY <2>2, <2>3, <2>4, <2>5 DEF n
<1>9. ToSet(acc.names) = {c.name : c \in ToSet(given.columns)}
                         \ (IF key.auto THEN ToSet(given.keys) ELSE {})
  BY <1>2, <1>4, <1>6 DEF AsGiven, NamesOf
<1>10. sql'[table] = <<<<"create", table>>>> \o ColumnLines(given.columns)
                     \o <<<<"key", given.keys[1], key.auto>>, <<"end">>>>
  BY <1>4, <1>5, <1>7 DEF AsGiven
<1> QED
  BY <1>3, <1>4, <1>5, <1>8, <1>9, <1>10 DEF AsGiven

(* Every step leaves the finished tables as declared. *)
LEMMA DeclaredNext ==
  ASSUME GInv, FileInv, TableAsDeclared, [Next]_vars
  PROVE  TableAsDeclared'
<1>1. ASSUME NEW i \in DOMAIN done', WellFormed(done'[i]), Alone(i)', NotAgain(done[i])'
      PROVE  DeclaredAs(done[i])'
  <2>1. CASE i \in DOMAIN done
    <3>1. done'[i] = done[i]
      BY <2>1, FinishedStay
    <3>2. WellFormed(done[i])
      BY <1>1, <3>1
    <3>3. LET t == done[i].tables[1] IN
          Alone(i) /\ NotAgain(done[i]) /\ sql'[t] = sql[t] /\ code'[t] = code[t]
      BY <1>1, <2>1, <3>2, StillThere
    <3>4. DeclaredAs(done[i])
      BY <2>1, <3>2, <3>3, DeclaredIs
    <3> QED
      BY <3>1, <3>3, <3>4 DEF DeclaredAs
  <2>2. CASE i \notin DOMAIN done
    <3>1. FinishTable /\ done'[i] = given
      BY <1>1, <2>2, NewFile
    <3>2. WellFormed(given)
      BY <1>1, <3>1
    <3> QED
      BY <3>1, <3>2, FinishDeclares DEF DeclaredAs, ColumnLines, ColumnLine
  <2> QED
    BY <2>1, <2>2
<1> QED
  BY <1>1 DEF TableAsDeclared, DeclaredAs

(* However many files there are, broken ones too, the code and the .sql    *)
(* file of each well-formed one are as it declares its table.              *)
THEOREM TablesAreAsDeclared == Spec => []TableAsDeclared
<1>1. Init => TableAsDeclared
  BY NoneIs DEF Init, TableAsDeclared
<1>2. GInv /\ FileInv /\ TableAsDeclared /\ [Next]_vars => TableAsDeclared'
  BY DeclaredNext
<1> QED
  BY <1>1, <1>2, GeneratorInvariant, PTL DEF Spec

-----------------------------------------------------------------------------
(* The stub program and the runtime header.                                *)

StubLines == Lines \cup {<<"close">>}
Lengths == [stub : Nat, runtime : Nat]
Sections == [table : Tables \cup {NoName}, filled : BOOLEAN, struct : Seq(Columns)]

(* How long both were when the file that is read, or comes next, began.    *)
Start == Begin(Len(done) + 1)

StubTyped == /\ stub \in Seq(StubLines) /\ runtime \in Seq(Sections)
             /\ section \in Sections
             /\ ends \in Seq(Lengths) /\ Len(ends) = Len(done)

(* The files lie one after the other in the stub; what a file with one     *)
(* table has added to it so far is the text of the .sql file of the table. *)
StubInv ==
  /\ StubTyped
  /\ \A i \in DOMAIN done : /\ Begin(i).stub <= ends[i].stub
                            /\ ends[i].stub <= Start.stub
                            /\ ends[i].runtime <= Start.runtime
  /\ Start.stub <= Len(stub) /\ Start.runtime = Len(runtime)
  /\ ~reading => Start.stub = Len(stub)
  /\ reading =>
       /\ table = NoName => Start.stub = Len(stub)
       /\ table # NoName => section = [NoSection EXCEPT !.table = table]
       /\ Len(given.tables) = 1 =>
            SubSeq(stub, Start.stub + 1, Len(stub)) = sql[table]

(* What the file with number i has added to stub and runtime header. *)
Added(i) ==
  LET t == done[i].tables[1] IN
  /\ SubSeq(stub, Begin(i).stub + 1, ends[i].stub) = Append(sql[t], <<"close">>)
  /\ ends[i].runtime = Begin(i).runtime + 1
  /\ runtime[ends[i].runtime]
       = [table |-> t, filled |-> TRUE, struct |-> done[i].columns]

(* The beginnings are lengths, whatever is appended to the list of ends.   *)
LEMMA BeginIs ==
  ASSUME FileInv, StubTyped
  PROVE  /\ Len(done) \in Nat /\ DOMAIN done = 1..Len(done) /\ DOMAIN ends = 1..Len(done)
         /\ \A i \in 1..(Len(done) + 1) : Begin(i) \in Lengths
         /\ \A i \in DOMAIN done : ends[i] \in Lengths
         /\ Start \in Lengths
<1>1. /\ Len(done) \in Nat /\ DOMAIN done = 1..Len(done) /\ DOMAIN ends = 1..Len(done)
      /\ \A i \in 1..Len(done) : ends[i] \in Lengths
  BY DEF FileInv, StubTyped
<1>2. \A i \in 1..(Len(done) + 1) : i # 1 => i - 1 \in 1..Len(done)
  BY <1>1
<1>3. [stub |-> 0, runtime |-> 0] \in Lengths
  BY DEF Lengths
<1>4. \A i \in 1..(Len(done) + 1) : Begin(i) \in Lengths
  BY <1>1, <1>2, <1>3 DEF Begin
<1>5. Len(done) + 1 \in 1..(Len(done) + 1)
  BY <1>1
<1> QED
  BY <1>1, <1>4, <1>5 DEF Start

(* At the beginning there is no file. *)
LEMMA StubInit == Init => StubInv
<1> SUFFICES ASSUME Init PROVE StubInv
  OBVIOUS
<1>1. NoSection \in Sections
  BY DEF NoSection, Sections
<1>2. /\ stub = <<>> /\ runtime = <<>> /\ section = NoSection /\ ends = <<>> /\ done = <<>>
      /\ ~reading
  BY DEF Init
<1>3. StubTyped
  BY <1>1, <1>2 DEF StubTyped
<1>4. Start = [stub |-> 0, runtime |-> 0]
  BY <1>2, NoneIs DEF Start, Begin
<1>5. DOMAIN done = {}
  BY <1>2, NoneIs
<1> QED
  BY <1>2, <1>3, <1>4, <1>5, NoneIs DEF StubInv

(* A step between two ends: the beginnings stay.  *)
LEMMA WhileRead ==
  ASSUME FileInv, StubInv, UNCHANGED <<done, ends, runtime>>,
         section' \in Sections,
         NEW z \in Seq(StubLines), stub' = stub \o z \/ stub' = stub
  PROVE  /\ StubTyped' /\ Start' = Start /\ Len(stub) <= Len(stub')
         /\ \A i \in 1..(Len(done) + 1) : Begin(i)' = Begin(i)
         /\ \A i \in DOMAIN done' : /\ Begin(i)'.stub <= ends'[i].stub
                                   /\ ends'[i].stub <= Start'.stub
                                   /\ ends'[i].runtime <= Start'.runtime
         /\ Start'.stub <= Len(stub') /\ Start'.runtime = Len(runtime')
<1>1. stub \in Seq(StubLines) /\ StubTyped
  BY DEF StubInv, StubTyped
<1>2. stub' \in Seq(StubLines) /\ Len(stub) <= Len(stub') /\ Len(stub) \in Nat /\ Len(stub') \in Nat
  <2>1. CASE stub' = stub \o z
    <3>1. Len(stub) \in Nat /\ Len(z) \in Nat
      BY <1>1
    <3>2. stub \o z \in Seq(StubLines) /\ Len(stub \o z) = Len(stub) + Len(z)
      BY <1>1, PutTogether
    <3> QED
      BY <2>1, <3>1, <3>2
  <2>2. CASE stub' = stub
    BY <1>1, <2>2
  <2> QED
    BY <2>1, <2>2
<1>3. StubTyped'
  BY <1>1, <1>2 DEF StubTyped
<1>4. Start' = Start /\ \A i \in 1..(Len(done) + 1) : Begin(i)' = Begin(i)
  BY DEF Start, Begin
<1>5. DOMAIN done \subseteq 1..(Len(done) + 1)
  BY <1>1, BeginIs
<1>6. Start.stub \in Nat
  BY <1>1, BeginIs DEF Lengths
<1>7. Start'.stub <= Len(stub')
  BY <1>2, <1>4, <1>6 DEF StubInv
<1> QED
  BY <1>2, <1>3, <1>4, <1>5, <1>7 DEF StubInv

(* A new file adds nothing yet. *)
LEMMA StubOpen ==
  ASSUME GInv, FileInv, StubInv, OpenFile
  PROVE  StubInv'
<1>1. /\ UNCHANGED <<done, ends, runtime, section, stub>>
      /\ ~reading /\ table' = NoName /\ given' = NothingGiven
  BY DEF OpenFile
<1>2. <<>> \in Seq(StubLines) /\ section' \in Sections /\ Len(NothingGiven.tables) = 0
  BY <1>1, NoneIs DEF StubInv, StubTyped, NothingGiven
<1>3. Start.stub = Len(stub)
  BY <1>1 DEF StubInv
<1>4. /\ StubTyped' /\ Start' = Start
      /\ \A i \in DOMAIN done' : /\ Begin(i)'.stub <= ends'[i].stub
                                /\ ends'[i].stub <= Start'.stub
                                /\ ends'[i].runtime <= Start'.runtime
      /\ Start'.stub <= Len(stub') /\ Start'.runtime = Len(runtime')
  BY <1>1, <1>2, WhileRead
<1>5. Len(given'.tables) # 1
  BY <1>1, <1>2
<1> QED
  BY <1>1, <1>3, <1>4, <1>5 DEF StubInv

(* @Table: the first line of the .sql file, in the stub too. *)
LEMMA StubBegin ==
  ASSUME GInv, FileInv, StubInv, NEW t \in Tables, BeginTable(t)
  PROVE  StubInv'
<1> DEFINE x == <<"create", t>>
<1>1. /\ UNCHANGED <<done, ends, runtime, reading>> /\ reading /\ table' = t
      /\ section' = [NoSection EXCEPT !.table = t]
      /\ sql' = [sql EXCEPT ![t] = <<x>>] /\ stub' = Append(stub, x)
      /\ given' = [given EXCEPT !.tables = Append(@, t)]
  BY DEF BeginTable, Declares
<1>2. given \in FileRecords /\ given.tables \in Seq(Tables)
  BY DEF FileInv, FileRecords
<1>3. given'.tables = Append(given.tables, t)
      /\ (Len(given'.tables) = 1 => given.tables = <<>>)
  BY <1>1, <1>2, AppendIs DEF FileRecords
<1>4. x \in StubLines /\ x \in Lines
  BY DEF StubLines, Lines
<1> HIDE DEF x
<1>5. stub \in Seq(StubLines)
  BY DEF StubInv, StubTyped
<1>6. stub' = stub \o <<x>> /\ <<x>> \in Seq(StubLines)
  BY <1>1, <1>4, <1>5, AppendAsConcat
<1>7. section' \in Sections /\ t # NoName
  <2>1. NoSection \in Sections
    BY DEF NoSection, Sections
  <2>2. [NoSection EXCEPT !.table = t] \in Sections
    BY <2>1 DEF Sections
  <2> QED
    BY <1>1, <2>2, NamesAssumption
<1>8. sql'[t] = <<x>>
  BY <1>1 DEF FileInv
<1>9. ASSUME Len(given'.tables) = 1
      PROVE  SubSeq(stub', Start.stub + 1, Len(stub')) = <<x>>
  <2>1. Start.stub = Len(stub)
    BY <1>1, <1>3, <1>9 DEF FileInv, StubInv
  <2>2. Start.stub \in Nat /\ Start.stub <= Len(stub)
    BY <2>1, BeginIs DEF StubInv, Lengths
  <2>3. SubSeq(stub', Start.stub + 1, Len(stub'))
          = SubSeq(stub, Start.stub + 1, Len(stub)) \o <<x>>
    BY <1>5, <1>6, <2>2, PieceGrows
  <2>4. SubSeq(stub, Start.stub + 1, Len(stub)) = <<>>
    BY <1>5, <2>1, EmptyPiece
  <2>5. <<>> \o <<x>> = <<x>>
    OBVIOUS
  <2> QED
    BY <2>3, <2>4, <2>5
<1> QED
  BY <1>1, <1>6, <1>7, <1>8, <1>9, WhileRead DEF StubInv

(* A column: one line more in both. *)
LEMMA StubColumn ==
  ASSUME GInv, FileInv, StubInv, NEW c \in Columns,
         ProcessColumn(c) \/ \E auto \in BOOLEAN : ProcessPrimaryKey(c, auto)
  PROVE  StubInv'
<1> DEFINE x == ColumnLine(c)
<1>1. /\ UNCHANGED <<done, ends, runtime, reading, section, table>> /\ reading /\ ~ignore
      /\ AppendToSql(x) /\ given'.tables = given.tables
  <2>1. given \in FileRecords
    BY DEF FileInv
  <2> QED
    BY <2>1 DEF ProcessColumn, ProcessPrimaryKey, Declares, FileRecords, ColumnLine
<1>2. x \in StubLines /\ x \in Lines
  BY ColumnLineIs DEF StubLines
<1> HIDE DEF x
<1>3. stub \in Seq(StubLines) /\ section' \in Sections
  BY <1>1 DEF StubInv, StubTyped
<1>4. stub' = stub \o <<x>> /\ <<x>> \in Seq(StubLines)
  BY <1>1, <1>2, <1>3, AppendAsConcat DEF AppendToSql
<1>5. table # NoName /\ table \in Tables \cup {NoName} /\ sql[table] \in Seq(Lines)
  BY <1>1 DEF FileInv, GInv
<1>6. sql'[table] = Append(sql[table], x)
  BY <1>1, <1>5 DEF AppendToSql, FileInv
<1>7. ASSUME Len(given.tables) = 1
      PROVE  SubSeq(stub', Start.stub + 1, Len(stub')) = sql'[table]
  <2>1. SubSeq(stub, Start.stub + 1, Len(stub)) = sql[table]
    BY <1>1, <1>7 DEF StubInv
  <2>2. Start.stub \in Nat /\ Start.stub <= Len(stub)
    BY BeginIs DEF StubInv, Lengths
  <2>3. SubSeq(stub', Start.stub + 1, Len(stub'))
          = SubSeq(stub, Start.stub + 1, Len(stub)) \o <<x>>
    BY <1>3, <1>4, <2>2, PieceGrows
  <2>4. sql[table] \o <<x>> = Append(sql[table], x)
    BY <1>2, <1>5, AppendAsConcat
  <2> QED
    BY <1>6, <2>1, <2>3, <2>4
<1> QED
  BY <1>1, <1>3, <1>4, <1>5, <1>7, WhileRead DEF StubInv

(* A file ends: its end is where the next one begins. *)
LEMMA StubEnds ==
  ASSUME FileInv, StubInv, NEW g \in FileRecords, FileDone(g),
         stub' \in Seq(StubLines), Len(stub) <= Len(stub'),
         runtime' \in Seq(Sections), Len(runtime) <= Len(runtime'), section' \in Sections
  PROVE  StubInv'
<1> DEFINE m == [stub |-> Len(stub'), runtime |-> Len(runtime')]
           n == Len(done)
<1>1. /\ done' = Append(done, g) /\ ends' = Append(ends, m) /\ ~reading'
      /\ m.stub = Len(stub') /\ m.runtime = Len(runtime')
  BY DEF FileDone
<1>2. /\ Len(stub') \in Nat /\ Len(runtime') \in Nat /\ Len(stub) \in Nat
      /\ Len(runtime) \in Nat /\ StubTyped /\ m \in Lengths
  BY DEF Lengths, StubInv, StubTyped
<1> HIDE DEF m
<1>3. /\ n \in Nat /\ DOMAIN done = 1..n /\ Start \in Lengths
      /\ \A i \in DOMAIN done : ends[i] \in Lengths
      /\ \A i \in 1..(n + 1) : Begin(i) \in Lengths
  BY <1>2, BeginIs
<1>4. /\ ends \in Seq(Lengths) /\ Len(ends) = n /\ done \in Seq(FileRecords)
  BY <1>2 DEF StubTyped, FileInv
<1>5. /\ ends' \in Seq(Lengths) /\ Len(ends') = n + 1 /\ Len(done') = n + 1
      /\ DOMAIN done' = 1..(n + 1) /\ ends'[n + 1] = m
      /\ \A i \in 1..n : ends'[i] = ends[i]
  BY <1>1, <1>2, <1>4, AppendIs
<1>6. StubTyped'
  BY <1>5 DEF StubTyped
<1>7. Start' = m
  BY <1>3, <1>5 DEF Start, Begin
<1>8. \A i \in 1..(n + 1) : Begin(i)' = Begin(i)
  BY <1>3, <1>5 DEF Begin
<1>9. ASSUME NEW i \in DOMAIN done'
      PROVE  /\ Begin(i)'.stub <= ends'[i].stub /\ ends'[i].stub <= m.stub
             /\ ends'[i].runtime <= m.runtime
  <2>1. CASE i \in 1..n
    <3>1. /\ Begin(i).stub <= ends[i].stub /\ ends[i].stub <= Start.stub
          /\ ends[i].runtime <= Start.runtime
          /\ Start.stub <= Len(stub) /\ Start.runtime = Len(runtime)
      BY <1>3, <2>1 DEF StubInv
    <3>2. /\ ends[i].stub \in Nat /\ ends[i].runtime \in Nat
          /\ Start.stub \in Nat /\ Start.runtime \in Nat
      BY <1>3, <2>1 DEF Lengths
    <3>3. ends'[i] = ends[i] /\ Begin(i)' = Begin(i)
      BY <1>3, <1>5, <1>8, <2>1
    <3> QED
      BY <1>1, <1>2, <3>1, <3>2, <3>3
  <2>2. CASE i = n + 1
    <3>1. Begin(i)' = Start /\ ends'[i] = m
      BY <1>3, <1>5, <1>8, <2>2 DEF Start
    <3>2. Start.stub <= Len(stub) /\ Start.stub \in Nat
      BY <1>3 DEF StubInv, Lengths
    <3> QED
      BY <1>1, <1>2, <3>1, <3>2
  <2> QED
    BY <1>3, <1>5, <2>1, <2>2
<1>10. Start'.stub <= Len(stub') /\ Start'.stub = Len(stub') /\ Start'.runtime = Len(runtime')
  BY <1>1, <1>2, <1>7
<1>11. \A i \in DOMAIN done' : /\ Begin(i)'.stub <= ends'[i].stub
                               /\ ends'[i].stub <= Start'.stub
                               /\ ends'[i].runtime <= Start'.runtime
  BY <1>7, <1>9
<1> QED
  BY <1>1, <1>6, <1>10, <1>11 DEF StubInv

(* The end of a table is put behind the stub, and a section of it behind   *)
(* the runtime header.                                                     *)
LEMMA FinishIs ==
  ASSUME GInv, FileInv, StubInv, FinishTable
  PROVE  /\ stub' = stub \o KeyAndEnd \o <<<<"close">>>>
         /\ stub \o KeyAndEnd \in Seq(StubLines) /\ KeyAndEnd \in Seq(StubLines)
         /\ <<<<"close">>>> \in Seq(StubLines) /\ <<"close">> \in StubLines
         /\ stub' \in Seq(StubLines) /\ Len(stub) <= Len(stub')
         /\ runtime' = Append(runtime, section') /\ section' \in Sections
         /\ runtime' \in Seq(Sections) /\ Len(runtime') = Len(runtime) + 1
         /\ runtime'[Len(runtime')] = section' /\ Len(runtime) \in Nat
<1> DEFINE x == <<"close">>
           p == stub \o KeyAndEnd
<1>1. /\ stub' = stub \o KeyAndEnd \o <<x>> /\ runtime' = Append(runtime, section')
      /\ section' = IF section.filled THEN section
                    ELSE [section EXCEPT !.filled = TRUE, !.struct = acc.struct]
  BY DEF FinishTable
<1>2. x \in StubLines
  BY DEF StubLines
<1> HIDE DEF x
<1>3. stub \in Seq(StubLines) /\ runtime \in Seq(Sections) /\ section \in Sections
  BY DEF StubInv, StubTyped
<1>4. KeyAndEnd \in Seq(StubLines) /\ Len(KeyAndEnd) = 2
  <2>1. KeyAndEnd \in Seq(Lines) /\ Len(KeyAndEnd) = 2
    BY EndIs
  <2>2. Lines \subseteq StubLines
    BY DEF StubLines
  <2> HIDE DEF x
  <2> QED
    BY <2>1, <2>2
<1>5. p \in Seq(StubLines) /\ Len(p) = Len(stub) + 2 /\ Len(stub) \in Nat
  <2>1. Len(stub) \in Nat
    BY <1>3
  <2>2. p \in Seq(StubLines) /\ Len(p) = Len(stub) + Len(KeyAndEnd)
    BY <1>3, <1>4, PutTogether
  <2> QED
    BY <1>4, <2>1, <2>2
<1>6. <<x>> \in Seq(StubLines) /\ Len(<<x>>) = 1
  BY <1>2
<1> HIDE DEF p
<1>7. p \o <<x>> \in Seq(StubLines) /\ Len(p \o <<x>>) = Len(p) + 1
  BY <1>5, <1>6, PutTogether
<1>8. Len(stub) <= Len(p \o <<x>>)
  BY <1>5, <1>7
<1>9. section' \in Sections
  BY <1>1, <1>3 DEF GInv, GoodText, TextTyped, Sections
<1>10. /\ runtime' \in Seq(Sections) /\ Len(runtime') = Len(runtime) + 1
       /\ runtime'[Len(runtime) + 1] = section' /\ Len(runtime) \in Nat
  BY <1>1, <1>3, <1>9, AppendIs
<1> QED
  BY <1>1, <1>2, <1>4, <1>5, <1>6, <1>7, <1>8, <1>9, <1>10 DEF x, p

(* Every step keeps what is known of stub and runtime header. *)
LEMMA StubNext ==
  ASSUME GInv, FileInv, StubInv, [Next]_vars
  PROVE  StubInv'
<1>1. CASE Abandon
  <2> DEFINE g == [given EXCEPT !.broken = TRUE]
  <2>1. g \in FileRecords
    BY DEF FileInv, FileRecords
  <2>2. FileDone(g) /\ UNCHANGED <<stub, runtime, section>>
    BY <1>1 DEF Abandon
  <2>3. /\ stub \in Seq(StubLines) /\ runtime \in Seq(Sections) /\ section \in Sections
        /\ Len(stub) <= Len(stub) /\ Len(runtime) <= Len(runtime)
    BY DEF StubInv, StubTyped
  <2> HIDE DEF g
  <2> QED
    BY <2>1, <2>2, <2>3, StubEnds
<1>2. CASE FinishTable
  <2>1. given \in FileRecords /\ FileDone(given)
    BY <1>2 DEF FinishTable, FileInv
  <2>2. Len(runtime) <= Len(runtime')
    BY <1>2, FinishIs
  <2> QED
    BY <1>2, <2>1, <2>2, FinishIs, StubEnds
<1>3. CASE UNCHANGED vars
  BY <1>3 DEF vars, StubInv, StubTyped, Start, Begin
<1> QED
  BY <1>1, <1>2, <1>3, StubOpen, StubBegin, StubColumn DEF Next

(* A well-formed file adds the text of its .sql file in a block of its own, *)
(* and the section for its table.                                          *)
LEMMA FinishAdds ==
  ASSUME GInv, FileInv, StubInv, FinishTable, WellFormed(given)
  PROVE  LET t == given.tables[1] IN
         /\ SubSeq(stub', Start.stub + 1, Len(stub')) = Append(sql'[t], <<"close">>)
         /\ Len(runtime') = Start.runtime + 1
         /\ runtime'[Len(runtime')]
              = [table |-> t, filled |-> TRUE, struct |-> given.columns]
<1> DEFINE x == <<"close">>
           k == KeyAndEnd
           p == stub \o k
           b == Start.stub
<1>1. table = given.tables[1] /\ table \in Tables /\ AsGiven
  BY GivenTable DEF FinishTable
<1>2. /\ reading /\ sql' = [sql EXCEPT ![table] = @ \o k]
      /\ section' = IF section.filled THEN section
                    ELSE [section EXCEPT !.filled = TRUE, !.struct = acc.struct]
  BY DEF FinishTable
<1>3. /\ stub' = p \o <<x>> /\ p \in Seq(StubLines) /\ k \in Seq(StubLines)
      /\ <<x>> \in Seq(StubLines) /\ x \in StubLines /\ stub \in Seq(StubLines)
  BY FinishIs DEF StubInv, StubTyped
<1>4. sql[table] \in Seq(Lines) /\ sql'[table] = sql[table] \o k /\ k \in Seq(Lines)
  BY <1>1, <1>2, EndIs DEF FileInv
<1> HIDE DEF x, k
<1>5. b \in Nat /\ b <= Len(stub) /\ SubSeq(stub, b + 1, Len(stub)) = sql[table]
  <2>1. b \in Nat
    BY BeginIs DEF StubInv, Lengths
  <2>2. Len(given.tables) = 1
    BY DEF WellFormed
  <2> QED
    BY <1>2, <2>1, <2>2 DEF StubInv
<1>6. SubSeq(p, b + 1, Len(p)) = sql'[table]
  BY <1>3, <1>4, <1>5, PieceGrows
<1>7. b <= Len(p)
  <2>1. Len(stub) \in Nat /\ Len(k) \in Nat
    BY <1>3
  <2>2. Len(p) = Len(stub) + Len(k)
    BY <1>3, PutTogether
  <2> HIDE DEF p, b
  <2> QED
    BY <1>5, <2>1, <2>2
<1> HIDE DEF p, b
<1>8. SubSeq(stub', b + 1, Len(stub')) = SubSeq(p, b + 1, Len(p)) \o <<x>>
  BY <1>3, <1>5, <1>7, PieceGrows
<1>9. sql'[table] \o <<x>> = Append(sql'[table], x)
  <2>1. sql'[table] \in Seq(Lines)
    BY <1>4, PutTogether
  <2>2. sql'[table] \in Seq(StubLines)
    BY <2>1 DEF StubLines
  <2> QED
    BY <1>3, <2>2, AppendAsConcat
<1>10. SubSeq(stub', b + 1, Len(stub')) = Append(sql'[table], x)
  BY <1>6, <1>8, <1>9
<1>11. Len(runtime') = Start.runtime + 1 /\ runtime'[Len(runtime')] = section'
  BY FinishIs DEF StubInv
<1>12. section' = [table |-> table, filled |-> TRUE, struct |-> given.columns]
  <2>1. section = [NoSection EXCEPT !.table = table] /\ acc.struct = given.columns
    BY <1>1, <1>2, NamesAssumption DEF StubInv, AsGiven
  <2> QED
    BY <1>2, <2>1 DEF NoSection
<1> QED
  BY <1>1, <1>10, <1>11, <1>12 DEF x, b

(* Stub, runtime header and ends only grow. *)
LEMMA StubGrows ==
  ASSUME GInv, FileInv, StubInv, [Next]_vars
  PROVE  /\ \E z \in Seq(StubLines) : stub' = stub \o z
         /\ runtime' = runtime \/ \E s \in Sections : runtime' = Append(runtime, s)
         /\ ends' = ends \/ \E m \in Lengths : ends' = Append(ends, m)
<1>1. /\ stub \in Seq(StubLines) /\ runtime \in Seq(Sections) /\ stub \o <<>> = stub
      /\ <<>> \in Seq(StubLines)
  BY DEF StubInv, StubTyped
<1>2. ASSUME UNCHANGED <<stub, runtime, ends>>
      PROVE  \E z \in Seq(StubLines) : stub' = stub \o z
  BY <1>1, <1>2
<1>3. ASSUME NEW g, FileDone(g), stub' \in Seq(StubLines), runtime' \in Seq(Sections)
      PROVE  \E m \in Lengths : ends' = Append(ends, m)
  <2>1. [stub |-> Len(stub'), runtime |-> Len(runtime')] \in Lengths
    BY <1>3 DEF Lengths
  <2> QED
    BY <1>3, <2>1 DEF FileDone
<1>4. ASSUME NEW t \in Tables, BeginTable(t)
      PROVE  /\ \E z \in Seq(StubLines) : stub' = stub \o z
             /\ UNCHANGED <<runtime, ends>>
  <2> DEFINE x == <<"create", t>>
  <2>1. x \in StubLines
    BY DEF StubLines, Lines
  <2>2. stub' = Append(stub, x) /\ UNCHANGED <<runtime, ends>>
    BY <1>4 DEF BeginTable
  <2> HIDE DEF x
  <2>3. Append(stub, x) = stub \o <<x>> /\ <<x>> \in Seq(StubLines)
    BY <1>1, <2>1, AppendAsConcat
  <2> QED
    BY <2>2, <2>3
<1>5. ASSUME NEW c \in Columns,
             ProcessColumn(c) \/ \E auto \in BOOLEAN : ProcessPrimaryKey(c, auto)
      PROVE  /\ \E z \in Seq(StubLines) : stub' = stub \o z
             /\ UNCHANGED <<runtime, ends>>
  <2>1. ColumnLine(c) \in StubLines
    BY ColumnLineIs DEF StubLines
  <2>2. Append(stub, ColumnLine(c)) = stub \o <<ColumnLine(c)>>
        /\ <<ColumnLine(c)>> \in Seq(StubLines)
    BY <1>1, <2>1, AppendAsConcat
  <2>3. stub' = Append(stub, ColumnLine(c)) /\ UNCHANGED <<runtime, ends>>
    BY <1>5 DEF ProcessColumn, ProcessPrimaryKey, AppendToSql, ColumnLine
  <2> QED
    BY <2>2, <2>3
<1>6. CASE Abandon
  <2>1. UNCHANGED <<stub, runtime>> /\ FileDone([given EXCEPT !.broken = TRUE])
    BY <1>6 DEF Abandon
  <2>2. \E z \in Seq(StubLines) : stub' = stub \o z
    BY <1>1, <2>1
  <2>3. \E m \in Lengths : ends' = Append(ends, m)
    BY <1>1, <1>3, <2>1
  <2> QED
    BY <2>1, <2>2, <2>3
<1>7. CASE FinishTable
  <2>1. FileDone(given)
    BY <1>7 DEF FinishTable
  <2>2. /\ stub' = stub \o KeyAndEnd \o <<<<"close">>>>
        /\ KeyAndEnd \in Seq(StubLines) /\ <<<<"close">>>> \in Seq(StubLines)
        /\ stub' \in Seq(StubLines) /\ runtime' \in Seq(Sections)
        /\ runtime' = Append(runtime, section') /\ section' \in Sections
    BY <1>7, FinishIs
  <2> DEFINE e == <<<<"close">>>>
             k == KeyAndEnd
  <2> HIDE DEF e, k
  <2>3. stub \o k \o e = stub \o (k \o e) /\ k \o e \in Seq(StubLines)
    <3>1. k \in Seq(StubLines) /\ e \in Seq(StubLines)
      BY <2>2 DEF e, k
    <3> QED
      BY <1>1, <3>1, PutInAnyOrder, PutTogether
  <2>4. stub' = stub \o (k \o e)
    BY <2>2, <2>3 DEF e, k
  <2>5. \E m \in Lengths : ends' = Append(ends, m)
    BY <1>3, <2>1, <2>2
  <2> QED
    BY <2>2, <2>3, <2>4, <2>5
<1>8. CASE OpenFile \/ UNCHANGED vars
  BY <1>2, <1>8 DEF OpenFile, vars
<1> QED
  BY <1>4, <1>5, <1>6, <1>7, <1>8 DEF Next

(* What a file has added stays, and its .sql file too. *)
LEMMA AddedKept ==
  ASSUME GInv, FileInv, StubInv, [Next]_vars, NEW i \in DOMAIN done, Added(i),
         sql'[done[i].tables[1]] = sql[done[i].tables[1]]
  PROVE  Added(i)'
<1> DEFINE b == Begin(i).stub
           e == ends[i].stub
           r == ends[i].runtime
<1>1. StubTyped /\ stub \in Seq(StubLines) /\ runtime \in Seq(Sections)
      /\ ends \in Seq(Lengths)
  BY DEF StubInv, StubTyped
<1>2. /\ Len(done) \in Nat /\ DOMAIN done = 1..Len(done) /\ DOMAIN ends = 1..Len(done)
      /\ Begin(i) \in Lengths /\ ends[i] \in Lengths /\ Start \in Lengths
  <2>1. i \in 1..(Len(done) + 1)
    BY <1>1, BeginIs
  <2> QED
    BY <1>1, <2>1, BeginIs
<1>3. b \in Nat /\ e \in Nat /\ b <= e /\ e <= Len(stub)
  <2>1. /\ b \in Nat /\ e \in Nat /\ Start.stub \in Nat /\ Len(stub) \in Nat
    BY <1>1, <1>2 DEF Lengths
  <2>2. b <= e /\ e <= Start.stub /\ Start.stub <= Len(stub)
    BY DEF StubInv
  <2> HIDE DEF b, e
  <2> QED
    BY <2>1, <2>2
<1>4. r \in 1..Len(runtime) /\ Len(runtime) \in Nat
  <2>1. /\ r \in Nat /\ Begin(i).runtime \in Nat /\ Len(runtime) \in Nat
    BY <1>1, <1>2 DEF Lengths
  <2>2. r = Begin(i).runtime + 1 /\ r <= Len(runtime)
    BY DEF StubInv, Added
  <2> HIDE DEF r
  <2> QED
    BY <2>1, <2>2
<1>5. ends'[i] = ends[i] /\ Begin(i)' = Begin(i)
  <2>1. \A j \in 1..Len(done) : ends'[j] = ends[j]
    <3>1. Len(ends) = Len(done)
      BY <1>1 DEF StubTyped
    <3> QED
      BY <1>1, <3>1, StubGrows, AppendIs
  <2>2. i \in 1..Len(done) /\ (i # 1 => i - 1 \in 1..Len(done))
    BY <1>2
  <2> QED
    BY <2>1, <2>2 DEF Begin
<1>6. SubSeq(stub', b + 1, e) = SubSeq(stub, b + 1, e)
  <2> HIDE DEF b, e
  <2> QED
    BY <1>1, <1>3, StubGrows, PieceStays
<1>7. runtime'[r] = runtime[r]
  <2> HIDE DEF r
  <2>1. \A s \in Sections : Append(runtime, s)[r] = runtime[r]
    BY <1>1, <1>4, AppendIs
  <2> QED
    BY <2>1, StubGrows
<1>8. done'[i] = done[i]
  BY FinishedStay
<1> QED
  BY <1>5, <1>6, <1>7, <1>8 DEF Added

(* Every step leaves in the stub what the finished files added. *)
LEMMA StubCompleteNext ==
  ASSUME GInv, FileInv, StubInv, StubComplete, [Next]_vars
  PROVE  \A i \in DOMAIN done' :
           (WellFormed(done[i]) /\ Alone(i) /\ NotAgain(done[i]))' => Added(i)'
<1>1. ASSUME NEW i \in DOMAIN done', WellFormed(done'[i]), Alone(i)', NotAgain(done[i])'
      PROVE  Added(i)'
  <2>1. CASE i \in DOMAIN done
    <3>1. WellFormed(done[i])
      BY <1>1, <2>1, FinishedStay
    <3>2. LET t == done[i].tables[1] IN
          Alone(i) /\ NotAgain(done[i]) /\ sql'[t] = sql[t]
      BY <1>1, <2>1, <3>1, StillThere
    <3>3. Added(i)
      BY <2>1, <3>1, <3>2 DEF StubComplete, Added
    <3> QED
      BY <2>1, <3>2, <3>3, AddedKept
  <2>2. CASE i \notin DOMAIN done
    <3>1. FinishTable /\ i = Len(done) + 1 /\ done'[i] = given
      BY <1>1, <2>2, NewFile
    <3>2. WellFormed(given)
      BY <1>1, <3>1
    <3>3. /\ StubTyped /\ Len(done) \in Nat /\ Len(ends) = Len(done)
          /\ ends \in Seq(Lengths) /\ DOMAIN ends = 1..Len(done)
      BY BeginIs DEF StubInv, StubTyped
    <3> DEFINE m == [stub |-> Len(stub'), runtime |-> Len(runtime')]
    <3>4. ends' = Append(ends, m) /\ m \in Lengths
      <4>1. FileDone(given)
        BY <3>1 DEF FinishTable
      <4>2. stub' \in Seq(StubLines) /\ runtime' \in Seq(Sections)
        BY <3>1, FinishIs
      <4> QED
        BY <4>1, <4>2 DEF FileDone, Lengths
    <3>5. m.stub = Len(stub') /\ m.runtime = Len(runtime')
      OBVIOUS
    <3> HIDE DEF m
    <3>6. ends'[i] = m /\ \A j \in 1..Len(done) : ends'[j] = ends[j]
      BY <3>1, <3>3, <3>4, AppendIs
    <3>7. Begin(i)' = Start
      <4>1. i # 1 => i - 1 \in 1..Len(done)
        BY <3>1, <3>3
      <4> QED
        BY <3>1, <3>6, <4>1 DEF Begin, Start
    <3> QED
      BY <3>1, <3>2, <3>5, <3>6, <3>7, FinishAdds DEF Added
  <2> QED
    BY <2>1, <2>2
<1> QED
  BY <1>1

(* However many files there are, broken ones too, the stub program is made *)
(* of what each of them adds, and each well-formed one adds its CREATE     *)
(* TABLE in a block of its own and the section of the runtime header.      *)
THEOREM StubIsComplete == Spec => []StubComplete
<1>1. Init => StubInv /\ StubComplete
  <2>1. ASSUME Init PROVE StubComplete
    <3>1. stub = <<>> /\ runtime = <<>> /\ done = <<>>
      BY <2>1 DEF Init
    <3> QED
      BY <3>1, NoneIs DEF StubComplete, Begin
  <2> QED
    BY <2>1, StubInit
<1>2. GInv /\ FileInv /\ StubInv /\ StubComplete /\ [Next]_vars => StubInv' /\ StubComplete'
  <2> SUFFICES ASSUME GInv, FileInv, StubInv, StubComplete, [Next]_vars
               PROVE  StubInv' /\ StubComplete'
    OBVIOUS
  <2>1. StubInv'
    BY StubNext
  <2>2. (GInv /\ FileInv)'
    BY GNext, FileNext
  <2>3. (~reading => Start = [stub |-> Len(stub), runtime |-> Len(runtime)])'
    <3>1. (~reading => Start.stub = Len(stub) /\ Start.runtime = Len(runtime))'
      BY <2>1 DEF StubInv
    <3>2. Start' \in Lengths
      <4>1. /\ ends' \in Seq(Lengths) /\ Len(ends') = Len(done') /\ Len(done') \in Nat
        BY <2>1, <2>2 DEF StubInv, StubTyped, FileInv
      <4>2. Len(done') # 0 => ends'[Len(done')] \in Lengths
        BY <4>1
      <4>3. [stub |-> 0, runtime |-> 0] \in Lengths
        BY DEF Lengths
      <4>4. Len(done') + 1 = 1 <=> Len(done') = 0
        BY <4>1
      <4>5. (Len(done') + 1) - 1 = Len(done')
        BY <4>1
      <4> QED
        BY <4>2, <4>3, <4>4, <4>5 DEF Start, Begin
    <3> QED
      BY <3>1, <3>2 DEF Lengths
  <2> QED
    BY <2>1, <2>3, StubCompleteNext DEF StubComplete, Added, Start
<1> QED
  BY <1>1, <1>2, GeneratorInvariant, PTL DEF Spec
=============================================================================
