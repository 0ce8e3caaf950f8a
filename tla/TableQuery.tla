----------------------------- MODULE TableQuery -----------------------------
(***************************************************************************)
(* A generated table object as a builder of one SQL statement.  The        *)
(* application asks it for assignments (colSet), conditions (colEq,        *)
(* colLike, colIsNull, ...) and an order (orderBycolAsc), in any order,    *)
(* and then calls toList, count, execute or orma_insertInto.  The object   *)
(* keeps the text of each clause and, apart from the text, the values to   *)
(* bind; a placeholder ?n of the text and its value have only n in common. *)
(*                                                                         *)
(* A clause is a sequence of terms: the word a term begins with, what it   *)
(* says, the number of its placeholder (0 for none), and whether a space   *)
(* ends it.  An object belongs to one thread.                              *)
(***************************************************************************)
EXTENDS Integers, Sequences

CONSTANTS Columns,     \* the columns of the table
          Comparisons, \* colEq, colNotEq, colLt, ..., colLike, colNotLike
          NullTests,   \* colIsNull, colIsNotNull
          Values,
          NoValue,
          WhereOffset, \* __BINDVAR_OFFSET_WHERE
          SetOffset,   \* __BINDVAR_OFFSET_SET
          MaxTerms     \* bound on the terms the application asks for

ASSUME NoValueAssumption == NoValue \notin Values
ASSUME TestsAssumption == Comparisons \cap NullTests = {}
ASSUME OffsetAssumption == /\ WhereOffset \in Nat \ {0}
                           /\ SetOffset \in Nat
                           /\ WhereOffset < SetOffset
ASSUME MaxTermsAssumption == MaxTerms \in Nat

VARIABLES sql_start, sql_set, sql_where, sql_orderby,
          bind_set_vars, bind_where_vars,
          made,     \* ghost: the orma_ call that made the object
          askedSet, askedWhere \* ghosts: what the application asked of it

text == <<sql_start, sql_set, sql_where, sql_orderby>>
binds == <<bind_set_vars, bind_where_vars>>
asked == <<askedSet, askedWhere>>
vars == <<text, binds, made, asked>>

Makers == {"new", "selectFrom", "update", "deleteFrom"}
Calls == {"insertInto", "toList", "count", "execute"}
Keywords == {"insert", "update", "delete"}

(* What the application asks for: a column, what is to hold of it or "=",  *)
(* and the value.                                                          *)
Asked == [col : Columns, test : Comparisons \cup NullTests \cup {"="},
          value : Values \cup {NoValue}]
Ask(col, test, v) == [col |-> col, test |-> test, value |-> v]

Terms == [lead : {"set", "and", "order by", ","}, col : Columns,
          test : Comparisons \cup NullTests \cup {"=", "ASC", "DESC"},
          param : Nat, tail : {"", " "}]
Term(lead, col, test, param, tail) ==
  [lead |-> lead, col |-> col, test |-> test, param |-> param, tail |-> tail]

(* Types: clauses of terms, and values to bind.                            *)
TypeOK ==
  /\ sql_start \in Seq(Keywords)
  /\ sql_set \in Seq(Terms)
  /\ sql_where \in Seq(Terms)
  /\ sql_orderby \in Seq(Terms)
  /\ bind_set_vars \in Seq(Values)
  /\ bind_where_vars \in Seq(Values)
  /\ made \in Makers \cup {"none", "spent"}
  /\ askedSet \in Seq(Asked)
  /\ askedWhere \in Seq(Asked)

Init ==
  /\ sql_start = <<>> /\ sql_set = <<>> /\ sql_where = <<>>
  /\ sql_orderby = <<>>
  /\ bind_set_vars = <<>> /\ bind_where_vars = <<>>
  /\ made = "none"
  /\ askedSet = <<>> /\ askedWhere = <<>>

Live == made # "none"
Room == Len(sql_set) + Len(sql_where) + Len(sql_orderby) < MaxTerms

-----------------------------------------------------------------------------
(* orma_new, orma_selectFrom, orma_update, orma_deleteFrom. *)
Make(maker) ==
  /\ ~Live
  /\ made' = maker
  /\ sql_start' = CASE maker = "update" -> <<"update">>
                    [] maker = "deleteFrom" -> <<"delete">>
                    [] OTHER -> <<>>
  /\ UNCHANGED <<sql_set, sql_where, sql_orderby, binds, asked>>

(* Mutant: "set" or "," is chosen by another clause. *)
SetAfterWhere(col, v) ==
  /\ Live
  /\ Room
  /\ sql_set' = Append(sql_set,
                  Term(IF sql_where = <<>> THEN "set" ELSE ",", col, "=",
                       SetOffset + Len(bind_set_vars), " "))
  /\ bind_set_vars' = Append(bind_set_vars, v)
  /\ askedSet' = Append(askedSet, Ask(col, "=", v))
  /\ UNCHANGED <<sql_start, sql_where, sql_orderby, bind_where_vars, made,
                 askedWhere>>

(* t->colSet(t, v) *)
Set(col, v) ==
  /\ Live
  /\ Room
  /\ sql_set' = Append(sql_set,
                  Term(IF sql_set = <<>> THEN "set" ELSE ",", col, "=",
                       SetOffset + Len(bind_set_vars), " "))
  /\ bind_set_vars' = Append(bind_set_vars, v)
  /\ askedSet' = Append(askedSet, Ask(col, "=", v))
  /\ UNCHANGED <<sql_start, sql_where, sql_orderby, bind_where_vars, made,
                 askedWhere>>

(* Mutant: the number is taken after the value was added. *)
WhereNumberedLate(col, test, v) ==
  /\ Live
  /\ Room
  /\ bind_where_vars' = Append(bind_where_vars, v)
  /\ sql_where' = Append(sql_where,
                    Term("and", col, test,
                         WhereOffset + Len(bind_where_vars'), " "))
  /\ askedWhere' = Append(askedWhere, Ask(col, test, v))
  /\ UNCHANGED <<sql_start, sql_set, sql_orderby, bind_set_vars, made, askedSet>>

(* t->colEq(t, v), t->colLike(t, v) and their kind *)
Where(col, test, v) ==
  /\ Live
  /\ Room
  /\ sql_where' = Append(sql_where,
                    Term("and", col, test,
                         WhereOffset + Len(bind_where_vars), " "))
  /\ bind_where_vars' = Append(bind_where_vars, v)
  /\ askedWhere' = Append(askedWhere, Ask(col, test, v))
  /\ UNCHANGED <<sql_start, sql_set, sql_orderby, bind_set_vars, made, askedSet>>

(* Mutant: a value is bound although there is no placeholder for it. *)
WhereNullBound(col, test) ==
  /\ Live
  /\ Room
  /\ sql_where' = Append(sql_where, Term("and", col, test, 0, ""))
  /\ bind_where_vars' = Append(bind_where_vars, NoValue)
  /\ askedWhere' = Append(askedWhere, Ask(col, test, NoValue))
  /\ UNCHANGED <<sql_start, sql_set, sql_orderby, bind_set_vars, made, askedSet>>

(* t->colIsNull(t), t->colIsNotNull(t): no placeholder, no space after it *)
WhereNull(col, test) ==
  /\ Live
  /\ Room
  /\ sql_where' = Append(sql_where, Term("and", col, test, 0, ""))
  /\ askedWhere' = Append(askedWhere, Ask(col, test, NoValue))
  /\ UNCHANGED <<sql_start, sql_set, sql_orderby, binds, made, askedSet>>

(* t->orderBycolAsc(t), t->orderBycolDesc(t) *)
OrderBy(col, way) ==
  /\ Live
  /\ Room
  /\ sql_orderby' = Append(sql_orderby,
                      Term(IF sql_orderby = <<>> THEN "order by" ELSE ",",
                           col, way, 0, " "))
  /\ UNCHANGED <<sql_start, sql_set, sql_where, binds, made, asked>>

(* Mutant: the text is put together afresh, so that a second call works. *)
InsertIntoAgain ==
  /\ Live
  /\ sql_start' = <<>>
  /\ made' = "spent"
  /\ UNCHANGED <<sql_set, sql_where, sql_orderby, binds, asked>>

(* orma_insertInto adds INSERT to the object's text and leaves it there. *)
InsertInto ==
  /\ Live
  /\ Len(sql_start) < 2
  /\ sql_start' = Append(sql_start, "insert")
  /\ made' = "spent"
  /\ UNCHANGED <<sql_set, sql_where, sql_orderby, binds, asked>>

(* orma_free, and the end of toList, count and execute. *)
Free ==
  /\ Live
  /\ sql_start' = <<>> /\ sql_set' = <<>> /\ sql_where' = <<>>
  /\ sql_orderby' = <<>>
  /\ bind_set_vars' = <<>> /\ bind_where_vars' = <<>>
  /\ made' = "none"
  /\ askedSet' = <<>> /\ askedWhere' = <<>>

Next ==
  \/ \E maker \in Makers : Make(maker)
  \/ \E col \in Columns, v \in Values :
       \/ Set(col, v)
       \/ \E test \in Comparisons : Where(col, test, v)
  \/ \E col \in Columns :
       \/ \E test \in NullTests : WhereNull(col, test)
       \/ \E way \in {"ASC", "DESC"} : OrderBy(col, way)
  \/ InsertInto
  \/ Free

Spec == Init /\ [][Next]_vars

-----------------------------------------------------------------------------
(* The word each call adds to the start of the statement. *)
FirstWord == [insertInto |-> <<"insert">>, toList |-> <<"select">>,
              count |-> <<"count">>, execute |-> <<>>]

(* The statement each call would send to SQLite: the clauses it puts       *)
(* together, INSERT with the list of columns ...                           *)
Text(f) ==
  [start |-> sql_start \o FirstWord[f],
   columns |-> f = "insertInto",
   set |-> IF f = "execute" THEN sql_set ELSE <<>>,
   where |-> IF f = "insertInto" THEN <<>> ELSE sql_where,
   orderby |-> IF f = "toList" THEN sql_orderby ELSE <<>>]

(* ... and the value of placeholder n: execute binds the SET values first  *)
(* and the WHERE values over them, and SQLite takes one nobody bound to be *)
(* NULL.                                                                   *)
Bound(n) ==
  IF n - WhereOffset + 1 \in DOMAIN bind_where_vars
  THEN bind_where_vars[n - WhereOffset + 1]
  ELSE IF n - SetOffset + 1 \in DOMAIN bind_set_vars
       THEN bind_set_vars[n - SetOffset + 1]
       ELSE NoValue

(* What SQLite prepares.  Two terms are separated by the words they begin  *)
(* with, and IS NULL without a space runs into the next "and".  INSERT     *)
(* without columns followed by a whole SELECT is a statement too; that of  *)
(* count has one column.                                                   *)
Statements == {<<"insert">>, <<"select">>, <<"count">>, <<"update">>,
               <<"delete">>, <<"insert", "select">>}
              \cup IF \E col \in Columns : Columns = {col}
                   THEN {<<"insert", "count">>} ELSE {}

Separated(clause, first) ==
  \A i \in DOMAIN clause : clause[i].lead = IF i = 1 THEN first ELSE ","

Glued(clause) == \E i \in DOMAIN clause : clause[i].tail = "" /\ i < Len(clause)

Prepares(x) ==
  /\ x.start \in Statements
  /\ Separated(x.set, "set")
  /\ Separated(x.orderby, "order by")
  /\ ~Glued(x.where)
  /\ x.start = <<"insert">> <=> x.columns
  /\ x.start = <<"update">> <=> x.set # <<>>

-----------------------------------------------------------------------------
(* Properties *)

Says(clause) ==
  [i \in DOMAIN clause |->
     Ask(clause[i].col, clause[i].test,
         IF clause[i].param = 0 THEN NoValue ELSE Bound(clause[i].param))]

(* The placeholders of the two clauses have different numbers as long as   *)
(* there are not too many conditions.                                      *)
Apart == Len(bind_where_vars) <= SetOffset - WhereOffset

(* The statement says what the application asked for: a SELECT, UPDATE or  *)
(* DELETE has all the conditions, each with its own value, and an          *)
(* assignment has the value it was given and not that of another           *)
(* assignment or condition, whatever order they were asked for in.         *)
SaysWhatWasAsked ==
  \A f \in Calls \ {"insertInto"} :
    /\ Says(Text(f).where) = askedWhere
    /\ f = "execute" /\ Apart => Says(Text(f).set) = askedSet

(* The calls an object is made for; orma_new and orma_selectFrom make the  *)
(* same one.                                                               *)
Proper(f) ==
  \/ made \in {"new", "selectFrom"} /\ f # "execute"
  \/ made = "update" /\ f = "execute" /\ askedSet # <<>>
  \/ made = "deleteFrom" /\ f = "execute" /\ askedSet = <<>>

(* A statement built as the README does is accepted, whatever conditions   *)
(* it has, when no IS NULL or IS NOT NULL is followed by another one: the  *)
(* code leaves no space after these.                                       *)
PreparedUnlessNullFirst ==
  \A f \in Calls :
    /\ Proper(f)
    /\ \A i \in DOMAIN askedWhere : i < Len(askedWhere)
                                     => askedWhere[i].test \notin NullTests
    => Prepares(Text(f))

(* Any other call is refused: an object made to delete does not update,    *)
(* none is inserted twice, and one that was inserted is not executed.  But *)
(* its toList and count run: as INSERT ... SELECT.                         *)
MisuseIsRefused ==
  \A f \in Calls :
    /\ Live /\ ~Proper(f)
    /\ ~(made = "spent" /\ f \in {"toList", "count"})
    => ~Prepares(Text(f))

-----------------------------------------------------------------------------
(* Why they hold: the inductive invariant.                                 *)

(* A term has the column and the test that were asked for, and its         *)
(* placeholder, if any, the number of the value that was asked for.        *)
Keeps(x, ask, offset, bound) ==
  LET n == x.param - offset + 1 IN
  /\ x.col = ask.col
  /\ x.test = ask.test
  /\ IF x.param = 0 THEN ask.value = NoValue
                    ELSE n \in DOMAIN bound /\ ask.value = bound[n]

AllKeep(clause, asks, offset, bound) ==
  /\ Len(clause) = Len(asks)
  /\ \A i \in DOMAIN clause : Keeps(clause[i], asks[i], offset, bound)

Conditions == {x \in Terms : x.tail = " " \/ x.test \in NullTests}
Assignments == {x \in Terms : x.param # 0}

(* Each condition says what was asked for, and only IS NULL and IS NOT     *)
(* NULL end without a space.                                               *)
WhereInv ==
  /\ AllKeep(sql_where, askedWhere, WhereOffset, bind_where_vars)
  /\ sql_where \in Seq(Conditions)

(* Each assignment does, and has a placeholder ... *)
SetInv ==
  /\ AllKeep(sql_set, askedSet, SetOffset, bind_set_vars)
  /\ sql_set \in Seq(Assignments)

(* ... and the assignments are well separated, as the order is. *)
SetLeads == Separated(sql_set, "set")
OrderInv == Separated(sql_orderby, "order by")

(* The text starts with the keyword of the call that made the object, and  *)
(* has INSERT last once it was inserted.                                   *)
StartInv ==
  /\ made \in {"none", "new", "selectFrom"} => sql_start = <<>>
  /\ made = "update" => sql_start = <<"update">>
  /\ made = "deleteFrom" => sql_start = <<"delete">>
  /\ made = "spent" => /\ sql_start # <<>>
                      /\ sql_start[Len(sql_start)] = "insert"

(* All of it, for the object whose clauses the text and bind_ calls fill.  *)
QueryInv == TypeOK /\ WhereInv /\ SetInv /\ SetLeads /\ OrderInv /\ StartInv
=============================================================================
