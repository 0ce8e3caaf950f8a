---------------------------- MODULE QueryProofs ----------------------------
(***************************************************************************)
(* The statements of TableQuery say what was asked for, for any columns,   *)
(* values, placeholder offsets and number of terms.                        *)
(***************************************************************************)
EXTENDS TableQuery, SequenceTheorems, TLAPS

(* Append keeps every element where it is and adds one at the end. *)
LEMMA AppendFacts ==
  ASSUME NEW S, NEW s \in Seq(S), NEW e \in S
  PROVE  /\ Append(s, e) \in Seq(S)
         /\ Len(s) \in Nat /\ DOMAIN s = 1..Len(s)
         /\ Len(Append(s, e)) = Len(s) + 1
         /\ DOMAIN Append(s, e) = 1..(Len(s) + 1)
         /\ \A i \in 1..Len(s) : Append(s, e)[i] = s[i]
         /\ Append(s, e)[Len(s) + 1] = e
BY AppendProperties, LenProperties

(* The text of a clause that gets one more term stays well separated. *)
LEMMA AppendSeparated ==
  ASSUME NEW s \in Seq(Terms), NEW e \in Terms, NEW first
  PROVE  /\ Separated(s, first)
         /\ s = <<>> => e.lead = first
         /\ s # <<>> => e.lead = ","
         => Separated(Append(s, e), first)
<1>1. /\ Len(s) \in Nat /\ DOMAIN s = 1..Len(s)
      /\ DOMAIN Append(s, e) = 1..(Len(s) + 1)
      /\ Append(s, e)[Len(s) + 1] = e
      /\ \A i \in 1..Len(s) : Append(s, e)[i] = s[i]
  BY AppendFacts
<1>2. s = <<>> <=> Len(s) = 0
  BY EmptySeq
<1>3. ASSUME Separated(s, first),
             s = <<>> => e.lead = first, s # <<>> => e.lead = ",",
             NEW i \in DOMAIN Append(s, e)
      PROVE  Append(s, e)[i].lead = IF i = 1 THEN first ELSE ","
  <2>1. i \in 1..Len(s) \/ i = Len(s) + 1
    BY <1>1
  <2>2. CASE i \in 1..Len(s)
    BY <1>1, <1>3, <2>2 DEF Separated
  <2>3. CASE i = Len(s) + 1
    <3>1. Append(s, e)[i] = e
      BY <1>1, <2>3
    <3>2. i = 1 <=> s = <<>>
      BY <1>1, <1>2, <2>3
    <3> QED BY <1>3, <3>1, <3>2
  <2> QED BY <2>1, <2>2, <2>3
<1> QED BY <1>3 DEF Separated

(* A clause and what was asked for still agree when each gets one more     *)
(* element and values are added after those there were.                    *)
LEMMA AppendKeeps ==
  ASSUME NEW s \in Seq(Terms), NEW q \in Seq(Asked),
         NEW b, NEW c, NEW offset, NEW e \in Terms, NEW a \in Asked,
         AllKeep(s, q, offset, b),
         \A k \in DOMAIN b : k \in DOMAIN c /\ c[k] = b[k],
         Keeps(e, a, offset, c)
  PROVE  AllKeep(Append(s, e), Append(q, a), offset, c)
<1> DEFINE t == Append(s, e)
           r == Append(q, a)
           n == Len(s)
<1>1. /\ n \in Nat /\ DOMAIN s = 1..n /\ DOMAIN t = 1..(n + 1)
      /\ t[n + 1] = e /\ Len(t) = n + 1
      /\ \A i \in 1..n : t[i] = s[i]
  BY AppendFacts
<1>2. n = Len(q)
  BY DEF AllKeep
<1>3. /\ Len(r) = n + 1
      /\ r[n + 1] = a
      /\ \A i \in 1..n : r[i] = q[i]
  BY <1>2, AppendFacts
<1>4. \A i \in 1..n : Keeps(s[i], q[i], offset, b)
  BY <1>1 DEF AllKeep
<1>5. \A i \in 1..n : Keeps(s[i], q[i], offset, c)
  BY <1>4 DEF Keeps
<1> HIDE DEF t, r, n
<1>6. \A i \in 1..(n + 1) : Keeps(t[i], r[i], offset, c)
  <2>1. ASSUME NEW i \in 1..(n + 1) PROVE i \in 1..n \/ i = n + 1
    BY <1>1
  <2> QED BY <1>1, <1>3, <1>5, <2>1
<1>7. Len(t) = Len(r) /\ \A i \in DOMAIN t : Keeps(t[i], r[i], offset, c)
  BY <1>1, <1>3, <1>6
<1> QED BY <1>7 DEF AllKeep, t, r

(* The lengths and domains of the sequences of an object. *)
LEMMA Sizes ==
  TypeOK => /\ DOMAIN sql_set = 1..Len(sql_set) /\ Len(sql_set) \in Nat
            /\ DOMAIN sql_where = 1..Len(sql_where) /\ Len(sql_where) \in Nat
            /\ DOMAIN askedSet = 1..Len(askedSet) /\ Len(askedSet) \in Nat
            /\ DOMAIN askedWhere = 1..Len(askedWhere) /\ Len(askedWhere) \in Nat
            /\ DOMAIN bind_set_vars = 1..Len(bind_set_vars)
            /\ Len(bind_set_vars) \in Nat
            /\ DOMAIN bind_where_vars = 1..Len(bind_where_vars)
            /\ Len(bind_where_vars) \in Nat
            /\ Len(sql_start) \in Nat
            /\ (sql_set = <<>> <=> Len(sql_set) = 0)
            /\ (askedSet = <<>> <=> Len(askedSet) = 0)
BY LenProperties, EmptySeq DEF TypeOK

(* The invariant QueryInv of the text and the bind variables of an object. *)
THEOREM BuilderInvariant == Spec => []QueryInv
<1>1. Init => QueryInv
  BY DEF Init, QueryInv, TypeOK, WhereInv, SetInv, SetLeads, OrderInv, StartInv,
         Separated, AllKeep
<1>2. QueryInv /\ [Next]_vars => QueryInv'
  <2> SUFFICES ASSUME QueryInv, [Next]_vars
               PROVE  QueryInv'
    OBVIOUS
  <2> USE DEF QueryInv
  <2>1. ASSUME NEW maker \in Makers, Make(maker)
        PROVE  QueryInv'
    <3>1. sql_start' \in Seq(Keywords) /\ StartInv'
      <4>1. /\ <<>> \in Seq(Keywords) /\ <<"update">> \in Seq(Keywords)
            /\ <<"delete">> \in Seq(Keywords)
        BY DEF Keywords
      <4>2. CASE maker = "update"
        BY <2>1, <4>1, <4>2 DEF Make, StartInv
      <4>3. CASE maker = "deleteFrom"
        BY <2>1, <4>1, <4>3 DEF Make, StartInv
      <4>4. CASE maker \in {"new", "selectFrom"}
        BY <2>1, <4>1, <4>4 DEF Make, StartInv
      <4> QED BY <4>2, <4>3, <4>4 DEF Makers
    <3>2. TypeOK'
      BY <2>1, <3>1 DEF Make, TypeOK, binds, asked
    <3>3. WhereInv' /\ SetInv' /\ SetLeads' /\ OrderInv'
      BY <2>1 DEF Make, WhereInv, SetInv, SetLeads, OrderInv, Separated, binds, asked
    <3> QED BY <3>1, <3>2, <3>3
  <2>2. ASSUME NEW col \in Columns, NEW v \in Values, Set(col, v)
        PROVE  QueryInv'
    <3> DEFINE n == Len(bind_set_vars)
               e == Term(IF sql_set = <<>> THEN "set" ELSE ",", col, "=",
                         SetOffset + n, " ")
               a == Ask(col, "=", v)
    <3>1. /\ sql_set' = Append(sql_set, e)
          /\ bind_set_vars' = Append(bind_set_vars, v)
          /\ askedSet' = Append(askedSet, a)
          /\ UNCHANGED <<sql_start, sql_where, sql_orderby, bind_where_vars,
                         made, askedWhere>>
      BY <2>2 DEF Set
    <3>2. n \in Nat
      BY LenProperties DEF TypeOK
    <3>3. e \in Terms /\ a \in Asked
      BY <3>2, OffsetAssumption DEF Term, Terms, Ask, Asked
    <3>4. /\ sql_set = <<>> => e.lead = "set"
          /\ sql_set # <<>> => e.lead = ","
          /\ e.col = a.col /\ e.test = a.test
          /\ e.param # 0 /\ e.param - SetOffset + 1 = n + 1
          /\ a.value = v
      BY <3>2, OffsetAssumption DEF Term, Ask
    <3> HIDE DEF e, a
    <3>5. TypeOK'
      BY <3>1, <3>3, AppendFacts DEF TypeOK
    <3>6. WhereInv' /\ StartInv' /\ OrderInv'
      BY <3>1 DEF WhereInv, StartInv, OrderInv, Separated
    <3>7. SetLeads'
      BY <3>1, <3>3, <3>4, AppendSeparated DEF SetLeads, TypeOK
    <3>8. AllKeep(sql_set', askedSet', SetOffset, bind_set_vars')
      <4>1. /\ sql_set \in Seq(Terms) /\ askedSet \in Seq(Asked)
            /\ bind_set_vars \in Seq(Values)
            /\ AllKeep(sql_set, askedSet, SetOffset, bind_set_vars)
        BY DEF TypeOK, SetInv
      <4>2. /\ \A k \in DOMAIN bind_set_vars :
                 k \in DOMAIN bind_set_vars' /\ bind_set_vars'[k] = bind_set_vars[k]
            /\ n + 1 \in DOMAIN bind_set_vars' /\ bind_set_vars'[n + 1] = v
        BY <3>1, <4>1, AppendFacts
      <4>3. Keeps(e, a, SetOffset, bind_set_vars')
        BY <3>4, <4>2 DEF Keeps
      <4> QED BY <3>1, <3>3, <4>1, <4>2, <4>3, AppendKeeps
    <3>9. sql_set' \in Seq(Assignments)
      BY <3>1, <3>3, <3>4, AppendFacts DEF SetInv, Assignments
    <3>10. SetInv'
      BY <3>8, <3>9 DEF SetInv
    <3> QED BY <3>5, <3>6, <3>7, <3>10
  <2>3. ASSUME NEW col \in Columns, NEW test \in Comparisons, NEW v \in Values,
               Where(col, test, v)
        PROVE  QueryInv'
    <3> DEFINE n == Len(bind_where_vars)
               e == Term("and", col, test, WhereOffset + n, " ")
               a == Ask(col, test, v)
    <3>1. /\ sql_where' = Append(sql_where, e)
          /\ bind_where_vars' = Append(bind_where_vars, v)
          /\ askedWhere' = Append(askedWhere, a)
          /\ UNCHANGED <<sql_start, sql_set, sql_orderby, bind_set_vars,
                         made, askedSet>>
      BY <2>3 DEF Where
    <3>2. n \in Nat
      BY LenProperties DEF TypeOK
    <3>3. e \in Terms /\ a \in Asked
      BY <3>2, OffsetAssumption DEF Term, Terms, Ask, Asked
    <3>4. /\ e.col = a.col /\ e.test = a.test /\ e.tail = " "
          /\ e.param # 0 /\ e.param - WhereOffset + 1 = n + 1
          /\ a.value = v
      BY <3>2, OffsetAssumption DEF Term, Ask
    <3> HIDE DEF e, a
    <3>5. TypeOK'
      BY <3>1, <3>3, AppendFacts DEF TypeOK
    <3>6. SetInv' /\ SetLeads' /\ StartInv' /\ OrderInv'
      BY <3>1 DEF SetInv, SetLeads, StartInv, OrderInv, Separated
    <3>7. AllKeep(sql_where', askedWhere', WhereOffset, bind_where_vars')
      <4>1. /\ sql_where \in Seq(Terms) /\ askedWhere \in Seq(Asked)
            /\ bind_where_vars \in Seq(Values)
            /\ AllKeep(sql_where, askedWhere, WhereOffset, bind_where_vars)
        BY DEF TypeOK, WhereInv
      <4>2. /\ \A k \in DOMAIN bind_where_vars :
                 /\ k \in DOMAIN bind_where_vars'
                 /\ bind_where_vars'[k] = bind_where_vars[k]
            /\ n + 1 \in DOMAIN bind_where_vars' /\ bind_where_vars'[n + 1] = v
        BY <3>1, <4>1, AppendFacts
      <4>3. Keeps(e, a, WhereOffset, bind_where_vars')
        BY <3>4, <4>2 DEF Keeps
      <4> QED BY <3>1, <3>3, <4>1, <4>2, <4>3, AppendKeeps
    <3>8. sql_where' \in Seq(Conditions)
      BY <3>1, <3>3, <3>4, AppendFacts DEF WhereInv, Conditions
    <3>9. WhereInv'
      BY <3>7, <3>8 DEF WhereInv
    <3> QED BY <3>5, <3>6, <3>9
  <2>4. ASSUME NEW col \in Columns, NEW test \in NullTests, WhereNull(col, test)
        PROVE  QueryInv'
    <3> DEFINE e == Term("and", col, test, 0, "")
               a == Ask(col, test, NoValue)
    <3>1. /\ sql_where' = Append(sql_where, e)
          /\ askedWhere' = Append(askedWhere, a)
          /\ UNCHANGED <<sql_start, sql_set, sql_orderby, bind_set_vars,
                         bind_where_vars, made, askedSet>>
      BY <2>4 DEF WhereNull, binds
    <3>2. e \in Terms /\ a \in Asked
      BY DEF Term, Terms, Ask, Asked
    <3>3. /\ e.col = a.col /\ e.test = a.test /\ e.test \in NullTests
          /\ e.param = 0 /\ a.value = NoValue
      BY DEF Term, Ask
    <3> HIDE DEF e, a
    <3>4. TypeOK'
      BY <3>1, <3>2, AppendFacts DEF TypeOK
    <3>5. SetInv' /\ SetLeads' /\ StartInv' /\ OrderInv'
      BY <3>1 DEF SetInv, SetLeads, StartInv, OrderInv, Separated
    <3>6. AllKeep(sql_where', askedWhere', WhereOffset, bind_where_vars')
      <4>1. /\ sql_where \in Seq(Terms) /\ askedWhere \in Seq(Asked)
            /\ AllKeep(sql_where, askedWhere, WhereOffset, bind_where_vars)
        BY DEF TypeOK, WhereInv
      <4>2. Keeps(e, a, WhereOffset, bind_where_vars)
        BY <3>3 DEF Keeps
      <4> QED BY <3>1, <3>2, <4>1, <4>2, AppendKeeps
    <3>7. sql_where' \in Seq(Conditions)
      BY <3>1, <3>2, <3>3, AppendFacts DEF WhereInv, Conditions
    <3>8. WhereInv'
      BY <3>6, <3>7 DEF WhereInv
    <3> QED BY <3>4, <3>5, <3>8
  <2>5. ASSUME NEW col \in Columns, NEW way \in {"ASC", "DESC"}, OrderBy(col, way)
        PROVE  QueryInv'
    <3> DEFINE e == Term(IF sql_orderby = <<>> THEN "order by" ELSE ",",
                         col, way, 0, " ")
    <3>1. /\ sql_orderby' = Append(sql_orderby, e)
          /\ UNCHANGED <<sql_start, sql_set, sql_where, binds, made, asked>>
      BY <2>5 DEF OrderBy
    <3>2. /\ e \in Terms
          /\ sql_orderby = <<>> => e.lead = "order by"
          /\ sql_orderby # <<>> => e.lead = ","
      BY DEF Term, Terms
    <3> HIDE DEF e
    <3>3. TypeOK'
      BY <3>1, <3>2, AppendFacts DEF TypeOK, binds, asked
    <3>4. OrderInv'
      BY <3>1, <3>2, AppendSeparated DEF OrderInv, TypeOK
    <3>5. WhereInv' /\ SetInv' /\ SetLeads' /\ StartInv'
      BY <3>1 DEF WhereInv, SetInv, SetLeads, Separated, StartInv, binds, asked
    <3> QED BY <3>3, <3>4, <3>5
  <2>6. CASE InsertInto
    <3>1. /\ sql_start' = Append(sql_start, "insert") /\ made' = "spent"
          /\ UNCHANGED <<sql_set, sql_where, sql_orderby, binds, asked>>
      BY <2>6 DEF InsertInto
    <3>2. sql_start \in Seq(Keywords) /\ "insert" \in Keywords
      BY DEF TypeOK, Keywords
    <3>3. TypeOK'
      BY <3>1, <3>2, AppendFacts DEF TypeOK, binds, asked
    <3>4. StartInv'
      <4>1. /\ Len(sql_start') = Len(sql_start) + 1 /\ Len(sql_start) \in Nat
            /\ sql_start'[Len(sql_start) + 1] = "insert"
            /\ sql_start' \in Seq(Keywords)
        BY <3>1, <3>2, AppendFacts
      <4>2. sql_start' # <<>>
        BY <4>1, EmptySeq
      <4> QED BY <3>1, <4>1, <4>2 DEF StartInv
    <3>5. WhereInv' /\ SetInv' /\ SetLeads' /\ OrderInv'
      BY <3>1 DEF WhereInv, SetInv, SetLeads, OrderInv, Separated, binds, asked
    <3> QED BY <3>3, <3>4, <3>5
  <2>7. CASE Free
    <3>1. /\ sql_start' = <<>> /\ sql_set' = <<>> /\ sql_where' = <<>>
          /\ sql_orderby' = <<>> /\ bind_set_vars' = <<>>
          /\ bind_where_vars' = <<>> /\ askedSet' = <<>> /\ askedWhere' = <<>>
          /\ made' = "none"
      BY <2>7 DEF Free
    <3>2. TypeOK' /\ StartInv'
      BY <3>1, EmptySeq DEF TypeOK, StartInv
    <3>3. DOMAIN <<>> = {}
      OBVIOUS
    <3>4. WhereInv' /\ SetInv' /\ SetLeads' /\ OrderInv'
      BY <3>1, <3>3, EmptySeq
         DEF WhereInv, SetInv, SetLeads, OrderInv, AllKeep, Separated
    <3> QED BY <3>2, <3>3, <3>4
  <2>8. CASE UNCHANGED vars
    BY <2>8 DEF vars, text, binds, asked, TypeOK, WhereInv, SetInv, SetLeads,
                OrderInv, StartInv, Separated
  <2> QED
    BY <2>1, <2>2, <2>3, <2>4, <2>5, <2>6, <2>7, <2>8 DEF Next
<1> QED BY <1>1, <1>2, PTL DEF Spec

-----------------------------------------------------------------------------
(* The placeholders of a statement are bound to the values that were asked *)
(* for, with SET and WHERE in one statement as long as their ranges of     *)
(* numbers do not meet (bind_all_set_bindvars, bind_all_where_bindvars).   *)
THEOREM StatementSaysWhatWasAsked == Spec => []SaysWhatWasAsked
<1>1. QueryInv => SaysWhatWasAsked
  <2> SUFFICES ASSUME QueryInv, NEW f \in Calls \ {"insertInto"}
               PROVE  /\ Says(Text(f).where) = askedWhere
                      /\ f = "execute" /\ Apart => Says(Text(f).set) = askedSet
    BY DEF SaysWhatWasAsked
  <2> USE DEF QueryInv
  <2>1. Text(f).where = sql_where
    BY DEF Text
  <2>2. Says(sql_where) = askedWhere
    <3>1. /\ DOMAIN sql_where = DOMAIN askedWhere
          /\ askedWhere = [i \in DOMAIN askedWhere |-> askedWhere[i]]
          /\ \A i \in DOMAIN askedWhere : askedWhere[i] \in Asked
      BY LenProperties, ElementOfSeq DEF TypeOK, WhereInv, AllKeep
    <3>2. ASSUME NEW i \in DOMAIN sql_where
          PROVE  Ask(sql_where[i].col, sql_where[i].test,
                     IF sql_where[i].param = 0 THEN NoValue
                     ELSE Bound(sql_where[i].param)) = askedWhere[i]
      <4> DEFINE x == sql_where[i]
                 n == x.param - WhereOffset + 1
      <4>1. Keeps(x, askedWhere[i], WhereOffset, bind_where_vars)
        BY DEF WhereInv, AllKeep
      <4>2. askedWhere[i] = Ask(x.col, x.test, askedWhere[i].value)
        BY <3>1, <4>1 DEF Asked, Ask, Keeps
      <4>3. (IF x.param = 0 THEN NoValue ELSE Bound(x.param))
              = askedWhere[i].value
        BY <4>1 DEF Keeps, Bound
      <4> QED BY <4>2, <4>3
    <3> QED BY <3>1, <3>2 DEF Says
  <2>3. ASSUME f = "execute", Apart
        PROVE  Says(Text(f).set) = askedSet
    <3>1. Text(f).set = sql_set
      BY <2>3 DEF Text
    <3>2. /\ DOMAIN sql_set = DOMAIN askedSet
          /\ askedSet = [i \in DOMAIN askedSet |-> askedSet[i]]
          /\ \A i \in DOMAIN askedSet : askedSet[i] \in Asked
          /\ \A i \in DOMAIN sql_set : sql_set[i] \in Assignments
      BY LenProperties, ElementOfSeq DEF TypeOK, SetInv, AllKeep
    <3>3. ASSUME NEW i \in DOMAIN sql_set
          PROVE  Ask(sql_set[i].col, sql_set[i].test,
                     IF sql_set[i].param = 0 THEN NoValue
                     ELSE Bound(sql_set[i].param)) = askedSet[i]
      <4> DEFINE x == sql_set[i]
                 p == x.param
      <4>1. Keeps(x, askedSet[i], SetOffset, bind_set_vars)
        BY DEF SetInv, AllKeep
      <4>2. askedSet[i] = Ask(x.col, x.test, askedSet[i].value)
        BY <3>2, <4>1 DEF Asked, Ask, Keeps
      <4>3. p \in Nat /\ p # 0
        BY <3>2 DEF Assignments, Terms
      <4>4. /\ p - SetOffset + 1 \in DOMAIN bind_set_vars
            /\ askedSet[i].value = bind_set_vars[p - SetOffset + 1]
        BY <4>1, <4>3 DEF Keeps
      <4> HIDE DEF p
      <4>5. p - WhereOffset + 1 \notin DOMAIN bind_where_vars
        BY <2>3, <4>3, <4>4, Sizes, OffsetAssumption DEF Apart
      <4>6. Bound(p) = askedSet[i].value
        BY <4>4, <4>5 DEF Bound
      <4> QED BY <4>2, <4>3, <4>6 DEF p
    <3> QED BY <3>1, <3>2, <3>3 DEF Says
  <2> QED BY <2>1, <2>2, <2>3
<1> QED BY <1>1, BuilderInvariant, PTL

(* What SQLite takes as the start of a statement. *)
LEMMA Forms ==
  /\ <<"insert">> \in Statements /\ <<"select">> \in Statements
  /\ <<"count">> \in Statements /\ <<"update">> \in Statements
  /\ <<"delete">> \in Statements
  /\ \A x \in Statements :
       \/ x = <<"insert">> \/ x = <<"select">> \/ x = <<"count">>
       \/ x = <<"update">> \/ x = <<"delete">>
       \/ x = <<"insert", "select">> \/ x = <<"insert", "count">>
BY Zenon DEF Statements

(* Two words put together. *)
LEMMA TwoWords ==
  \A v, w : Len(<<v>> \o <<w>>) = 2 /\ (<<v>> \o <<w>>)[1] = v
<1> SUFFICES ASSUME NEW v, NEW w
             PROVE  Len(<<v>> \o <<w>>) = 2 /\ (<<v>> \o <<w>>)[1] = v
  OBVIOUS
<1>1. <<v>> \in Seq({v, w}) /\ <<w>> \in Seq({v, w})
  OBVIOUS
<1> QED BY <1>1, ConcatProperties

(* What the calls start with. *)
LEMMA Starts ==
  ASSUME TypeOK
  PROVE  /\ Text("execute").start = sql_start
         /\ Text("insertInto").start = sql_start \o <<"insert">>
         /\ Text("toList").start = sql_start \o <<"select">>
         /\ Text("count").start = sql_start \o <<"count">>
<1>1. sql_start \in Seq(Keywords)
  BY DEF TypeOK
<1>2. \A f : Text(f).start = sql_start \o FirstWord[f]
  BY DEF Text
<1>3. /\ FirstWord["execute"] = <<>>
      /\ FirstWord["insertInto"] = <<"insert">>
      /\ FirstWord["toList"] = <<"select">>
      /\ FirstWord["count"] = <<"count">>
  BY DEF FirstWord
<1>4. sql_start \o <<>> = sql_start
  BY <1>1, ConcatEmptySeq
<1> QED BY <1>2, <1>3, <1>4

(* A proper call is prepared unless an IS NULL or IS NOT NULL is followed  *)
(* by another condition (_f_null and _f_notnull of the generator).         *)
THEOREM ProperCallsPrepared == Spec => []PreparedUnlessNullFirst
<1>1. QueryInv => PreparedUnlessNullFirst
  <2> SUFFICES ASSUME QueryInv, NEW f \in Calls, Proper(f),
                      \A i \in DOMAIN askedWhere :
                        i < Len(askedWhere) => askedWhere[i].test \notin NullTests
               PROVE  Prepares(Text(f))
    BY DEF PreparedUnlessNullFirst
  <2> USE DEF QueryInv
  <2>1. ~Glued(sql_where)
    <3> SUFFICES ASSUME NEW i \in DOMAIN sql_where,
                        sql_where[i].tail = "", i < Len(sql_where)
                 PROVE  FALSE
      BY DEF Glued
    <3>1. /\ sql_where[i].test = askedWhere[i].test
          /\ Len(sql_where) = Len(askedWhere)
          /\ DOMAIN sql_where = DOMAIN askedWhere
      BY Sizes DEF WhereInv, AllKeep, Keeps
    <3>2. sql_where[i] \in Conditions
      BY LenProperties, ElementOfSeq DEF WhereInv
    <3> QED BY <3>1, <3>2 DEF Conditions
  <2>2. DOMAIN <<>> = {}
    OBVIOUS
  <2>3. sql_set = <<>> <=> askedSet = <<>>
    BY Sizes DEF SetInv, AllKeep
  <2>4. CASE made \in {"new", "selectFrom"} /\ f = "insertInto"
    <3>1. Text(f).start = <<"insert">>
      BY <2>4, Starts DEF StartInv
    <3>2. /\ Text(f).set = <<>> /\ Text(f).where = <<>>
          /\ Text(f).orderby = <<>> /\ Text(f).columns
      BY <2>4 DEF Text
    <3>3. Text(f).start \in Statements /\ Text(f).start # <<"update">>
      BY <3>1, Forms
    <3> QED BY <2>2, <3>1, <3>2, <3>3 DEF Prepares, Separated, Glued
  <2>5. CASE made \in {"new", "selectFrom"} /\ f \in {"toList", "count"}
    <3>1. Text(f).start \in {<<"select">>, <<"count">>}
      BY <2>5, Starts DEF StartInv
    <3>2. /\ Text(f).set = <<>> /\ Text(f).where = sql_where
          /\ Text(f).orderby \in {sql_orderby, <<>>} /\ ~Text(f).columns
      BY <2>5 DEF Text
    <3>3. /\ Text(f).start \in Statements
          /\ Text(f).start # <<"insert">> /\ Text(f).start # <<"update">>
      BY <3>1, Forms
    <3>4. Separated(Text(f).orderby, "order by") /\ Separated(Text(f).set, "set")
      BY <2>2, <3>2 DEF Separated, OrderInv
    <3> QED BY <2>1, <3>2, <3>3, <3>4 DEF Prepares
  <2>6. CASE made \in {"update", "deleteFrom"} /\ f = "execute"
    <3>1. Text(f).start = sql_start
      BY <2>6, Starts
    <3>2. /\ Text(f).set = sql_set /\ Text(f).where = sql_where
          /\ Text(f).orderby = <<>> /\ ~Text(f).columns
      BY <2>6 DEF Text
    <3>3. made = "update" <=> askedSet # <<>>
      BY <2>6 DEF Proper
    <3>4. /\ made = "update" => sql_start = <<"update">> /\ sql_set # <<>>
          /\ made = "deleteFrom" => sql_start = <<"delete">> /\ sql_set = <<>>
      BY <2>3, <3>3 DEF StartInv
    <3>5. CASE made = "update"
      <4>1. Text(f).start = <<"update">> /\ Text(f).set # <<>>
        BY <3>1, <3>2, <3>4, <3>5
      <4>2. Text(f).start \in Statements /\ Text(f).start # <<"insert">>
        BY <4>1, Forms
      <4>3. Separated(Text(f).orderby, "order by") /\ Separated(Text(f).set, "set")
        BY <2>2, <3>2 DEF Separated, SetLeads
      <4> QED BY <2>1, <3>2, <4>1, <4>2, <4>3 DEF Prepares
    <3>6. CASE made = "deleteFrom"
      <4>1. Text(f).start = <<"delete">> /\ Text(f).set = <<>>
        BY <3>1, <3>2, <3>4, <3>6
      <4>2. /\ Text(f).start \in Statements
            /\ Text(f).start # <<"insert">> /\ Text(f).start # <<"update">>
        BY <4>1, Forms
      <4>3. Separated(Text(f).orderby, "order by") /\ Separated(Text(f).set, "set")
        BY <2>2, <3>2, <4>1 DEF Separated
      <4> QED BY <2>1, <3>2, <4>1, <4>2, <4>3 DEF Prepares
    <3> QED BY <2>6, <3>5, <3>6
  <2> QED BY <2>4, <2>5, <2>6 DEF Proper, Calls
<1> QED BY <1>1, BuilderInvariant, PTL

(* A call on an object made for something else is refused, but for toList  *)
(* and count after orma_insertInto (the sql_start that __update_,          *)
(* __delete_from_, __insert_into_, _to_list and _count extend and nothing  *)
(* resets).                                                                *)
THEOREM OtherCallsRefused == Spec => []MisuseIsRefused
<1>1. QueryInv => MisuseIsRefused
  <2> SUFFICES ASSUME QueryInv, NEW f \in Calls, Live, ~Proper(f),
                      ~(made = "spent" /\ f \in {"toList", "count"}),
                      Prepares(Text(f))
               PROVE  FALSE
    BY DEF MisuseIsRefused
  <2> USE DEF QueryInv
  <2>1. made \in {"new", "selectFrom", "update", "deleteFrom", "spent"}
    BY DEF Live, TypeOK, Makers
  <2>2. sql_set = <<>> <=> askedSet = <<>>
    BY Sizes DEF SetInv, AllKeep
  <2>3. /\ Text(f).start \in Statements
        /\ Text(f).start = <<"insert">> <=> Text(f).columns
        /\ Text(f).start = <<"update">> <=> Text(f).set # <<>>
    BY DEF Prepares
  <2>4. CASE f = "execute"
    <3>1. Text(f).start = sql_start /\ Text(f).set = sql_set /\ ~Text(f).columns
      BY <2>4, Starts DEF Text
    <3>2. CASE made = "spent"
      BY <2>3, <3>1, <3>2, Forms DEF StartInv
    <3>3. CASE made \in {"new", "selectFrom"}
      BY <2>3, <3>1, <3>3, Forms DEF StartInv
    <3>4. CASE made \in {"update", "deleteFrom"}
      BY <2>2, <2>3, <2>4, <3>1, <3>4 DEF StartInv, Proper
    <3> QED BY <2>1, <3>2, <3>3, <3>4
  <2>5. CASE f = "insertInto"
    <3>1. made \in {"update", "deleteFrom", "spent"}
      BY <2>1, <2>5 DEF Proper
    <3>2. Text(f).start = sql_start \o <<"insert">> /\ Text(f).columns
      BY <2>5, Starts DEF Text
    <3>3. sql_start \o <<"insert">> = <<"insert">>
      BY <2>3, <3>2
    <3>4. sql_start = <<>>
      <4> DEFINE n == Len(sql_start)
      <4>1. n \in Nat
        BY Sizes
      <4>2. Len(sql_start \o <<"insert">>) = n + 1
        BY ConcatProperties DEF TypeOK, Keywords
      <4>3. n + 1 = 1
        BY <3>3, <4>2
      <4> HIDE DEF n
      <4>4. n = 0
        BY <4>1, <4>3
      <4> QED BY <4>4, EmptySeq DEF TypeOK, n
    <3> QED BY <3>1, <3>4 DEF StartInv
  <2>6. CASE f \in {"toList", "count"}
    <3>1. made \in {"update", "deleteFrom"}
      BY <2>1, <2>6 DEF Proper
    <3>2. sql_start \in {<<"update">>, <<"delete">>}
      BY <3>1 DEF StartInv
    <3>3. \/ Text(f).start = sql_start \o <<"select">>
          \/ Text(f).start = sql_start \o <<"count">>
      BY <2>6, Starts
    <3>4. Len(Text(f).start) = 2 /\ Text(f).start[1] # "insert"
      <4>1. ASSUME NEW v \in {"update", "delete"}, NEW w \in {"select", "count"},
                   Text(f).start = <<v>> \o <<w>>
            PROVE  Len(Text(f).start) = 2 /\ Text(f).start[1] # "insert"
        <5> DEFINE x == Text(f).start
        <5>1. x = <<v>> \o <<w>>
          BY <4>1
        <5>2. Len(<<v>> \o <<w>>) = 2 /\ (<<v>> \o <<w>>)[1] = v
          BY TwoWords
        <5> HIDE DEF x
        <5>3. Len(x) = 2 /\ x[1] = v
          BY <5>1, <5>2, Zenon
        <5> QED BY <4>1, <5>3 DEF x
      <4> QED BY <3>2, <3>3, <4>1
    <3> QED BY <2>3, <3>4, Forms
  <2> QED BY <2>4, <2>5, <2>6 DEF Calls
<1> QED BY <1>1, BuilderInvariant, PTL
=============================================================================
