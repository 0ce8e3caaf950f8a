---------------------------- MODULE ObjectProofs ----------------------------
(***************************************************************************)
(* For every number of columns, blocks, rows, actions and failures, the    *)
(* properties of TableObject.  Four invariants, each on top of the ones    *)
(* before it:                                                              *)
(*   OInv       what the application, the objects, the list and the call   *)
(*              hold is apart: freeing one object frees no string of       *)
(*              another, so bound strings stay alive;                      *)
(*   OwnInv     whatever is allocated is held once, or lost;               *)
(*   MeantInv   the strings of an object have the bytes that were put into *)
(*              them, so the table has the rows that were asked for;       *)
(*   ListedInv  a toList has made objects of the first of its rows.        *)
(***************************************************************************)
EXTENDS TableObject, StrProofs, FiniteSetTheorems

(* The strings that an object holds. *)
StringsOf(r) == ({r.cols[c] : c \in Cols} \ {NoBlock})
                \cup {b[2] : b \in ToSet(r.set) \cup ToSet(r.where)}

Kinds == {"none", "new", "inserted", "select", "update", "delete", "row"}
Calls == {"none", "insert", "toList", "count", "execute"}
Places == {"none", "step", "finalize", "free"}
Terms == Seq(Cols \X Blocks)
TextNames == {"start", "set", "where"}
ObjectRecords == [made : Kinds, cols : [Cols -> Blocks \cup {NoBlock}],
                  set : Terms, where : Terms, gone : SUBSET TextNames]
Rows == {NoRow} \cup [Cols -> Seq(Int)]

MemoryTyped ==
  /\ mem \subseteq Blocks /\ mine \subseteq mem
  /\ str \in [Blocks -> Strs]
  /\ obj \in [Blocks -> ObjectRecords]

(* No string has two objects, or an object and the application.            *)
Separated ==
  /\ \A o \in Blocks : StringsOf(obj[o]) \subseteq mem \ mine
  /\ \A o, p \in Blocks : o # p => StringsOf(obj[o]) \cap StringsOf(obj[p]) = {}
  /\ \A o \in Blocks : obj[o] # NoObject =>
       o \in mem /\ \A p \in Blocks : o \notin StringsOf(obj[p])

ListApart ==
  /\ list \in [l : Blocks \cup {NoBlock}, items : Seq(Blocks)]
  /\ list.l # NoBlock =>
       /\ list.l \in mem \ mine /\ obj[list.l] = NoObject
       /\ \A p \in Blocks : list.l \notin StringsOf(obj[p])
  /\ \A o \in ToSet(list.items) : o \in Blocks \ mine /\ obj[o] # NoObject

CallApart ==
  /\ call \in [fn : Calls, at : Places, o : Blocks \cup {NoBlock},
               txt : Blocks \cup {NoBlock}, bound : SUBSET Blocks,
               left : SUBSET RowIds, failed : BOOLEAN]
  /\ call # NoCall =>
       /\ call.o \in Blocks /\ obj[call.o] # NoObject
       /\ call.o \notin ToSet(list.items)
       /\ call.fn # "insert" => call.o \notin mine
       /\ call.txt \in mem \ mine /\ obj[call.txt] = NoObject
       /\ call.txt # list.l
       /\ \A p \in Blocks : call.txt \notin StringsOf(obj[p])
       /\ call.bound \subseteq StringsOf(obj[call.o])

RowsTyped ==
  /\ table \in [RowIds -> Rows]
  /\ \A r \in call.left : r \in RowIds /\ table[r] # NoRow
  /\ call.fn # "toList" => call.left = {}

OInv == MemoryTyped /\ Separated /\ ListApart /\ CallApart /\ RowsTyped
        /\ StringsTerminated

USE BoundsAssumption

-----------------------------------------------------------------------------
(* The strings of an object, through the changes that calls make to it.    *)

(* The code's Strings and BlocksOf, by the record of the object. *)
LEMMA StringsAre == \A o : Strings(o) = StringsOf(obj[o]) /\ BlocksOf(o) = {o} \cup StringsOf(obj[o])
BY DEF Strings, StringsOf, BlocksOf

(* An object that is not made holds nothing. *)
LEMMA NoObjectHas ==
  /\ NoObject \in ObjectRecords /\ StringsOf(NoObject) = {}
  /\ NoObject.made = "none"
<1>1. ToSet(<<>>) = {}
  BY DEF ToSet
<1>2. NoObject.set = <<>> /\ NoObject.where = <<>> /\ NoObject.cols = [c \in Cols |-> NoBlock]
      /\ NoObject.made = "none"
  BY DEF NoObject
<1>3. StringsOf(NoObject) = {}
  BY <1>1, <1>2 DEF StringsOf
<1>4. NoObject \in ObjectRecords
  <2>1. <<>> \in Terms
    BY EmptySeq DEF Terms
  <2>2. [c \in Cols |-> NoBlock] \in [Cols -> Blocks \cup {NoBlock}]
    OBVIOUS
  <2> DEFINE f == [c \in Cols |-> NoBlock]
             e == <<>>
             g == {}
  <2>3. f \in [Cols -> Blocks \cup {NoBlock}] /\ e \in Terms /\ g \in SUBSET TextNames
    BY <2>1, <2>2
  <2>4. NoObject = [made |-> "none", cols |-> f, set |-> e, where |-> e, gone |-> g]
    BY DEF NoObject
  <2> HIDE DEF f, e, g
  <2> QED BY <2>3, <2>4 DEF ObjectRecords, Kinds
<1> QED BY <1>2, <1>3, <1>4

(* What it was made for does not matter. *)
LEMMA MadeKeeps ==
  ASSUME NEW r \in ObjectRecords, NEW made \in Kinds
  PROVE  /\ [r EXCEPT !.made = made] \in ObjectRecords
         /\ StringsOf([r EXCEPT !.made = made]) = StringsOf(r)
         /\ [r EXCEPT !.made = made].made = made
BY DEF ObjectRecords, StringsOf

(* A string in a column. *)
LEMMA ColumnAdds ==
  ASSUME NEW r \in ObjectRecords, NEW c \in Cols, NEW s \in Blocks
  PROVE  /\ [r EXCEPT !.cols[c] = s] \in ObjectRecords
         /\ StringsOf([r EXCEPT !.cols[c] = s]) \subseteq StringsOf(r) \cup {s}
         /\ [r EXCEPT !.cols[c] = s].made = r.made
<1> DEFINE q == [r EXCEPT !.cols[c] = s]
<1>1. /\ q.made = r.made /\ q.set = r.set /\ q.where = r.where
      /\ q.cols = [r.cols EXCEPT ![c] = s] /\ q \in ObjectRecords
  BY DEF ObjectRecords
<1>2. \A d \in Cols : q.cols[d] = r.cols[d] \/ q.cols[d] = s
  BY <1>1 DEF ObjectRecords
<1> HIDE DEF q
<1>3. StringsOf(q) \subseteq StringsOf(r) \cup {s}
  BY <1>1, <1>2 DEF StringsOf
<1> QED BY <1>1, <1>3 DEF q

(* Appending adds one member to the set of what a list holds. *)
LEMMA ToSetAppend ==
  ASSUME NEW S, NEW q \in Seq(S), NEW e \in S
  PROVE  Append(q, e) \in Seq(S) /\ ToSet(Append(q, e)) = ToSet(q) \cup {e}
<1>1. Append(q, e) \in Seq(S) /\ DOMAIN q = 1..Len(q)
      /\ DOMAIN Append(q, e) = 1..(Len(q) + 1) /\ Len(q) \in Nat
      /\ \A i \in 1..Len(q) : Append(q, e)[i] = q[i]
      /\ Append(q, e)[Len(q) + 1] = e
  OBVIOUS
<1>2. 1..(Len(q) + 1) = 1..Len(q) \cup {Len(q) + 1}
  BY <1>1
<1> QED BY <1>1, <1>2 DEF ToSet

(* A term of the SET clause, ... *)
LEMMA SetAdds ==
  ASSUME NEW r \in ObjectRecords, NEW t \in Cols \X Blocks
  PROVE  /\ [r EXCEPT !.set = Append(@, t)] \in ObjectRecords
         /\ StringsOf([r EXCEPT !.set = Append(@, t)]) \subseteq StringsOf(r) \cup {t[2]}
         /\ [r EXCEPT !.set = Append(@, t)].made = r.made
<1> DEFINE q == [r EXCEPT !.set = Append(@, t)]
<1>1. r.set \in Seq(Cols \X Blocks)
  BY DEF ObjectRecords, Terms
<1>2. /\ Append(r.set, t) \in Terms
      /\ ToSet(Append(r.set, t)) = ToSet(r.set) \cup {t}
  BY <1>1, ToSetAppend DEF Terms
<1>3. /\ q.made = r.made /\ q.cols = r.cols /\ q.where = r.where
      /\ q.set = Append(r.set, t) /\ q \in ObjectRecords
  BY <1>2 DEF ObjectRecords
<1> HIDE DEF q
<1>4. StringsOf(q) \subseteq StringsOf(r) \cup {t[2]}
  BY <1>2, <1>3 DEF StringsOf
<1> QED BY <1>3, <1>4 DEF q

(* ... and of the WHERE clause. *)
LEMMA WhereAdds ==
  ASSUME NEW r \in ObjectRecords, NEW t \in Cols \X Blocks
  PROVE  /\ [r EXCEPT !.where = Append(@, t)] \in ObjectRecords
         /\ StringsOf([r EXCEPT !.where = Append(@, t)]) \subseteq StringsOf(r) \cup {t[2]}
         /\ [r EXCEPT !.where = Append(@, t)].made = r.made
<1> DEFINE q == [r EXCEPT !.where = Append(@, t)]
<1>1. r.where \in Seq(Cols \X Blocks)
  BY DEF ObjectRecords, Terms
<1>2. /\ Append(r.where, t) \in Terms
      /\ ToSet(Append(r.where, t)) = ToSet(r.where) \cup {t}
  BY <1>1, ToSetAppend DEF Terms
<1>3. /\ q.made = r.made /\ q.cols = r.cols /\ q.set = r.set
      /\ q.where = Append(r.where, t) /\ q \in ObjectRecords
  BY <1>2 DEF ObjectRecords
<1> HIDE DEF q
<1>4. StringsOf(q) \subseteq StringsOf(r) \cup {t[2]}
  BY <1>2, <1>3 DEF StringsOf
<1> QED BY <1>3, <1>4 DEF q

(* A clause whose text is lost. *)
LEMMA GoneKeeps ==
  ASSUME NEW r \in ObjectRecords, NEW clause \in {"set", "where"}
  PROVE  /\ [r EXCEPT !.gone = @ \cup {clause}] \in ObjectRecords
         /\ StringsOf([r EXCEPT !.gone = @ \cup {clause}]) = StringsOf(r)
         /\ [r EXCEPT !.gone = @ \cup {clause}].made = r.made
BY DEF ObjectRecords, StringsOf, TextNames

(* A new object holds nothing, whatever texts it lost. *)
LEMMA NewHas ==
  ASSUME NEW made \in Made, NEW gone \in SUBSET TextNames
  PROVE  LET r == [NoObject EXCEPT !.made = made, !.gone = gone] IN
         /\ r \in ObjectRecords /\ StringsOf(r) = {} /\ r # NoObject
         /\ r.made = made /\ r.gone = gone
<1> DEFINE q == [NoObject EXCEPT !.made = made]
           r == [NoObject EXCEPT !.made = made, !.gone = gone]
<1>1. made \in Kinds /\ made # "none"
  BY DEF Made, Kinds
<1>2. q \in ObjectRecords /\ StringsOf(q) = {} /\ q.made = made
  BY <1>1, NoObjectHas, MadeKeeps
<1>3. r = [q EXCEPT !.gone = gone]
  BY NoObjectHas DEF ObjectRecords
<1> HIDE DEF q
<1> HIDE DEF r
<1>4. /\ r \in ObjectRecords /\ r.made = q.made /\ r.gone = gone
      /\ StringsOf(r) = StringsOf(q)
  BY <1>2, <1>3 DEF ObjectRecords, StringsOf
<1>5. r # NoObject
  BY <1>1, <1>2, <1>4, NoObjectHas
<1> QED BY <1>2, <1>4, <1>5 DEF r

(* An object made of a row. *)
LEMMA RowHas ==
  ASSUME NEW f \in [Cols -> Blocks]
  PROVE  LET r == [NoObject EXCEPT !.made = "row", !.cols = f] IN
         /\ r \in ObjectRecords /\ r.made = "row"
         /\ StringsOf(r) \subseteq {f[c] : c \in Cols}
<1> DEFINE r == [NoObject EXCEPT !.made = "row", !.cols = f]
<1>1. /\ r.made = "row" /\ r.cols = f /\ r \in ObjectRecords
      /\ r.set = NoObject.set /\ r.where = NoObject.where
  BY NoObjectHas DEF ObjectRecords, Kinds
<1>0. NoObject.set = <<>> /\ NoObject.where = <<>>
  BY DEF NoObject
<1>2. ToSet(<<>>) = {}
  BY DEF ToSet
<1> HIDE DEF r
<1>3. StringsOf(r) \subseteq {f[c] : c \in Cols}
  BY <1>0, <1>1, <1>2 DEF StringsOf
<1> QED BY <1>1, <1>3 DEF r

-----------------------------------------------------------------------------
(* malloc gives blocks that are not allocated, and different ones.         *)

(* While there is room, Fresh names free blocks, each number another one. *)
LEMMA FreshIs ==
  ASSUME NEW k \in Nat \ {0}, Room(k)
  PROVE  /\ Fresh(k) \in Blocks \ mem
         /\ Cardinality({x \in Blocks \ mem : x <= Fresh(k)}) = k
<1> DEFINE S == Blocks \ mem
           Below(x) == {y \in S : y <= x}
           T == {x \in 0..MaxBlocks : Cardinality(Below(x)) >= k}
<1>1. /\ MaxBlocks \in Nat /\ IsFiniteSet(S)
      /\ \A y \in S : y \in Nat /\ 1 <= y /\ y <= MaxBlocks
  <2>1. MaxBlocks \in Nat
    BY BoundsAssumption
  <2>2. IsFiniteSet(1..MaxBlocks)
    BY <2>1, FS_Interval
  <2> QED BY <2>1, <2>2, FS_Subset DEF Blocks
<1>2. Cardinality(S) >= k
  BY DEF Room
<1> HIDE DEF S
<1>3. \A x : IsFiniteSet(Below(x)) /\ Cardinality(Below(x)) \in Nat
  BY <1>1, FS_Subset, FS_CardinalityType
<1>4. PICK x \in T : \A y \in T : x <= y
  <2>1. Below(MaxBlocks) = S
    BY <1>1
  <2>2. MaxBlocks \in T
    BY <1>1, <1>2, <2>1
  <2>3. T \subseteq Nat
    BY <1>1
  <2> HIDE DEF T
  <2> QED BY <2>2, <2>3, Least
<1>5. x # 0
  <2>1. Below(0) = {}
    BY <1>1
  <2>2. Cardinality(Below(0)) = 0
    BY <2>1, FS_EmptySet
  <2> QED BY <2>2
<1>6. Cardinality(Below(x - 1)) < k
  <2>1. x - 1 \in 0..MaxBlocks /\ ~(x <= x - 1)
    BY <1>1, <1>5
  <2>2. x - 1 \notin T
    BY <1>4, <2>1
  <2> QED BY <1>3, <2>1, <2>2
<1>7. x \in S
  <2>1. ASSUME x \notin S PROVE Below(x) = Below(x - 1)
    BY <1>1, <2>1
  <2>2. Cardinality(Below(x)) >= k
    OBVIOUS
  <2> QED BY <1>3, <1>6, <2>1, <2>2
<1>8. Cardinality(Below(x)) = Cardinality(Below(x - 1)) + 1
  <2>0. x \in Nat
    BY <1>1
  <2>1. Below(x) = Below(x - 1) \cup {x} /\ x \notin Below(x - 1)
    <3>1. \A y \in S : y <= x <=> (y <= x - 1 \/ y = x)
      BY <1>1, <2>0
    <3>2. x \in S /\ ~(x <= x - 1)
      BY <1>7, <2>0
    <3> QED BY <3>1, <3>2
  <2> HIDE DEF Below
  <2> QED BY <1>3, <2>1, FS_AddElement
<1>9. Cardinality(Below(x)) = k
  <2>1. Cardinality(Below(x)) >= k
    OBVIOUS
  <2> QED BY <1>3, <1>6, <1>8, <2>1
<1>10. \E b \in Blocks \ mem : Cardinality({y \in Blocks \ mem : y <= b}) = k
  BY <1>7, <1>9 DEF S
<1> QED BY <1>10, Zenon DEF Fresh

(* One allocation gets a free block. *)
LEMMA FreshOne == Room(1) => Fresh(1) \in Blocks \ mem
<1> HIDE BoundsAssumption
<1>1. 1 \in Nat \ {0}
  OBVIOUS
<1> QED BY <1>1, FreshIs, Zenon

(* Two allocations of one step get two blocks. *)
LEMMA FreshDiffer ==
  ASSUME NEW j \in Nat \ {0}, NEW k \in Nat \ {0}, Room(j), Room(k), j # k
  PROVE  Fresh(j) # Fresh(k)
BY FreshIs

(* Room for some blocks is room for fewer. *)
LEMMA RoomForLess ==
  ASSUME NEW k \in Nat, NEW n \in Nat, Room(n), k <= n
  PROVE  Room(k)
<1>1. IsFiniteSet(Blocks \ mem)
  <2>1. IsFiniteSet(1..MaxBlocks)
    BY FS_Interval
  <2> QED BY <2>1, FS_Subset DEF Blocks
<1> QED BY <1>1, FS_CardinalityType DEF Room

-----------------------------------------------------------------------------
(* The invariant. *)

(* A string just made is terminated. *)
LEMMA BlankIs == Blank \in Strs /\ Terminated(Blank)
BY EmptySeq DEF Blank, Strs, Terminated, Null

(* The inductive invariant holds at the start: nothing is allocated. *)
LEMMA OInit == Init => OInv
<1> SUFFICES ASSUME Init PROVE OInv
  OBVIOUS
<1>1. /\ mem = {} /\ mine = {} /\ list = NoList /\ call = NoCall
      /\ str = [b \in Blocks |-> Blank] /\ obj = [b \in Blocks |-> NoObject]
  BY DEF Init
<1>2. MemoryTyped
  BY <1>1, BlankIs, NoObjectHas DEF MemoryTyped
<1>3. Separated
  BY <1>1, NoObjectHas DEF Separated
<1>4. ListApart
  <2>1. NoList.l = NoBlock /\ NoList.items = <<>> /\ ToSet(<<>>) = {}
    BY DEF NoList, ToSet
  <2>2. NoList \in [l : Blocks \cup {NoBlock}, items : Seq(Blocks)]
    BY EmptySeq DEF NoList
  <2> QED BY <1>1, <2>1, <2>2 DEF ListApart
<1>5. CallApart
  BY <1>1 DEF CallApart, NoCall, Calls, Places
<1>6. RowsTyped
  <2>1. \A r \in RowIds : (IF r \in DOMAIN Stored THEN Stored[r] ELSE NoRow) \in Rows
    BY StoredAssumption DEF Rows, Cols
  <2>2. table = [r \in RowIds |-> IF r \in DOMAIN Stored THEN Stored[r] ELSE NoRow]
    BY DEF Init
  <2>3. table \in [RowIds -> Rows]
    BY <2>1, <2>2
  <2>4. call.left = {}
    BY <1>1 DEF NoCall
  <2> QED BY <2>3, <2>4 DEF RowsTyped
<1>7. StringsTerminated
  BY <1>1, BlankIs DEF StringsTerminated
<1> QED BY <1>2, <1>3, <1>4, <1>5, <1>6, <1>7 DEF OInv

(* Freeing blocks that nobody else holds keeps the others apart. *)
LEMMA ReleaseKeeps ==
  ASSUME MemoryTyped, Separated, StringsTerminated, NEW bs, Release(bs),
         \A o \in Blocks : o \notin bs => StringsOf(obj[o]) \cap bs = {},
         mine' \subseteq mine \ bs
  PROVE  /\ MemoryTyped' /\ Separated' /\ StringsTerminated'
         /\ mem' = mem \ bs
         /\ \A o \in Blocks : obj'[o] = IF o \in bs THEN NoObject ELSE obj[o]
<1>1. /\ mem' = mem \ bs
      /\ str' = [b \in Blocks |-> IF b \in bs THEN Blank ELSE str[b]]
      /\ obj' = [b \in Blocks |-> IF b \in bs THEN NoObject ELSE obj[b]]
  BY DEF Release
<1>2. \A o \in Blocks : obj'[o] = IF o \in bs THEN NoObject ELSE obj[o]
  BY <1>1
<1>3. MemoryTyped'
  <2>1. str' \in [Blocks -> Strs]
    BY <1>1, BlankIs DEF MemoryTyped
  <2>2. obj' \in [Blocks -> ObjectRecords]
    BY <1>1, NoObjectHas DEF MemoryTyped
  <2> QED BY <1>1, <2>1, <2>2 DEF MemoryTyped
<1>4. StringsTerminated'
  BY <1>1, BlankIs DEF StringsTerminated
<1>5. \A o \in Blocks : StringsOf(obj'[o]) = IF o \in bs THEN {} ELSE StringsOf(obj[o])
  BY <1>2, NoObjectHas
<1>6. Separated'
  BY <1>1, <1>2, <1>5 DEF Separated
<1> QED BY <1>1, <1>2, <1>3, <1>4, <1>6

(* What the application does leaves no call running and the table alone. *)
LEMMA NoCallKeeps ==
  ASSUME OInv, UNCHANGED <<call, table>>, call = NoCall
  PROVE  CallApart' /\ RowsTyped'
BY DEF OInv, CallApart, RowsTyped, NoCall

(* The texts the application uses are byte sequences. *)
LEMMA Texts0 == \A b \in Texts : b \in Seq(Int)
<1> SUFFICES ASSUME NEW b \in Texts PROVE b \in Seq(Int)
  OBVIOUS
<1>1. b \in Seq(0..255) /\ 0..255 \subseteq Int
  BY TextsAssumption
<1> QED BY <1>1, SeqMonotonic

(* csorma_str_new, by the application. *)
LEMMA StepNewString ==
  ASSUME OInv, NEW b \in Texts, NewString(b)
  PROVE  OInv'
<1> DEFINE f == Fresh(1)
<1>1. f \in Blocks \ mem
  BY FreshOne DEF NewString
<1>2. call = NoCall /\ UNCHANGED <<obj, list, call, table>>
      /\ mem' = mem \cup {f} /\ mine' = mine \cup {f}
      /\ (str' = [str EXCEPT ![f] = Con(Blank, b)] \/ str' = [str EXCEPT ![f] = ConFails(Blank)])
  BY DEF NewString, App, AppReallocFails, Acts
<1>3. Con(Blank, b) \in Strs /\ Terminated(Con(Blank, b))
  BY BlankIs, ConIs, Texts0
<1>4. ConFails(Blank) = Blank
  BY DEF ConFails, Blank
<1> HIDE DEF f
<1>5. str' \in [Blocks -> Strs] /\ \A x \in Blocks : Terminated(str'[x])
  BY <1>1, <1>2, <1>3, <1>4, BlankIs DEF OInv, MemoryTyped, StringsTerminated
<1>6. MemoryTyped' /\ StringsTerminated'
  BY <1>1, <1>2, <1>5 DEF OInv, MemoryTyped, StringsTerminated
<1>7. Separated'
  BY <1>1, <1>2 DEF OInv, Separated
<1>8. ListApart'
  BY <1>1, <1>2 DEF OInv, ListApart, Separated
<1> QED BY <1>2, <1>6, <1>7, <1>8, NoCallKeeps DEF OInv

(* csorma_str_con2, by the application, its realloc failing or not. *)
LEMMA StepExtend ==
  ASSUME OInv, NEW b \in Texts, NEW s \in mine, Extend(s, b)
  PROVE  OInv'
<1>1. s \in Blocks /\ str[s] \in Strs /\ Terminated(str[s])
  BY DEF OInv, MemoryTyped, StringsTerminated
<1>2. call = NoCall /\ UNCHANGED <<obj, mine, list, call, table>>
      /\ (str' = [str EXCEPT ![s] = Con(@, b)] \/ str' = [str EXCEPT ![s] = ConFails(@)])
  BY DEF Extend, App, AppReallocFails, Acts
<1>3. mem \subseteq mem' /\ mem' \subseteq Blocks
  <2>1. CASE UNCHANGED mem
    BY <2>1 DEF OInv, MemoryTyped
  <2>2. CASE Room(1) /\ mem' = mem \cup {Fresh(1)}
    BY <2>2, FreshOne DEF OInv, MemoryTyped
  <2> QED BY <2>1, <2>2 DEF Extend
<1>4. Con(str[s], b) \in Strs /\ Terminated(Con(str[s], b))
  BY <1>1, ConIs, Texts0
<1>5. ConFails(str[s]) \in Strs /\ Terminated(ConFails(str[s]))
  BY <1>1, EmptySeq DEF ConFails, Strs, Terminated, Null
<1>6. str' \in [Blocks -> Strs] /\ \A x \in Blocks : Terminated(str'[x])
  BY <1>1, <1>2, <1>4, <1>5 DEF OInv, MemoryTyped, StringsTerminated
<1>7. MemoryTyped' /\ StringsTerminated'
  BY <1>2, <1>3, <1>6 DEF OInv, MemoryTyped, StringsTerminated
<1>8. Separated'
  BY <1>2, <1>3 DEF OInv, Separated
<1>9. ListApart'
  BY <1>2, <1>3 DEF OInv, ListApart
<1> QED BY <1>2, <1>7, <1>8, <1>9, NoCallKeeps DEF OInv

(* An object that is made, or gets strings that nobody else holds.         *)
LEMMA ChangeKeeps ==
  ASSUME MemoryTyped, Separated, NEW o \in Blocks, NEW r \in ObjectRecords, NEW add,
         obj' = [obj EXCEPT ![o] = r], r # NoObject,
         StringsOf(r) \subseteq StringsOf(obj[o]) \cup add,
         mem \subseteq mem', mem' \subseteq Blocks, o \in mem',
         add \subseteq mem' \ mine', o \notin add,
         \A x \in add : obj[x] = NoObject,
         \A p \in Blocks : /\ o \notin StringsOf(obj[p])
                           /\ StringsOf(obj[p]) \cap (mine' \cup add) = {}
  PROVE  /\ obj' \in [Blocks -> ObjectRecords] /\ Separated'
         /\ \A p \in Blocks : obj'[p] = IF p = o THEN r ELSE obj[p]
<1>1. obj' \in [Blocks -> ObjectRecords]
  BY DEF MemoryTyped
<1>2. \A p \in Blocks : obj'[p] = IF p = o THEN r ELSE obj[p]
  BY DEF MemoryTyped
<1>3. \A p \in Blocks : StringsOf(obj'[p]) = IF p = o THEN StringsOf(r) ELSE StringsOf(obj[p])
  BY <1>2
<1>4. \A p \in Blocks : StringsOf(obj'[p]) \subseteq mem' \ mine'
  BY <1>3 DEF Separated
<1>5. \A p, q \in Blocks : p # q => StringsOf(obj'[p]) \cap StringsOf(obj'[q]) = {}
  BY <1>3 DEF Separated
<1>6. \A p \in Blocks : obj'[p] # NoObject =>
        p \in mem' /\ \A q \in Blocks : p \notin StringsOf(obj'[q])
  BY <1>2, <1>3 DEF Separated
<1> QED BY <1>1, <1>2, <1>4, <1>5, <1>6 DEF Separated

(* Making an object may lose a text of it, and a block with that.          *)
LEMMA NewIs ==
  ASSUME NEW made \in Made, New(made)
  PROVE  /\ call = NoCall
         /\ \E gone \in SUBSET TextNames, leak \in SUBSET (Blocks \ mem) :
              /\ Fresh(1) \notin leak /\ NewWith(made, gone, leak)
              /\ trouble' = TRUE \/ (UNCHANGED trouble /\ gone = {})
<1>1. call = NoCall
  BY DEF New, App, AppReallocFails, Acts
<1>2. CASE App /\ NewWith(made, {}, {})
  BY <1>1, <1>2 DEF App
<1>3. ASSUME AppReallocFails, NEW clause \in Clauses(made), NewWith(made, {clause}, {})
      PROVE  \E gone \in SUBSET TextNames, leak \in SUBSET (Blocks \ mem) :
               Fresh(1) \notin leak /\ NewWith(made, gone, leak) /\ trouble' = TRUE
  <2>1. {clause} \in SUBSET TextNames
    BY DEF Clauses, Made, TextNames
  <2> QED BY <1>3, <2>1 DEF AppReallocFails
<1>4. ASSUME AppReallocFails, Room(2), NewWith(made, {"start"}, {Fresh(2)})
      PROVE  \E gone \in SUBSET TextNames, leak \in SUBSET (Blocks \ mem) :
               Fresh(1) \notin leak /\ NewWith(made, gone, leak) /\ trouble' = TRUE
  <2>1. Room(1)
    BY <1>4 DEF NewWith
  <2>2. 1 \in Nat \ {0} /\ 2 \in Nat \ {0} /\ 1 # 2
    OBVIOUS
  <2>3. Fresh(2) \in Blocks \ mem /\ Fresh(1) # Fresh(2)
    BY <1>4, <2>1, <2>2, FreshIs, FreshDiffer, Zenon
  <2>4. {"start"} \in SUBSET TextNames /\ {Fresh(2)} \in SUBSET (Blocks \ mem)
        /\ Fresh(1) \notin {Fresh(2)}
    BY <2>3 DEF TextNames
  <2> QED BY <1>4, <2>4 DEF AppReallocFails
<1> QED BY <1>1, <1>2, <1>3, <1>4 DEF New

(* The generated function that makes a table object. *)
LEMMA StepNew ==
  ASSUME OInv, NEW made \in Made, New(made)
  PROVE  OInv'
<1> PICK gone \in SUBSET TextNames, leak \in SUBSET (Blocks \ mem) :
      Fresh(1) \notin leak /\ NewWith(made, gone, leak)
  BY NewIs
<1> DEFINE f == Fresh(1)
           r == [NoObject EXCEPT !.made = made, !.gone = gone]
<1>1. f \in Blocks \ mem
  BY FreshOne DEF NewWith
<1>2. call = NoCall /\ UNCHANGED <<str, list, call, table>>
      /\ mem' = mem \cup {f} \cup leak /\ mine' = mine \cup {f}
      /\ obj' = [obj EXCEPT ![f] = r]
  BY NewIs DEF NewWith
<1>3. r \in ObjectRecords /\ StringsOf(r) = {} /\ r # NoObject
  BY NewHas
<1> HIDE DEF f, r
<1>4. mem' \subseteq Blocks /\ mine' \subseteq mem'
  BY <1>1, <1>2 DEF OInv, MemoryTyped
<1>5. \A p \in Blocks : f \notin StringsOf(obj[p]) /\ StringsOf(obj[p]) \cap mine' = {}
  BY <1>1, <1>2 DEF OInv, Separated
<1>6. /\ obj' \in [Blocks -> ObjectRecords] /\ Separated'
      /\ \A p \in Blocks : obj'[p] = IF p = f THEN r ELSE obj[p]
  <2> DEFINE none == {}
  <2>1. /\ none \subseteq mem' \ mine' /\ f \notin none /\ \A x \in none : obj[x] = NoObject
        /\ StringsOf(r) \subseteq StringsOf(obj[f]) \cup none
        /\ \A p \in Blocks : StringsOf(obj[p]) \cap (mine' \cup none) = {}
    BY <1>3, <1>5
  <2> HIDE DEF none
  <2>2. mem \subseteq mem' /\ f \in mem'
    BY <1>2
  <2> QED BY <1>1, <1>2, <1>3, <1>4, <1>5, <2>1, <2>2, ChangeKeeps DEF OInv
<1>7. MemoryTyped' /\ StringsTerminated'
  BY <1>2, <1>4, <1>6 DEF OInv, MemoryTyped, StringsTerminated
<1>8. ListApart'
  <2>1. \A p \in Blocks : StringsOf(obj'[p]) \subseteq StringsOf(obj[p])
    BY <1>3, <1>6
  <2> QED BY <1>1, <1>2, <1>3, <1>6, <2>1 DEF OInv, ListApart, Separated
<1> QED BY <1>2, <1>6, <1>7, <1>8, NoCallKeeps DEF OInv

(* The application gives a string of its own to an object of its own.      *)
LEMMA GiveKeeps ==
  ASSUME OInv, NEW o \in mine, NEW s \in mine, NEW r \in ObjectRecords,
         obj[o] # NoObject, obj[s] = NoObject, r # NoObject,
         StringsOf(r) \subseteq StringsOf(obj[o]) \cup {s},
         obj' = [obj EXCEPT ![o] = r], mine' = mine \ {s},
         mem \subseteq mem', mem' \subseteq Blocks,
         UNCHANGED <<str, list, call, table>>, call = NoCall
  PROVE  OInv'
<1>1. o \in Blocks /\ s \in Blocks /\ o \in mem' /\ s \in mem' /\ o # s
  BY DEF OInv, MemoryTyped
<1>2. \A p \in Blocks : /\ o \notin StringsOf(obj[p]) /\ s \notin StringsOf(obj[p])
                        /\ StringsOf(obj[p]) \cap mine' = {}
  BY DEF OInv, Separated
<1>3. /\ obj' \in [Blocks -> ObjectRecords] /\ Separated'
      /\ \A p \in Blocks : obj'[p] = IF p = o THEN r ELSE obj[p]
  <2> DEFINE add == {s}
  <2>1. /\ add \subseteq mem' \ mine' /\ o \notin add /\ \A x \in add : obj[x] = NoObject
        /\ StringsOf(r) \subseteq StringsOf(obj[o]) \cup add
        /\ \A p \in Blocks : StringsOf(obj[p]) \cap (mine' \cup add) = {}
    BY <1>1, <1>2
  <2> HIDE DEF add
  <2> QED BY <1>1, <1>2, <2>1, ChangeKeeps DEF OInv
<1>4. MemoryTyped' /\ StringsTerminated'
  BY <1>3 DEF OInv, MemoryTyped, StringsTerminated
<1>5. \A p \in Blocks : StringsOf(obj'[p]) \subseteq StringsOf(obj[p]) \cup {s}
  BY <1>3
<1>6. ListApart'
  BY <1>1, <1>3, <1>5 DEF OInv, ListApart
<1> QED BY <1>3, <1>4, <1>6, NoCallKeeps DEF OInv

(* A string in a column of an object that will be inserted. *)
LEMMA StepSetColumn ==
  ASSUME OInv, NEW o \in mine \cap Objects, NEW s \in mine \ Objects, NEW c \in Cols,
         SetColumn(o, c, s)
  PROVE  OInv'
<1> DEFINE r == [obj[o] EXCEPT !.cols[c] = s]
<1>1. o \in Blocks /\ s \in Blocks /\ obj[o] \in ObjectRecords /\ obj[o].made = "new"
      /\ obj[o] # NoObject /\ obj[s] = NoObject
  BY DEF OInv, MemoryTyped, SetColumn, Objects
<1>2. r \in ObjectRecords /\ StringsOf(r) \subseteq StringsOf(obj[o]) \cup {s} /\ r.made = "new"
  BY <1>1, ColumnAdds
<1>3. r # NoObject
  BY <1>2, NoObjectHas
<1>4. obj' = [obj EXCEPT ![o] = r]
  BY DEF SetColumn
<1>5. call = NoCall /\ UNCHANGED <<mem, str, list, call, table>> /\ mine' = mine \ {s}
  BY DEF SetColumn, App, Acts, memory
<1>6. mem \subseteq mem' /\ mem' \subseteq Blocks
  BY <1>5 DEF OInv, MemoryTyped
<1> HIDE DEF r
<1> QED BY <1>1, <1>2, <1>3, <1>4, <1>5, <1>6, GiveKeeps

(* A term of a SET or a WHERE clause, its text lost or not. *)
LEMMA StepAddTerm ==
  ASSUME OInv, NEW o \in mine \cap Objects, NEW s \in mine \ Objects, NEW c \in Cols,
         NEW clause \in {"set", "where"}, AddTerm(o, clause, c, s)
  PROVE  OInv'
<1> DEFINE r == IF clause = "set" THEN [obj[o] EXCEPT !.set = Append(@, <<c, s>>)]
                ELSE [obj[o] EXCEPT !.where = Append(@, <<c, s>>)]
           q == [r EXCEPT !.gone = @ \cup {clause}]
<1>1. o \in Blocks /\ s \in Blocks /\ obj[o] \in ObjectRecords
      /\ obj[o].made \in {"select", "update", "delete"}
      /\ obj[o] # NoObject /\ obj[s] = NoObject
  BY DEF OInv, MemoryTyped, AddTerm, Objects
<1>2. r \in ObjectRecords /\ StringsOf(r) \subseteq StringsOf(obj[o]) \cup {s}
      /\ r.made = obj[o].made
  <2> DEFINE t == <<c, s>>
  <2>1. t \in Cols \X Blocks /\ t[2] = s
    BY <1>1
  <2> HIDE DEF t
  <2>2. CASE clause = "set"
    <3>1. r = [obj[o] EXCEPT !.set = Append(@, t)]
      BY <2>2 DEF t
    <3> HIDE DEF r
    <3> QED BY <1>1, <2>1, <3>1, SetAdds
  <2>3. CASE clause = "where"
    <3>1. r = [obj[o] EXCEPT !.where = Append(@, t)]
      BY <2>3 DEF t
    <3> HIDE DEF r
    <3> QED BY <1>1, <2>1, <3>1, WhereAdds
  <2> QED BY <2>2, <2>3
<1>3. \/ obj' = [obj EXCEPT ![o] = r] /\ UNCHANGED mem
      \/ /\ obj' = [[obj EXCEPT ![o] = r] EXCEPT ![o].gone = @ \cup {clause}]
         /\ Room(1) /\ mem' = mem \cup {Fresh(1)}
  BY DEF AddTerm
<1>4. call = NoCall /\ UNCHANGED <<str, list, call, table>> /\ mine' = mine \ {s}
  BY DEF AddTerm, App, AppReallocFails, Acts
<1> HIDE DEF r
<1>5. q \in ObjectRecords /\ StringsOf(q) = StringsOf(r) /\ q.made = r.made
  BY <1>2, GoneKeeps
<1>6. \/ obj' = [obj EXCEPT ![o] = r] /\ UNCHANGED mem
      \/ obj' = [obj EXCEPT ![o] = q] /\ Room(1) /\ mem' = mem \cup {Fresh(1)}
  BY <1>1, <1>3 DEF OInv, MemoryTyped
<1>7. r # NoObject /\ q # NoObject
  BY <1>1, <1>2, <1>5, NoObjectHas
<1> HIDE DEF q
<1>8. CASE obj' = [obj EXCEPT ![o] = r] /\ UNCHANGED mem
  <2>1. mem \subseteq mem' /\ mem' \subseteq Blocks
    BY <1>8 DEF OInv, MemoryTyped
  <2> QED BY <1>1, <1>2, <1>4, <1>7, <1>8, <2>1, GiveKeeps
<1>9. CASE obj' = [obj EXCEPT ![o] = q] /\ Room(1) /\ mem' = mem \cup {Fresh(1)}
  <2>1. mem \subseteq mem' /\ mem' \subseteq Blocks
    BY <1>9, FreshOne DEF OInv, MemoryTyped
  <2> QED BY <1>1, <1>2, <1>4, <1>5, <1>7, <1>9, <2>1, GiveKeeps
<1> QED BY <1>6, <1>8, <1>9

(* orma_free_T, by the application. *)
LEMMA StepFree ==
  ASSUME OInv, NEW b \in mine, Free(b)
  PROVE  OInv'
<1> DEFINE bs == IF b \in Objects THEN BlocksOf(b) ELSE {b}
<1>1. call = NoCall /\ UNCHANGED <<list, call, table>> /\ mine' = mine \ {b} /\ Release(bs)
  BY DEF Free, App, Acts
<1>2. b \in Blocks
  BY DEF OInv, MemoryTyped
<1>3. bs = {b} \cup StringsOf(obj[b])
  BY <1>2, StringsAre, NoObjectHas DEF Objects
<1> HIDE DEF bs
<1>4. \A o \in Blocks : b \notin StringsOf(obj[o]) /\ StringsOf(obj[o]) \cap mine = {}
  BY DEF OInv, Separated
<1>5. \A o \in Blocks : o \notin bs => StringsOf(obj[o]) \cap bs = {}
  BY <1>2, <1>3, <1>4 DEF OInv, Separated
<1>6. mine' \subseteq mine \ bs
  BY <1>1, <1>2, <1>3, <1>4
<1>7. /\ MemoryTyped' /\ Separated' /\ StringsTerminated' /\ mem' = mem \ bs
      /\ \A o \in Blocks : obj'[o] = IF o \in bs THEN NoObject ELSE obj[o]
  BY <1>1, <1>5, <1>6, ReleaseKeeps DEF OInv
<1>8. ListApart'
  <2>1. \A o \in Blocks : StringsOf(obj'[o]) \subseteq StringsOf(obj[o])
    BY <1>7, NoObjectHas
  <2>2. list.l # NoBlock => list.l \notin bs
    BY <1>2, <1>3 DEF OInv, ListApart
  <2>3. \A o \in ToSet(list.items) : o \notin bs
    BY <1>2, <1>3 DEF OInv, ListApart, Separated
  <2> QED BY <1>1, <1>6, <1>7, <2>1, <2>2, <2>3 DEF OInv, ListApart
<1> QED BY <1>1, <1>7, <1>8, NoCallKeeps DEF OInv

(* orma_free_TList, by the application. *)
LEMMA StepFreeList ==
  ASSUME OInv, FreeList
  PROVE  OInv'
<1> DEFINE bs == {list.l} \cup UNION {BlocksOf(o) : o \in ToSet(list.items)}
<1>1. call = NoCall /\ UNCHANGED <<mine, call, table>> /\ list' = NoList /\ Release(bs)
  BY DEF FreeList, App, Acts
<1>2. \A x : x \in bs <=> \/ x = list.l \/ x \in ToSet(list.items)
                          \/ \E o \in ToSet(list.items) : x \in StringsOf(obj[o])
  BY StringsAre
<1> HIDE DEF bs
<1>3. \A o \in ToSet(list.items) : o \in Blocks \ mine /\ obj[o] # NoObject
  BY DEF OInv, ListApart
<1>4. \A o \in Blocks : NoBlock \notin StringsOf(obj[o])
  BY DEF OInv, Separated, MemoryTyped, Blocks, NoBlock
<1>5. \A o \in Blocks : list.l \notin StringsOf(obj[o])
  BY <1>4 DEF OInv, ListApart
<1>6. \A o \in Blocks : o \notin bs => StringsOf(obj[o]) \cap bs = {}
  <2> SUFFICES ASSUME NEW o \in Blocks, o \notin bs, NEW x \in StringsOf(obj[o]) PROVE x \notin bs
    OBVIOUS
  <2>1. x # list.l
    BY <1>5
  <2>2. x \notin ToSet(list.items)
    BY <1>3 DEF OInv, Separated
  <2>3. \A p \in ToSet(list.items) : p # o /\ p \in Blocks
    BY <1>2, <1>3
  <2>4. \A p \in ToSet(list.items) : x \notin StringsOf(obj[p])
    BY <2>3 DEF OInv, Separated
  <2> QED BY <1>2, <2>1, <2>2, <2>4
<1>7. mine \cap bs = {}
  <2> SUFFICES ASSUME NEW x \in mine PROVE x \notin bs
    OBVIOUS
  <2>1. x # list.l
    BY DEF OInv, ListApart, MemoryTyped, Blocks, NoBlock
  <2>2. \A p \in ToSet(list.items) : x # p /\ x \notin StringsOf(obj[p])
    BY <1>3 DEF OInv, Separated
  <2> QED BY <1>2, <2>1, <2>2
<1>8. MemoryTyped' /\ Separated' /\ StringsTerminated'
  BY <1>1, <1>6, <1>7, ReleaseKeeps DEF OInv
<1>9. ListApart'
  <2>1. NoList.l = NoBlock /\ NoList.items = <<>> /\ ToSet(<<>>) = {}
    BY DEF NoList, ToSet
  <2>2. NoList \in [l : Blocks \cup {NoBlock}, items : Seq(Blocks)]
    BY EmptySeq DEF NoList
  <2> QED BY <1>1, <2>1, <2>2 DEF ListApart
<1> QED BY <1>1, <1>8, <1>9, NoCallKeeps DEF OInv

-----------------------------------------------------------------------------
(* The call. *)

(* The columns are numbered from 1. *)
LEMMA ColsAre == Len(Columns) \in Nat /\ Cols = 1..Len(Columns)
BY ColumnsAssumption DEF Cols

(* What a call binds are texts. *)
LEMMA BoundIs ==
  ASSUME MemoryTyped, StringsTerminated, NEW s \in {NoBlock} \cup Blocks
  PROVE  Bound[s] \in Seq(Int)
<1>1. Bound[s] = Value(s)
  BY DEF Bound
<1>2. DbNull \in Seq(Int)
  BY DEF DbNull
<1>3. CASE s = NoBlock
  BY <1>1, <1>2, <1>3 DEF Value
<1>4. CASE s # NoBlock /\ str[s].s # Null
  <2>1. str[s] \in Strs /\ Terminated(str[s])
    BY <1>4 DEF MemoryTyped, StringsTerminated
  <2>2. TextOf(str[s]) \in Seq(Int)
    BY <1>4, <2>1, TextIs
  <2> QED BY <1>1, <1>4, <2>2 DEF Value
<1>5. CASE s # NoBlock /\ str[s].s = Null
  BY <1>1, <1>2, <1>5 DEF Value
<1> QED BY <1>3, <1>4, <1>5

(* The rows that a WHERE clause selects are rows of the table. *)
LEMMA HitsAre == \A o : \A r \in Hits(o) : r \in RowIds /\ table[r] # NoRow
BY DEF Hits, Matching

(* A call binds strings of its own object only. *)
LEMMA BoundByIs == \A o, fn : BoundBy(o, fn) \subseteq StringsOf(obj[o])
<1> SUFFICES ASSUME NEW o, NEW fn PROVE BoundBy(o, fn) \subseteq StringsOf(obj[o])
  OBVIOUS
<1>1. Strings(o) = StringsOf(obj[o])
  BY StringsAre
<1>2. {b[2] : b \in ToSet(obj[o].where)} \subseteq StringsOf(obj[o])
  BY DEF StringsOf
<1> QED BY <1>1, <1>2 DEF BoundBy

(* A call has room for its text and its list. *)
LEMMA PreparedFresh ==
  ASSUME NEW o, NEW fn, NEW refused, NEW leak, Prepare(o, fn, refused, leak)
  PROVE  Fresh(1) \in Blocks \ mem /\ Fresh(2) \in Blocks \ mem /\ Fresh(1) # Fresh(2)
<1> DEFINE hits == IF fn = "toList" THEN Hits(o) ELSE {}
           n == Cardinality(hits) * (1 + Len(Columns))
<1>1. \A r \in hits : r \in RowIds
  BY HitsAre
<1>2. Room(2 + n)
  BY DEF Prepare
<1>3. Cardinality(hits) \in Nat
  <2>1. IsFiniteSet(RowIds)
    BY FS_Interval DEF RowIds
  <2>2. IsFiniteSet(hits)
    BY <1>1, <2>1, FS_Subset
  <2> QED BY <2>2, FS_CardinalityType
<1>4. n \in Nat
  BY <1>3, ColsAre
<1> HIDE DEF n
<1>5. 2 + n \in Nat /\ 1 <= 2 + n /\ 2 <= 2 + n /\ Room(2 + n)
  BY <1>2, <1>4
<1>6. Room(1) /\ Room(2)
  BY <1>5, RoomForLess
<1>7. 1 \in Nat \ {0} /\ 2 \in Nat \ {0} /\ 1 # 2
  OBVIOUS
<1> QED BY <1>6, <1>7, FreshIs, FreshDiffer, Zenon

(* What starts a call: one that a failed realloc spoils is refused and     *)
(* loses a block.                                                          *)
LEMMA StartIs ==
  ASSUME NEW o, NEW fn, Start(o, fn)
  PROVE  /\ call = NoCall
         /\ \E refused \in BOOLEAN, leak \in SUBSET (Blocks \ mem) :
              /\ Fresh(1) \notin leak /\ Fresh(2) \notin leak
              /\ Prepare(o, fn, refused, leak)
              /\ UNCHANGED trouble \/ (trouble' = TRUE /\ refused)
<1>1. call = NoCall
  BY DEF Start, App, AppReallocFails, Acts
<1>2. ASSUME AppReallocFails, Room(3), Prepare(o, fn, TRUE, {Fresh(3)})
      PROVE  \E leak \in SUBSET (Blocks \ mem) :
               /\ Fresh(1) \notin leak /\ Fresh(2) \notin leak
               /\ Prepare(o, fn, TRUE, leak) /\ trouble' = TRUE
  <2>1. /\ 1 \in Nat \ {0} /\ 2 \in Nat \ {0} /\ 3 \in Nat \ {0}
        /\ 1 # 3 /\ 2 # 3 /\ 1 \in Nat /\ 2 \in Nat /\ 3 \in Nat /\ 1 <= 3 /\ 2 <= 3
    OBVIOUS
  <2>2. Room(1) /\ Room(2)
    BY <1>2, <2>1, RoomForLess
  <2>3. Fresh(3) \in Blocks \ mem /\ Fresh(1) # Fresh(3) /\ Fresh(2) # Fresh(3)
    BY <1>2, <2>1, <2>2, FreshIs, FreshDiffer, Zenon
  <2>4. {Fresh(3)} \in SUBSET (Blocks \ mem)
        /\ Fresh(1) \notin {Fresh(3)} /\ Fresh(2) \notin {Fresh(3)}
    BY <2>3
  <2> QED BY <1>2, <2>4 DEF AppReallocFails
<1>3. ASSUME NEW refused \in BOOLEAN, Prepare(o, fn, refused, {}), UNCHANGED trouble
      PROVE  \E leak \in SUBSET (Blocks \ mem) :
               /\ Fresh(1) \notin leak /\ Fresh(2) \notin leak
               /\ Prepare(o, fn, refused, leak)
  BY <1>3
<1> QED BY <1>1, <1>2, <1>3 DEF Start, App

(* The first part of every call: its text, its statement, its strings bound. *)
LEMMA StepPrepare ==
  ASSUME OInv, NEW o \in mine, NEW fn \in {"insert", "toList", "count", "execute"},
         NEW refused \in BOOLEAN, NEW leak \in SUBSET (Blocks \ mem),
         Fresh(1) \notin leak, Fresh(2) \notin leak,
         call = NoCall, Prepare(o, fn, refused, leak)
  PROVE  OInv'
<1> DEFINE hits == IF fn = "toList" THEN Hits(o) ELSE {}
           f == Fresh(1)
           g == Fresh(2)
<1>1. o \in Blocks /\ obj[o] # NoObject /\ obj[o] \in ObjectRecords
  BY DEF OInv, MemoryTyped, Prepare, Objects
<1>2. \A r \in hits : r \in RowIds /\ table[r] # NoRow
  BY HitsAre
<1>4. f \in Blocks \ mem /\ g \in Blocks \ mem /\ f # g
  BY PreparedFresh
<1>5. call' = [fn |-> fn, at |-> IF refused THEN "finalize" ELSE "step",
               o |-> o, txt |-> f, bound |-> IF refused THEN {} ELSE BoundBy(o, fn),
               left |-> hits, failed |-> refused]
  BY DEF Prepare
<1>6. /\ fn = "toList" => /\ list = NoList /\ list' = [l |-> g, items |-> <<>>]
                          /\ mem' = mem \cup {f, g} \cup leak
      /\ fn # "toList" => UNCHANGED list /\ mem' = mem \cup {f} \cup leak
      /\ fn = "insert" => obj' = [obj EXCEPT ![o].made = "inserted"] /\ UNCHANGED mine
      /\ fn # "insert" => UNCHANGED obj /\ mine' = mine \ {o}
      /\ UNCHANGED <<str, table>>
  BY DEF Prepare
<1> HIDE DEF hits, f, g
<1>7. /\ obj' \in [Blocks -> ObjectRecords]
      /\ \A p \in Blocks : /\ StringsOf(obj'[p]) = StringsOf(obj[p])
                           /\ obj'[p] = NoObject <=> obj[p] = NoObject
  <2>1. CASE fn = "insert"
    <3> DEFINE r == [obj[o] EXCEPT !.made = "inserted"]
    <3>1. r \in ObjectRecords /\ StringsOf(r) = StringsOf(obj[o]) /\ r.made = "inserted"
      BY <1>1, MadeKeeps DEF Kinds
    <3>2. r # NoObject
      BY <3>1, NoObjectHas
    <3>3. obj' = [obj EXCEPT ![o] = r]
      BY <1>6, <2>1
    <3> HIDE DEF r
    <3> QED BY <1>1, <3>1, <3>2, <3>3 DEF OInv, MemoryTyped
  <2>2. CASE fn # "insert"
    BY <1>6, <2>2 DEF OInv, MemoryTyped
  <2> QED BY <2>1, <2>2
<1>8. mem \subseteq mem' /\ mem' \subseteq Blocks /\ f \in mem' /\ mine' \subseteq mine
      /\ mem' \subseteq mem \cup {f, g} \cup leak
  BY <1>4, <1>6 DEF OInv, MemoryTyped
<1>9. MemoryTyped' /\ StringsTerminated'
  BY <1>6, <1>7, <1>8 DEF OInv, MemoryTyped, StringsTerminated
<1>10. Separated'
  BY <1>7, <1>8 DEF OInv, Separated
<1>11. \A p \in Blocks : f \notin StringsOf(obj[p]) /\ g \notin StringsOf(obj[p])
  BY <1>4 DEF OInv, Separated
<1>12. obj[f] = NoObject /\ obj[g] = NoObject /\ f \notin mine /\ g \notin mine
  BY <1>4 DEF OInv, Separated, MemoryTyped
<1>13. ListApart' /\ o \notin ToSet(list'.items) /\ list'.l # f
  <2>1. CASE fn = "toList"
    <3>1. list'.l = g /\ list'.items = <<>> /\ ToSet(<<>>) = {}
      BY <1>6, <2>1 DEF ToSet
    <3>2. list' \in [l : Blocks \cup {NoBlock}, items : Seq(Blocks)]
      <4> DEFINE e == <<>>
      <4>1. e \in Seq(Blocks) /\ list' = [l |-> g, items |-> e]
        BY <1>6, <2>1, EmptySeq
      <4> HIDE DEF e
      <4> QED BY <1>4, <4>1
    <3> QED BY <1>4, <1>6, <1>7, <1>8, <1>11, <1>12, <2>1, <3>1, <3>2 DEF ListApart
  <2>2. CASE fn # "toList"
    <3>1. ListApart'
      BY <1>6, <1>7, <1>8, <2>2 DEF OInv, ListApart
    <3>2. o \notin ToSet(list.items) /\ list.l # f
      BY <1>4, <1>8 DEF OInv, ListApart, MemoryTyped, Blocks, NoBlock
    <3> QED BY <1>6, <2>2, <3>1, <3>2
  <2> QED BY <2>1, <2>2
<1>14. /\ call'.fn = fn /\ call'.o = o /\ call'.txt = f /\ call'.left = hits
       /\ call'.bound \subseteq StringsOf(obj[o])
       /\ call' \in [fn : Calls, at : Places, o : Blocks \cup {NoBlock},
                     txt : Blocks \cup {NoBlock}, bound : SUBSET Blocks,
                     left : SUBSET RowIds, failed : BOOLEAN]
  <2> DEFINE bound == IF refused THEN {} ELSE BoundBy(o, fn)
             at == IF refused THEN "finalize" ELSE "step"
  <2>1. bound \subseteq StringsOf(obj[o])
    BY BoundByIs
  <2>2. bound \subseteq Blocks
    BY <1>1, <2>1 DEF OInv, Separated, MemoryTyped
  <2>3. fn \in Calls /\ at \in Places /\ hits \subseteq RowIds
    BY <1>2 DEF Calls, Places
  <2> HIDE DEF bound, at
  <2>4. call' = [fn |-> fn, at |-> at, o |-> o, txt |-> f, bound |-> bound,
                 left |-> hits, failed |-> refused]
    BY <1>5 DEF bound, at
  <2> QED BY <1>1, <1>4, <2>1, <2>2, <2>3, <2>4
<1>15. CallApart'
  <2>1. call'.fn # "insert" => call'.o \notin mine'
    BY <1>6, <1>14
  <2> QED BY <1>1, <1>7, <1>8, <1>11, <1>12, <1>13, <1>14, <2>1 DEF CallApart
<1>16. RowsTyped'
  BY <1>2, <1>6, <1>14 DEF OInv, RowsTyped, hits
<1> QED BY <1>9, <1>10, <1>13, <1>15, <1>16 DEF OInv

(* Each of the four calls starts with that part. *)
LEMMA StepStart ==
  ASSUME OInv, NEW o \in mine, NEW fn \in {"insert", "toList", "count", "execute"},
         Start(o, fn)
  PROVE  OInv'
<1> PICK refused \in BOOLEAN, leak \in SUBSET (Blocks \ mem) :
      /\ Fresh(1) \notin leak /\ Fresh(2) \notin leak
      /\ Prepare(o, fn, refused, leak)
  BY StartIs
<1> QED BY StartIs, StepPrepare

(* A step of the running call that leaves memory and application alone.    *)
LEMMA CallKeeps ==
  ASSUME OInv, call # NoCall, UNCHANGED <<mem, str, obj, mine, list>>,
         call'.o = call.o, call'.txt = call.txt, call'.fn = call.fn,
         call'.bound \subseteq call.bound, call'.left \subseteq call.left,
         call' \in [fn : Calls, at : Places, o : Blocks \cup {NoBlock},
                   txt : Blocks \cup {NoBlock}, bound : SUBSET Blocks,
                   left : SUBSET RowIds, failed : BOOLEAN],
         table' \in [RowIds -> Rows],
         UNCHANGED table \/ call.fn # "toList"
  PROVE  OInv'
<1>1. MemoryTyped' /\ Separated' /\ StringsTerminated' /\ ListApart'
  BY DEF OInv, MemoryTyped, Separated, StringsTerminated, ListApart
<1>2. CallApart'
  BY DEF OInv, CallApart
<1>3. RowsTyped'
  BY DEF OInv, RowsTyped
<1> QED BY <1>1, <1>2, <1>3 DEF OInv

(* A call that stops stepping has still to finalize. *)
LEMMA StepEnds ==
  ASSUME OInv, Done \/ StepFails \/ Finalize
  PROVE  OInv'
<1>1. /\ call # NoCall /\ UNCHANGED <<mem, str, obj, mine, list, table>>
      /\ \/ call' = [call EXCEPT !.at = "finalize"]
         \/ call' = [call EXCEPT !.at = "finalize", !.failed = TRUE]
         \/ call' = [call EXCEPT !.at = "free", !.bound = {}]
  <2>1. NoCall.at = "none"
    BY DEF NoCall
  <2> QED BY <2>1 DEF Done, StepFails, Finalize, Step, Ends, memory
<1>2. call \in [fn : Calls, at : Places, o : Blocks \cup {NoBlock},
               txt : Blocks \cup {NoBlock}, bound : SUBSET Blocks,
               left : SUBSET RowIds, failed : BOOLEAN]
  BY DEF OInv, CallApart
<1>3. /\ call'.o = call.o /\ call'.txt = call.txt /\ call'.fn = call.fn
      /\ call'.bound \subseteq call.bound /\ call'.left \subseteq call.left
      /\ call' \in [fn : Calls, at : Places, o : Blocks \cup {NoBlock},
                    txt : Blocks \cup {NoBlock}, bound : SUBSET Blocks,
                    left : SUBSET RowIds, failed : BOOLEAN]
  BY <1>1, <1>2 DEF Places
<1>4. table' \in [RowIds -> Rows]
  BY <1>1 DEF OInv, RowsTyped
<1> QED BY <1>1, <1>3, <1>4, CallKeeps

(* Ending the stepping changes the place of the call and nothing else. *)
LEMMA EndsIs ==
  ASSUME OInv, Ends, call.at = "step"
  PROVE  /\ call # NoCall
         /\ call'.o = call.o /\ call'.txt = call.txt /\ call'.fn = call.fn
         /\ call'.bound \subseteq call.bound /\ call'.left \subseteq call.left
         /\ call' \in [fn : Calls, at : Places, o : Blocks \cup {NoBlock},
                       txt : Blocks \cup {NoBlock}, bound : SUBSET Blocks,
                       left : SUBSET RowIds, failed : BOOLEAN]
<1>1. call \in [fn : Calls, at : Places, o : Blocks \cup {NoBlock},
               txt : Blocks \cup {NoBlock}, bound : SUBSET Blocks,
               left : SUBSET RowIds, failed : BOOLEAN]
  BY DEF OInv, CallApart
<1>2. NoCall.at = "none"
  BY DEF NoCall
<1> QED BY <1>1, <1>2 DEF Ends, Places

(* An insert adds the row that its columns say. *)
LEMMA StepInsert ==
  ASSUME OInv, Insert
  PROVE  OInv'
<1>1. call.at = "step" /\ call.fn = "insert" /\ Ends
      /\ UNCHANGED <<mem, str, obj, mine, list>>
  BY DEF Insert, Step, memory
<1>2. call.o \in Blocks /\ obj[call.o] \in ObjectRecords
  BY <1>1, EndsIs DEF OInv, CallApart, MemoryTyped
<1> DEFINE v == [c \in Cols |-> Bound[obj[call.o].cols[c]]]
<1>3. v \in Rows
  <2>1. \A c \in Cols : obj[call.o].cols[c] \in {NoBlock} \cup Blocks
    BY <1>2 DEF ObjectRecords
  <2>2. \A c \in Cols : Bound[obj[call.o].cols[c]] \in Seq(Int)
    BY <2>1, BoundIs DEF OInv
  <2> QED BY <2>2 DEF Rows
<1>4. \E r \in RowIds : table' = [table EXCEPT ![r] = v]
  BY DEF Insert
<1> HIDE DEF v
<1>5. table' \in [RowIds -> Rows]
  BY <1>3, <1>4 DEF OInv, RowsTyped
<1> QED BY <1>1, <1>5, EndsIs, CallKeeps

(* A row that an update changed is a row. *)
LEMMA ChangedIs ==
  ASSUME MemoryTyped, StringsTerminated, NEW o \in Blocks, NEW row \in [Cols -> Seq(Int)]
  PROVE  Changed(o, row, Bound) \in Rows
<1>1. CASE obj[o].made = "delete"
  BY <1>1 DEF Changed, Rows
<1>2. CASE obj[o].made # "delete"
  <2> DEFINE ks(c) == {k \in DOMAIN obj[o].set : obj[o].set[k][1] = c}
             last(c) == CHOOSE k \in ks(c) : \A j \in ks(c) : j <= k
             val(c) == IF ks(c) = {} THEN row[c] ELSE Bound[obj[o].set[last(c)][2]]
  <2>1. Changed(o, row, Bound) = [c \in Cols |-> val(c)]
    BY <1>2 DEF Changed
  <2>2. obj[o].set \in Seq(Cols \X Blocks)
    BY DEF MemoryTyped, ObjectRecords, Terms
  <2>3. Len(obj[o].set) \in Nat /\ DOMAIN obj[o].set = 1..Len(obj[o].set)
    BY <2>2
  <2>4. ASSUME NEW c \in Cols PROVE val(c) \in Seq(Int)
    <3>1. CASE ks(c) = {}
      BY <3>1
    <3>2. CASE ks(c) # {}
      <4> DEFINE K == ks(c)
                 k == last(c)
      <4>1. K \subseteq 1..Len(obj[o].set) /\ K # {}
        BY <2>3, <3>2
      <4>2. k \in K
        <5>1. k = CHOOSE i \in K : \A j \in K : j <= i
          OBVIOUS
        <5> HIDE DEF K, k
        <5>2. \E i \in K : \A j \in K : j <= i
          BY <2>3, <4>1, Largest
        <5> QED BY <5>1, <5>2
      <4>3. k \in 1..Len(obj[o].set)
        BY <4>1, <4>2
      <4> HIDE DEF K, k
      <4>4. obj[o].set[k] \in Cols \X Blocks
        BY <2>2, <4>3, ElementOfSeq
      <4>5. obj[o].set[k][2] \in {NoBlock} \cup Blocks
        BY <4>4
      <4>6. Bound[obj[o].set[k][2]] \in Seq(Int)
        BY <4>5, BoundIs
      <4> QED BY <3>2, <4>6 DEF k
    <3> QED BY <3>1, <3>2
  <2> HIDE DEF val
  <2> QED BY <2>1, <2>4 DEF Rows
<1> QED BY <1>1, <1>2

(* An update or a delete changes the rows that its WHERE clause selects. *)
LEMMA StepExecute ==
  ASSUME OInv, Execute
  PROVE  OInv'
<1>1. call.at = "step" /\ call.fn = "execute" /\ Ends
      /\ UNCHANGED <<mem, str, obj, mine, list>>
  BY DEF Execute, Step, memory
<1>2. call.o \in Blocks
  BY <1>1, EndsIs DEF OInv, CallApart
<1>3. \A r \in RowIds : (IF r \in Hits(call.o) THEN Changed(call.o, table[r], Bound)
                        ELSE table[r]) \in Rows
  <2> SUFFICES ASSUME NEW r \in RowIds
               PROVE  (IF r \in Hits(call.o) THEN Changed(call.o, table[r], Bound)
                       ELSE table[r]) \in Rows
    OBVIOUS
  <2>1. table[r] \in Rows
    BY DEF OInv, RowsTyped
  <2>2. CASE r \in Hits(call.o)
    <3>1. table[r] \in [Cols -> Seq(Int)]
      BY <2>1, <2>2, HitsAre DEF Rows
    <3>2. Changed(call.o, table[r], Bound) \in Rows
      BY <1>2, <3>1, ChangedIs DEF OInv
    <3> QED BY <2>2, <3>2
  <2>3. CASE r \notin Hits(call.o)
    BY <2>1, <2>3
  <2> QED BY <2>2, <2>3
<1>4. table' \in [RowIds -> Rows]
  BY <1>3 DEF Execute
<1> QED BY <1>1, <1>4, EndsIs, CallKeeps

(* __rs_getString makes a terminated string of whatever the row holds. *)
LEMMA GetStringIs ==
  ASSUME NEW row \in [Cols -> Seq(Int)], NEW c \in Cols
  PROVE  GetString(row, Columns[c]) \in Strs /\ Terminated(GetString(row, Columns[c]))
<1> DEFINE i == FindColumn(Columns[c])
<1>1. i \in Cols
  <2>1. ASSUME NEW j \in 1..(c - 1)  PROVE Columns[j] # Columns[c]
    <3>1. j \in DOMAIN Columns /\ c \in DOMAIN Columns /\ j # c
      BY ColsAre DEF Cols
    <3> QED BY <3>1, ColumnsAssumption
  <2>2. /\ Columns[c] = Columns[c]
        /\ \A j \in 1..(c - 1) : Columns[j] # Columns[c]
    BY <2>1
  <2> QED BY <2>2 DEF FindColumn
<1> HIDE DEF i
<1>2. row[i] \in Seq(Int) /\ <<>> \in Seq(Int)
  BY <1>1, EmptySeq
<1>3. GetString(row, Columns[c]) = IF row[i] = DbNull THEN Build(<<>>) ELSE Build(row[i])
  BY DEF GetString, i
<1> QED BY <1>2, <1>3, BuildIs

(* toList makes an object of one more row and puts it in its list. *)
LEMMA StepRow ==
  ASSUME OInv, Row
  PROVE  OInv'
<1> DEFINE f == Fresh(1)
           s(c) == Fresh(1 + c)
           cols == [c \in Cols |-> s(c)]
           add == {cols[c] : c \in Cols}
           r == [NoObject EXCEPT !.made = "row", !.cols = cols]
<1>1. PICK row \in call.left :
        /\ call' = [call EXCEPT !.left = @ \ {row}]
        /\ str' = [b \in Blocks |->
             IF \E c \in Cols : b = Fresh(1 + c)
             THEN GetString(table[row], Columns[CHOOSE c \in Cols : b = Fresh(1 + c)])
             ELSE str[b]]
  BY DEF Row
<1>2. /\ call.at = "step" /\ call.fn = "toList" /\ Room(1 + Len(Columns))
      /\ obj' = [obj EXCEPT ![f] = r]
      /\ mem' = mem \cup {Fresh(k) : k \in 1..(1 + Len(Columns))}
      /\ list' = [list EXCEPT !.items = Append(@, f)]
      /\ UNCHANGED <<mine, table>>
  BY DEF Row, Step
<1>3. \A k \in 1..(1 + Len(Columns)) : k \in Nat \ {0} /\ Room(k)
  BY <1>2, ColsAre, RoomForLess
<1>4. f \in Blocks \ mem /\ 1 \in 1..(1 + Len(Columns))
  BY <1>3, ColsAre, FreshOne
<1>5. \A c \in Cols : s(c) \in Blocks \ mem /\ s(c) # f /\ s(c) \in mem'
  <2> SUFFICES ASSUME NEW c \in Cols PROVE s(c) \in Blocks \ mem /\ s(c) # f /\ s(c) \in mem'
    OBVIOUS
  <2>1. 1 + c \in 1..(1 + Len(Columns)) /\ 1 + c # 1
    BY ColsAre
  <2>2. 1 + c \in Nat \ {0} /\ Room(1 + c) /\ 1 \in Nat \ {0} /\ Room(1)
    BY <1>3, <1>4, <2>1
  <2>3. s(c) \in Blocks \ mem
    BY <2>2, FreshIs
  <2>4. s(c) # f
    BY <2>1, <2>2, FreshDiffer
  <2> QED BY <1>2, <2>1, <2>3, <2>4
<1>6. f \in mem' /\ mem \subseteq mem' /\ mem' \subseteq Blocks
  <2>1. \A k \in 1..(1 + Len(Columns)) : Fresh(k) \in Blocks
    BY <1>3, FreshIs
  <2> QED BY <1>2, <1>4, <2>1 DEF OInv, MemoryTyped
<1>7. cols \in [Cols -> Blocks] /\ add \subseteq mem' /\ f \notin add /\ add \cap mem = {}
  BY <1>5
<1>8. r \in ObjectRecords /\ r # NoObject /\ StringsOf(r) \subseteq add
  <2> HIDE DEF cols
  <2> QED BY <1>7, RowHas, NoObjectHas
<1>9. str' \in [Blocks -> Strs] /\ \A b \in Blocks : Terminated(str'[b])
  <2>1. table[row] \in [Cols -> Seq(Int)]
    BY DEF OInv, RowsTyped, Rows
  <2>2. ASSUME NEW b \in Blocks PROVE str'[b] \in Strs /\ Terminated(str'[b])
    <3>1. CASE \E c \in Cols : b = Fresh(1 + c)
      <4> DEFINE c == CHOOSE c \in Cols : b = Fresh(1 + c)
      <4>1. c \in Cols /\ str'[b] = GetString(table[row], Columns[c])
        BY <1>1, <3>1
      <4> HIDE DEF c
      <4> QED BY <2>1, <4>1, GetStringIs
    <3>2. CASE ~ \E c \in Cols : b = Fresh(1 + c)
      BY <1>1, <3>2 DEF OInv, MemoryTyped, StringsTerminated
    <3> QED BY <3>1, <3>2
  <2>3. str' = [b \in Blocks |-> str'[b]]
    BY <1>1
  <2> QED BY <2>2, <2>3
<1> HIDE DEF f, s, cols, add, r
<1>10. /\ \A p \in Blocks : f \notin StringsOf(obj[p])
                            /\ StringsOf(obj[p]) \cap (mine' \cup add) = {}
       /\ \A x \in add : obj[x] = NoObject
       /\ add \subseteq mem' \ mine'
  BY <1>2, <1>4, <1>6, <1>7 DEF OInv, Separated, MemoryTyped
<1>11. /\ obj' \in [Blocks -> ObjectRecords] /\ Separated'
       /\ \A p \in Blocks : obj'[p] = IF p = f THEN r ELSE obj[p]
  BY <1>2, <1>4, <1>6, <1>7, <1>8, <1>10, ChangeKeeps DEF OInv
<1>12. MemoryTyped' /\ StringsTerminated'
  BY <1>2, <1>6, <1>9, <1>11 DEF OInv, MemoryTyped, StringsTerminated
<1>13. \A p \in Blocks : StringsOf(obj'[p]) \subseteq StringsOf(obj[p]) \cup add
  BY <1>8, <1>11
<1>14. /\ list'.l = list.l /\ ToSet(list'.items) = ToSet(list.items) \cup {f}
       /\ list' \in [l : Blocks \cup {NoBlock}, items : Seq(Blocks)]
  <2>1. list \in [l : Blocks \cup {NoBlock}, items : Seq(Blocks)]
    BY DEF OInv, ListApart
  <2>2. list.items \in Seq(Blocks)
    BY <2>1
  <2>3. Append(list.items, f) \in Seq(Blocks) /\ ToSet(Append(list.items, f)) = ToSet(list.items) \cup {f}
    BY <1>4, <2>2, ToSetAppend
  <2> QED BY <1>2, <2>1, <2>3
<1>15. ListApart'
  <2>1. list.l # NoBlock =>
          /\ list.l \in mem' \ mine' /\ obj'[list.l] = NoObject
          /\ \A p \in Blocks : list.l \notin StringsOf(obj'[p])
    BY <1>2, <1>4, <1>6, <1>7, <1>11, <1>13 DEF OInv, ListApart, MemoryTyped
  <2>2. \A o \in ToSet(list'.items) : o \in Blocks \ mine' /\ obj'[o] # NoObject
    BY <1>2, <1>4, <1>8, <1>11, <1>14 DEF OInv, ListApart, MemoryTyped
  <2> QED BY <1>14, <2>1, <2>2 DEF ListApart
<1>16. /\ call # NoCall /\ call'.o = call.o /\ call'.txt = call.txt /\ call'.fn = call.fn
       /\ call'.bound = call.bound /\ call'.left \subseteq call.left
       /\ call' \in [fn : Calls, at : Places, o : Blocks \cup {NoBlock},
                     txt : Blocks \cup {NoBlock}, bound : SUBSET Blocks,
                     left : SUBSET RowIds, failed : BOOLEAN]
  <2>1. NoCall.at = "none"
    BY DEF NoCall
  <2>2. call \in [fn : Calls, at : Places, o : Blocks \cup {NoBlock},
                 txt : Blocks \cup {NoBlock}, bound : SUBSET Blocks,
                 left : SUBSET RowIds, failed : BOOLEAN]
    BY DEF OInv, CallApart
  <2> QED BY <1>1, <1>2, <2>1, <2>2
<1>17. /\ call.o \in Blocks /\ call.o \in mem /\ obj[call.o] # NoObject
       /\ call.o # f /\ call.txt # f /\ call.txt \in mem /\ call.txt \in Blocks
  BY <1>4, <1>16 DEF OInv, CallApart, Separated, MemoryTyped
<1>18. CallApart'
  <2>1. obj'[call.o] = obj[call.o] /\ obj'[call.txt] = obj[call.txt]
    BY <1>11, <1>17
  <2>2. \A p \in Blocks : call.txt \notin StringsOf(obj'[p])
    BY <1>7, <1>13, <1>16, <1>17 DEF OInv, CallApart
  <2> QED BY <1>2, <1>6, <1>14, <1>16, <1>17, <2>1, <2>2 DEF OInv, CallApart
<1>19. RowsTyped'
  BY <1>2, <1>16 DEF OInv, RowsTyped
<1> QED BY <1>11, <1>12, <1>15, <1>18, <1>19 DEF OInv

(* A call finalizes its statement and frees its text. *)
LEMMA StepReturn ==
  ASSUME OInv, Return
  PROVE  OInv'
<1> DEFINE bs == {call.txt} \cup IF call.fn = "insert" THEN {} ELSE BlocksOf(call.o)
<1>1. call.at = "free" /\ call' = NoCall /\ Release(bs) /\ UNCHANGED <<mine, list, table>>
  BY DEF Return
<1>2. call # NoCall
  BY <1>1 DEF NoCall
<1>3. \/ bs = {call.txt}
      \/ call.fn # "insert" /\ bs = {call.txt, call.o} \cup StringsOf(obj[call.o])
  BY StringsAre
<1> HIDE DEF bs
<1>4. /\ call.o \in Blocks /\ obj[call.o] # NoObject /\ call.o \notin ToSet(list.items)
      /\ call.fn # "insert" => call.o \notin mine
      /\ call.txt \in mem \ mine /\ obj[call.txt] = NoObject /\ call.txt # list.l
      /\ \A p \in Blocks : call.txt \notin StringsOf(obj[p])
  BY <1>2 DEF OInv, CallApart
<1>5. \A p \in Blocks : call.o \notin StringsOf(obj[p]) /\ StringsOf(obj[p]) \cap mine = {}
  BY <1>4 DEF OInv, Separated
<1>6. \A o \in Blocks : o \notin bs => StringsOf(obj[o]) \cap bs = {}
  BY <1>3, <1>4, <1>5 DEF OInv, Separated
<1>7. mine \cap bs = {}
  BY <1>3, <1>4, <1>5
<1>8. /\ MemoryTyped' /\ Separated' /\ StringsTerminated' /\ mem' = mem \ bs
      /\ \A o \in Blocks : obj'[o] = IF o \in bs THEN NoObject ELSE obj[o]
  BY <1>1, <1>6, <1>7, ReleaseKeeps DEF OInv
<1>9. ListApart'
  <2>1. \A o \in Blocks : StringsOf(obj'[o]) \subseteq StringsOf(obj[o])
    BY <1>8, NoObjectHas
  <2>2. list.l # NoBlock => list.l \notin bs
    BY <1>3, <1>4 DEF OInv, ListApart
  <2>3. \A o \in ToSet(list.items) : o \notin bs
    BY <1>3, <1>4 DEF OInv, ListApart, Separated
  <2> QED BY <1>1, <1>8, <2>1, <2>2, <2>3 DEF OInv, ListApart
<1>10. CallApart'
  BY <1>1 DEF CallApart, NoCall, Calls, Places
<1>11. RowsTyped'
  BY <1>1 DEF OInv, RowsTyped, NoCall
<1> QED BY <1>8, <1>9, <1>10, <1>11 DEF OInv

-----------------------------------------------------------------------------
(* Every step keeps the inductive invariant. *)
LEMMA ONext == OInv /\ [Next]_vars => OInv'
<1> SUFFICES ASSUME OInv, [Next]_vars PROVE OInv'
  OBVIOUS
<1>1. CASE Application
  <2>1. ASSUME NEW b \in Texts, NewString(b) PROVE OInv'
    BY <2>1, StepNewString
  <2>2. ASSUME NEW b \in Texts, NEW s \in mine, Extend(s, b) PROVE OInv'
    BY <2>2, StepExtend
  <2>3. ASSUME NEW made \in Made, New(made) PROVE OInv'
    BY <2>3, StepNew
  <2>4. ASSUME NEW o \in mine \cap Objects, NEW s \in mine \ Objects, NEW c \in Cols,
               SetColumn(o, c, s) \/ AddTerm(o, "set", c, s) \/ AddTerm(o, "where", c, s)
        PROVE  OInv'
    BY <2>4, StepSetColumn, StepAddTerm
  <2>5. ASSUME NEW b \in mine, Free(b) PROVE OInv'
    BY <2>5, StepFree
  <2>6. ASSUME FreeList PROVE OInv'
    BY <2>6, StepFreeList
  <2>7. ASSUME NEW o \in mine, NEW fn \in {"insert", "toList", "count", "execute"}, Start(o, fn)
        PROVE  OInv'
    BY <2>7, StepStart
  <2> QED BY <1>1, <2>1, <2>2, <2>3, <2>4, <2>5, <2>6, <2>7 DEF Application
<1>2. CASE Running
  BY <1>2, StepRow, StepEnds, StepInsert, StepExecute, StepReturn DEF Running
<1>3. CASE UNCHANGED vars
  BY <1>3 DEF vars, memory, ghosts, OInv, MemoryTyped, Separated, ListApart, CallApart,
              RowsTyped, StringsTerminated
<1> QED BY <1>1, <1>2, <1>3 DEF Next, Finished

(* The inductive invariant. *)
LEMMA ObjectsInvariant == Spec => []OInv
BY OInit, ONext, PTL DEF Spec

(* Every string that has a block is as long as it says and ends with a NUL *)
(* byte, whatever is appended to it, given to an object or read from the   *)
(* database, also after a realloc of a string has failed.                  *)
THEOREM StringsStayTerminated == Spec => []StringsTerminated
<1>1. OInv => StringsTerminated
  BY DEF OInv
<1> QED BY <1>1, ObjectsInvariant, PTL

(* The strings a statement is bound to are alive and belong to the object  *)
(* of its call until the statement is finalized.                           *)
THEOREM BoundStringsStayAlive == Spec => []BoundAlive
<1>1. OInv => BoundAlive
  <2> SUFFICES ASSUME OInv, call.bound # {}
               PROVE  call.bound \subseteq mem /\ call.bound \subseteq Strings(call.o)
    BY DEF BoundAlive
  <2>1. call # NoCall
    BY DEF NoCall
  <2>2. call.o \in Blocks /\ call.bound \subseteq StringsOf(obj[call.o])
    BY <2>1 DEF OInv, CallApart
  <2>3. StringsOf(obj[call.o]) \subseteq mem
    BY <2>2 DEF OInv, Separated
  <2> QED BY <2>2, <2>3, StringsAre
<1> QED BY <1>1, ObjectsInvariant, PTL

-----------------------------------------------------------------------------
(* Owners.                                                                 *)

(* An object has each of its strings once.                                 *)
Once(r) ==
  /\ \A c, d \in Cols : r.cols[c] = r.cols[d] /\ r.cols[c] # NoBlock => c = d
  /\ \A j, k \in DOMAIN r.set : r.set[j][2] = r.set[k][2] => j = k
  /\ \A j, k \in DOMAIN r.where : r.where[j][2] = r.where[k][2] => j = k
  /\ \A c \in Cols, k \in DOMAIN r.set : r.cols[c] # r.set[k][2]
  /\ \A c \in Cols, k \in DOMAIN r.where : r.cols[c] # r.where[k][2]
  /\ \A j \in DOMAIN r.set, k \in DOMAIN r.where : r.set[j][2] # r.where[k][2]

AllStrings == UNION {StringsOf(obj[o]) : o \in Blocks}

(* What is kept: by the application, the list and the call, or an object.  *)
Roots == mine \cup ToSet(list.items) \cup ({list.l, call.txt, call.o} \ {NoBlock})
Kept == Roots \cup AllStrings

(* What is allocated is kept by somebody, or lost; together with OInv, by  *)
(* which those who keep it are apart, it has one owner.                    *)
OwnInv ==
  /\ lost \subseteq mem /\ Kept = mem \ lost
  /\ \A o \in Blocks : Once(obj[o])
  /\ \A i, j \in DOMAIN list.items : list.items[i] = list.items[j] => i = j
  /\ list.l = NoBlock => list.items = <<>>
  /\ call.fn = "toList" => list.l # NoBlock
  /\ call.fn = "insert" => call.o \in mine
  /\ \A b \in Blocks : str[b] # Blank => b \in mem

(* What an object holds, in terms of its parts. *)
LEMMA StringsIn ==
  ASSUME NEW r \in ObjectRecords
  PROVE  \A s : s \in StringsOf(r) <=>
           \/ s # NoBlock /\ \E c \in Cols : s = r.cols[c]
           \/ \E k \in DOMAIN r.set : s = r.set[k][2]
           \/ \E k \in DOMAIN r.where : s = r.where[k][2]
BY DEF StringsOf, ToSet

(* An object that holds nothing holds nothing twice. *)
LEMMA NoObjectOnce == Once(NoObject)
<1>1. NoObject.set = <<>> /\ NoObject.where = <<>>
      /\ NoObject.cols = [c \in Cols |-> NoBlock]
  BY DEF NoObject
<1>2. DOMAIN NoObject.set = {} /\ DOMAIN NoObject.where = {}
  BY <1>1
<1> QED
  BY <1>1, <1>2 DEF Once

(* A new string in an empty column, ... *)
LEMMA ColumnOnce ==
  ASSUME NEW r \in ObjectRecords, Once(r), NEW c \in Cols, NEW s \in Blocks,
         r.cols[c] = NoBlock, s \notin StringsOf(r)
  PROVE  /\ Once([r EXCEPT !.cols[c] = s])
         /\ StringsOf([r EXCEPT !.cols[c] = s]) = StringsOf(r) \cup {s}
<1> DEFINE q == [r EXCEPT !.cols[c] = s]
<1>1. /\ q.set = r.set /\ q.where = r.where /\ q \in ObjectRecords
      /\ q.cols = [r.cols EXCEPT ![c] = s]
  BY DEF ObjectRecords
<1>2. \A d \in Cols : q.cols[d] = IF d = c THEN s ELSE r.cols[d]
  BY <1>1 DEF ObjectRecords
<1>3. s # NoBlock
  BY DEF Blocks, NoBlock
<1> HIDE DEF q
<1>4. \A x : x \in StringsOf(q) <=> x \in StringsOf(r) \/ x = s
  <2>1. ASSUME NEW x \in StringsOf(q) PROVE x \in StringsOf(r) \/ x = s
    BY <1>1, <1>2 DEF StringsOf
  <2>2. ASSUME NEW x \in StringsOf(r) PROVE x \in StringsOf(q)
    <3>1. CASE x # NoBlock /\ \E d \in Cols : x = r.cols[d]
      BY <1>1, <1>2, <3>1, StringsIn
    <3>2. CASE ~(x # NoBlock /\ \E d \in Cols : x = r.cols[d])
      BY <1>1, <3>2, StringsIn
    <3> QED
      BY <3>1, <3>2
  <2>3. s \in StringsOf(q)
    BY <1>1, <1>2, <1>3, StringsIn
  <2> QED
    BY <2>1, <2>2, <2>3
<1>5. Once(q)
  BY <1>1, <1>2, <1>3, StringsIn DEF Once
<1> QED
  BY <1>4, <1>5 DEF q

(* ... in a term of the SET clause, ... *)
LEMMA SetOnce ==
  ASSUME NEW r \in ObjectRecords, Once(r), NEW c \in Cols, NEW s \in Blocks,
         s \notin StringsOf(r)
  PROVE  /\ Once([r EXCEPT !.set = Append(@, <<c, s>>)])
         /\ StringsOf([r EXCEPT !.set = Append(@, <<c, s>>)]) = StringsOf(r) \cup {s}
<1> DEFINE q == [r EXCEPT !.set = Append(@, <<c, s>>)]
           t == <<c, s>>
<1>1. t \in Cols \X Blocks /\ t[2] = s
  OBVIOUS
<1>2. r.set \in Seq(Cols \X Blocks) /\ Len(r.set) \in Nat
  BY DEF ObjectRecords, Terms
<1> HIDE DEF t
<1>3. /\ DOMAIN Append(r.set, t) = DOMAIN r.set \cup {Len(r.set) + 1}
      /\ Append(r.set, t) \in Seq(Cols \X Blocks)
      /\ \A k \in DOMAIN r.set : k # Len(r.set) + 1 /\ Append(r.set, t)[k] = r.set[k]
      /\ Append(r.set, t)[Len(r.set) + 1] = t
  BY <1>1, <1>2
<1>4. /\ q.cols = r.cols /\ q.where = r.where /\ q.set = Append(r.set, t)
      /\ q \in ObjectRecords
  BY <1>3 DEF ObjectRecords, Terms, t
<1>5. s # NoBlock
  BY DEF Blocks, NoBlock
<1> HIDE DEF q
<1>6. \A x : x \in StringsOf(q) <=> x \in StringsOf(r) \/ x = s
  <2>1. ToSet(q.set) = ToSet(r.set) \cup {t}
    BY <1>1, <1>2, <1>4, ToSetAppend
  <2> QED
    BY <1>1, <1>4, <2>1 DEF StringsOf
<1>7. Once(q)
  BY <1>1, <1>3, <1>4, <1>5, StringsIn DEF Once
<1> QED
  BY <1>6, <1>7 DEF q

(* ... or of the WHERE clause. *)
LEMMA WhereOnce ==
  ASSUME NEW r \in ObjectRecords, Once(r), NEW c \in Cols, NEW s \in Blocks,
         s \notin StringsOf(r)
  PROVE  /\ Once([r EXCEPT !.where = Append(@, <<c, s>>)])
         /\ StringsOf([r EXCEPT !.where = Append(@, <<c, s>>)]) = StringsOf(r) \cup {s}
<1> DEFINE q == [r EXCEPT !.where = Append(@, <<c, s>>)]
           t == <<c, s>>
<1>1. t \in Cols \X Blocks /\ t[2] = s
  OBVIOUS
<1>2. r.where \in Seq(Cols \X Blocks) /\ Len(r.where) \in Nat
  BY DEF ObjectRecords, Terms
<1> HIDE DEF t
<1>3. /\ DOMAIN Append(r.where, t) = DOMAIN r.where \cup {Len(r.where) + 1}
      /\ Append(r.where, t) \in Seq(Cols \X Blocks)
      /\ \A k \in DOMAIN r.where : /\ k # Len(r.where) + 1
                                   /\ Append(r.where, t)[k] = r.where[k]
      /\ Append(r.where, t)[Len(r.where) + 1] = t
  BY <1>1, <1>2
<1>4. /\ q.cols = r.cols /\ q.set = r.set /\ q.where = Append(r.where, t)
      /\ q \in ObjectRecords
  BY <1>3 DEF ObjectRecords, Terms, t
<1>5. s # NoBlock
  BY DEF Blocks, NoBlock
<1> HIDE DEF q
<1>6. \A x : x \in StringsOf(q) <=> x \in StringsOf(r) \/ x = s
  <2>1. ToSet(q.where) = ToSet(r.where) \cup {t}
    BY <1>1, <1>2, <1>4, ToSetAppend
  <2> QED
    BY <1>1, <1>4, <2>1 DEF StringsOf
<1>7. Once(q)
  BY <1>1, <1>3, <1>4, <1>5, StringsIn DEF Once
<1> QED
  BY <1>6, <1>7 DEF q

(* Other parts of an object do not matter. *)
LEMMA OtherPartsOnce ==
  ASSUME NEW r \in ObjectRecords, Once(r)
  PROVE  /\ \A made : Once([r EXCEPT !.made = made])
         /\ \A clause : Once([r EXCEPT !.gone = @ \cup {clause}])
BY DEF Once, ObjectRecords

(* An object made of a row has a string for each column. *)
LEMMA RowOnce ==
  ASSUME NEW f \in [Cols -> Blocks], \A c, d \in Cols : f[c] = f[d] => c = d
  PROVE  LET r == [NoObject EXCEPT !.made = "row", !.cols = f] IN
         Once(r) /\ StringsOf(r) = {f[c] : c \in Cols}
<1> DEFINE r == [NoObject EXCEPT !.made = "row", !.cols = f]
<1>1. /\ r.cols = f /\ r.set = <<>> /\ r.where = <<>>
  BY DEF NoObject
<1>2. DOMAIN r.set = {} /\ DOMAIN r.where = {}
  BY <1>1
<1>3. r \in ObjectRecords
  BY RowHas
<1>4. NoBlock \notin Blocks
  BY DEF Blocks, NoBlock
<1> HIDE DEF r
<1>5. \A s : s \in StringsOf(r) <=> \E c \in Cols : s = f[c]
  BY <1>1, <1>2, <1>3, <1>4, StringsIn
<1>6. Once(r)
  BY <1>1, <1>2 DEF Once
<1> QED
  BY <1>5, <1>6 DEF r

(* Nobody has anything at the start. *)
LEMMA OwnInit == Init => OwnInv
<1> SUFFICES ASSUME Init PROVE OwnInv
  OBVIOUS
<1>1. /\ mem = {} /\ mine = {} /\ lost = {} /\ list = NoList /\ call = NoCall
      /\ str = [b \in Blocks |-> Blank] /\ obj = [b \in Blocks |-> NoObject]
  BY DEF Init
<1>2. /\ list.items = <<>> /\ list.l = NoBlock /\ DOMAIN <<>> = {} /\ ToSet(<<>>) = {}
      /\ call.txt = NoBlock /\ call.o = NoBlock /\ call.fn = "none"
  BY <1>1 DEF NoList, NoCall, ToSet
<1>3. \A o \in Blocks : obj[o] = NoObject
  BY <1>1
<1>4. AllStrings = {}
  BY <1>3, NoObjectHas DEF AllStrings
<1> QED
  BY <1>1, <1>2, <1>3, <1>4, NoObjectOnce DEF OwnInv, Kept, Roots

(* What is kept is allocated, what is lost is nobody's, and a block that   *)
(* is not allocated is no object and has no string.                        *)
LEMMA KeptIs ==
  ASSUME OInv, OwnInv
  PROVE  /\ Kept \subseteq mem /\ Kept \cap lost = {} /\ mem \subseteq Blocks
         /\ \A b \in Blocks \ mem : obj[b] = NoObject /\ StringsOf(obj[b]) = {}
         /\ \A o, s \in Blocks : s \in StringsOf(obj[o]) =>
              obj[s] = NoObject /\ StringsOf(obj[s]) = {}
BY NoObjectHas DEF OInv, OwnInv, MemoryTyped, Separated

(* A call that goes on without touching the memory. *)
LEMMA OwnCall ==
  ASSUME OwnInv, UNCHANGED <<mem, str, obj, mine, list, lost>>,
         call'.o = call.o, call'.txt = call.txt, call'.fn = call.fn
  PROVE  OwnInv'
<1>1. Kept' = Kept
  BY DEF Kept, Roots, AllStrings
<1> QED
  BY <1>1 DEF OwnInv

(* A string that the application makes ... *)
LEMMA OwnNewString ==
  ASSUME OInv, OwnInv, NEW b \in Texts, NewString(b)
  PROVE  OwnInv'
<1> DEFINE f == Fresh(1)
<1>1. f \in Blocks \ mem
  BY FreshOne DEF NewString
<1>2. /\ UNCHANGED <<obj, list, call, lost>>
      /\ mem' = mem \cup {f} /\ mine' = mine \cup {f}
      /\ \A x \in Blocks : x # f => str'[x] = str[x]
  BY DEF NewString, OInv, MemoryTyped
<1> HIDE DEF f
<1>3. Kept' = Kept \cup {f}
  BY <1>2 DEF Kept, Roots, AllStrings
<1> QED
  BY <1>1, <1>2, <1>3 DEF OwnInv

(* ... or extends; what realloc loses is allocated and lost.               *)
LEMMA OwnExtend ==
  ASSUME OInv, OwnInv, NEW b \in Texts, NEW s \in mine, Extend(s, b)
  PROVE  OwnInv'
<1>1. UNCHANGED <<obj, mine, list, call>> /\ s \in mem
      /\ \A x \in Blocks : x # s => str'[x] = str[x]
  BY DEF Extend, OInv, MemoryTyped
<1>2. \/ UNCHANGED <<mem, lost>>
      \/ /\ Room(1) /\ mem' = mem \cup {Fresh(1)} /\ lost' = lost \cup {Fresh(1)}
  BY DEF Extend
<1>3. lost' \subseteq mem' /\ mem' \ lost' = mem \ lost /\ mem \subseteq mem'
  BY <1>2, FreshOne DEF OwnInv
<1>4. Kept' = Kept
  BY <1>1 DEF Kept, Roots, AllStrings
<1> QED
  BY <1>1, <1>3, <1>4 DEF OwnInv

(* An object that is made. *)
LEMMA OwnNew ==
  ASSUME OInv, OwnInv, NEW made \in Made, New(made)
  PROVE  OwnInv'
<1> PICK gone \in SUBSET TextNames, leak \in SUBSET (Blocks \ mem) :
      Fresh(1) \notin leak /\ NewWith(made, gone, leak)
  BY NewIs
<1> DEFINE f == Fresh(1)
           r == [NoObject EXCEPT !.made = made, !.gone = gone]
<1>1. f \in Blocks \ mem /\ f \notin leak
  BY FreshOne DEF NewWith
<1>2. /\ UNCHANGED <<str, list, call>> /\ mine' = mine \cup {f}
      /\ mem' = mem \cup {f} \cup leak /\ lost' = lost \cup leak
      /\ obj' = [obj EXCEPT ![f] = r]
  BY DEF NewWith
<1>3. StringsOf(r) = {} /\ Once(r)
  <2>1. r.set = NoObject.set /\ r.where = NoObject.where /\ r.cols = NoObject.cols
    BY NoObjectHas DEF ObjectRecords
  <2>2. StringsOf(r) = {}
    BY NewHas
  <2> HIDE DEF r
  <2> QED
    BY <2>1, <2>2, NoObjectOnce DEF Once
<1> HIDE DEF f, r
<1>4. \A o \in Blocks : obj'[o] = IF o = f THEN r ELSE obj[o]
  BY <1>2 DEF OInv, MemoryTyped
<1>5. \A o \in Blocks : StringsOf(obj'[o]) = StringsOf(obj[o])
  BY <1>1, <1>3, <1>4, KeptIs
<1>6. Kept' = Kept \cup {f}
  BY <1>2, <1>5 DEF Kept, Roots, AllStrings
<1> QED
  BY <1>1, <1>2, <1>3, <1>4, <1>6 DEF OwnInv

(* A string of the application becomes one of an object. *)
LEMMA OwnGive ==
  ASSUME OInv, OwnInv, NEW o \in mine, NEW s \in mine, NEW r,
         Once(r), StringsOf(r) = StringsOf(obj[o]) \cup {s},
         obj' = [obj EXCEPT ![o] = r], mine' = mine \ {s},
         UNCHANGED <<str, list, call>>, call = NoCall,
         \/ UNCHANGED <<mem, lost>>
         \/ /\ Room(1) /\ mem' = mem \cup {Fresh(1)} /\ lost' = lost \cup {Fresh(1)}
  PROVE  OwnInv'
<1>1. o \in Blocks /\ \A p \in Blocks : obj'[p] = IF p = o THEN r ELSE obj[p]
  BY DEF OInv, MemoryTyped
<1>2. lost' \subseteq mem' /\ mem' \ lost' = mem \ lost /\ mem \subseteq mem'
  BY FreshOne DEF OwnInv
<1>3. AllStrings' = AllStrings \cup {s}
  <2>1. \A p \in Blocks : StringsOf(obj'[p]) = IF p = o THEN StringsOf(obj[o]) \cup {s}
                                               ELSE StringsOf(obj[p])
    BY <1>1
  <2> QED
    BY <1>1, <2>1 DEF AllStrings
<1>4. Roots' \cup {s} = Roots
  BY DEF Roots
<1>5. Kept' = Kept
  BY <1>3, <1>4 DEF Kept
<1>6. call'.fn = "none"
  BY DEF NoCall
<1> QED
  BY <1>1, <1>2, <1>5, <1>6 DEF OwnInv

(* It goes to a column ... *)
LEMMA OwnSetColumn ==
  ASSUME OInv, OwnInv, NEW o \in mine \cap Objects, NEW s \in mine \ Objects, NEW c \in Cols,
         SetColumn(o, c, s)
  PROVE  OwnInv'
<1> DEFINE r == [obj[o] EXCEPT !.cols[c] = s]
<1>1. /\ o \in Blocks /\ s \in Blocks /\ obj[o] \in ObjectRecords /\ Once(obj[o])
      /\ s \notin StringsOf(obj[o]) /\ obj[o].cols[c] = NoBlock
  BY DEF OInv, MemoryTyped, Separated, OwnInv, SetColumn
<1>2. Once(r) /\ StringsOf(r) = StringsOf(obj[o]) \cup {s}
  BY <1>1, ColumnOnce
<1>3. /\ call = NoCall /\ UNCHANGED <<mem, lost, str, list, call>> /\ mine' = mine \ {s}
      /\ obj' = [obj EXCEPT ![o] = r]
  BY DEF SetColumn, App, Acts, memory
<1> HIDE DEF r
<1> QED
  BY <1>2, <1>3, OwnGive

(* ... or to a clause. *)
LEMMA OwnAddTerm ==
  ASSUME OInv, OwnInv, NEW o \in mine \cap Objects, NEW s \in mine \ Objects, NEW c \in Cols,
         NEW clause \in {"set", "where"}, AddTerm(o, clause, c, s)
  PROVE  OwnInv'
<1> DEFINE r == IF clause = "set" THEN [obj[o] EXCEPT !.set = Append(@, <<c, s>>)]
                ELSE [obj[o] EXCEPT !.where = Append(@, <<c, s>>)]
           q == [r EXCEPT !.gone = @ \cup {clause}]
<1>1. /\ o \in Blocks /\ s \in Blocks /\ obj[o] \in ObjectRecords /\ Once(obj[o])
      /\ s \notin StringsOf(obj[o])
  BY DEF OInv, MemoryTyped, Separated, OwnInv
<1>2. Once(r) /\ StringsOf(r) = StringsOf(obj[o]) \cup {s} /\ r \in ObjectRecords
  <2> DEFINE t == <<c, s>>
  <2>1. t \in Cols \X Blocks
    BY <1>1
  <2>2. CASE clause = "set"
    <3>1. r = [obj[o] EXCEPT !.set = Append(@, t)]
      BY <2>2
    <3>2. [obj[o] EXCEPT !.set = Append(@, t)] \in ObjectRecords
      <4> HIDE DEF t
      <4> QED
        BY <1>1, <2>1, SetAdds
    <3> HIDE DEF r
    <3> QED
      BY <1>1, <3>1, <3>2, SetOnce
  <2>3. CASE clause = "where"
    <3>1. r = [obj[o] EXCEPT !.where = Append(@, t)]
      BY <2>3
    <3>2. [obj[o] EXCEPT !.where = Append(@, t)] \in ObjectRecords
      <4> HIDE DEF t
      <4> QED
        BY <1>1, <2>1, WhereAdds
    <3> HIDE DEF r
    <3> QED
      BY <1>1, <3>1, <3>2, WhereOnce
  <2> QED
    BY <2>2, <2>3
<1>3. \/ obj' = [obj EXCEPT ![o] = r] /\ UNCHANGED <<mem, lost>>
      \/ /\ obj' = [[obj EXCEPT ![o] = r] EXCEPT ![o].gone = @ \cup {clause}]
         /\ Room(1) /\ mem' = mem \cup {Fresh(1)} /\ lost' = lost \cup {Fresh(1)}
  BY DEF AddTerm
<1>4. call = NoCall /\ UNCHANGED <<str, list, call>> /\ mine' = mine \ {s}
  BY DEF AddTerm, App, AppReallocFails, Acts
<1> HIDE DEF r
<1>5. Once(q) /\ StringsOf(q) = StringsOf(r)
  BY <1>2, GoneKeeps, OtherPartsOnce
<1>6. \/ obj' = [obj EXCEPT ![o] = r] /\ UNCHANGED <<mem, lost>>
      \/ /\ obj' = [obj EXCEPT ![o] = q] /\ Room(1)
         /\ mem' = mem \cup {Fresh(1)} /\ lost' = lost \cup {Fresh(1)}
  BY <1>1, <1>3 DEF OInv, MemoryTyped
<1> HIDE DEF q
<1> QED
  BY <1>2, <1>4, <1>5, <1>6, OwnGive

(* Freed are blocks that are kept, each with all that it keeps. *)
LEMMA OwnRelease ==
  ASSUME OInv, OwnInv, NEW bs, Release(bs), UNCHANGED lost, bs \subseteq Kept,
         Roots' = Roots \ bs,
         \A o \in Blocks : IF o \in bs THEN StringsOf(obj[o]) \subseteq bs
                                       ELSE StringsOf(obj[o]) \cap bs = {},
         \A i, j \in DOMAIN list'.items : list'.items[i] = list'.items[j] => i = j,
         list'.l = NoBlock => list'.items = <<>>,
         call' = NoCall
  PROVE  OwnInv'
<1>1. /\ mem' = mem \ bs
      /\ str' = [b \in Blocks |-> IF b \in bs THEN Blank ELSE str[b]]
      /\ obj' = [b \in Blocks |-> IF b \in bs THEN NoObject ELSE obj[b]]
  BY DEF Release
<1>2. \A o \in Blocks : /\ StringsOf(obj'[o]) = IF o \in bs THEN {} ELSE StringsOf(obj[o])
                        /\ Once(obj'[o])
  BY <1>1, NoObjectHas, NoObjectOnce DEF OwnInv
<1>3. AllStrings' = AllStrings \ bs
  BY <1>2 DEF AllStrings
<1>4. Kept' = Kept \ bs
  BY <1>3 DEF Kept
<1>5. Kept' = mem' \ lost' /\ lost' \subseteq mem'
  BY <1>1, <1>4, KeptIs DEF OwnInv
<1>6. \A b \in Blocks : str'[b] # Blank => b \in mem'
  BY <1>1 DEF OwnInv
<1> QED
  BY <1>2, <1>5, <1>6 DEF OwnInv, NoCall

(* The application frees a string or an object, ... *)
LEMMA OwnFree ==
  ASSUME OInv, OwnInv, NEW b \in mine, Free(b)
  PROVE  OwnInv'
<1> DEFINE bs == IF b \in Objects THEN BlocksOf(b) ELSE {b}
<1>1. /\ call = NoCall /\ UNCHANGED <<list, call, lost>> /\ mine' = mine \ {b}
      /\ Release(bs)
  BY DEF Free, App, Acts
<1>2. b \in Blocks
  BY DEF OInv, MemoryTyped
<1>3. bs = {b} \cup StringsOf(obj[b])
  BY <1>2, StringsAre, NoObjectHas DEF Objects
<1> HIDE DEF bs
<1>4. /\ \A o \in Blocks : b \notin StringsOf(obj[o]) /\ StringsOf(obj[o]) \cap mine = {}
      /\ StringsOf(obj[b]) \subseteq Blocks
  BY <1>2 DEF OInv, Separated, MemoryTyped
<1>5. \A o \in Blocks : IF o \in bs THEN StringsOf(obj[o]) \subseteq bs
                                    ELSE StringsOf(obj[o]) \cap bs = {}
  BY <1>2, <1>3, <1>4, KeptIs DEF OInv, Separated
<1>6. bs \subseteq Kept
  BY <1>2, <1>3 DEF Kept, Roots, AllStrings
<1>7. Roots' = Roots \ bs
  <2>1. mine' = mine \ bs
    BY <1>1, <1>2, <1>3, <1>4
  <2>2. list.l # NoBlock => list.l \notin bs
    BY <1>2, <1>3 DEF OInv, ListApart
  <2>3. ToSet(list.items) \cap bs = {}
    BY <1>2, <1>3 DEF OInv, ListApart, Separated
  <2>4. call.txt = NoBlock /\ call.o = NoBlock
    BY <1>1 DEF NoCall
  <2> QED
    BY <1>1, <2>1, <2>2, <2>3, <2>4 DEF Roots
<1> QED
  BY <1>1, <1>5, <1>6, <1>7, OwnRelease DEF OwnInv

(* ... or its list. *)
LEMMA OwnFreeList ==
  ASSUME OInv, OwnInv, FreeList
  PROVE  OwnInv'
<1> DEFINE bs == {list.l} \cup UNION {BlocksOf(o) : o \in ToSet(list.items)}
<1>1. /\ call = NoCall /\ UNCHANGED <<mine, call, lost>> /\ list' = NoList
      /\ list # NoList /\ Release(bs)
  BY DEF FreeList, App, Acts
<1>2. \A x : x \in bs <=> \/ x = list.l \/ x \in ToSet(list.items)
                          \/ \E o \in ToSet(list.items) : x \in StringsOf(obj[o])
  BY StringsAre
<1> HIDE DEF bs
<1>3. list.l # NoBlock
  BY <1>1 DEF OInv, OwnInv, ListApart, NoList
<1>4. /\ \A o \in ToSet(list.items) : o \in Blocks \ mine /\ obj[o] # NoObject
      /\ list.l \in Blocks \ mine /\ obj[list.l] = NoObject
      /\ \A o \in Blocks : list.l \notin StringsOf(obj[o])
  BY <1>3 DEF OInv, ListApart, MemoryTyped
<1>5. \A o \in Blocks : o \in bs => StringsOf(obj[o]) \subseteq bs
  <2> SUFFICES ASSUME NEW o \in Blocks, o \in bs, o \notin ToSet(list.items)
               PROVE  StringsOf(obj[o]) = {}
    BY <1>2
  <2>1. o = list.l \/ \E p \in Blocks : o \in StringsOf(obj[p])
    BY <1>2, <1>4
  <2> QED
    BY <1>4, <2>1, KeptIs, NoObjectHas
<1>6. \A o \in Blocks : o \notin bs => StringsOf(obj[o]) \cap bs = {}
  <2> SUFFICES ASSUME NEW o \in Blocks, o \notin bs, NEW x \in StringsOf(obj[o])
               PROVE  x \notin bs
    OBVIOUS
  <2>1. x # list.l
    BY <1>4
  <2>2. x \notin ToSet(list.items)
    BY <1>4 DEF OInv, Separated
  <2>3. \A p \in ToSet(list.items) : p # o /\ p \in Blocks
    BY <1>2, <1>4
  <2>4. \A p \in ToSet(list.items) : x \notin StringsOf(obj[p])
    BY <2>3 DEF OInv, Separated
  <2> QED
    BY <1>2, <2>1, <2>2, <2>4
<1>7. bs \subseteq Kept
  BY <1>2, <1>3, <1>4 DEF Kept, Roots, AllStrings
<1>8. NoList.l = NoBlock /\ NoList.items = <<>> /\ ToSet(<<>>) = {} /\ DOMAIN <<>> = {}
  BY DEF NoList, ToSet
<1>9. mine \cap bs = {}
  <2> SUFFICES ASSUME NEW x \in mine PROVE x \notin bs
    OBVIOUS
  <2>1. x # list.l
    BY <1>4
  <2>2. \A p \in ToSet(list.items) : x # p /\ x \notin StringsOf(obj[p])
    BY <1>4 DEF OInv, Separated
  <2> QED
    BY <1>2, <2>1, <2>2
<1>10. Roots' = Roots \ bs
  <2>1. call.txt = NoBlock /\ call.o = NoBlock
    BY <1>1 DEF NoCall
  <2>2. Roots' = mine
    BY <1>1, <1>8, <2>1 DEF Roots
  <2>3. Roots \ bs = mine
    BY <1>2, <1>9, <2>1 DEF Roots
  <2> QED
    BY <2>2, <2>3
<1> QED
  BY <1>1, <1>5, <1>6, <1>7, <1>8, <1>10, OwnRelease

(* A call returns: its text and, if it consumes it, its object are freed.  *)
LEMMA OwnReturn ==
  ASSUME OInv, OwnInv, Return
  PROVE  OwnInv'
<1> DEFINE bs == {call.txt} \cup IF call.fn = "insert" THEN {} ELSE BlocksOf(call.o)
<1>1. call.at = "free" /\ call' = NoCall /\ Release(bs) /\ UNCHANGED <<mine, list, lost>>
  BY DEF Return, ghosts
<1>2. call # NoCall
  BY <1>1 DEF NoCall
<1>3. /\ call.fn = "insert" => bs = {call.txt} /\ call.o \in mine
      /\ call.fn # "insert" => bs = {call.txt, call.o} \cup StringsOf(obj[call.o])
  BY StringsAre DEF OwnInv
<1> HIDE DEF bs
<1>4. /\ call.o \in Blocks /\ obj[call.o] # NoObject /\ call.o \notin ToSet(list.items)
      /\ call.fn # "insert" => call.o \notin mine
      /\ call.txt \in mem \ mine /\ obj[call.txt] = NoObject /\ call.txt # list.l
      /\ call.txt \in Blocks
      /\ \A p \in Blocks : call.txt \notin StringsOf(obj[p])
  BY <1>2 DEF OInv, CallApart, MemoryTyped
<1>5. \A p \in Blocks : call.o \notin StringsOf(obj[p]) /\ StringsOf(obj[p]) \cap mine = {}
  BY <1>4 DEF OInv, Separated
<1>6. \A o \in Blocks : o \notin bs => StringsOf(obj[o]) \cap bs = {}
  BY <1>3, <1>4, <1>5 DEF OInv, Separated
<1>7. \A o \in Blocks : o \in bs => StringsOf(obj[o]) \subseteq bs
  BY <1>3, <1>4, KeptIs, NoObjectHas
<1>8. bs \subseteq Kept
  BY <1>3, <1>4 DEF Kept, Roots, AllStrings, Blocks, NoBlock
<1>9. Roots' = Roots \ bs
  <2>1. mine \cap bs = {}
    BY <1>3, <1>4, <1>5
  <2>2. list.l # NoBlock => list.l \notin bs
    BY <1>3, <1>4 DEF OInv, ListApart
  <2>3. ToSet(list.items) \cap bs = {}
    BY <1>3, <1>4 DEF OInv, ListApart, Separated
  <2>4. NoCall.txt = NoBlock /\ NoCall.o = NoBlock
    BY DEF NoCall
  <2>5. Roots' = mine \cup ToSet(list.items) \cup ({list.l} \ {NoBlock})
    BY <1>1, <2>4 DEF Roots
  <2>6. call.txt \in bs /\ (call.o \in bs \/ call.o \in mine)
    BY <1>3
  <2> QED
    BY <2>1, <2>2, <2>3, <2>5, <2>6 DEF Roots
<1> QED
  BY <1>1, <1>6, <1>7, <1>8, <1>9, OwnRelease DEF OwnInv

(* The first part of a call. *)
LEMMA OwnPrepare ==
  ASSUME OInv, OwnInv, NEW o \in mine,
         NEW fn \in {"insert", "toList", "count", "execute"},
         NEW refused \in BOOLEAN, NEW leak \in SUBSET (Blocks \ mem),
         Fresh(1) \notin leak, Fresh(2) \notin leak,
         call = NoCall, Prepare(o, fn, refused, leak), OInv'
  PROVE  OwnInv'
<1> DEFINE f == Fresh(1)
           g == Fresh(2)
<1>1. /\ fn = "toList" => /\ list = NoList /\ list' = [l |-> g, items |-> <<>>]
                          /\ mem' = mem \cup {f, g} \cup leak
      /\ fn # "toList" => UNCHANGED list /\ mem' = mem \cup {f} \cup leak
      /\ fn = "insert" => obj' = [obj EXCEPT ![o].made = "inserted"] /\ UNCHANGED mine
      /\ fn # "insert" => UNCHANGED obj /\ mine' = mine \ {o}
      /\ UNCHANGED str /\ lost' = lost \cup leak
      /\ call'.fn = fn /\ call'.o = o /\ call'.txt = f
  BY DEF Prepare
<1>2. f \in Blocks \ mem /\ (fn = "toList" => g \in Blocks \ mem)
  BY PreparedFresh
<1> HIDE DEF f, g
<1>3. o \in Blocks /\ obj[o] \in ObjectRecords /\ NoBlock \notin Blocks
  BY DEF OInv, MemoryTyped, Blocks, NoBlock
<1>4. \A p \in Blocks : StringsOf(obj'[p]) = StringsOf(obj[p]) /\ Once(obj'[p])
  <2>1. CASE fn = "insert"
    <3> DEFINE r == [obj[o] EXCEPT !.made = "inserted"]
    <3>1. StringsOf(r) = StringsOf(obj[o]) /\ Once(r)
      BY <1>3, MadeKeeps, OtherPartsOnce DEF Kinds, OwnInv
    <3>2. \A p \in Blocks : obj'[p] = IF p = o THEN r ELSE obj[p]
      BY <1>1, <2>1 DEF OInv, MemoryTyped
    <3> HIDE DEF r
    <3> QED
      BY <3>1, <3>2 DEF OwnInv
  <2>2. CASE fn # "insert"
    BY <1>1, <2>2 DEF OwnInv
  <2> QED
    BY <2>1, <2>2
<1>5. AllStrings' = AllStrings
  BY <1>4 DEF AllStrings
<1>6. Roots' = Roots \cup ((mem' \ mem) \ leak) /\ mem \subseteq mem'
      /\ leak \subseteq mem' \ mem
  <2>0. leak \cap mem = {} /\ f \notin leak /\ g \notin leak
    BY DEF f, g
  <2>1. call.txt = NoBlock /\ call.o = NoBlock
    BY DEF NoCall
  <2>2. mine' \cup {o} = mine \cup {o}
    BY <1>1
  <2>3. CASE fn = "toList"
    <3>1. /\ list.l = NoBlock /\ ToSet(list.items) = {}
          /\ list'.l = g /\ ToSet(list'.items) = {}
      BY <1>1, <2>3 DEF NoList, ToSet
    <3>2. (mem' \ mem) \ leak = {f, g}
      BY <1>1, <1>2, <2>3, <2>0
    <3> QED
      BY <1>1, <1>2, <1>3, <2>0, <2>1, <2>2, <2>3, <3>1, <3>2 DEF Roots
  <2>4. CASE fn # "toList"
    <3>1. (mem' \ mem) \ leak = {f}
      BY <1>1, <1>2, <2>4, <2>0
    <3> QED
      BY <1>1, <1>2, <1>3, <2>0, <2>1, <2>2, <2>4, <3>1 DEF Roots
  <2> QED
    BY <2>3, <2>4
<1>7. Kept' = mem' \ lost' /\ lost' \subseteq mem'
  BY <1>1, <1>5, <1>6 DEF Kept, OwnInv
<1>8. /\ \A i, j \in DOMAIN list'.items : list'.items[i] = list'.items[j] => i = j
      /\ list'.l = NoBlock => list'.items = <<>>
      /\ call'.fn = "toList" => list'.l # NoBlock
  <2>1. DOMAIN <<>> = {}
    OBVIOUS
  <2>2. CASE fn = "toList"
    BY <1>1, <1>2, <1>3, <2>1, <2>2
  <2>3. CASE fn # "toList"
    BY <1>1, <2>3 DEF OwnInv
  <2> QED
    BY <2>2, <2>3
<1> QED
  BY <1>1, <1>4, <1>6, <1>7, <1>8 DEF OwnInv

(* What malloc gives to a row of toList: a block for the object and one    *)
(* for each column.                                                        *)
LEMMA RowFresh ==
  ASSUME Room(1 + Len(Columns))
  PROVE  /\ Fresh(1) \in Blocks \ mem
         /\ \A c \in Cols : Fresh(1 + c) \in Blocks \ mem /\ Fresh(1 + c) # Fresh(1)
         /\ \A c, d \in Cols : Fresh(1 + c) = Fresh(1 + d) => c = d
         /\ {Fresh(k) : k \in 1..(1 + Len(Columns))}
              = {Fresh(1)} \cup {Fresh(1 + c) : c \in Cols}
<1>1. \A k \in 1..(1 + Len(Columns)) : k \in Nat \ {0} /\ Room(k)
  BY ColsAre, RoomForLess
<1>2. 1 \in 1..(1 + Len(Columns)) /\ \A c \in Cols : 1 + c \in 1..(1 + Len(Columns))
  BY ColsAre
<1>3. \A k \in 1..(1 + Len(Columns)) : Fresh(k) \in Blocks \ mem
  BY <1>1, FreshIs
<1>4. \A j, k \in 1..(1 + Len(Columns)) : j # k => Fresh(j) # Fresh(k)
  BY <1>1, FreshDiffer
<1>5. \A c \in Cols : 1 + c # 1 /\ \A d \in Cols : c # d => 1 + c # 1 + d
  BY ColsAre
<1>6. \A k \in 1..(1 + Len(Columns)) : k = 1 \/ \E c \in Cols : k = 1 + c
  <2> SUFFICES ASSUME NEW k \in 1..(1 + Len(Columns)), k # 1
               PROVE  k - 1 \in Cols /\ k = 1 + (k - 1)
    OBVIOUS
  <2> QED
    BY ColsAre
<1>7. {Fresh(k) : k \in 1..(1 + Len(Columns))}
        = {Fresh(1)} \cup {Fresh(1 + c) : c \in Cols}
  BY <1>2, <1>6
<1> QED
  BY <1>2, <1>3, <1>4, <1>5, <1>7

(* The object of a row of toList and its strings are the list's. *)
LEMMA OwnRow ==
  ASSUME OInv, OwnInv, Row
  PROVE  OwnInv'
<1> DEFINE f == Fresh(1)
           cols == [c \in Cols |-> Fresh(1 + c)]
           add == {Fresh(1 + c) : c \in Cols}
           r == [NoObject EXCEPT !.made = "row", !.cols = cols]
<1>1. /\ call.fn = "toList" /\ Room(1 + Len(Columns))
      /\ obj' = [obj EXCEPT ![f] = r]
      /\ mem' = mem \cup {Fresh(k) : k \in 1..(1 + Len(Columns))}
      /\ list' = [list EXCEPT !.items = Append(@, f)]
      /\ UNCHANGED <<mine, lost>>
      /\ call'.fn = call.fn /\ call'.o = call.o /\ call'.txt = call.txt
  <2>1. \A left : LET q == [call EXCEPT !.left = left]
                  IN  q.fn = call.fn /\ q.o = call.o /\ q.txt = call.txt
    BY DEF OInv, CallApart
  <2> QED
    BY <2>1 DEF Row, Step, ghosts
<1>2. /\ f \in Blocks \ mem /\ add \subseteq Blocks \ mem /\ f \notin add
      /\ mem' = mem \cup {f} \cup add
      /\ \A c, d \in Cols : cols[c] = cols[d] => c = d
      /\ cols \in [Cols -> Blocks] /\ add = {cols[c] : c \in Cols}
  BY <1>1, RowFresh
<1>3. Once(r) /\ StringsOf(r) = add
  <2> HIDE DEF cols
  <2> QED
    BY <1>2, RowOnce
<1>4. \A b \in Blocks : b \notin add => str'[b] = str[b]
  BY DEF Row
<1> HIDE DEF f, cols, add, r
<1>5. \A p \in Blocks : obj'[p] = IF p = f THEN r ELSE obj[p]
  BY <1>1, <1>2 DEF OInv, MemoryTyped
<1>6. AllStrings' = AllStrings \cup add
  <2>1. \A p \in Blocks : StringsOf(obj'[p]) = IF p = f THEN add ELSE StringsOf(obj[p])
    BY <1>3, <1>5
  <2>2. StringsOf(obj[f]) = {}
    BY <1>2, KeptIs
  <2> QED
    BY <1>2, <2>1, <2>2 DEF AllStrings
<1>7. /\ list.items \in Seq(Blocks) /\ list'.l = list.l
      /\ list'.items = Append(list.items, f)
  BY <1>1 DEF OInv, ListApart
<1>8. ToSet(list'.items) = ToSet(list.items) \cup {f}
  BY <1>2, <1>7, ToSetAppend
<1>9. Roots' = Roots \cup {f}
  BY <1>1, <1>7, <1>8 DEF Roots
<1>10. Kept' = mem' \ lost' /\ lost' \subseteq mem'
  BY <1>1, <1>2, <1>6, <1>9 DEF Kept, OwnInv
<1>11. \A i \in DOMAIN list.items : list.items[i] # f
  <2>1. \A i \in DOMAIN list.items : list.items[i] \in Kept
    BY DEF Kept, Roots, ToSet
  <2> QED
    BY <1>2, <2>1, KeptIs
<1>12. \A i, j \in DOMAIN list'.items : list'.items[i] = list'.items[j] => i = j
  <2> DEFINE q == list.items
             n == Len(q)
  <2>1. /\ n \in Nat /\ DOMAIN q = 1..n /\ DOMAIN Append(q, f) = 1..(n + 1)
        /\ Append(q, f)[n + 1] = f /\ \A i \in 1..n : Append(q, f)[i] = q[i]
    BY <1>2, <1>7
  <2>2. \A i \in 1..(n + 1) : i = n + 1 \/ i \in 1..n
    BY <2>1
  <2> HIDE DEF n
  <2> QED
    BY <1>7, <1>11, <2>1, <2>2 DEF OwnInv
<1>13. \A b \in Blocks : str'[b] # Blank => b \in mem'
  BY <1>2, <1>4 DEF OwnInv
<1> QED
  BY <1>1, <1>3, <1>5, <1>7, <1>10, <1>12, <1>13 DEF OwnInv

(* Every step gives each block that is allocated to somebody. *)
LEMMA OwnNext ==
  ASSUME OInv, OwnInv, [Next]_vars, OInv'
  PROVE  OwnInv'
<1>1. CASE Application
  <2>1. ASSUME NEW b \in Texts, NewString(b) PROVE OwnInv'
    BY <2>1, OwnNewString
  <2>2. ASSUME NEW b \in Texts, NEW s \in mine, Extend(s, b) PROVE OwnInv'
    BY <2>2, OwnExtend
  <2>3. ASSUME NEW made \in Made, New(made)
        PROVE  OwnInv'
    BY <2>3, OwnNew
  <2>4. ASSUME NEW o \in mine \cap Objects, NEW s \in mine \ Objects, NEW c \in Cols,
               \/ SetColumn(o, c, s) \/ AddTerm(o, "set", c, s)
               \/ AddTerm(o, "where", c, s)
        PROVE  OwnInv'
    BY <2>4, OwnSetColumn, OwnAddTerm
  <2>5. ASSUME NEW b \in mine, Free(b) PROVE OwnInv'
    BY <2>5, OwnFree
  <2>6. ASSUME FreeList PROVE OwnInv'
    BY <2>6, OwnFreeList
  <2>7. ASSUME NEW o \in mine, NEW fn \in {"insert", "toList", "count", "execute"},
               Start(o, fn)
        PROVE  OwnInv'
    <3> PICK refused \in BOOLEAN, leak \in SUBSET (Blocks \ mem) :
          /\ Fresh(1) \notin leak /\ Fresh(2) \notin leak
          /\ Prepare(o, fn, refused, leak)
      BY <2>7, StartIs
    <3>1. call = NoCall
      BY <2>7, StartIs
    <3> QED
      BY <3>1, OwnPrepare
  <2> QED
    BY <1>1, <2>1, <2>2, <2>3, <2>4, <2>5, <2>6, <2>7 DEF Application
<1>2. CASE Done \/ Insert \/ Execute \/ StepFails \/ Finalize
  <2>1. /\ call'.o = call.o /\ call'.txt = call.txt /\ call'.fn = call.fn
    BY <1>2 DEF OInv, CallApart, Done, Insert, Execute, StepFails, Finalize, Ends
  <2>2. UNCHANGED <<mem, str, obj, mine, list, lost>>
    BY <1>2 DEF Done, Insert, Execute, StepFails, Finalize, memory, ghosts
  <2> QED
    BY <2>1, <2>2, OwnCall
<1>3. CASE UNCHANGED vars
  BY <1>3, OwnCall DEF vars, memory, ghosts
<1> QED
  BY <1>1, <1>2, <1>3, OwnRow, OwnReturn DEF Next, Finished, Running

(* The invariants together. *)
LEMMA OwnersInvariant == Spec => [](OInv /\ OwnInv)
<1>1. Init => OInv /\ OwnInv
  BY OInit, OwnInit
<1>2. OInv /\ OwnInv /\ [Next]_vars => OInv' /\ OwnInv'
  BY ONext, OwnNext
<1> QED
  BY <1>1, <1>2, PTL DEF Spec

(* What is allocated is all that there is of memory, and what is lost is   *)
(* never freed.                                                            *)
THEOREM ObjectTypes == Spec => []TypeOK
<1>1. OInv /\ OwnInv => TypeOK
  BY DEF OInv, OwnInv, MemoryTyped, CallApart, Places, TypeOK
<1> QED
  BY <1>1, OwnersInvariant, PTL

(* A pointer is in one of these places. *)
LEMMA PointerPlaces ==
  ASSUME NEW p \in Pointers
  PROVE  /\ p[4] # NoBlock
         /\ \/ p[4] \in mine /\ p = <<"mine", NoBlock, 0, p[4]>>
            \/ \E i \in DOMAIN list.items :
                 p[4] = list.items[i] /\ p = <<"item", NoBlock, i, p[4]>>
            \/ p[4] = list.l /\ p = <<"list", NoBlock, 0, p[4]>>
            \/ p[4] = call.txt /\ p = <<"text", NoBlock, 0, p[4]>>
            \/ /\ call.fn # "insert" /\ p[4] = call.o
               /\ p = <<"call", NoBlock, 0, p[4]>>
            \/ \E o \in Objects : p \in PointersOf(o)
<1>1. p[4] # NoBlock
  BY DEF Pointers
<1>2. \/ p \in {<<"mine", NoBlock, 0, b>> : b \in mine}
      \/ p \in {<<"item", NoBlock, i, list.items[i]>> : i \in DOMAIN list.items}
      \/ p = <<"list", NoBlock, 0, list.l>>
      \/ p = <<"text", NoBlock, 0, call.txt>>
      \/ p = <<"call", NoBlock, 0, IF call.fn = "insert" THEN NoBlock ELSE call.o>>
      \/ p \in UNION {PointersOf(o) : o \in Objects}
  BY Zenon DEF Pointers
<1>3. CASE p \in {<<"mine", NoBlock, 0, b>> : b \in mine}
  BY <1>1, <1>3
<1>4. CASE p \in {<<"item", NoBlock, i, list.items[i]>> : i \in DOMAIN list.items}
  BY <1>1, <1>4
<1>5. CASE p = <<"list", NoBlock, 0, list.l>> \/ p = <<"text", NoBlock, 0, call.txt>>
  BY <1>1, <1>5
<1>6. CASE p = <<"call", NoBlock, 0, IF call.fn = "insert" THEN NoBlock ELSE call.o>>
  BY <1>1, <1>6
<1>7. CASE p \in UNION {PointersOf(o) : o \in Objects}
  BY <1>1, <1>7, Zenon
<1> QED
  BY <1>2, <1>3, <1>4, <1>5, <1>6, <1>7

(* A string that an object holds is in one of its places. *)
LEMMA StringPlaces ==
  ASSUME NEW o, NEW p \in PointersOf(o)
  PROVE  \/ \E c \in Cols : p[4] = obj[o].cols[c] /\ p = <<"column", o, c, p[4]>>
         \/ \E k \in DOMAIN obj[o].set :
              p[4] = obj[o].set[k][2] /\ p = <<"set", o, k, p[4]>>
         \/ \E k \in DOMAIN obj[o].where :
              p[4] = obj[o].where[k][2] /\ p = <<"where", o, k, p[4]>>
<1>1. CASE p \in {<<"column", o, c, obj[o].cols[c]>> : c \in Cols}
  BY <1>1
<1>2. CASE p \in {<<"set", o, k, obj[o].set[k][2]>> : k \in DOMAIN obj[o].set}
  BY <1>2
<1>3. CASE p \in {<<"where", o, k, obj[o].where[k][2]>> : k \in DOMAIN obj[o].where}
  BY <1>3
<1> QED
  BY <1>1, <1>2, <1>3 DEF PointersOf

(* The pointers of an object point to its strings ... *)
LEMMA ObjectPointers ==
  ASSUME OInv, NEW o \in Objects
  PROVE  /\ \A p \in PointersOf(o) : p[4] # NoBlock => p[4] \in StringsOf(obj[o])
         /\ \A s \in StringsOf(obj[o]) : \E p \in PointersOf(o) : p[4] = s
         /\ o \in Blocks /\ obj[o] \in ObjectRecords /\ obj[o] # NoObject
<1>1. o \in Blocks /\ obj[o] \in ObjectRecords /\ obj[o] # NoObject
  BY DEF Objects, OInv, MemoryTyped
<1>2. \A p \in PointersOf(o) : p[4] # NoBlock => p[4] \in StringsOf(obj[o])
  BY <1>1, StringPlaces, StringsIn
<1>3. \A s \in StringsOf(obj[o]) : \E p \in PointersOf(o) : p[4] = s
  <2> SUFFICES ASSUME NEW s \in StringsOf(obj[o])
               PROVE  \E p \in PointersOf(o) : p[4] = s
    OBVIOUS
  <2>1. CASE \E c \in Cols : s = obj[o].cols[c]
    <3> PICK c \in Cols : s = obj[o].cols[c]
      BY <2>1
    <3>1. <<"column", o, c, s>> \in PointersOf(o)
      BY DEF PointersOf
    <3> QED
      BY <3>1
  <2>2. CASE \E k \in DOMAIN obj[o].set : s = obj[o].set[k][2]
    <3> PICK k \in DOMAIN obj[o].set : s = obj[o].set[k][2]
      BY <2>2
    <3>1. <<"set", o, k, s>> \in PointersOf(o)
      BY DEF PointersOf
    <3> QED
      BY <3>1
  <2>3. CASE \E k \in DOMAIN obj[o].where : s = obj[o].where[k][2]
    <3> PICK k \in DOMAIN obj[o].where : s = obj[o].where[k][2]
      BY <2>3
    <3>1. <<"where", o, k, s>> \in PointersOf(o)
      BY DEF PointersOf
    <3> QED
      BY <3>1
  <2> QED
    BY <1>1, <2>1, <2>2, <2>3, StringsIn
<1> QED
  BY <1>1, <1>2, <1>3

(* ... and to no string twice.                                             *)
LEMMA ObjectPointersDiffer ==
  ASSUME OInv, OwnInv, NEW o \in Objects, NEW p \in PointersOf(o),
         NEW q \in PointersOf(o), p[4] = q[4], p[4] # NoBlock
  PROVE  p = q
<1> DEFINE r == obj[o]
           InColumn(x, c) == x[4] = r.cols[c] /\ x = <<"column", o, c, x[4]>>
           InSet(x, k) == x[4] = r.set[k][2] /\ x = <<"set", o, k, x[4]>>
           InWhere(x, k) == x[4] = r.where[k][2] /\ x = <<"where", o, k, x[4]>>
<1>1. Once(r)
  BY ObjectPointers DEF OwnInv
<1>2. \A x \in {p, q} : \/ \E c \in Cols : InColumn(x, c)
                        \/ \E k \in DOMAIN r.set : InSet(x, k)
                        \/ \E k \in DOMAIN r.where : InWhere(x, k)
  BY StringPlaces
<1> HIDE DEF r
<1>3. CASE \E c \in Cols : InColumn(p, c)
  <2>1. PICK c \in Cols : InColumn(p, c)
    BY <1>3
  <2>2. PICK d \in Cols : InColumn(q, d)
    BY <1>1, <1>2, <2>1 DEF Once
  <2>3. c = d
    BY <1>1, <2>1, <2>2 DEF Once
  <2> QED
    BY <2>1, <2>2, <2>3
<1>4. CASE \E k \in DOMAIN r.set : InSet(p, k)
  <2>1. PICK j \in DOMAIN r.set : InSet(p, j)
    BY <1>4
  <2>2. PICK k \in DOMAIN r.set : InSet(q, k)
    <3>1. ASSUME NEW c \in Cols, InColumn(q, c) PROVE FALSE
      <4>1. r.cols[c] = r.set[j][2]
        BY <2>1, <3>1
      <4> QED
        BY <1>1, <4>1 DEF Once
    <3>2. ASSUME NEW k \in DOMAIN r.where, InWhere(q, k) PROVE FALSE
      <4>1. r.where[k][2] = r.set[j][2]
        BY <2>1, <3>2
      <4> QED
        BY <1>1, <4>1 DEF Once
    <3> QED
      BY <1>2, <3>1, <3>2
  <2>3. j = k
    BY <1>1, <2>1, <2>2 DEF Once
  <2> QED
    BY <2>1, <2>2, <2>3
<1>5. CASE \E k \in DOMAIN r.where : InWhere(p, k)
  <2>1. PICK j \in DOMAIN r.where : InWhere(p, j)
    BY <1>5
  <2>2. PICK k \in DOMAIN r.where : InWhere(q, k)
    <3>1. ASSUME NEW c \in Cols, InColumn(q, c) PROVE FALSE
      <4>1. r.cols[c] = r.where[j][2]
        BY <2>1, <3>1
      <4> QED
        BY <1>1, <4>1 DEF Once
    <3>2. ASSUME NEW k \in DOMAIN r.set, InSet(q, k) PROVE FALSE
      <4>1. r.set[k][2] = r.where[j][2]
        BY <2>1, <3>2
      <4> QED
        BY <1>1, <4>1 DEF Once
    <3> QED
      BY <1>2, <3>1, <3>2
  <2>3. j = k
    BY <1>1, <2>1, <2>2 DEF Once
  <2> QED
    BY <2>1, <2>2, <2>3
<1> QED
  BY <1>2, <1>3, <1>4, <1>5

(* Every pointer points to what is kept, ... *)
LEMMA PointersKept ==
  ASSUME OInv, OwnInv
  PROVE  {p[4] : p \in Pointers} = Kept
<1>1. ASSUME NEW p \in Pointers PROVE p[4] \in Kept
  <2>1. CASE \E o \in Objects : p \in PointersOf(o)
    BY <2>1, PointerPlaces, ObjectPointers DEF Kept, AllStrings
  <2>2. CASE ~\E o \in Objects : p \in PointersOf(o)
    BY <2>2, PointerPlaces DEF Kept, Roots, ToSet
  <2> QED
    BY <2>1, <2>2
<1>2. ASSUME NEW b \in Kept PROVE \E p \in Pointers : p[4] = b
  <2>1. b \in Blocks /\ b # NoBlock
    BY KeptIs DEF Blocks, NoBlock
  <2>2. CASE b \in mine
    <3>1. <<"mine", NoBlock, 0, b>> \in Pointers
      BY <2>1, <2>2 DEF Pointers
    <3> QED
      BY <3>1
  <2>3. CASE b \in ToSet(list.items)
    <3> PICK i \in DOMAIN list.items : b = list.items[i]
      BY <2>3 DEF ToSet
    <3>1. <<"item", NoBlock, i, b>> \in Pointers
      BY <2>1 DEF Pointers
    <3> QED
      BY <3>1
  <2>4. CASE b = list.l
    <3>1. <<"list", NoBlock, 0, b>> \in Pointers
      BY <2>1, <2>4 DEF Pointers
    <3> QED
      BY <3>1
  <2>5. CASE b = call.txt
    <3>1. <<"text", NoBlock, 0, b>> \in Pointers
      BY <2>1, <2>5 DEF Pointers
    <3> QED
      BY <3>1
  <2>6. CASE b = call.o
    <3>1. CASE call.fn = "insert"
      BY <2>2, <2>6, <3>1 DEF OwnInv
    <3>2. CASE call.fn # "insert"
      <4>1. <<"call", NoBlock, 0, b>> \in Pointers
        BY <2>1, <2>6, <3>2 DEF Pointers
      <4> QED
        BY <4>1
    <3> QED
      BY <3>1, <3>2
  <2>7. CASE b \in AllStrings
    <3> PICK o \in Blocks : b \in StringsOf(obj[o])
      BY <2>7 DEF AllStrings
    <3>1. o \in Objects
      BY NoObjectHas DEF Objects
    <3>2. PICK p \in PointersOf(o) : p[4] = b
      BY <3>1, ObjectPointers
    <3>3. p \in Pointers
      BY <2>1, <3>1, <3>2 DEF Pointers
    <3> QED
      BY <3>2, <3>3
  <2> QED
    BY <2>2, <2>3, <2>4, <2>5, <2>6, <2>7 DEF Kept, Roots
<1> QED
  BY <1>1, <1>2

(* ... and no two to the same.                                             *)
LEMMA PointersDiffer ==
  ASSUME OInv, OwnInv, NEW p \in Pointers, NEW q \in Pointers, p[4] = q[4]
  PROVE  p = q
<1> DEFINE b == p[4]
<1>1. b # NoBlock /\ b \in Blocks
  BY PointersKept, PointerPlaces, KeptIs
<1>2. /\ \A o \in Blocks : /\ StringsOf(obj[o]) \cap mine = {}
                           /\ obj[o] # NoObject => \A r \in Blocks : o \notin StringsOf(obj[r])
                           /\ \A r \in Blocks \ {o} :
                                StringsOf(obj[o]) \cap StringsOf(obj[r]) = {}
      /\ mine \subseteq Blocks
  BY DEF OInv, Separated, MemoryTyped
<1>3. /\ list.l # NoBlock => /\ list.l \notin mine /\ obj[list.l] = NoObject
                             /\ \A r \in Blocks : list.l \notin StringsOf(obj[r])
      /\ \A i \in DOMAIN list.items :
           list.items[i] \in Blocks \ mine /\ obj[list.items[i]] # NoObject
  BY DEF OInv, ListApart, ToSet
<1>4. call # NoCall =>
        /\ call.o \in Blocks /\ obj[call.o] # NoObject
        /\ \A i \in DOMAIN list.items : call.o # list.items[i]
        /\ call.fn # "insert" => call.o \notin mine
        /\ call.txt \notin mine /\ obj[call.txt] = NoObject /\ call.txt # list.l
        /\ \A r \in Blocks : call.txt \notin StringsOf(obj[r])
  BY DEF OInv, CallApart, ToSet
<1>5. call = NoCall => call.txt = NoBlock /\ call.o = NoBlock
  BY DEF NoCall
<1>6. \A x \in {p, q} : (\E o \in Objects : x \in PointersOf(o)) =>
        \E o \in Objects : x \in PointersOf(o) /\ b \in StringsOf(obj[o]) /\ o \in Blocks
  BY <1>1, ObjectPointers
<1> HIDE DEF b
<1>7. CASE b \in mine
  BY <1>1, <1>2, <1>3, <1>4, <1>5, <1>6, <1>7, PointerPlaces DEF b
<1>8. CASE \E i \in DOMAIN list.items : b = list.items[i]
  BY <1>1, <1>2, <1>3, <1>4, <1>5, <1>6, <1>8, PointerPlaces DEF b, OwnInv
<1>9. CASE b = list.l
  BY <1>1, <1>2, <1>3, <1>4, <1>5, <1>6, <1>9, PointerPlaces DEF b
<1>10. CASE b = call.txt
  BY <1>1, <1>2, <1>3, <1>4, <1>5, <1>6, <1>10, PointerPlaces DEF b
<1>11. CASE b = call.o /\ call.fn # "insert"
  BY <1>1, <1>2, <1>3, <1>4, <1>5, <1>6, <1>11, PointerPlaces DEF b
<1>12. CASE \E o \in Objects : p \in PointersOf(o)
  <2>1. PICK o \in Objects : p \in PointersOf(o) /\ b \in StringsOf(obj[o]) /\ o \in Blocks
    BY <1>6, <1>12
  <2>2. \E r \in Objects : q \in PointersOf(r)
    BY <1>1, <1>2, <1>3, <1>4, <1>5, <2>1, PointerPlaces DEF b
  <2>3. PICK r \in Objects : q \in PointersOf(r) /\ b \in StringsOf(obj[r]) /\ r \in Blocks
    BY <1>6, <2>2
  <2>4. r = o
    BY <1>2, <2>1, <2>3
  <2> QED
    BY <1>1, <2>1, <2>3, <2>4, ObjectPointersDiffer DEF b
<1> QED
  BY <1>7, <1>8, <1>9, <1>10, <1>11, <1>12, PointerPlaces DEF b

(* Every block that is allocated, but for what a failed realloc lost, has  *)
(* exactly one owner, after any calls on any objects, strings and lists,   *)
(* and whichever call or realloc fails: none leaks, none is freed twice,   *)
(* and no pointer is left to one that is free.                             *)
THEOREM BlocksAreOwned == Spec => []Owned
<1>1. OInv /\ OwnInv => Owned
  <2> SUFFICES ASSUME OInv, OwnInv PROVE Owned
    OBVIOUS
  <2>1. {p[4] : p \in Pointers} = mem \ lost
    BY PointersKept DEF OwnInv
  <2>2. \A p, q \in Pointers : p[4] = q[4] => p = q
    BY PointersDiffer
  <2>3. call.o \in {NoBlock} \cup (mem \ lost)
    BY DEF OwnInv, Kept, Roots
  <2> QED
    BY <2>1, <2>2, <2>3 DEF Owned
<1> QED
  BY <1>1, OwnersInvariant, PTL

-----------------------------------------------------------------------------
(* The table.                                                              *)

(* A string has the bytes that the application put into it. *)
Meant(s) == str[s].s # Null /\ TextOf(str[s]) = said[s]

(* Objects that the application made, not the rows of a list. *)
Asking(o) == obj[o].made \notin {"none", "row"}

(* Until a realloc fails, the strings of the application and of the        *)
(* objects it made have their bytes, these objects their clauses, and the  *)
(* table the rows.                                                         *)
MeantInv ==
  /\ said \in [Blocks -> Seq(Int)]
  /\ \A o \in mine : obj[o] # NoObject => Asking(o)
  /\ call # NoCall => Asking(call.o)
  /\ ~trouble =>
       /\ \A s \in mine : obj[s] = NoObject => Meant(s)
       /\ \A o \in Blocks : Asking(o) =>
            obj[o].gone = {} /\ \A s \in StringsOf(obj[o]) : Meant(s)
       /\ table = asked

(* A step that changes no more than this keeps that. *)
MeaningKept ==
  ~trouble' =>
    /\ ~trouble
    /\ \A s \in mine' : obj'[s] = NoObject =>
         \/ s \in mine /\ obj[s] = NoObject /\ str'[s] = str[s] /\ said'[s] = said[s]
         \/ Meant(s)'
    /\ \A o \in Blocks : Asking(o)' =>
         /\ obj'[o].gone = {}
         /\ \A s \in StringsOf(obj'[o]) :
              \/ /\ Asking(o) /\ s \in StringsOf(obj[o])
                 /\ str'[s] = str[s] /\ said'[s] = said[s]
              \/ Meant(s)'
    /\ table' = asked'

(* At the start there are no strings, and the table is as it is stored. *)
LEMMA MeantInit == Init => MeantInv
<1> SUFFICES ASSUME Init PROVE MeantInv
  OBVIOUS
<1>1. /\ mine = {} /\ call = NoCall /\ table = asked
      /\ said = [b \in Blocks |-> <<>>] /\ obj = [b \in Blocks |-> NoObject]
  BY DEF Init
<1>2. said \in [Blocks -> Seq(Int)]
  <2>1. <<>> \in Seq(Int)
    BY EmptySeq
  <2> QED
    BY <1>1, <2>1
<1>3. \A o \in Blocks : ~Asking(o)
  BY <1>1, NoObjectHas DEF Asking
<1> QED
  BY <1>1, <1>2, <1>3 DEF MeantInv

(* Objects and strings that stay as they are keep their meaning. *)
LEMMA MeantKeeps ==
  ASSUME MeantInv, said' \in [Blocks -> Seq(Int)],
         \A o \in mine' : obj'[o] # NoObject => Asking(o)',
         call' # NoCall => Asking(call.o)',
         MeaningKept
  PROVE  MeantInv'
<1>1. ASSUME ~trouble', NEW s \in mine', obj'[s] = NoObject PROVE Meant(s)'
  BY <1>1 DEF MeantInv, Meant, MeaningKept
<1>2. ASSUME ~trouble', NEW o \in Blocks, Asking(o)', NEW s \in StringsOf(obj'[o])
      PROVE  Meant(s)'
  BY <1>2 DEF MeantInv, Meant, MeaningKept
<1> QED
  BY <1>1, <1>2 DEF MeantInv, MeaningKept

(* The strings of the application: ... *)
LEMMA MeantNewString ==
  ASSUME OInv, MeantInv, NEW b \in Texts, NewString(b)
  PROVE  MeantInv'
<1>1. PICK f \in Blocks \ mem : f = Fresh(1)
  BY FreshOne DEF NewString
<1>2. /\ call = NoCall /\ UNCHANGED <<obj, list, call, table, asked>>
      /\ mine' = mine \cup {f} /\ said' = [said EXCEPT ![f] = b]
      /\ \A x \in Blocks : x # f => str'[x] = str[x]
      /\ ~trouble' => ~trouble /\ str' = [str EXCEPT ![f] = Con(Blank, b)]
  BY <1>1 DEF NewString, App, AppReallocFails, Acts, OInv, MemoryTyped
<1>3. b \in Seq(Int) /\ said' \in [Blocks -> Seq(Int)]
      /\ \A x \in Blocks : said'[x] = IF x = f THEN b ELSE said[x]
  BY <1>1, <1>2, Texts0 DEF MeantInv
<1>4. ASSUME ~trouble' PROVE Meant(f)'
  <2>1. /\ Con(Blank, b).s # Null
        /\ TextOf(Con(Blank, b)) = TextOf(Blank) \o b
    BY <1>3, BlankIs, ConIs DEF Blank
  <2>2. TextOf(Blank) = <<>>
    BY DEF TextOf, Blank, Null
  <2>3. <<>> \o b = b
    BY <1>3
  <2>4. str'[f] = Con(Blank, b)
    BY <1>1, <1>2, <1>4 DEF OInv, MemoryTyped
  <2> QED
    BY <1>1, <1>3, <2>1, <2>2, <2>3, <2>4 DEF Meant
<1>5. \A o \in Blocks : f \notin StringsOf(obj[o]) /\ StringsOf(obj[o]) \subseteq Blocks
  BY <1>1 DEF OInv, Separated, MemoryTyped
<1>6. obj[f] = NoObject /\ mine \subseteq Blocks
  BY <1>1 DEF OInv, Separated, MemoryTyped
<1>7. \A o : Asking(o)' <=> Asking(o)
  BY <1>2 DEF Asking
<1>8. \A o \in mine' : obj'[o] # NoObject => Asking(o)'
  BY <1>2, <1>6, <1>7 DEF MeantInv
<1>9. MeaningKept
  BY <1>2, <1>3, <1>4, <1>5, <1>6, <1>7 DEF MeantInv, MeaningKept
<1> QED
  BY <1>2, <1>3, <1>8, <1>9, MeantKeeps DEF NoCall

(* ... what is appended to one is said and written.                        *)
LEMMA MeantExtend ==
  ASSUME OInv, MeantInv, NEW b \in Texts, NEW s \in mine, Extend(s, b)
  PROVE  MeantInv'
<1>1. /\ call = NoCall /\ UNCHANGED <<obj, mine, list, call, table, asked>>
      /\ said' = [said EXCEPT ![s] = @ \o b] /\ obj[s] = NoObject
      /\ \A x \in Blocks : x # s => str'[x] = str[x]
      /\ ~trouble' => ~trouble /\ str' = [str EXCEPT ![s] = Con(@, b)]
      /\ s \in Blocks
  BY DEF Extend, App, AppReallocFails, Acts, OInv, MemoryTyped, Objects
<1>2. b \in Seq(Int) /\ said[s] \o b \in Seq(Int)
  <2>1. b \in Seq(Int) /\ said[s] \in Seq(Int)
    BY <1>1, Texts0 DEF MeantInv
  <2> QED
    BY <2>1, ConcatProperties
<1>3. said' \in [Blocks -> Seq(Int)]
      /\ \A x \in Blocks : said'[x] = IF x = s THEN said[s] \o b ELSE said[x]
  BY <1>1, <1>2 DEF MeantInv
<1>4. ASSUME ~trouble' PROVE Meant(s)'
  <2>1. str[s] \in Strs /\ Terminated(str[s]) /\ Meant(s)
    BY <1>1, <1>4 DEF OInv, MemoryTyped, StringsTerminated, MeantInv
  <2>2. /\ Con(str[s], b).s # Null
        /\ TextOf(Con(str[s], b)) = said[s] \o b
    BY <1>2, <2>1, ConIs DEF Meant
  <2>3. str'[s] = Con(str[s], b)
    BY <1>1, <1>4 DEF OInv, MemoryTyped
  <2> QED
    BY <1>1, <1>3, <2>2, <2>3 DEF Meant
<1>5. /\ mine \subseteq Blocks
      /\ \A o \in Blocks : s \notin StringsOf(obj[o]) /\ StringsOf(obj[o]) \subseteq Blocks
  BY DEF OInv, Separated, MemoryTyped
<1>6. \A o : Asking(o)' <=> Asking(o)
  BY <1>1 DEF Asking
<1>7. MeaningKept
  BY <1>1, <1>3, <1>4, <1>5, <1>6 DEF MeantInv, MeaningKept
<1> QED
  BY <1>1, <1>3, <1>6, <1>7, MeantKeeps DEF MeantInv

(* Objects are made without strings. *)
LEMMA MeantNew ==
  ASSUME OInv, MeantInv, NEW made \in Made, New(made)
  PROVE  MeantInv'
<1> PICK gone \in SUBSET TextNames, leak \in SUBSET (Blocks \ mem) :
      /\ Fresh(1) \notin leak /\ NewWith(made, gone, leak)
      /\ trouble' = TRUE \/ (UNCHANGED trouble /\ gone = {})
  BY NewIs
<1> DEFINE f == Fresh(1)
           r == [NoObject EXCEPT !.made = made, !.gone = gone]
<1>1. f \in Blocks \ mem
  BY FreshOne DEF NewWith
<1>2. /\ call = NoCall /\ UNCHANGED <<str, said, call, table, asked>>
      /\ mine' = mine \cup {f} /\ obj' = [obj EXCEPT ![f] = r]
  BY NewIs DEF NewWith
<1>3. StringsOf(r) = {} /\ r.made \notin {"none", "row"} /\ r # NoObject /\ r.gone = gone
  <2>1. StringsOf(r) = {} /\ r.made = made /\ r # NoObject /\ r.gone = gone
    BY NewHas
  <2> HIDE DEF r
  <2> QED
    BY <2>1 DEF Made
<1> HIDE DEF f, r
<1>4. \A o \in Blocks : obj'[o] = IF o = f THEN r ELSE obj[o]
  BY <1>2 DEF OInv, MemoryTyped
<1>5. \A o \in Blocks : Asking(o)' <=> o = f \/ Asking(o)
  BY <1>3, <1>4 DEF Asking
<1>6. mine \subseteq Blocks
  BY DEF OInv, MemoryTyped
<1>7. \A o \in mine' : obj'[o] # NoObject => Asking(o)'
  BY <1>1, <1>2, <1>4, <1>5, <1>6 DEF MeantInv
<1>8. MeaningKept
  BY <1>1, <1>2, <1>3, <1>4, <1>5, <1>6 DEF MeantInv, MeaningKept
<1> QED
  BY <1>2, <1>7, <1>8, MeantKeeps DEF MeantInv

(* An object gets a string of the application. *)
LEMMA MeantGive ==
  ASSUME OInv, MeantInv, NEW o \in mine, NEW s \in mine, NEW r,
         obj[o] # NoObject, obj[s] = NoObject, r.made = obj[o].made,
         StringsOf(r) = StringsOf(obj[o]) \cup {s},
         ~trouble' => ~trouble /\ r.gone = obj[o].gone,
         obj' = [obj EXCEPT ![o] = r], mine' = mine \ {s},
         UNCHANGED <<str, said, call, table, asked>>, call = NoCall
  PROVE  MeantInv'
<1>1. /\ o \in Blocks /\ mine \subseteq Blocks
      /\ \A p \in Blocks : obj'[p] = IF p = o THEN r ELSE obj[p]
  BY DEF OInv, MemoryTyped
<1>2. \A p \in Blocks : Asking(p)' <=> Asking(p)
  BY <1>1 DEF Asking
<1>3. Asking(o)
  BY DEF MeantInv
<1>4. r # NoObject
  BY <1>3, NoObjectHas DEF Asking
<1>5. \A p \in mine' : obj'[p] # NoObject => Asking(p)'
  BY <1>1, <1>2, <1>3 DEF MeantInv
<1>6. MeaningKept
  BY <1>1, <1>2, <1>3, <1>4 DEF MeantInv, Meant, MeaningKept
<1> QED
  BY <1>5, <1>6, MeantKeeps DEF MeantInv

(* It goes to a column ... *)
LEMMA MeantSetColumn ==
  ASSUME OInv, OwnInv, MeantInv,
         NEW o \in mine \cap Objects, NEW s \in mine \ Objects, NEW c \in Cols,
         SetColumn(o, c, s)
  PROVE  MeantInv'
<1> DEFINE r == [obj[o] EXCEPT !.cols[c] = s]
<1>1. /\ o \in Blocks /\ s \in Blocks /\ obj[o] \in ObjectRecords /\ Once(obj[o])
      /\ s \notin StringsOf(obj[o]) /\ obj[o].cols[c] = NoBlock
      /\ obj[o] # NoObject /\ obj[s] = NoObject
  BY DEF OInv, MemoryTyped, Separated, OwnInv, SetColumn, Objects
<1>2. StringsOf(r) = StringsOf(obj[o]) \cup {s}
  BY <1>1, ColumnOnce
<1>3. r.made = obj[o].made /\ r.gone = obj[o].gone
  BY <1>1 DEF ObjectRecords
<1>4. /\ call = NoCall /\ UNCHANGED <<str, said, call, table, asked, trouble>>
      /\ mine' = mine \ {s} /\ obj' = [obj EXCEPT ![o] = r]
  BY DEF SetColumn, App, Acts, memory
<1> HIDE DEF r
<1> QED
  BY <1>1, <1>2, <1>3, <1>4, MeantGive

(* ... or to a clause; when a realloc fails, its text is gone. *)
LEMMA MeantAddTerm ==
  ASSUME OInv, OwnInv, MeantInv,
         NEW o \in mine \cap Objects, NEW s \in mine \ Objects, NEW c \in Cols,
         NEW clause \in {"set", "where"}, AddTerm(o, clause, c, s)
  PROVE  MeantInv'
<1> DEFINE r == IF clause = "set" THEN [obj[o] EXCEPT !.set = Append(@, <<c, s>>)]
                ELSE [obj[o] EXCEPT !.where = Append(@, <<c, s>>)]
           q == [r EXCEPT !.gone = @ \cup {clause}]
<1>1. /\ o \in Blocks /\ s \in Blocks /\ obj[o] \in ObjectRecords /\ Once(obj[o])
      /\ s \notin StringsOf(obj[o]) /\ obj[o] # NoObject /\ obj[s] = NoObject
  BY DEF OInv, MemoryTyped, Separated, OwnInv, AddTerm, Objects
<1>2. StringsOf(r) = StringsOf(obj[o]) \cup {s}
      /\ r \in ObjectRecords /\ r.made = obj[o].made /\ r.gone = obj[o].gone
  <2> DEFINE t == <<c, s>>
  <2>1. t \in Cols \X Blocks
    BY <1>1
  <2>2. CASE clause = "set"
    <3>1. r = [obj[o] EXCEPT !.set = Append(@, t)]
      BY <2>2
    <3>2. [obj[o] EXCEPT !.set = Append(@, t)] \in ObjectRecords
      <4> HIDE DEF t
      <4> QED
        BY <1>1, <2>1, SetAdds
    <3>3. r.made = obj[o].made /\ r.gone = obj[o].gone
      BY <1>1, <3>1 DEF ObjectRecords
    <3> HIDE DEF r
    <3> QED
      BY <1>1, <3>1, <3>2, <3>3, SetOnce
  <2>3. CASE clause = "where"
    <3>1. r = [obj[o] EXCEPT !.where = Append(@, t)]
      BY <2>3
    <3>2. [obj[o] EXCEPT !.where = Append(@, t)] \in ObjectRecords
      <4> HIDE DEF t
      <4> QED
        BY <1>1, <2>1, WhereAdds
    <3>3. r.made = obj[o].made /\ r.gone = obj[o].gone
      BY <1>1, <3>1 DEF ObjectRecords
    <3> HIDE DEF r
    <3> QED
      BY <1>1, <3>1, <3>2, <3>3, WhereOnce
  <2> QED
    BY <2>2, <2>3
<1>3. \/ obj' = [obj EXCEPT ![o] = r] /\ UNCHANGED trouble
      \/ /\ obj' = [[obj EXCEPT ![o] = r] EXCEPT ![o].gone = @ \cup {clause}]
         /\ trouble' = TRUE
  BY DEF AddTerm, App, AppReallocFails
<1>4. /\ call = NoCall /\ UNCHANGED <<str, said, call, table, asked>>
      /\ mine' = mine \ {s}
  BY DEF AddTerm, App, AppReallocFails, Acts
<1> HIDE DEF r
<1>5. StringsOf(q) = StringsOf(r) /\ q.made = r.made
  BY <1>2, GoneKeeps
<1>6. \/ obj' = [obj EXCEPT ![o] = r] /\ UNCHANGED trouble
      \/ obj' = [obj EXCEPT ![o] = q] /\ trouble' = TRUE
  BY <1>1, <1>3 DEF OInv, MemoryTyped
<1> HIDE DEF q
<1> QED
  BY <1>1, <1>2, <1>4, <1>5, <1>6, MeantGive

(* Freed are objects with their strings, and strings of the application:   *)
(* by the application, ...                                                 *)
LEMMA FreeApart ==
  ASSUME OInv, NEW b \in mine, Free(b)
  PROVE  \E bs : /\ Release(bs) /\ mine' \subseteq mine \ bs
                 /\ \A o \in Blocks : o \notin bs => StringsOf(obj[o]) \cap bs = {}
<1> DEFINE bs == IF b \in Objects THEN BlocksOf(b) ELSE {b}
<1>1. mine' = mine \ {b} /\ Release(bs)
  BY DEF Free
<1>2. b \in Blocks
  BY DEF OInv, MemoryTyped
<1>3. bs = {b} \cup StringsOf(obj[b])
  BY <1>2, StringsAre, NoObjectHas DEF Objects
<1> HIDE DEF bs
<1>4. \A o \in Blocks : b \notin StringsOf(obj[o]) /\ StringsOf(obj[o]) \cap mine = {}
  BY DEF OInv, Separated
<1>5. \A o \in Blocks : o \notin bs => StringsOf(obj[o]) \cap bs = {}
  BY <1>2, <1>3, <1>4 DEF OInv, Separated
<1>6. mine' \subseteq mine \ bs
  BY <1>1, <1>2, <1>3, <1>4
<1> QED
  BY <1>1, <1>5, <1>6

(* ... with its list, ...                                                  *)
LEMMA FreeListApart ==
  ASSUME OInv, FreeList
  PROVE  \E bs : /\ Release(bs) /\ mine' \subseteq mine \ bs
                 /\ \A o \in Blocks : o \notin bs => StringsOf(obj[o]) \cap bs = {}
<1> DEFINE bs == {list.l} \cup UNION {BlocksOf(o) : o \in ToSet(list.items)}
<1>1. UNCHANGED mine /\ Release(bs)
  BY DEF FreeList
<1>2. \A x : x \in bs <=> \/ x = list.l \/ x \in ToSet(list.items)
                          \/ \E o \in ToSet(list.items) : x \in StringsOf(obj[o])
  BY StringsAre
<1> HIDE DEF bs
<1>3. \A o \in ToSet(list.items) : o \in Blocks \ mine /\ obj[o] # NoObject
  BY DEF OInv, ListApart
<1>4. \A o \in Blocks : NoBlock \notin StringsOf(obj[o])
  BY DEF OInv, Separated, MemoryTyped, Blocks, NoBlock
<1>5. \A o \in Blocks : list.l \notin StringsOf(obj[o])
  BY <1>4 DEF OInv, ListApart
<1>6. \A o \in Blocks : o \notin bs => StringsOf(obj[o]) \cap bs = {}
  <2> SUFFICES ASSUME NEW o \in Blocks, o \notin bs, NEW x \in StringsOf(obj[o])
               PROVE  x \notin bs
    OBVIOUS
  <2>1. x # list.l /\ x \notin ToSet(list.items)
    BY <1>3, <1>5 DEF OInv, Separated
  <2>2. \A p \in ToSet(list.items) : p # o /\ p \in Blocks
    BY <1>2, <1>3
  <2>3. \A p \in ToSet(list.items) : x \notin StringsOf(obj[p])
    BY <2>2 DEF OInv, Separated
  <2> QED
    BY <1>2, <2>1, <2>3
<1>7. mine \cap bs = {}
  <2> SUFFICES ASSUME NEW x \in mine PROVE x \notin bs
    OBVIOUS
  <2>1. x # list.l
    BY DEF OInv, ListApart, MemoryTyped, Blocks, NoBlock
  <2>2. \A p \in ToSet(list.items) : x # p /\ x \notin StringsOf(obj[p])
    BY <1>3 DEF OInv, Separated
  <2> QED
    BY <1>2, <2>1, <2>2
<1> QED
  BY <1>1, <1>6, <1>7

(* ... and by a call that returns.                                         *)
LEMMA ReturnApart ==
  ASSUME OInv, Return
  PROVE  \E bs : /\ Release(bs) /\ mine' \subseteq mine \ bs
                 /\ \A o \in Blocks : o \notin bs => StringsOf(obj[o]) \cap bs = {}
<1> DEFINE bs == {call.txt} \cup IF call.fn = "insert" THEN {} ELSE BlocksOf(call.o)
<1>1. call.at = "free" /\ Release(bs) /\ UNCHANGED mine
  BY DEF Return
<1>2. call # NoCall
  BY <1>1 DEF NoCall
<1>3. /\ call.fn = "insert" => bs = {call.txt}
      /\ call.fn # "insert" => bs = {call.txt, call.o} \cup StringsOf(obj[call.o])
  BY StringsAre
<1> HIDE DEF bs
<1>4. /\ call.o \in Blocks /\ obj[call.o] # NoObject
      /\ call.fn # "insert" => call.o \notin mine
      /\ call.txt \notin mine /\ \A p \in Blocks : call.txt \notin StringsOf(obj[p])
  BY <1>2 DEF OInv, CallApart
<1>5. \A p \in Blocks : call.o \notin StringsOf(obj[p]) /\ StringsOf(obj[p]) \cap mine = {}
  BY <1>4 DEF OInv, Separated
<1>6. \A o \in Blocks : o \notin bs => StringsOf(obj[o]) \cap bs = {}
  BY <1>3, <1>4, <1>5 DEF OInv, Separated
<1>7. mine \cap bs = {}
  BY <1>3, <1>4, <1>5
<1> QED
  BY <1>1, <1>6, <1>7

(* What is not freed keeps its meaning. *)
LEMMA MeantRelease ==
  ASSUME OInv, MeantInv, call' = NoCall, UNCHANGED <<table, asked, trouble>>,
         \E bs : /\ Release(bs) /\ mine' \subseteq mine \ bs
                 /\ \A o \in Blocks : o \notin bs => StringsOf(obj[o]) \cap bs = {}
  PROVE  MeantInv'
<1>1. PICK bs : /\ Release(bs) /\ mine' \subseteq mine \ bs
                /\ \A o \in Blocks : o \notin bs => StringsOf(obj[o]) \cap bs = {}
  OBVIOUS
<1>2. /\ \A b \in Blocks : /\ str'[b] = IF b \in bs THEN Blank ELSE str[b]
                           /\ said'[b] = IF b \in bs THEN <<>> ELSE said[b]
                           /\ obj'[b] = IF b \in bs THEN NoObject ELSE obj[b]
      /\ said' = [b \in Blocks |-> IF b \in bs THEN <<>> ELSE said[b]]
  BY <1>1 DEF Release
<1>3. said' \in [Blocks -> Seq(Int)]
  <2>1. <<>> \in Seq(Int)
    BY EmptySeq
  <2>2. \A b \in Blocks : (IF b \in bs THEN <<>> ELSE said[b]) \in Seq(Int)
    BY <2>1 DEF MeantInv
  <2> QED
    BY <1>2, <2>2
<1>4. \A o \in Blocks : Asking(o)' => o \notin bs /\ Asking(o)
  BY <1>2, NoObjectHas DEF Asking
<1>5. mine \subseteq Blocks /\ \A o \in Blocks : StringsOf(obj[o]) \subseteq Blocks
  BY DEF OInv, MemoryTyped, Separated
<1>6. \A o \in mine' : obj'[o] # NoObject => Asking(o)'
  BY <1>1, <1>2, <1>5 DEF MeantInv, Asking
<1>7. MeaningKept
  BY <1>1, <1>2, <1>4, <1>5 DEF MeantInv, MeaningKept
<1> QED
  BY <1>3, <1>6, <1>7, MeantKeeps

(* A call takes an object of the application. *)
LEMMA MeantPrepare ==
  ASSUME OInv, MeantInv, NEW o \in mine,
         NEW fn \in {"insert", "toList", "count", "execute"}, NEW refused, NEW leak,
         call = NoCall, UNCHANGED trouble \/ trouble' = TRUE,
         Prepare(o, fn, refused, leak)
  PROVE  MeantInv'
<1>1. /\ fn = "insert" => obj' = [obj EXCEPT ![o].made = "inserted"] /\ UNCHANGED mine
      /\ fn # "insert" => UNCHANGED obj /\ mine' = mine \ {o}
      /\ UNCHANGED <<str, said, table, asked>> /\ call'.o = o
  BY DEF Prepare
<1>2. /\ o \in Blocks /\ obj[o] # NoObject /\ obj[o] \in ObjectRecords
      /\ mine' \subseteq mine /\ mine \subseteq Blocks /\ Asking(o)
  BY <1>1 DEF OInv, MemoryTyped, Prepare, Objects, MeantInv
<1>3. \A p \in Blocks : /\ StringsOf(obj'[p]) = StringsOf(obj[p])
                        /\ obj'[p].gone = obj[p].gone
                        /\ obj'[p] = NoObject <=> obj[p] = NoObject
                        /\ Asking(p)' <=> Asking(p)
  <2>1. CASE fn = "insert"
    <3> DEFINE r == [obj[o] EXCEPT !.made = "inserted"]
    <3>1. StringsOf(r) = StringsOf(obj[o]) /\ r.made = "inserted"
      BY <1>2, MadeKeeps DEF Kinds
    <3>2. r.gone = obj[o].gone
      BY <1>2 DEF ObjectRecords
    <3>3. r # NoObject
      BY <3>1, NoObjectHas
    <3>4. \A p \in Blocks : obj'[p] = IF p = o THEN r ELSE obj[p]
      BY <1>1, <2>1 DEF OInv, MemoryTyped
    <3> HIDE DEF r
    <3> QED
      BY <1>2, <3>1, <3>2, <3>3, <3>4 DEF Asking
  <2>2. CASE fn # "insert"
    BY <1>1, <2>2 DEF Asking
  <2> QED
    BY <2>1, <2>2
<1>4. said' \in [Blocks -> Seq(Int)] /\ Asking(call.o)'
  <2>1. Asking(o)'
    BY <1>2, <1>3
  <2> QED
    BY <1>1, <2>1 DEF MeantInv, Asking
<1>5. \A p \in mine' : obj'[p] # NoObject => Asking(p)'
  BY <1>2, <1>3 DEF MeantInv
<1>6. MeaningKept
  BY <1>1, <1>2, <1>3 DEF MeantInv, MeaningKept
<1> QED
  BY <1>4, <1>5, <1>6, MeantKeeps

(* The rows of a list are nobody's to ask with. *)
LEMMA MeantRow ==
  ASSUME OInv, MeantInv, Row
  PROVE  MeantInv'
<1>1. PICK f \in Blocks \ mem : f = Fresh(1)
  BY RowFresh DEF Row
<1> DEFINE cols == [c \in Cols |-> Fresh(1 + c)]
           r == [NoObject EXCEPT !.made = "row", !.cols = cols]
<1>2. /\ call.at = "step" /\ obj' = [obj EXCEPT ![f] = r]
      /\ UNCHANGED <<said, mine, table, asked, trouble>>
  BY <1>1 DEF Row, Step, ghosts
<1>3. call # NoCall /\ call'.o = call.o
  BY <1>2 DEF Row, OInv, CallApart, NoCall
<1>4. \A b \in mem : str'[b] = str[b]
  <2>1. \A b \in mem : b \in Blocks /\ \A c \in Cols : b # Fresh(1 + c)
    BY RowFresh DEF Row, OInv, MemoryTyped
  <2> QED
    BY <2>1 DEF Row
<1>5. r.made = "row"
  BY DEF NoObject
<1> HIDE DEF r
<1>6. \A p \in Blocks : obj'[p] = IF p = f THEN r ELSE obj[p]
  BY <1>2 DEF OInv, MemoryTyped
<1>7. \A p \in Blocks : Asking(p)' <=> p # f /\ Asking(p)
  <2>1. obj[f] = NoObject
    BY <1>1 DEF OInv, Separated
  <2> QED
    BY <1>5, <1>6, <2>1, NoObjectHas DEF Asking
<1>8. /\ mine \subseteq mem /\ mine \subseteq Blocks
      /\ \A p \in Blocks : StringsOf(obj[p]) \subseteq mem
  BY DEF OInv, MemoryTyped, Separated
<1>9. said' \in [Blocks -> Seq(Int)] /\ Asking(call.o)'
  <2>1. Asking(call.o) /\ call.o \in Blocks /\ obj[call.o] # NoObject
    BY <1>3 DEF MeantInv, OInv, CallApart
  <2>2. call.o # f
    BY <1>1, <2>1 DEF OInv, Separated
  <2> QED
    BY <1>2, <1>3, <1>6, <2>1, <2>2 DEF MeantInv, Asking
<1>10. \A p \in mine' : obj'[p] # NoObject => Asking(p)'
  BY <1>1, <1>2, <1>6, <1>7, <1>8 DEF MeantInv
<1>11. MeaningKept
  BY <1>1, <1>2, <1>4, <1>6, <1>7, <1>8 DEF MeantInv, MeaningKept
<1> QED
  BY <1>9, <1>10, <1>11, MeantKeeps

(* A step of a call that leaves the memory alone changes only the table. *)
LEMMA MeantCall ==
  ASSUME MeantInv, UNCHANGED <<obj, mine, str, said, trouble>>,
         call # NoCall \/ call' = NoCall, call'.o = call.o, ~trouble => table' = asked'
  PROVE  MeantInv'
BY DEF MeantInv, Meant, Asking

(* The strings of the object of a call mean what the application put into  *)
(* them.                                                                   *)
LEMMA BoundMeans ==
  ASSUME OInv, MeantInv, ~trouble, NEW o \in Blocks, Asking(o)
  PROVE  /\ \A s \in {NoBlock} \cup StringsOf(obj[o]) : Bound[s] = Said[s]
         /\ \A c \in Cols : obj[o].cols[c] \in {NoBlock} \cup StringsOf(obj[o])
         /\ \A k \in DOMAIN obj[o].set : obj[o].set[k][2] \in StringsOf(obj[o])
         /\ \A w \in ToSet(obj[o].where) : w[2] \in StringsOf(obj[o])
<1>1. obj[o] \in ObjectRecords
  BY DEF OInv, MemoryTyped
<1>2. ASSUME NEW s \in {NoBlock} \cup StringsOf(obj[o]) PROVE Bound[s] = Said[s]
  <2>1. s = NoBlock \/ (s \in Blocks /\ s # NoBlock /\ Meant(s))
    BY DEF MeantInv, OInv, Separated, MemoryTyped, Blocks, NoBlock
  <2>2. /\ Bound[s] = Value(s)
        /\ Said[s] = IF s = NoBlock THEN DbNull ELSE said[s]
    BY <2>1 DEF Bound, Said
  <2> QED
    BY <2>1, <2>2 DEF Value, Meant
<1>3. \A w \in ToSet(obj[o].where) : w[2] \in StringsOf(obj[o])
  BY DEF StringsOf
<1> QED
  BY <1>1, <1>2, <1>3, StringsIn

(* The row that is inserted is the one that was asked for. *)
LEMMA MeantInsert ==
  ASSUME OInv, MeantInv, Insert
  PROVE  MeantInv'
<1>1. call.at = "step" /\ Ends /\ UNCHANGED <<str, said, obj, mine, trouble>>
  BY DEF Insert, Step, memory
<1>2. call # NoCall /\ call'.o = call.o
  BY <1>1, EndsIs
<1>3. call.o \in Blocks /\ Asking(call.o)
  BY <1>2 DEF OInv, CallApart, MeantInv
<1>4. ASSUME ~trouble PROVE table' = asked'
  <2>1. \A c \in Cols : Bound[obj[call.o].cols[c]] = Said[obj[call.o].cols[c]]
    BY <1>3, <1>4, BoundMeans
  <2>2. [c \in Cols |-> Bound[obj[call.o].cols[c]]] = [c \in Cols |-> Said[obj[call.o].cols[c]]]
    BY <2>1
  <2>3. table = asked
    BY <1>4 DEF MeantInv
  <2> QED
    BY <2>2, <2>3 DEF Insert
<1> QED
  BY <1>1, <1>2, <1>4, MeantCall

(* The last assignment to a column is one of them. *)
LEMMA LastIs ==
  ASSUME NEW S, NEW q \in Seq(S), NEW K, K \subseteq DOMAIN q, K # {}
  PROVE  (CHOOSE k \in K : \A j \in K : j <= k) \in K
<1>1. Len(q) \in Nat /\ DOMAIN q = 1..Len(q)
  OBVIOUS
<1>2. \E k \in K : \A j \in K : j <= k
  BY <1>1, Largest
<1> QED
  BY <1>2

(* An update changes a row to the one that was asked for. *)
LEMMA ChangedMeans ==
  ASSUME OInv, MeantInv, ~trouble, NEW o \in Blocks, Asking(o), NEW row
  PROVE  Changed(o, row, Bound) = Changed(o, row, Said)
<1> DEFINE ks(c) == {k \in DOMAIN obj[o].set : obj[o].set[k][1] = c}
           last(c) == CHOOSE k \in ks(c) : \A j \in ks(c) : j <= k
           val(c, m) == IF ks(c) = {} THEN row[c] ELSE m[obj[o].set[last(c)][2]]
<1>1. obj[o].set \in Seq(Cols \X Blocks)
  BY DEF OInv, MemoryTyped, ObjectRecords, Terms
<1>2. ASSUME NEW c \in Cols PROVE val(c, Bound) = val(c, Said)
  <2>1. CASE ks(c) = {}
    BY <2>1
  <2>2. CASE ks(c) # {}
    <3>1. ks(c) \subseteq DOMAIN obj[o].set
      OBVIOUS
    <3> HIDE DEF ks
    <3>2. last(c) \in DOMAIN obj[o].set
      BY <1>1, <2>2, <3>1, LastIs
    <3>3. Bound[obj[o].set[last(c)][2]] = Said[obj[o].set[last(c)][2]]
      BY <3>2, BoundMeans
    <3> QED
      BY <2>2, <3>3
  <2> QED
    BY <2>1, <2>2
<1>3. \A m : Changed(o, row, m) = IF obj[o].made = "delete" THEN NoRow
                                  ELSE [c \in Cols |-> val(c, m)]
  BY DEF Changed
<1> HIDE DEF val
<1> QED
  BY <1>2, <1>3

(* A call changes the rows that it was asked to change. *)
LEMMA MeantExecute ==
  ASSUME OInv, MeantInv, Execute
  PROVE  MeantInv'
<1>1. call.at = "step" /\ Ends /\ UNCHANGED <<str, said, obj, mine, trouble>>
  BY DEF Execute, Step, memory
<1>2. call # NoCall /\ call'.o = call.o
  BY <1>1, EndsIs
<1>3. call.o \in Blocks /\ Asking(call.o)
  BY <1>2 DEF OInv, CallApart, MeantInv
<1>4. ASSUME ~trouble PROVE table' = asked'
  <2>1. table = asked /\ obj[call.o].gone = {}
    BY <1>3, <1>4 DEF MeantInv
  <2>2. Hits(call.o) = Matching(call.o, asked, Said)
    <3>1. \A w \in ToSet(obj[call.o].where) : Bound[w[2]] = Said[w[2]]
      BY <1>3, <1>4, BoundMeans
    <3>2. Hits(call.o) = Matching(call.o, asked, Bound)
      BY <2>1 DEF Hits
    <3> QED
      BY <3>1, <3>2 DEF Matching
  <2>3. \A row : Changed(call.o, row, Bound) = Changed(call.o, row, Said)
    BY <1>3, <1>4, ChangedMeans
  <2> QED
    BY <2>1, <2>2, <2>3 DEF Execute
<1> QED
  BY <1>1, <1>2, <1>4, MeantCall

(* Every step keeps what the strings mean and the table as asked for. *)
LEMMA MeantNext ==
  ASSUME OInv, OwnInv, MeantInv, [Next]_vars
  PROVE  MeantInv'
<1>1. CASE Application
  <2>1. ASSUME NEW b \in Texts, NewString(b) PROVE MeantInv'
    BY <2>1, MeantNewString
  <2>2. ASSUME NEW b \in Texts, NEW s \in mine, Extend(s, b) PROVE MeantInv'
    BY <2>2, MeantExtend
  <2>3. ASSUME NEW made \in Made, New(made)
        PROVE  MeantInv'
    BY <2>3, MeantNew
  <2>4. ASSUME NEW o \in mine \cap Objects, NEW s \in mine \ Objects, NEW c \in Cols,
               \/ SetColumn(o, c, s) \/ AddTerm(o, "set", c, s)
               \/ AddTerm(o, "where", c, s)
        PROVE  MeantInv'
    BY <2>4, MeantSetColumn, MeantAddTerm
  <2>5. ASSUME NEW b \in mine, Free(b) PROVE MeantInv'
    <3>1. call' = NoCall /\ UNCHANGED <<table, asked, trouble>>
      BY <2>5 DEF Free, App, Acts
    <3> QED
      BY <2>5, <3>1, FreeApart, MeantRelease
  <2>6. ASSUME FreeList PROVE MeantInv'
    <3>1. call' = NoCall /\ UNCHANGED <<table, asked, trouble>>
      BY <2>6 DEF FreeList, App, Acts
    <3> QED
      BY <2>6, <3>1, FreeListApart, MeantRelease
  <2>7. ASSUME NEW o \in mine, NEW fn \in {"insert", "toList", "count", "execute"},
               Start(o, fn)
        PROVE  MeantInv'
    BY <2>7, StartIs, MeantPrepare
  <2> QED
    BY <1>1, <2>1, <2>2, <2>3, <2>4, <2>5, <2>6, <2>7 DEF Application
<1>2. CASE Done \/ StepFails \/ Finalize
  <2>1. call.at # "none" /\ call'.o = call.o
    BY <1>2 DEF OInv, CallApart, Done, Step, StepFails, Finalize, Ends
  <2>2. call # NoCall
    BY <2>1 DEF NoCall
  <2>3. UNCHANGED <<obj, mine, str, said, table, asked, trouble>>
    BY <1>2 DEF Done, StepFails, Finalize, memory, ghosts
  <2> QED
    BY <2>1, <2>2, <2>3, MeantCall DEF MeantInv
<1>3. CASE Return
  <2>1. call' = NoCall /\ UNCHANGED <<table, asked, trouble>>
    BY <1>3 DEF Return, ghosts
  <2> QED
    BY <1>3, <2>1, ReturnApart, MeantRelease
<1>4. CASE UNCHANGED vars
  <2>1. /\ UNCHANGED <<obj, mine, str, said, table, asked, trouble, call>>
    BY <1>4 DEF vars, memory, ghosts
  <2> QED
    BY <2>1 DEF MeantInv, Meant, Asking
<1> QED
  BY <1>1, <1>2, <1>3, <1>4, MeantRow, MeantInsert, MeantExecute DEF Next, Finished, Running

(* The three invariants together. *)
LEMMA MeaningInvariant == Spec => [](OInv /\ OwnInv /\ MeantInv)
<1>1. Init => MeantInv
  BY MeantInit
<1>2. OInv /\ OwnInv /\ MeantInv /\ [Next]_vars => MeantInv'
  BY MeantNext
<1> QED
  BY <1>1, <1>2, OwnersInvariant, PTL DEF Spec

(* Until a realloc fails the database has, byte by byte, the rows that the *)
(* application asked for: what it put into the strings of its objects.     *)
THEOREM TableIsAsAsked == Spec => []TableAsAsked
<1>1. MeantInv => TableAsAsked
  BY DEF MeantInv, TableAsAsked
<1> QED
  BY <1>1, MeaningInvariant, PTL

-----------------------------------------------------------------------------
(* The list.                                                               *)

(* The rows that the call asks for, and the place of each in their order. *)
Wanted == Matching(call.o, asked, Said)
Place(r) == Cardinality({q \in Wanted : q <= r})

(* An object that was made of row r. *)
MadeOf(o, r) ==
  \A c \in Cols :
    /\ obj[o].cols[c] \in Blocks
    /\ TextOf(str[obj[o].cols[c]])
         = IF asked[r][c] = DbNull THEN <<>> ELSE CString(asked[r][c])

(* A toList has the rows that it asks for, from the first on, as objects   *)
(* in its list, and the others are left.                                   *)
ListedInv ==
  call.fn = "toList" /\ call.at \in {"step", "finalize"} /\ ~call.failed /\ ~trouble =>
    /\ call.left \subseteq Wanted
    /\ call.at = "finalize" => call.left = {}
    /\ \A r \in Wanted \ call.left, q \in call.left : r < q
    /\ Len(list.items) = Cardinality(Wanted \ call.left)
    /\ \A r \in Wanted \ call.left : MadeOf(list.items[Place(r)], r)

(* The text of a string that is made of bytes is what C makes of them. *)
LEMMA BuildText ==
  ASSUME NEW b \in Seq(Int)
  PROVE  TextOf(Build(b)) = CString(b)
<1> DEFINE t == CString(b)
<1>1. t \in Seq(Int)
  BY CStringIs
<1>2. Build(b) = [s |-> t \o <<NUL>>, l |-> Len(t)]
  BY DEF Build
<1>3. TextOf(Build(b)) = SubSeq(t \o <<NUL>>, 1, Len(t))
  BY <1>2 DEF TextOf
<1> HIDE DEF t
<1>4. SubSeq(t \o <<NUL>>, 1, Len(t)) = t
  <2>1. NUL \in Int
    BY DEF NUL
  <2> QED
    BY <1>1, <2>1
<1> QED
  BY <1>3, <1>4 DEF t

(* What __rs_getString makes of a column is its text, or none of NULL. *)
LEMMA GetStringText ==
  ASSUME NEW row \in [Cols -> Seq(Int)], NEW c \in Cols
  PROVE  TextOf(GetString(row, Columns[c])) = IF row[c] = DbNull THEN <<>> ELSE CString(row[c])
<1>1. FindColumn(Columns[c]) = c
  <2>1. ASSUME NEW j \in 1..(c - 1)  PROVE Columns[j] # Columns[c]
    <3>1. j \in DOMAIN Columns /\ c \in DOMAIN Columns /\ j # c
      BY ColsAre DEF Cols
    <3> QED
      BY <3>1, ColumnsAssumption
  <2>2. \A i \in Cols : Columns[i] = Columns[c] => i = c
    BY ColumnsAssumption DEF Cols
  <2> QED
    BY <2>1, <2>2 DEF FindColumn
<1>2. CString(<<>>) = <<>>
  <2> DEFINE k == CHOOSE k \in 0..Len(<<>>) : /\ \A i \in 1..k : <<>>[i] # NUL
                                              /\ k < Len(<<>>) => <<>>[k + 1] = NUL
  <2>1. /\ 0 \in 0..Len(<<>>) /\ \A i \in 1..0 : <<>>[i] # NUL
        /\ 0 < Len(<<>>) => <<>>[0 + 1] = NUL
    OBVIOUS
  <2>2. k \in 0..Len(<<>>)
    BY <2>1
  <2>3. CString(<<>>) = SubSeq(<<>>, 1, k)
    BY DEF CString
  <2> HIDE DEF k
  <2> QED
    BY <2>2, <2>3
<1>3. TextOf(Build(<<>>)) = <<>> /\ TextOf(Build(row[c])) = CString(row[c])
  BY <1>2, BuildText, EmptySeq
<1>4. GetString(row, Columns[c]) = IF row[c] = DbNull THEN Build(<<>>) ELSE Build(row[c])
  BY <1>1 DEF GetString
<1> QED
  BY <1>3, <1>4

(* Outside of a toList there is nothing to list. *)
LEMMA NotListed ==
  ASSUME call'.fn # "toList" \/ call'.at \notin {"step", "finalize"} \/ call'.failed
  PROVE  ListedInv'
BY DEF ListedInv

(* At the start of the call all rows that are asked for are left. *)
LEMMA ListedPrepare ==
  ASSUME OInv, MeantInv, NEW o \in mine,
         NEW fn \in {"insert", "toList", "count", "execute"}, NEW refused \in BOOLEAN,
         NEW leak,
         call = NoCall, UNCHANGED trouble \/ (trouble' = TRUE /\ refused),
         Prepare(o, fn, refused, leak)
  PROVE  ListedInv'
<1>1. /\ call'.fn = fn /\ call'.failed = refused
  BY DEF Prepare
<1>2. CASE fn # "toList" \/ refused
  BY <1>1, <1>2, NotListed
<1>3. CASE trouble'
  BY <1>3 DEF ListedInv
<1>4. CASE trouble
  <2>1. trouble' \/ refused
    BY <1>4
  <2> QED
    BY <1>2, <1>3, <2>1
<1> SUFFICES ASSUME fn = "toList", ~refused, ~trouble
             PROVE  ListedInv'
  BY <1>2, <1>4
<1>5. /\ call'.left = Hits(o) /\ call'.at = "step" /\ call'.o = o
      /\ list'.items = <<>> /\ UNCHANGED <<str, said, obj, asked>>
      /\ o \in Blocks /\ Asking(o)
  BY DEF Prepare, Objects, MeantInv, OInv, MemoryTyped
<1>6. Hits(o) = Matching(o, asked, Said)
  <2>1. table = asked /\ obj[o].gone = {}
    BY <1>5 DEF MeantInv
  <2>2. \A w \in ToSet(obj[o].where) : Bound[w[2]] = Said[w[2]]
    BY <1>5, BoundMeans
  <2> QED
    BY <2>1, <2>2 DEF Hits, Matching
<1>7. Wanted' = Matching(o, asked, Said)
  BY <1>5 DEF Wanted, Matching, Said
<1>8. Wanted' \ call'.left = {} /\ Len(list'.items) = 0
  BY <1>5, <1>6, <1>7
<1>9. Cardinality({}) = 0
  BY FS_EmptySet
<1> QED
  BY <1>5, <1>6, <1>7, <1>8, <1>9 DEF ListedInv

(* The rows that are asked for are finitely many numbers. *)
LEMMA WantedIs ==
  /\ Wanted \subseteq RowIds /\ \A r \in RowIds : r \in Nat
  /\ \A S \in SUBSET Wanted : IsFiniteSet(S) /\ Cardinality(S) \in Nat
<1>1. Wanted \subseteq RowIds
  BY DEF Wanted, Matching
<1>2. IsFiniteSet(RowIds)
  BY FS_Interval DEF RowIds
<1>3. \A r \in RowIds : r \in Nat
  BY DEF RowIds
<1>4. ASSUME NEW S \in SUBSET Wanted
      PROVE  IsFiniteSet(S) /\ Cardinality(S) \in Nat
  <2>1. S \subseteq RowIds
    BY <1>1
  <2> QED
    BY <1>2, <2>1, FS_Subset, FS_CardinalityType
<1> QED
  BY <1>1, <1>3, <1>4

(* The places of the rows that are listed are those of the list. *)
LEMMA PlaceIs ==
  ASSUME NEW left, left \subseteq Wanted,
         \A r \in Wanted \ left, q \in left : r < q
  PROVE  /\ \A r \in Wanted \ left : Place(r) \in 1..Cardinality(Wanted \ left)
         /\ \A r \in left : (\A q \in left : r <= q)
              => Place(r) = Cardinality(Wanted \ left) + 1
<1>1. ASSUME NEW r \in Wanted \ left PROVE Place(r) \in 1..Cardinality(Wanted \ left)
  <2> DEFINE S == {q \in Wanted : q <= r}
  <2>1. S \subseteq Wanted \ left /\ r \in S
    BY WantedIs
  <2>2. Cardinality(S) <= Cardinality(Wanted \ left) /\ Cardinality(S) \in Nat
    BY <2>1, WantedIs, FS_Subset
  <2>3. Cardinality(S) # 0
    BY <2>1, WantedIs, FS_EmptySet
  <2> HIDE DEF S
  <2>4. Place(r) = Cardinality(S) /\ Cardinality(Wanted \ left) \in Nat
    BY WantedIs DEF Place, S
  <2> QED
    BY <2>2, <2>3, <2>4
<1>2. ASSUME NEW r \in left, \A q \in left : r <= q
      PROVE  Place(r) = Cardinality(Wanted \ left) + 1
  <2>1. {q \in Wanted : q <= r} = (Wanted \ left) \cup {r}
    BY <1>2, WantedIs
  <2>2. r \notin Wanted \ left /\ IsFiniteSet(Wanted \ left)
    BY WantedIs
  <2> QED
    BY <2>1, <2>2, FS_AddElement DEF Place
<1> QED
  BY <1>1, <1>2

(* A row becomes an object of the list. *)
LEMMA ListedRow ==
  ASSUME OInv, OwnInv, MeantInv, ListedInv, Row
  PROVE  ListedInv'
<1>1. PICK f \in Blocks \ mem : f = Fresh(1)
  BY RowFresh DEF Row
<1>2. PICK r \in call.left :
        /\ \A q \in call.left : r <= q
        /\ call' = [call EXCEPT !.left = @ \ {r}]
        /\ str' = [b \in Blocks |->
             IF \E c \in Cols : b = Fresh(1 + c)
             THEN GetString(table[r], Columns[CHOOSE c \in Cols : b = Fresh(1 + c)])
             ELSE str[b]]
  BY DEF Row
<1> DEFINE cols == [c \in Cols |-> Fresh(1 + c)]
           new == [NoObject EXCEPT !.made = "row", !.cols = cols]
<1>3. /\ call.fn = "toList" /\ call.at = "step" /\ obj' = [obj EXCEPT ![f] = new]
      /\ list' = [list EXCEPT !.items = Append(@, f)]
      /\ UNCHANGED <<said, table, asked, trouble>>
  BY <1>1 DEF Row, Step, ghosts
<1>4. /\ call'.o = call.o /\ call'.fn = call.fn /\ call'.at = call.at
      /\ call'.failed = call.failed /\ call'.left = call.left \ {r}
  BY <1>2 DEF OInv, CallApart
<1> SUFFICES ASSUME ~call.failed, ~trouble PROVE ListedInv'
  BY <1>3, <1>4 DEF ListedInv
<1>5. new.cols = cols
  BY DEF NoObject
<1> HIDE DEF new
<1>6. \A p \in Blocks : obj'[p] = IF p = f THEN new ELSE obj[p]
  BY <1>3 DEF OInv, MemoryTyped
<1>7. call.o \in Blocks /\ obj'[call.o] = obj[call.o]
  <2>1. call # NoCall
    BY <1>3 DEF NoCall
  <2>2. call.o \in Blocks /\ call.o \in mem
    BY <2>1 DEF OInv, CallApart, Separated
  <2> QED
    BY <1>1, <1>6, <2>2
<1>8. Wanted' = Wanted
  <2>1. Said' = Said
    BY <1>3 DEF Said
  <2>2. Matching(call.o, asked, Said)' = Matching(call.o, asked, Said)
    BY <1>3, <1>4, <1>7, <2>1 DEF Matching
  <2> QED
    BY <2>2 DEF Wanted
<1>9. \A x : Place(x)' = Place(x)
  BY <1>8 DEF Place
<1>10. /\ call.left \subseteq Wanted
       /\ \A x \in Wanted \ call.left, q \in call.left : x < q
       /\ Len(list.items) = Cardinality(Wanted \ call.left)
       /\ \A x \in Wanted \ call.left : MadeOf(list.items[Place(x)], x)
  BY <1>3 DEF ListedInv
<1>11. /\ Wanted \ call'.left = (Wanted \ call.left) \cup {r}
       /\ r \notin Wanted \ call.left /\ IsFiniteSet(Wanted \ call.left)
  BY <1>4, <1>10, WantedIs
<1>12. Cardinality(Wanted \ call'.left) = Len(list.items) + 1
  <2> DEFINE S == Wanted \ call.left
  <2>1. IsFiniteSet(S) /\ r \notin S /\ Len(list.items) = Cardinality(S)
    BY <1>10, <1>11
  <2> HIDE DEF S
  <2>2. Cardinality(S \cup {r}) = Cardinality(S) + 1
    BY <2>1, FS_AddElement
  <2> QED
    BY <1>11, <2>1, <2>2 DEF S
<1>13. \A x \in Wanted \ call'.left, q \in call'.left : x < q
  BY <1>2, <1>4, <1>10, <1>11, WantedIs
<1>14. /\ list.items \in Seq(Blocks) /\ list'.items = Append(list.items, f)
       /\ \A i \in 1..Len(list.items) : list.items[i] \in Blocks
                                        /\ obj[list.items[i]] # NoObject
  BY <1>3 DEF OInv, ListApart, ToSet
<1>15. /\ Len(list'.items) = Len(list.items) + 1
       /\ list'.items[Len(list.items) + 1] = f
       /\ \A i \in 1..Len(list.items) : list'.items[i] = list.items[i]
  BY <1>1, <1>14
<1>16. ASSUME NEW x \in Wanted \ call.left PROVE MadeOf(list.items[Place(x)], x)'
  <2> DEFINE i == Place(x)
             o == list.items[i]
  <2>1. i \in 1..Len(list.items)
    BY <1>10, PlaceIs
  <2>2. list'.items[i] = o /\ o \in Blocks /\ obj[o] # NoObject
    BY <1>14, <1>15, <2>1
  <2>3. o \in mem /\ obj'[o] = obj[o]
    BY <1>1, <1>6, <2>2 DEF OInv, Separated
  <2>4. MadeOf(o, x)
    BY <1>10
  <2>5. \A c \in Cols : obj[o].cols[c] \in mem
    <3> HIDE DEF o
    <3>1. \A c \in Cols : obj[o].cols[c] \in StringsOf(obj[o])
      BY <2>4 DEF MadeOf, StringsOf, Blocks, NoBlock
    <3> QED
      BY <2>2, <3>1 DEF OInv, Separated
  <2>6. \A b \in mem : str'[b] = str[b]
    <3>1. \A b \in mem : b \in Blocks /\ \A c \in Cols : b # Fresh(1 + c)
      BY RowFresh DEF Row, OInv, MemoryTyped
    <3> QED
      BY <1>2, <3>1
  <2>7. Place(x)' = i
    BY <1>9
  <2> HIDE DEF i, o
  <2>8. (list'.items)[Place(x)'] = o
    BY <2>2, <2>7
  <2> QED
    BY <1>3, <2>3, <2>4, <2>5, <2>6, <2>8 DEF MadeOf
<1>17. MadeOf(list.items[Place(r)], r)'
  <2>1. Place(r)' = Len(list.items) + 1
    BY <1>2, <1>9, <1>10, PlaceIs
  <2>2. (list'.items)[Place(r)'] = f
    BY <1>15, <2>1
  <2>3. table[r] \in [Cols -> Seq(Int)] /\ table[r] = asked[r]
    BY DEF OInv, RowsTyped, Rows, MeantInv
  <2>4. ASSUME NEW c \in Cols
        PROVE  /\ Fresh(1 + c) \in Blocks
               /\ str'[Fresh(1 + c)] = GetString(table[r], Columns[c])
    <3>1. /\ Fresh(1 + c) \in Blocks
          /\ \A d \in Cols : Fresh(1 + c) = Fresh(1 + d) => d = c
      BY RowFresh DEF Row
    <3>2. (CHOOSE d \in Cols : Fresh(1 + c) = Fresh(1 + d)) = c
      BY <3>1
    <3> QED
      BY <1>2, <3>1, <3>2
  <2>5. \A c \in Cols : obj'[f].cols[c] = Fresh(1 + c)
    BY <1>5, <1>6
  <2>6. \A c \in Cols :
          /\ obj'[f].cols[c] \in Blocks
          /\ TextOf(str'[obj'[f].cols[c]])
               = IF asked[r][c] = DbNull THEN <<>> ELSE CString(asked[r][c])
    BY <2>3, <2>4, <2>5, GetStringText
  <2> QED
    BY <1>3, <2>2, <2>6 DEF MadeOf
<1>18. \A x \in Wanted' \ call'.left : MadeOf(list.items[Place(x)], x)'
  BY <1>8, <1>11, <1>16, <1>17
<1>19. call'.left \subseteq Wanted' /\ call'.at # "finalize"
  BY <1>3, <1>4, <1>8, <1>10
<1> QED
  BY <1>8, <1>12, <1>13, <1>15, <1>18, <1>19 DEF ListedInv

(* Every step keeps the list to the rows that were asked for. *)
LEMMA ListedNext ==
  ASSUME OInv, OwnInv, MeantInv, ListedInv, [Next]_vars
  PROVE  ListedInv'
<1>1. CASE Application
  <2>1. CASE \E o \in mine, fn \in {"insert", "toList", "count", "execute"} : Start(o, fn)
    <3>1. PICK o \in mine, fn \in {"insert", "toList", "count", "execute"} : Start(o, fn)
      BY <2>1
    <3> PICK refused \in BOOLEAN, leak \in SUBSET (Blocks \ mem) :
          /\ Prepare(o, fn, refused, leak)
          /\ UNCHANGED trouble \/ (trouble' = TRUE /\ refused)
      BY <3>1, StartIs
    <3>2. call = NoCall
      BY <3>1, StartIs
    <3> QED
      BY <3>2, ListedPrepare
  <2>2. CASE call' = NoCall
    BY <2>2, NotListed DEF NoCall
  <2>3. \/ \E o \in mine, fn \in {"insert", "toList", "count", "execute"} : Start(o, fn)
        \/ call' = NoCall
    <3>1. ASSUME \/ \E b \in Texts : NewString(b)
                 \/ \E b \in Texts, s \in mine : Extend(s, b)
                 \/ \E made \in Made : New(made)
          PROVE  call' = NoCall
      BY <3>1 DEF NewString, Extend, New, NewWith, App, AppReallocFails, Acts
    <3>2. ASSUME NEW o \in mine \cap Objects, NEW s \in mine \ Objects, NEW c \in Cols,
                 SetColumn(o, c, s)
          PROVE  call' = NoCall
      BY <3>2 DEF SetColumn, App, Acts
    <3>3. ASSUME NEW o \in mine \cap Objects, NEW s \in mine \ Objects, NEW c \in Cols,
                 NEW clause \in {"set", "where"}, AddTerm(o, clause, c, s)
          PROVE  call' = NoCall
      <4>1. call = NoCall /\ UNCHANGED call
        BY <3>3 DEF AddTerm, App, AppReallocFails, Acts
      <4> QED
        BY <4>1
    <3>4. ASSUME \/ \E b \in mine : Free(b)
                 \/ FreeList
          PROVE  call' = NoCall
      BY <3>4 DEF Free, FreeList, App, Acts
    <3> QED
      BY <1>1, <3>1, <3>2, <3>3, <3>4 DEF Application
  <2> QED
    BY <2>1, <2>2, <2>3
<1>2. CASE Insert \/ Execute \/ StepFails \/ Finalize \/ Return
  <2>1. call \in [fn : Calls, at : Places, o : Blocks \cup {NoBlock},
                  txt : Blocks \cup {NoBlock}, bound : SUBSET Blocks,
                  left : SUBSET RowIds, failed : BOOLEAN]
    BY DEF OInv, CallApart
  <2>2. CASE Insert \/ Execute
    BY <2>1, <2>2, NotListed DEF Insert, Execute, Step, Ends
  <2>3. CASE StepFails
    BY <2>1, <2>3, NotListed DEF StepFails
  <2>4. CASE Finalize
    BY <2>1, <2>4, NotListed DEF Finalize
  <2>5. CASE Return
    BY <2>5, NotListed DEF Return, NoCall
  <2> QED
    BY <1>2, <2>2, <2>3, <2>4, <2>5
<1>3. CASE Done \/ UNCHANGED vars
  <2>1. UNCHANGED <<str, said, obj, list, asked, trouble>>
    BY <1>3 DEF Done, vars, memory, ghosts
  <2>2. /\ call'.fn = call.fn /\ call'.o = call.o /\ call'.left = call.left
        /\ call'.failed = call.failed
        /\ \/ call'.at = call.at
           \/ /\ call'.at = "finalize" /\ call.at = "step"
              /\ call.fn = "toList" => call.left = {}
    BY <1>3 DEF OInv, CallApart, Done, Step, Ends, vars
  <2>3. Wanted' = Wanted
    <3>1. Said' = Said
      BY <2>1 DEF Said
    <3>2. Matching(call.o, asked, Said)' = Matching(call.o, asked, Said)
      BY <2>1, <2>2, <3>1 DEF Matching
    <3> QED
      BY <3>2 DEF Wanted
  <2>4. \A x : Place(x)' = Place(x)
    BY <2>3 DEF Place
  <2>5. \A x : MadeOf(list.items[Place(x)], x)' <=> MadeOf(list.items[Place(x)], x)
    BY <2>1, <2>4 DEF MadeOf
  <2> QED
    BY <2>1, <2>2, <2>3, <2>5 DEF ListedInv
<1> QED
  BY <1>1, <1>2, <1>3, ListedRow DEF Next, Finished, Running

(* A text without a NUL byte is all there for C. *)
LEMMA WholeText ==
  ASSUME NEW b \in Seq(Int), NUL \notin ToSet(b)
  PROVE  CString(b) = b
<1> DEFINE Stop(m) == /\ \A i \in 1..m : b[i] # NUL
                      /\ m < Len(b) => b[m + 1] = NUL
           k == CHOOSE m \in 0..Len(b) : Stop(m)
<1>1. \A i \in 1..Len(b) : b[i] # NUL
  <2>1. DOMAIN b = 1..Len(b)
    OBVIOUS
  <2>2. \A i \in DOMAIN b : b[i] \in ToSet(b)
    BY DEF ToSet
  <2> QED
    BY <2>1, <2>2
<1>2. Len(b) \in 0..Len(b) /\ Stop(Len(b))
  BY <1>1
<1>3. \A m \in 0..Len(b) : Stop(m) => m = Len(b)
  <2>1. \A m \in 0..Len(b) : m < Len(b) => m + 1 \in 1..Len(b)
    OBVIOUS
  <2> QED
    BY <1>1, <2>1
<1>4. CString(b) = SubSeq(b, 1, k)
  BY DEF CString
<1>5. k \in 0..Len(b) /\ Stop(k)
  BY <1>2
<1> HIDE DEF k
<1>6. k = Len(b)
  BY <1>3, <1>5
<1> QED
  BY <1>4, <1>6

(* Until a realloc fails, toList gives an object for each of the rows that *)
(* match what the application put into its conditions, in their order and  *)
(* with those of their texts that have no NUL byte.                        *)
THEOREM ListIsAsAsked == Spec => []ListAsAsked
<1>1. Init => ListedInv
  BY DEF Init, NoCall, ListedInv
<1>2. OInv /\ OwnInv /\ MeantInv /\ ListedInv /\ [Next]_vars => ListedInv'
  BY ListedNext
<1>3. OInv /\ MeantInv /\ ListedInv => ListAsAsked
  <2> SUFFICES ASSUME OInv, MeantInv, ListedInv, Listed PROVE ListAsAsked
    BY DEF ListAsAsked
  <2>1. /\ Wanted \ call.left = Wanted /\ Len(list.items) = Cardinality(Wanted)
        /\ \A r \in Wanted : MadeOf(list.items[Place(r)], r)
    BY DEF Listed, ListedInv
  <2>2. ASSUME NEW r \in Wanted, NEW c \in Cols, NUL \notin ToSet(Stated(r, c))
        PROVE  Given(Wanted, r, c) = Stated(r, c)
    <3>1. Given(Wanted, r, c)
            = IF asked[r][c] = DbNull THEN <<>> ELSE CString(asked[r][c])
      BY <2>1 DEF MadeOf, Place, Given
    <3>2. asked[r][c] \in Seq(Int)
      <4>1. table = asked /\ r \in RowIds /\ asked[r] # NoRow
        BY DEF MeantInv, Listed, Wanted, Matching
      <4> QED
        BY <4>1 DEF OInv, RowsTyped, Rows
    <3> QED
      BY <2>2, <3>1, <3>2, WholeText DEF Stated
  <2> QED
    BY <2>1, <2>2 DEF ListAsAsked, Wanted
<1> QED
  BY <1>1, <1>2, <1>3, MeaningInvariant, PTL DEF Spec
=============================================================================
