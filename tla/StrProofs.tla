----------------------------- MODULE StrProofs -----------------------------
(***************************************************************************)
(* What the operations of CsormaStr return, for every string and text:     *)
(* strings that are terminated where their length says, and that hold the  *)
(* bytes that were appended.                                               *)
(***************************************************************************)
EXTENDS CsormaStr, SequenceTheorems, WellFoundedInduction, TLAPS

(* Strs: what a csorma_s can be, terminated or not. *)
Strs == [s : Seq(Int), l : Nat]

(* Appending to a string keeps what it had before, and ends it with NUL.  *)
LEMMA ConIs ==
  ASSUME NEW x \in Strs, Terminated(x), NEW b \in Seq(Int)
  PROVE  /\ Con(x, b) \in Strs
         /\ Terminated(Con(x, b))
         /\ Con(x, b).s # Null
         /\ x.s # Null \/ x.l = 0 => TextOf(Con(x, b)) = TextOf(x) \o b
<1> DEFINE n == x.l + Len(b) + 1
           r == Realloc(x.s, n)
           t == SubSeq(r, 1, x.l)
           u == t \o b
           w == u \o <<NUL>>
<1>1. x.s \in Seq(Int) /\ x.l \in Nat /\ Len(b) \in Nat /\ n \in Nat /\ x.l <= n
  BY LenProperties DEF Strs
<1>2. \A i \in 1..x.l : r[i] \in Int /\ (i <= Len(x.s) => r[i] = x.s[i])
  <2>1. r = [i \in 1..n |-> IF i <= Len(x.s) THEN x.s[i] ELSE Uninit]
    BY DEF Realloc
  <2>2. \A i \in 1..n : (IF i <= Len(x.s) THEN x.s[i] ELSE Uninit) \in Int
    BY <1>1 DEF Uninit
  <2> HIDE DEF r, n
  <2> QED BY <1>1, <2>1, <2>2
<1> HIDE DEF n, r
<1>3. t \in Seq(Int) /\ Len(t) = x.l /\ \A i \in 1..x.l : t[i] = r[i]
  BY <1>1, <1>2, SubSeqProperties
<1> HIDE DEF t
<1>4. u \in Seq(Int) /\ Len(u) = x.l + Len(b)
  BY <1>3, ConcatProperties
<1> HIDE DEF u
<1>5. w = Append(u, NUL)
  BY <1>4 DEF NUL
<1>6. /\ w \in Seq(Int) /\ Len(w) = x.l + Len(b) + 1
      /\ w[x.l + Len(b) + 1] = NUL
      /\ \A i \in 1..(x.l + Len(b)) : w[i] = u[i]
  <2> HIDE DEF w
  <2>1. /\ w \in Seq(Int) /\ Len(w) = Len(u) + 1 /\ w[Len(u) + 1] = NUL
        /\ \A i \in 1..Len(u) : w[i] = u[i]
    BY <1>4, <1>5 DEF NUL
  <2> QED BY <1>4, <2>1
<1>7. Con(x, b) = [s |-> w, l |-> x.l + Len(b)]
  BY DEF Con, n, r, t, u
<1> HIDE DEF w
<1>8. Con(x, b) \in Strs /\ Terminated(Con(x, b)) /\ Con(x, b).s # Null
  BY <1>1, <1>6, <1>7 DEF Strs, Terminated, Null
<1>9. TextOf(Con(x, b)) = u
  <2>1. ASSUME NEW i \in 1..(x.l + Len(b)) PROVE w[i] \in Int
    <3>1. i \in 1..Len(w)
      BY <1>1, <1>6
    <3> QED BY <1>6, <3>1, ElementOfSeq
  <2>2. /\ SubSeq(w, 1, x.l + Len(b)) \in Seq(Int)
        /\ Len(SubSeq(w, 1, x.l + Len(b))) = x.l + Len(b)
        /\ \A i \in 1..(x.l + Len(b)) : SubSeq(w, 1, x.l + Len(b))[i] = w[i]
    BY <1>1, <2>1, SubSeqProperties
  <2>3. SubSeq(w, 1, x.l + Len(b)) = u
    BY <1>4, <1>6, <2>2, SeqEqual
  <2> QED BY <1>7, <2>3 DEF TextOf
<1>10. ASSUME x.s # Null \/ x.l = 0 PROVE t = TextOf(x)
  <2>1. x.l <= Len(x.s)
    BY <1>1, <1>10, LenProperties DEF Terminated, Null
  <2>2. ASSUME NEW i \in 1..x.l PROVE x.s[i] \in Int /\ r[i] = x.s[i]
    <3>1. i \in 1..Len(x.s) /\ i <= Len(x.s)
      BY <1>1, <2>1, LenProperties
    <3> QED BY <1>1, <1>2, <3>1, ElementOfSeq
  <2>3. /\ TextOf(x) \in Seq(Int) /\ Len(TextOf(x)) = x.l
        /\ \A i \in 1..x.l : TextOf(x)[i] = x.s[i]
    BY <1>1, <2>2, SubSeqProperties DEF TextOf
  <2> QED BY <1>3, <2>2, <2>3, SeqEqual
<1> QED BY <1>8, <1>9, <1>10 DEF u

(* The text of a string with a block is made of its bytes. *)
LEMMA TextIs ==
  ASSUME NEW x \in Strs, Terminated(x), x.s # Null
  PROVE  TextOf(x) \in Seq(Int)
<1>1. x.s \in Seq(Int) /\ x.l \in Nat /\ x.l <= Len(x.s)
  BY LenProperties DEF Strs, Terminated
<1>2. ASSUME NEW i \in 1..x.l PROVE x.s[i] \in Int
  <2>1. i \in 1..Len(x.s)
    BY <1>1, LenProperties
  <2> QED BY <1>1, <2>1, ElementOfSeq
<1> QED BY <1>1, <1>2, SubSeqProperties DEF TextOf

(* A set of numbers has a least and, if it is bounded, a largest one. *)
LEMMA Least ==
  ASSUME NEW T, T \subseteq Nat, T # {}
  PROVE  \E x \in T : \A y \in T : x <= y
<1>1. PICK x \in T : \A y \in T : ~ (<<y, x>> \in OpToRel(<, Nat))
  BY WFMin, NatLessThanWellFounded
<1>2. \A y \in T : ~(y < x)
  BY <1>1 DEF OpToRel
<1> QED BY <1>2

(* A bounded one has a largest. *)
LEMMA Largest ==
  ASSUME NEW n \in Nat, NEW T, T \subseteq 1..n, T # {}
  PROVE  \E x \in T : \A y \in T : y <= x
<1> DEFINE D == {n - x : x \in T}
<1>1. PICK d \in D : \A e \in D : d <= e
  <2>1. \A x \in T : n - x \in Nat
    OBVIOUS
  <2>2. D \subseteq Nat /\ D # {}
    BY <2>1
  <2> HIDE DEF D
  <2> QED BY <2>2, Least
<1>2. PICK x \in T : d = n - x
  OBVIOUS
<1> QED BY <1>1, <1>2

(* What strlen and strcpy see of a text is a prefix of it, without a NUL. *)
LEMMA CStringIs ==
  ASSUME NEW b \in Seq(Int)
  PROVE  /\ CString(b) \in Seq(Int)
         /\ \A i \in 1..Len(CString(b)) : CString(b)[i] = b[i] /\ b[i] # NUL
<1> DEFINE Stop(k) == /\ \A i \in 1..k : b[i] # NUL
                      /\ k < Len(b) => b[k + 1] = NUL
           T == {k \in 0..Len(b) : k < Len(b) => b[k + 1] = NUL}
<1>1. PICK k \in T : \A j \in T : k <= j
  <2>1. T \subseteq Nat /\ Len(b) \in T
    OBVIOUS
  <2> HIDE DEF T
  <2> QED BY <2>1, Least
<1>2. k \in 0..Len(b) /\ Stop(k)
  <2>1. ASSUME NEW i \in 1..k PROVE b[i] # NUL
    <3>1. i - 1 \in 0..Len(b) /\ i - 1 < Len(b) /\ ~(k <= i - 1)
      OBVIOUS
    <3>2. i - 1 \notin T
      BY <1>1, <3>1
    <3> QED BY <3>1, <3>2
  <2> QED BY <2>1
<1> DEFINE c == CHOOSE m \in 0..Len(b) : Stop(m)
<1>3. c \in 0..Len(b) /\ Stop(c)
  BY <1>2
<1>4. CString(b) = SubSeq(b, 1, c)
  BY DEF CString
<1> HIDE DEF c
<1> QED BY <1>3, <1>4

(* csorma_str_build makes a terminated string of any text. *)
LEMMA BuildIs ==
  ASSUME NEW b \in Seq(Int)
  PROVE  Build(b) \in Strs /\ Terminated(Build(b))
<1> DEFINE t == CString(b)
<1>1. t \in Seq(Int)
  BY CStringIs
<1> HIDE DEF t
<1>2. Build(b) = [s |-> t \o <<NUL>>, l |-> Len(t)]
  BY DEF Build, t
<1>3. t \o <<NUL>> = Append(t, NUL)
  BY <1>1 DEF NUL
<1>4. /\ Append(t, NUL) \in Seq(Int) /\ Len(Append(t, NUL)) = Len(t) + 1
      /\ Append(t, NUL)[Len(t) + 1] = NUL
  BY <1>1 DEF NUL
<1> QED BY <1>1, <1>2, <1>3, <1>4 DEF Strs, Terminated
=============================================================================
