----------------------------- MODULE CsormaStr -----------------------------
(***************************************************************************)
(* The string buffer csorma_s of csorma.c: a block of bytes and the length *)
(* of the text in it.  The block has room for a NUL byte after the text,   *)
(* which the length does not count.  The text may hold NUL bytes itself.   *)
(*                                                                         *)
(* Bytes are numbers, realloc leaves new bytes Uninit.  `cur' and `n' are  *)
(* left out: nobody reads them.  Lengths are below 2^32.                   *)
(***************************************************************************)
EXTENDS Integers, Sequences

NUL == 0
Uninit == -1
Null == <<>>                  \* no block: every block has a byte
Blank == [s |-> Null, l |-> 0]

Realloc(s, n) == [i \in 1..n |-> IF i <= Len(s) THEN s[i] ELSE Uninit]

(* Mutant: no room for the NUL byte. *)
ConUnterminated(x, b) ==
  [s |-> SubSeq(Realloc(x.s, x.l), 1, x.l) \o b, l |-> x.l + Len(b)]

(* csorma_str_con: the bytes b are appended, ... *)
Con(x, b) ==
  [s |-> SubSeq(Realloc(x.s, x.l + Len(b) + 1), 1, x.l) \o b \o <<NUL>>,
   l |-> x.l + Len(b)]

(* ... or realloc fails: the block is lost, the length stays.              *)
ConFails(x) == [x EXCEPT !.s = Null]

(* The text of x, as SQLite gets it with its length: none without a block. *)
TextOf(x) == SubSeq(x.s, 1, x.l)

(* csorma_str_con2 *)
Con2(x, y) == IF y.s = Null THEN x ELSE Con(x, TextOf(y))

(* What C makes of bytes that end with a NUL byte: those before the first. *)
CString(b) ==
  SubSeq(b, 1, CHOOSE k \in 0..Len(b) :
                 /\ \A i \in 1..k : b[i] # NUL
                 /\ k < Len(b) => b[k + 1] = NUL)

(* csorma_str2_build *)
Build(b) == LET text == CString(b) IN
  [s |-> text \o <<NUL>>, l |-> Len(text)]

-----------------------------------------------------------------------------
(* A string is as long as it says and ends with a NUL byte, unless it has  *)
(* no block: then nobody reads it.                                         *)
Terminated(x) ==
  x.s # Null => Len(x.s) = x.l + 1 /\ x.s[x.l + 1] = NUL
=============================================================================
