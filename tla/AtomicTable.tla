---------------------------- MODULE AtomicTable ----------------------------
(***************************************************************************)
(* What the ORM promises of its write calls: each takes effect at one      *)
(* point between call and return, an insert gives the id of its new row,   *)
(* an update or delete the number of rows it hit, and a call that failed   *)
(* (-2 at the step, -3 at the preparation) changed nothing.                *)
(***************************************************************************)
EXTENDS Integers, FiniteSets

CONSTANTS Threads, MaxRowid

VARIABLES store,   \* the row ids of the table
          phase,   \* per thread: "idle", "called" or "done"
          result   \* per thread: what its latest call returns

vars == <<store, phase, result>>

Init == /\ store = {}
        /\ phase = [t \in Threads |-> "idle"]
        /\ result = [t \in Threads |-> 0]

Move(t, from, to) == /\ phase[t] = from
                     /\ phase' = [phase EXCEPT ![t] = to]

Answer(t, value) == /\ Move(t, "called", "done")
                    /\ result' = [result EXCEPT ![t] = value]

Call(t) == Move(t, "idle", "called") /\ UNCHANGED <<store, result>>

Insert(t) ==
  \E id \in 1..MaxRowid : /\ \A r \in store : r < id
                          /\ store' = store \cup {id}
                          /\ Answer(t, id)

Modify(t) ==
  \E hit \in SUBSET store : /\ store' \in {store, store \ hit}
                            /\ Answer(t, Cardinality(hit))

Fail(t) == \E code \in {-2, -3} : Answer(t, code) /\ UNCHANGED store

Return(t) == Move(t, "done", "idle") /\ UNCHANGED <<store, result>>

(* Free-hand SQL may change the table at will (a ROLLBACK undoes a whole   *)
(* transaction) and gives no row id or count; closing a connection rolls   *)
(* back the transaction that was left open on it.                          *)
FreeHandSql(t) == /\ Move(t, "called", "idle")
                  /\ store' \in SUBSET (1..MaxRowid)
                  /\ UNCHANGED result

Shutdown == /\ \E t \in Threads : phase[t] = "idle"
            /\ store' \in SUBSET (1..MaxRowid)
            /\ UNCHANGED <<phase, result>>

Next == \/ \E t \in Threads : \/ Call(t) \/ Insert(t) \/ Modify(t) \/ Fail(t)
                              \/ Return(t) \/ FreeHandSql(t)
        \/ Shutdown

Spec == Init /\ [][Next]_vars
=============================================================================
