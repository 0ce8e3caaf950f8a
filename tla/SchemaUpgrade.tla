--------------------------- MODULE SchemaUpgrade ---------------------------
(***************************************************************************)
(* OrmaDatabase_do_schema_upgrade: threads of one process bring the schema *)
(* of a database to the version their program needs.  The version is the   *)
(* only thing csorma stores (table orma_schema); the schema itself is      *)
(* changed by the application's callback, one version at a time.           *)
(*                                                                         *)
(* Each SQL statement is one step and may fail: csorma ignores that.  The  *)
(* process may crash between two steps and is started again.  In C the     *)
(* versions are uint32_t, but the stored one passes through an int;        *)
(* IntMax is INT_MAX, half of what a uint32_t holds.                       *)
(***************************************************************************)
EXTENDS Integers, Sequences, FiniteSets, SequencesExt, FiniteSetsExt

CONSTANTS Threads,
          Targets,    \* the schema versions the programs ask for
          Callbacks,  \* what they register: "callback", "null" for none
          IntMax,     \* the largest int
          Apps,       \* the applications considered
          MaxFaults   \* bound on failed statements

ASSUME IntMaxAssumption == IntMax \in Nat
ASSUME TargetsAssumption == Targets \subseteq 0..(2 * IntMax + 1)
ASSUME CallbacksAssumption == Callbacks \subseteq {"callback", "null"}
ASSUME BoundsAssumption == MaxFaults \in Nat

(* An application: which of its threads upgrade, to which versions, what   *)
(* they register, whether one may ask for less than an earlier one did,    *)
(* and how many calls and crashes there are.                               *)
ASSUME AppsAssumption ==
  \A a \in Apps : /\ a.threads \subseteq Threads
                  /\ a.targets \subseteq Targets
                  /\ a.callbacks \subseteq Callbacks
                  /\ a.lowers \in BOOLEAN
                  /\ a.calls \in Nat /\ a.crashes \in Nat

VARIABLES app,      \* the application, which stays what it is
          created,  \* the table orma_schema exists
          versions, \* its rows: db_version
          callback, \* OrmaDatabase_self_schema_upgrade_callback
          pc, target, cur,
          calls, faults, crashes, \* how many there may still be
          level,    \* ghost: the version the schema really has
          repeated, \* ghost: versions whose callback ran again later
          recorded  \* ghost: the version the last upgrade wrote

db == <<created, versions>>
process == <<callback, pc, target, cur>>
bounds == <<calls, faults, crashes>>
ghosts == <<level, repeated, recorded>>
vars == <<app, db, process, bounds, ghosts>>

PCs == {"idle", "create", "seed", "read", "loop", "call", "write"}
Unsigned == 0..(2 * IntMax + 1)
Signed == (-IntMax - 1)..IntMax
Modulus == 2 * IntMax + 2

(* The C conversions between the two. *)
ToInt(n) == IF n \in Signed THEN n ELSE n - Modulus
ToUint(n) == n % Modulus

(* Types: the stored versions are ints, those of the program are unsigned  *)
(* (get_current_db_version and set_new_db_version convert).                *)
TypeOK ==
  /\ app \in Apps
  /\ created \in BOOLEAN
  /\ versions \in Seq(Signed)
  /\ callback \in {"callback", "null"}
  /\ pc \in [Threads -> PCs]
  /\ target \in [Threads -> Unsigned]
  /\ cur \in [Threads -> Unsigned]
  /\ calls \in Nat /\ faults \in Nat /\ crashes \in Nat
  /\ level \in Unsigned
  /\ repeated \in SUBSET Unsigned
  /\ recorded \in Unsigned \cup {-1}

Init ==
  /\ app \in Apps
  /\ created = FALSE
  /\ versions = <<>>
  /\ callback = "null"
  /\ pc = [t \in Threads |-> "idle"]
  /\ target = [t \in Threads |-> 0]
  /\ cur = [t \in Threads |-> 0]
  /\ calls = app.calls
  /\ faults = MaxFaults
  /\ crashes = app.crashes
  /\ level = 0
  /\ repeated = {}
  /\ recorded = -1

Idle(t) == pc[t] = "idle"
Goto(t, label) == pc' = [pc EXCEPT ![t] = label]

(* A statement fails without effect: always when the table is missing,     *)
(* otherwise for a reason outside csorma (locked, full, interrupted).      *)
Fault == faults > 0 /\ faults' = faults - 1

-----------------------------------------------------------------------------
(* The application sets the callback and calls do_schema_upgrade. *)
Start(t, n, f) ==
  /\ Idle(t)
  /\ calls > 0
  /\ t \in app.threads /\ n \in app.targets /\ f \in app.callbacks
  /\ app.lowers \/ \A u \in Threads : target[u] <= n
  /\ calls' = calls - 1
  /\ callback' = f
  /\ target' = [target EXCEPT ![t] = n]
  /\ Goto(t, "create")
  /\ UNCHANGED <<db, cur, faults, crashes, ghosts>>

(* create_orma_version_schema_table: its two statements. *)
CreateTable(t) ==
  /\ pc[t] = "create"
  /\ \/ created' = TRUE /\ UNCHANGED faults
     \/ Fault /\ UNCHANGED created
  /\ Goto(t, "seed")
  /\ UNCHANGED <<versions, callback, target, cur, calls, crashes, ghosts>>

(* Mutants: the row is inserted whether there is one or not; an existing   *)
(* one is replaced.                                                        *)
SeedAgain(t) ==
  /\ pc[t] = "seed"
  /\ created
  /\ versions' = Append(versions, 0)
  /\ Goto(t, "read")
  /\ UNCHANGED <<created, callback, target, cur, bounds, ghosts>>

SeedZero(t) ==
  /\ pc[t] = "seed"
  /\ created
  /\ versions' = <<0>>
  /\ Goto(t, "read")
  /\ UNCHANGED <<created, callback, target, cur, bounds, ghosts>>

SeedVersion(t) ==
  /\ pc[t] = "seed"
  /\ \/ /\ created
        /\ versions' = IF \E i \in DOMAIN versions : versions[i] > -1
                       THEN versions
                       ELSE Append(versions, 0)
        /\ UNCHANGED faults
     \/ ~created /\ UNCHANGED <<versions, faults>>
     \/ Fault /\ UNCHANGED versions
  /\ Goto(t, "read")
  /\ UNCHANGED <<created, callback, target, cur, calls, crashes, ghosts>>

(* get_current_db_version: the largest version; 0 when there is none or    *)
(* the query failed.                                                       *)
StoredVersion == IF versions = <<>> THEN 0 ELSE Max(ToSet(versions))

(* Mutant: -1 stands for a version that could not be read. *)
ReadMinusOne(t) ==
  /\ pc[t] = "read"
  /\ cur' = [cur EXCEPT ![t] = -1]
  /\ Fault
  /\ Goto(t, "loop")
  /\ UNCHANGED <<db, callback, target, calls, crashes, ghosts>>

ReadVersion(t) ==
  /\ pc[t] = "read"
  /\ \/ cur' = [cur EXCEPT ![t] = ToUint(StoredVersion)] /\ UNCHANGED faults
     \/ cur' = [cur EXCEPT ![t] = 0] /\ Fault
  /\ Goto(t, "loop")
  /\ UNCHANGED <<db, callback, target, calls, crashes, ghosts>>

(* Mutant: the loop runs up to and including the target. *)
NextVersionInclusive(t) ==
  /\ pc[t] = "loop"
  /\ cur[t] <= target[t]
  /\ Goto(t, "call")
  /\ UNCHANGED <<db, callback, target, cur, bounds, ghosts>>

(* The loop of do_schema_upgrade, up to the test of the callback pointer. *)
NextVersion(t) ==
  /\ pc[t] = "loop"
  /\ cur[t] < target[t]
  /\ IF callback # "null"
     THEN Goto(t, "call") /\ UNCHANGED cur
     ELSE cur' = [cur EXCEPT ![t] = @ + 1] /\ UNCHANGED pc
  /\ UNCHANGED <<db, callback, target, bounds, ghosts>>

(* The callback upgrades the schema from cur to cur + 1; on a schema that  *)
(* has that version already it changes nothing.  The pointer was tested    *)
(* before: the call uses the tested value or reads it again, and crashes   *)
(* when another thread has set it to NULL in between.                      *)
CallCallback(t) ==
  /\ pc[t] = "call"
  /\ level' = IF level <= cur[t] THEN cur[t] + 1 ELSE level
  /\ repeated' = IF level <= cur[t] THEN repeated ELSE repeated \cup {cur[t]}
  /\ cur' = [cur EXCEPT ![t] = @ + 1]
  /\ Goto(t, "loop")
  /\ UNCHANGED <<db, callback, target, bounds, recorded>>

ProcessDies == /\ pc' = [t \in Threads |-> "idle"]
               /\ callback' = "null"
               /\ UNCHANGED <<db, target, cur, calls, faults, ghosts>>

CallNull(t) ==
  /\ pc[t] = "call"
  /\ callback = "null"
  /\ ProcessDies
  /\ UNCHANGED crashes

(* Mutants: the version is written before the callbacks have run; the      *)
(* version before the last callback is written.                            *)
WriteEarly(t) ==
  /\ pc[t] = "loop"
  /\ versions' = [i \in DOMAIN versions |-> ToInt(target[t])]
  /\ UNCHANGED <<created, process, bounds, ghosts>>

WriteOneLess(t) ==
  /\ pc[t] = "loop"
  /\ cur[t] >= target[t]
  /\ versions' = [i \in DOMAIN versions |-> ToInt(cur[t] - 1)]
  /\ Goto(t, "idle")
  /\ UNCHANGED <<created, callback, target, cur, bounds, ghosts>>

(* set_new_db_version, whether there was anything to upgrade or not. *)
WriteVersion(t) ==
  /\ pc[t] = "loop"
  /\ cur[t] >= target[t]
  /\ \/ /\ versions' = [i \in DOMAIN versions |-> ToInt(target[t])]
        /\ recorded' = IF versions # <<>> THEN target[t] ELSE recorded
        /\ UNCHANGED faults
     \/ Fault /\ UNCHANGED <<versions, recorded>>
  /\ Goto(t, "idle")
  /\ UNCHANGED <<created, callback, target, cur, calls, crashes, level, repeated>>

Crash == /\ crashes > 0
         /\ \E t \in Threads : ~Idle(t)
         /\ crashes' = crashes - 1
         /\ ProcessDies
         /\ UNCHANGED app

Upgrade(t) == /\ \/ CreateTable(t) \/ SeedVersion(t) \/ ReadVersion(t)
                 \/ NextVersion(t) \/ CallCallback(t) \/ CallNull(t)
                 \/ WriteVersion(t)
              /\ UNCHANGED app

Application ==
  /\ \E t \in Threads, n \in Targets, f \in Callbacks : Start(t, n, f)
  /\ UNCHANGED app

Finished == /\ \A t \in Threads : Idle(t)
            /\ UNCHANGED vars

Next == \/ \E t \in Threads : Upgrade(t)
        \/ Application \/ Crash \/ Finished

Spec == Init /\ [][Next]_vars

(* do_schema_upgrade runs on, and the program is started again and calls   *)
(* it after a crash.                                                       *)
LiveSpec == /\ Spec
            /\ \A t \in Threads : WF_vars(Upgrade(t))
            /\ WF_vars(Application)

-----------------------------------------------------------------------------
(* Properties                                                              *)

(* Applications that always register a callback, and those that run one    *)
(* upgrade at a time and never go back to an earlier version.              *)
Registers == app.callbacks = {"callback"}
Orderly == Cardinality(app.threads) = 1 /\ ~app.lowers

(* orma_schema has at most one row, however many calls create and seed it. *)
OneRow == Len(versions) <= 1

(* The stored version never claims an upgrade whose callback has not run,  *)
(* through crashes, failed statements and other upgrades at the same time. *)
VersionTrails ==
  Registers => \A i \in DOMAIN versions : versions[i] <= level

(* Why, when every program asks for a version that an int can hold: a call *)
(* of an application that registers a callback has seen no version above   *)
(* the schema's.                                                           *)
TrailsInv ==
  /\ TypeOK
  /\ OneRow
  /\ VersionTrails
  /\ \A i \in DOMAIN versions : versions[i] >= 0
  /\ \A t \in Threads :
       /\ ~Idle(t) => target[t] \in Targets
       /\ pc[t] = "call" => cur[t] < target[t]
       /\ Registers =>
            /\ ~Idle(t) => callback = "callback"
            /\ pc[t] \in {"loop", "call"} => cur[t] <= level

(* A callback runs a second time on an upgraded schema only when something *)
(* went wrong before: the version is stored once, after the last callback. *)
RepeatsNeedTrouble ==
  Orderly /\ repeated # {} => crashes < app.crashes \/ faults < MaxFaults

(* An upgrade to the version that was written last runs no callback, when  *)
(* every statement of csorma's worked.                                     *)
NoCallsOnSameVersion ==
  [][\A t \in Threads : Orderly /\ pc[t] = "call" /\ cur'[t] # cur[t]
                          => target[t] # recorded \/ faults < MaxFaults]_vars

(* The stored version does not go down, however often an upgrade is cut    *)
(* off and repeated.                                                       *)
VersionNeverLowered ==
  [][Orderly => \A i \in DOMAIN versions :
                  i \in DOMAIN versions' /\ versions'[i] >= versions[i]]_vars

(* Once crashes and failures end, the schema and the stored version get to *)
(* the version the program asks for, when there is only one.               *)
UpgradeCompletes ==
  \A n \in Targets : Registers /\ app.targets = {n}
                       => <>[](level = n /\ versions = <<n>>)
=============================================================================
