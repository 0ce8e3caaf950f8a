---------------------------- MODULE SchemaProofs ----------------------------
(* Theorems about SchemaUpgrade, for any number of threads, crashes and    *)
(* failed statements.                                                      *)
EXTENDS SchemaUpgrade, SequenceTheorems, FiniteSetTheorems, TLAPS

(* The applications ask for versions that fit into an int.                 *)
Disciplined == Targets \subseteq Signed

USE IntMaxAssumption, TargetsAssumption, CallbacksAssumption,
    AppsAssumption, BoundsAssumption

(* The conversion to uint32_t does not make a version larger. *)
LEMMA SmallMod ==
  ASSUME NEW v \in Nat
  PROVE  ToUint(v) \in Unsigned /\ ToUint(v) <= v
BY DEF ToUint, Modulus, Unsigned

(* The largest version of one is that one. *)
LEMMA MaxOfOne == ASSUME NEW v \in Int PROVE Max({v}) = v
<1>1. \E x \in {v} : \A y \in {v} : x >= y
  OBVIOUS
<1> QED
  BY <1>1, Zenon DEF Max

(* orma_schema in a state of the invariant: empty or one version. *)
LEMMA RowForm ==
  ASSUME TrailsInv, versions # <<>>
  PROVE  /\ Len(versions) = 1
         /\ DOMAIN versions = {1}
         /\ versions[1] \in Signed
         /\ versions[1] >= 0 /\ (Registers => versions[1] <= level)
<1>1. versions \in Seq(Signed) /\ Len(versions) <= 1
  BY DEF TrailsInv, TypeOK, OneRow
<1>2. Len(versions) \in Nat /\ DOMAIN versions = 1..Len(versions)
  BY <1>1
<1>3. Len(versions) # 0
  BY <1>1, EmptySeq
<1>4. Len(versions) = 1 /\ DOMAIN versions = {1}
  BY <1>1, <1>2, <1>3
<1> QED
  BY <1>1, <1>4 DEF TrailsInv, VersionTrails

(* No call has started and no version is stored. *)
LEMMA TrailsInit == Init => TrailsInv
<1> SUFFICES ASSUME Init PROVE TrailsInv
  OBVIOUS
<1>1. versions = <<>> /\ versions \in Seq(Signed) /\ Len(versions) = 0
  BY EmptySeq DEF Init
<1>2. DOMAIN versions = {}
  BY <1>1
<1>3. TypeOK
  <2>1. 0 \in Unsigned
    BY DEF Unsigned
  <2> QED
    BY <1>1, <2>1 DEF Init, TypeOK, PCs
<1> QED
  BY <1>1, <1>2, <1>3 DEF Init, TrailsInv, OneRow, VersionTrails, Idle

(* The version a call reads is not above the schema's. *)
LEMMA ReadTrails ==
  ASSUME TrailsInv
  PROVE  /\ ToUint(StoredVersion) \in Unsigned
         /\ Registers => ToUint(StoredVersion) <= level
<1>1. StoredVersion \in Nat /\ (Registers => StoredVersion <= level)
  <2>1. CASE versions = <<>>
    BY <2>1 DEF StoredVersion, TrailsInv, TypeOK, Unsigned
  <2>2. CASE versions # <<>>
    <3>1. /\ DOMAIN versions = {1} /\ versions[1] \in Nat
          /\ Registers => versions[1] <= level
      BY <2>2, RowForm DEF Signed
    <3>2. ToSet(versions) = {versions[1]}
      BY <3>1 DEF ToSet
    <3> QED
      BY <2>2, <3>1, <3>2, MaxOfOne DEF StoredVersion
  <2> QED
    BY <2>1, <2>2
<1> QED
  BY <1>1, SmallMod DEF TrailsInv, TypeOK, Unsigned

(* Every step keeps TrailsInv, one action at a time. *)
LEMMA TrailsStep ==
  ASSUME Disciplined, TrailsInv, [Next]_vars
  PROVE  TrailsInv'
<1> USE DEF Disciplined, Goto, Idle, Registers
<1>1. CASE UNCHANGED vars
  BY <1>1 DEF TrailsInv, TypeOK, OneRow, VersionTrails, vars, db, process,
              bounds, ghosts
<1>2. ASSUME NEW t \in Threads, NEW n \in Targets, NEW f \in Callbacks,
             Start(t, n, f), UNCHANGED app
      PROVE  TrailsInv'
  <2>1. (Registers => f = "callback") /\ n \in Unsigned
    BY <1>2 DEF Start, Unsigned
  <2>2. calls' \in Nat
    BY <1>2 DEF Start, TrailsInv, TypeOK
  <2>3. TypeOK'
    BY <1>2, <2>1, <2>2 DEF Start, TrailsInv, TypeOK, PCs, db, ghosts
  <2> QED
    BY <1>2, <2>1, <2>3 DEF Start, TrailsInv, TypeOK, OneRow, VersionTrails, db,
                            ghosts
<1>3. ASSUME NEW t \in Threads, CreateTable(t), UNCHANGED app PROVE TrailsInv'
  <2>1. faults' \in Nat
    BY <1>3 DEF CreateTable, Fault, TrailsInv, TypeOK
  <2>2. TypeOK'
    BY <1>3, <2>1 DEF CreateTable, TrailsInv, TypeOK, PCs, ghosts
  <2> QED
    BY <1>3, <2>2 DEF CreateTable, TrailsInv, TypeOK, OneRow, VersionTrails,
                      ghosts
<1>4. ASSUME NEW t \in Threads, SeedVersion(t), UNCHANGED app PROVE TrailsInv'
  <2>1. faults' \in Nat
    BY <1>4 DEF SeedVersion, Fault, TrailsInv, TypeOK
  <2>2. versions' = versions \/ (versions = <<>> /\ versions' = <<0>>)
    <3>1. CASE versions = <<>>
      BY <1>4, <3>1 DEF SeedVersion
    <3>2. CASE versions # <<>>
      <4>1. 1 \in DOMAIN versions /\ versions[1] > -1
        BY <3>2, RowForm DEF Signed
      <4> QED
        BY <1>4, <4>1 DEF SeedVersion
    <3> QED
      BY <3>1, <3>2
  <2>3. /\ versions' \in Seq(Signed) /\ Len(versions') <= 1
        /\ \A i \in DOMAIN versions' :
             versions'[i] >= 0 /\ (Registers => versions'[i] <= level)
    <3>1. CASE versions' = <<0>>
      <4>1. 0 \in Signed /\ 0 <= level
        BY DEF TrailsInv, TypeOK, Signed, Unsigned
      <4>2. versions' \in Seq(Signed) /\ Len(versions') = 1 /\ versions'[1] = 0
        BY <3>1, <4>1
      <4> QED
        BY <4>1, <4>2
    <3>2. CASE versions' = versions
      BY <3>2 DEF TrailsInv, TypeOK, OneRow, VersionTrails
    <3> QED
      BY <2>2, <3>1, <3>2
  <2>4. TypeOK'
    BY <1>4, <2>1, <2>3 DEF SeedVersion, TrailsInv, TypeOK, PCs, ghosts
  <2> QED
    BY <1>4, <2>3, <2>4 DEF SeedVersion, TrailsInv, TypeOK, OneRow,
                            VersionTrails, ghosts
<1>5. ASSUME NEW t \in Threads, ReadVersion(t), UNCHANGED app PROVE TrailsInv'
  <2>1. faults' \in Nat
    BY <1>5 DEF ReadVersion, Fault, TrailsInv, TypeOK
  <2>2. \E v \in Unsigned : /\ Registers => v <= level
                            /\ cur' = [cur EXCEPT ![t] = v]
    BY <1>5, ReadTrails DEF ReadVersion, TrailsInv, TypeOK, Unsigned
  <2>3. TypeOK'
    BY <1>5, <2>1, <2>2 DEF ReadVersion, TrailsInv, TypeOK, PCs, db, ghosts
  <2> QED
    BY <1>5, <2>2, <2>3 DEF ReadVersion, TrailsInv, TypeOK, OneRow,
                            VersionTrails, db, ghosts
<1>6. ASSUME NEW t \in Threads, NextVersion(t), UNCHANGED app PROVE TrailsInv'
  <2>1. Registers => callback = "callback"
    BY <1>6 DEF NextVersion, TrailsInv
  <2>2. cur[t] + 1 \in Unsigned
    BY <1>6 DEF NextVersion, TrailsInv, TypeOK, Unsigned
  <2>3. TypeOK'
    BY <1>6, <2>2 DEF NextVersion, TrailsInv, TypeOK, PCs, db, bounds, ghosts
  <2> QED
    BY <1>6, <2>1, <2>3 DEF NextVersion, TrailsInv, TypeOK, OneRow,
                            VersionTrails, db, bounds, ghosts
<1>7. ASSUME NEW t \in Threads, CallCallback(t), UNCHANGED app PROVE TrailsInv'
  <2>1. cur[t] + 1 \in Unsigned
    BY <1>7 DEF CallCallback, TrailsInv, TypeOK, Unsigned
  <2>2. level' \in Unsigned /\ level' >= level /\ level' >= cur[t] + 1
    BY <1>7, <2>1 DEF CallCallback, TrailsInv, TypeOK, Unsigned
  <2>3. TypeOK'
    BY <1>7, <2>1, <2>2 DEF CallCallback, TrailsInv, TypeOK, PCs, db, bounds
  <2>4. VersionTrails'
    BY <1>7, <2>2 DEF CallCallback, TrailsInv, TypeOK, VersionTrails, db, Signed,
                      Unsigned
  <2>5. Registers => \A u \in Threads : pc'[u] \in {"loop", "call"} => cur'[u] <= level'
    BY <1>7, <2>1, <2>2 DEF CallCallback, TrailsInv, TypeOK, Unsigned
  <2> QED
    BY <1>7, <2>3, <2>4, <2>5 DEF CallCallback, TrailsInv, TypeOK, OneRow, db
<1>8. ASSUME NEW t \in Threads, CallNull(t), UNCHANGED app PROVE TrailsInv'
  <2>1. TypeOK'
    BY <1>8 DEF CallNull, ProcessDies, TrailsInv, TypeOK, PCs, db, ghosts
  <2> QED
    BY <1>8, <2>1 DEF CallNull, ProcessDies, TrailsInv, TypeOK, OneRow,
                      VersionTrails, db, ghosts
<1>9. ASSUME NEW t \in Threads, WriteVersion(t), UNCHANGED app PROVE TrailsInv'
  <2>1. faults' \in Nat
    BY <1>9 DEF WriteVersion, Fault, TrailsInv, TypeOK
  <2>2. target[t] \in Targets /\ (Registers => target[t] <= level)
    BY <1>9 DEF WriteVersion, TrailsInv, TypeOK, Unsigned
  <2>3. ToInt(target[t]) = target[t] /\ target[t] \in Signed /\ target[t] >= 0
    <3>1. target[t] \in Unsigned /\ target[t] \in Signed
      BY <2>2 DEF Unsigned
    <3> QED
      BY <3>1 DEF ToInt, Unsigned
  <2>4. \/ UNCHANGED versions
        \/ versions' = [i \in DOMAIN versions |-> target[t]]
    BY <1>9, <2>3 DEF WriteVersion
  <2>5. /\ versions' \in Seq(Signed) /\ Len(versions') <= 1
        /\ \A i \in DOMAIN versions' :
             versions'[i] >= 0 /\ (Registers => versions'[i] <= level)
    BY <2>2, <2>3, <2>4 DEF TrailsInv, TypeOK, OneRow, VersionTrails
  <2>6. recorded' \in Unsigned \cup {-1}
    BY <1>9 DEF WriteVersion, TrailsInv, TypeOK
  <2>7. TypeOK'
    BY <1>9, <2>1, <2>5, <2>6 DEF WriteVersion, TrailsInv, TypeOK, PCs
  <2> QED
    BY <1>9, <2>5, <2>7 DEF WriteVersion, TrailsInv, TypeOK, OneRow, VersionTrails
<1>10. CASE Crash
  <2>1. crashes' \in Nat
    BY <1>10 DEF Crash, TrailsInv, TypeOK
  <2>2. TypeOK'
    BY <1>10, <2>1 DEF Crash, ProcessDies, TrailsInv, TypeOK, PCs, db, ghosts
  <2> QED
    BY <1>10, <2>2 DEF Crash, ProcessDies, TrailsInv, TypeOK, OneRow,
                       VersionTrails, db, ghosts
<1>11. CASE Finished
  BY <1>1, <1>11 DEF Finished
<1> QED
  BY <1>1, <1>2, <1>3, <1>4, <1>5, <1>6, <1>7, <1>8, <1>9, <1>10, <1>11
  DEF Next, Upgrade, Application

(* What a call of do_schema_upgrade knows between its statements: types,   *)
(* one row, no version above the schema's.                                 *)
THEOREM UpgradeInvariant ==
  ASSUME Disciplined
  PROVE  Spec => []TrailsInv
<1>1. TrailsInv /\ [Next]_vars => TrailsInv'
  BY TrailsStep
<1> QED
  BY TrailsInit, <1>1, PTL DEF Spec

(* In an application that registers a callback the stored version never    *)
(* claims an upgrade whose callback has not run, with any number of        *)
(* threads upgrading at once, and through any crashes and failures.        *)
THEOREM VersionNeverAhead ==
  ASSUME Disciplined
  PROVE  Spec => []VersionTrails
<1>1. TrailsInv => VersionTrails
  BY DEF TrailsInv
<1> QED
  BY UpgradeInvariant, <1>1, PTL

(* Creating and seeding orma_schema again and again gives it one row.      *)
THEOREM SchemaTableHasOneRow ==
  ASSUME Disciplined
  PROVE  Spec => []OneRow
<1>1. TrailsInv => OneRow
  BY DEF TrailsInv
<1> QED
  BY UpgradeInvariant, <1>1, PTL

(* Every variable keeps its type: no version leaves the range of the C     *)
(* type that holds it.                                                     *)
THEOREM UpgradeTypes ==
  ASSUME Disciplined
  PROVE  Spec => []TypeOK
<1>1. TrailsInv => TypeOK
  BY DEF TrailsInv
<1> QED
  BY UpgradeInvariant, <1>1, PTL

-----------------------------------------------------------------------------
(* One upgrade at a time                                                   *)

(* The stored version, when there is one row at most. *)
HasRow == versions # <<>>
Stored == IF HasRow THEN versions[1] ELSE 0

(* One thread t upgrades, never to less than before: it never asks for     *)
(* less than is stored; ...                                                *)
Lowest(t) == Stored <= target[t]

(* ... while no statement fails, it starts from the version it recorded;   *)
Resumes(t) ==
  recorded # -1 => /\ HasRow /\ Stored = recorded
                   /\ pc[t] \in {"loop", "call"} => cur[t] >= recorded

(* ... and without a crash either, it knows the version of the schema.     *)
Knows(t) ==
  /\ repeated = {}
  /\ pc[t] = "seed" => created
  /\ pc[t] \in {"read", "loop", "call"} => HasRow
  /\ pc[t] = "call" => callback # "null"
  /\ IF pc[t] \in {"loop", "call"} THEN level <= cur[t] /\ cur[t] <= target[t]
                                   ELSE level <= Stored

NoFault == faults = MaxFaults
NoCrash == crashes = app.crashes

OrderInv ==
  /\ TrailsInv
  /\ faults <= MaxFaults /\ crashes <= app.crashes
  /\ \A t \in Threads : ~Idle(t) => t \in app.threads
  /\ Orderly => \A t \in app.threads : /\ Lowest(t)
                                       /\ NoFault => Resumes(t)
                                       /\ NoFault /\ NoCrash => Knows(t)

(* What is stored is a version an int holds, so reading gives just that.   *)
LEMMA StoredIs ==
  ASSUME TrailsInv
  PROVE  StoredVersion = Stored /\ Stored \in 0..IntMax /\ ToUint(Stored) = Stored
<1>1. CASE versions = <<>>
  BY <1>1 DEF StoredVersion, Stored, HasRow, ToUint, Modulus
<1>2. CASE versions # <<>>
  <2>1. DOMAIN versions = {1} /\ versions[1] \in 0..IntMax
    BY <1>2, RowForm DEF Signed
  <2>2. ToSet(versions) = {versions[1]}
    BY <2>1 DEF ToSet
  <2>3. StoredVersion = versions[1]
    BY <1>2, <2>1, <2>2, MaxOfOne DEF StoredVersion
  <2> QED
    BY <1>2, <2>1, <2>3 DEF Stored, HasRow, ToUint, Modulus
<1> QED
  BY <1>1, <1>2

(* Seeding leaves a stored version alone, and makes sure there is one.     *)
LEMMA SeedRow ==
  ASSUME TrailsInv, NEW t \in Threads, SeedVersion(t)
  PROVE  /\ Stored' = Stored
         /\ HasRow => HasRow'
         /\ created /\ faults' = faults => HasRow'
<1>1. CASE versions = <<>>
  <2>1. versions' = versions \/ versions' = <<0>>
    BY <1>1 DEF SeedVersion
  <2>2. created /\ faults' = faults => versions' = <<0>>
    BY <1>1 DEF SeedVersion, Fault, TrailsInv, TypeOK
  <2> QED
    BY <1>1, <2>1, <2>2 DEF Stored, HasRow
<1>2. CASE versions # <<>>
  <2>1. 1 \in DOMAIN versions /\ versions[1] > -1
    BY <1>2, RowForm DEF Signed
  <2>2. versions' = versions
    BY <2>1 DEF SeedVersion
  <2> QED
    BY <1>2, <2>2 DEF Stored, HasRow
<1> QED
  BY <1>1, <1>2

(* A version is only written over one that is there.                       *)
LEMMA WriteRow ==
  ASSUME Disciplined, TrailsInv, NEW t \in Threads, WriteVersion(t)
  PROVE  /\ HasRow' = HasRow
         /\ \/ UNCHANGED <<versions, recorded>> /\ Fault
            \/ /\ Stored' = IF HasRow THEN target[t] ELSE 0
               /\ recorded' = IF HasRow THEN target[t] ELSE recorded
<1>1. target[t] \in Unsigned /\ target[t] \in Signed
  BY DEF WriteVersion, TrailsInv, Disciplined, Unsigned, Idle
<1>2. ToInt(target[t]) = target[t]
  BY <1>1 DEF ToInt
<1>3. CASE UNCHANGED versions /\ UNCHANGED recorded /\ Fault
  BY <1>3 DEF HasRow
<1>4. CASE /\ versions' = [i \in DOMAIN versions |-> target[t]]
           /\ recorded' = IF HasRow THEN target[t] ELSE recorded
  <2>1. CASE versions = <<>>
    BY <1>4, <2>1 DEF HasRow, Stored
  <2>2. CASE versions # <<>>
    <3>1. DOMAIN versions = {1}
      BY <2>2, RowForm
    <3>2. DOMAIN versions' = {1} /\ versions'[1] = target[t]
      BY <1>4, <3>1
    <3>3. versions' # <<>>
      BY <3>2
    <3> QED
      BY <1>4, <2>2, <3>2, <3>3 DEF HasRow, Stored
  <2> QED
    BY <2>1, <2>2
<1> QED
  BY <1>2, <1>3, <1>4 DEF WriteVersion, HasRow

(* Nothing is stored and nothing runs. *)
LEMMA OrderInit == Init => OrderInv
<1> SUFFICES ASSUME Init PROVE OrderInv
  OBVIOUS
<1>1. TrailsInv /\ ~HasRow /\ Stored = 0
  BY TrailsInit DEF Init, HasRow, Stored
<1>2. app.crashes \in Nat /\ app.threads \subseteq Threads
  BY DEF Init
<1> QED
  BY <1>1, <1>2 DEF Init, OrderInv, Idle, Lowest, Resumes, Knows

(* Failures and crashes are only ever used up, and an upgrade runs on one  *)
(* of the application's threads.                                           *)
LEMMA BoundsStep ==
  ASSUME OrderInv, [Next]_vars
  PROVE  /\ app' = app
         /\ faults' <= MaxFaults /\ crashes' <= app'.crashes
         /\ NoFault' => NoFault /\ faults' = faults
         /\ NoCrash' => NoCrash /\ crashes' = crashes
         /\ \A t \in Threads : ~Idle(t)' => t \in app'.threads
<1> USE DEF OrderInv, TrailsInv, TypeOK, NoFault, NoCrash, Idle, Goto
<1>1. app' = app
  BY DEF Next, Upgrade, Application, Crash, Finished, vars
<1>2. /\ faults \in Nat /\ faults' \in {faults, faults - 1}
      /\ crashes \in Nat /\ crashes' \in {crashes, crashes - 1}
      /\ app.crashes \in Nat
  BY DEF Next, Upgrade, Application, Crash, Finished, vars, bounds, Start,
         CreateTable, SeedVersion, ReadVersion, NextVersion, CallCallback,
         CallNull, WriteVersion, ProcessDies, Fault
<1>3. \A t \in Threads : pc'[t] # "idle" => pc[t] # "idle" \/ t \in app.threads
  BY DEF Next, Upgrade, Application, Crash, Finished, vars, process, Start,
         CreateTable, SeedVersion, ReadVersion, NextVersion, CallCallback,
         CallNull, WriteVersion, ProcessDies
<1> QED
  BY <1>1, <1>2, <1>3

(* An orderly application has one thread. *)
LEMMA OneThread ==
  ASSUME IsFiniteSet(Threads), app \in Apps, Orderly
  PROVE  \E t \in Threads : app.threads = {t}
<1>1. app.threads \subseteq Threads /\ Cardinality(app.threads) = 1
  BY DEF Orderly
<1>2. IsFiniteSet(app.threads)
  BY <1>1, FS_Subset
<1> QED
  BY <1>1, <1>2, FS_Singleton

(* Every step of that thread keeps what it goes by.                        *)
LEMMA OrderlyStep ==
  ASSUME Disciplined, OrderInv, Orderly, NEW t \in Threads, app.threads = {t},
         [Next]_vars
  PROVE  /\ Lowest(t)'
         /\ NoFault' => Resumes(t)'
         /\ NoFault' /\ NoCrash' => Knows(t)'
<1> USE DEF Goto, Idle
<1>1. /\ TypeOK /\ TrailsInv
      /\ \A u \in Threads : pc[u] # "idle" => u = t
      /\ Lowest(t)
      /\ NoFault => Resumes(t)
      /\ NoFault /\ NoCrash => Knows(t)
  BY DEF OrderInv, TrailsInv
<1>2. /\ NoFault' => NoFault /\ faults' = faults
      /\ NoCrash' => NoCrash /\ crashes' = crashes
      /\ faults \in Nat /\ crashes \in Nat
  BY <1>1, BoundsStep DEF TypeOK
<1>3. /\ Stored \in Nat /\ StoredVersion = Stored /\ ToUint(Stored) = Stored
      /\ target[t] \in Nat /\ cur[t] \in Nat /\ level \in Nat
  BY <1>1, StoredIs DEF TypeOK, Unsigned
<1> USE DEF TypeOK
<1>4. CASE UNCHANGED vars \/ Finished
  BY <1>1, <1>2, <1>4 DEF Finished, vars, db, process, bounds, ghosts, Lowest,
                          Resumes, Knows, Stored, HasRow
<1>5. ASSUME NEW u \in Threads, NEW n \in Targets, NEW f \in Callbacks,
             Start(u, n, f)
      PROVE  /\ Lowest(t)'
             /\ NoFault' => Resumes(t)'
             /\ NoFault' /\ NoCrash' => Knows(t)'
  <2>1. u = t /\ target[t] <= n /\ n \in Nat
    BY <1>5 DEF Start, Orderly, Unsigned
  <2>2. pc'[t] = "create" /\ pc[t] = "idle" /\ target'[t] = n
    BY <1>1, <1>5, <2>1 DEF Start
  <2>3. Stored' = Stored /\ HasRow' = HasRow /\ UNCHANGED ghosts
    BY <1>5 DEF Start, db, Stored, HasRow
  <2> QED
    BY <1>1, <1>2, <1>3, <2>1, <2>2, <2>3 DEF ghosts, Lowest, Resumes, Knows
<1>6. ASSUME NEW u \in Threads, CreateTable(u)
      PROVE  /\ Lowest(t)'
             /\ NoFault' => Resumes(t)'
             /\ NoFault' /\ NoCrash' => Knows(t)'
  <2>1. u = t /\ pc[t] = "create" /\ pc'[t] = "seed"
    BY <1>1, <1>6 DEF CreateTable
  <2>2. faults' = faults => created'
    BY <1>2, <1>6 DEF CreateTable, Fault
  <2>3. Stored' = Stored /\ HasRow' = HasRow /\ UNCHANGED <<ghosts, target>>
    BY <1>6 DEF CreateTable, Stored, HasRow
  <2> QED
    BY <1>1, <1>2, <2>1, <2>2, <2>3 DEF ghosts, Lowest, Resumes, Knows
<1>7. ASSUME NEW u \in Threads, SeedVersion(u)
      PROVE  /\ Lowest(t)'
             /\ NoFault' => Resumes(t)'
             /\ NoFault' /\ NoCrash' => Knows(t)'
  <2>1. u = t /\ pc[t] = "seed" /\ pc'[t] = "read" /\ UNCHANGED <<ghosts, target>>
    BY <1>1, <1>7 DEF SeedVersion
  <2>2. /\ Stored' = Stored
        /\ HasRow => HasRow'
        /\ created /\ faults' = faults => HasRow'
    BY <1>1, <1>7, SeedRow
  <2> QED
    BY <1>1, <1>2, <2>1, <2>2 DEF ghosts, Lowest, Resumes, Knows
<1>8. ASSUME NEW u \in Threads, ReadVersion(u)
      PROVE  /\ Lowest(t)'
             /\ NoFault' => Resumes(t)'
             /\ NoFault' /\ NoCrash' => Knows(t)'
  <2>1. u = t /\ pc[t] = "read" /\ pc'[t] = "loop" /\ UNCHANGED <<ghosts, target, db>>
    BY <1>1, <1>8 DEF ReadVersion
  <2>2. faults' = faults => cur'[t] = Stored
    BY <1>1, <1>2, <1>3, <1>8, <2>1 DEF ReadVersion, Fault
  <2>3. Stored' = Stored /\ HasRow' = HasRow
    BY <2>1 DEF db, Stored, HasRow
  <2> QED
    BY <1>1, <1>2, <1>3, <2>1, <2>2, <2>3 DEF ghosts, Lowest, Resumes, Knows
<1>9. ASSUME NEW u \in Threads, NextVersion(u)
      PROVE  /\ Lowest(t)'
             /\ NoFault' => Resumes(t)'
             /\ NoFault' /\ NoCrash' => Knows(t)'
  <2>1. u = t /\ pc[t] = "loop" /\ cur[t] < target[t]
        /\ UNCHANGED <<ghosts, target, db, callback>>
    BY <1>1, <1>9 DEF NextVersion
  <2>2. \/ pc'[t] = "call" /\ cur'[t] = cur[t] /\ callback # "null"
        \/ pc'[t] = "loop" /\ cur'[t] = cur[t] + 1
    BY <1>1, <1>9, <2>1 DEF NextVersion
  <2>3. Stored' = Stored /\ HasRow' = HasRow
    BY <2>1 DEF db, Stored, HasRow
  <2> QED
    BY <1>1, <1>2, <1>3, <2>1, <2>2, <2>3 DEF ghosts, Lowest, Resumes, Knows, TypeOK
<1>10. ASSUME NEW u \in Threads, CallCallback(u)
      PROVE  /\ Lowest(t)'
             /\ NoFault' => Resumes(t)'
             /\ NoFault' /\ NoCrash' => Knows(t)'
  <2>1. u = t /\ pc[t] = "call" /\ pc'[t] = "loop" /\ cur'[t] = cur[t] + 1
        /\ UNCHANGED <<target, db, recorded>>
    BY <1>1, <1>10 DEF CallCallback
  <2>2. cur[t] < target[t]
    BY <1>1, <2>1 DEF TrailsInv
  <2>3. level <= cur[t] => level' = cur[t] + 1 /\ repeated' = repeated
    BY <1>10, <2>1 DEF CallCallback
  <2>4. Stored' = Stored /\ HasRow' = HasRow
    BY <2>1 DEF db, Stored, HasRow
  <2>5. Lowest(t)' /\ (NoFault' => Resumes(t)')
    BY <1>1, <1>2, <1>3, <2>1, <2>4 DEF Lowest, Resumes
  <2>6. ASSUME NoFault', NoCrash' PROVE Knows(t)'
    <3>1. Knows(t)
      BY <1>1, <1>2, <2>6
    <3>2. level <= cur[t] /\ repeated = {} /\ HasRow
      BY <2>1, <3>1 DEF Knows
    <3> QED
      BY <1>3, <2>1, <2>2, <2>3, <2>4, <3>2 DEF Knows
  <2> QED
    BY <2>5, <2>6
<1>11. ASSUME NEW u \in Threads, CallNull(u)
      PROVE  /\ Lowest(t)'
             /\ NoFault' => Resumes(t)'
             /\ NoFault' /\ NoCrash' => Knows(t)'
  <2>1. u = t /\ pc[t] = "call" /\ callback = "null" /\ pc'[t] = "idle"
        /\ UNCHANGED <<target, db, ghosts>>
    BY <1>1, <1>11 DEF CallNull, ProcessDies
  <2>2. Stored' = Stored /\ HasRow' = HasRow
    BY <2>1 DEF db, Stored, HasRow
  <2> QED
    BY <1>1, <1>2, <2>1, <2>2 DEF ghosts, Lowest, Resumes, Knows
<1>12. ASSUME NEW u \in Threads, WriteVersion(u)
      PROVE  /\ Lowest(t)'
             /\ NoFault' => Resumes(t)'
             /\ NoFault' /\ NoCrash' => Knows(t)'
  <2>1. u = t /\ pc[t] = "loop" /\ pc'[t] = "idle" /\ cur[t] >= target[t]
        /\ UNCHANGED <<target, level, repeated>>
    BY <1>1, <1>12 DEF WriteVersion
  <2>2. /\ HasRow' = HasRow
        /\ \/ Stored' = Stored /\ UNCHANGED recorded /\ faults' # faults
           \/ /\ Stored' = IF HasRow THEN target[t] ELSE 0
              /\ recorded' = IF HasRow THEN target[t] ELSE recorded
    BY <1>1, <1>2, <1>12, <2>1, WriteRow DEF Stored, HasRow, Fault
  <2> QED
    BY <1>1, <1>2, <1>3, <2>1, <2>2 DEF Lowest, Resumes, Knows
<1>13. CASE Crash
  <2>1. pc'[t] = "idle" /\ UNCHANGED <<target, db, ghosts>> /\ ~NoCrash'
    BY <1>2, <1>13 DEF Crash, ProcessDies, NoCrash
  <2>2. Stored' = Stored /\ HasRow' = HasRow
    BY <2>1 DEF db, Stored, HasRow
  <2> QED
    BY <1>1, <1>2, <2>1, <2>2 DEF ghosts, Lowest, Resumes
<1> QED
  BY <1>4, <1>5, <1>6, <1>7, <1>8, <1>9, <1>10, <1>11, <1>12, <1>13
  DEF Next, Upgrade, Application

(* Together: every step keeps OrderInv. *)
LEMMA OrderStep ==
  ASSUME Disciplined, IsFiniteSet(Threads), OrderInv, [Next]_vars
  PROVE  OrderInv'
<1>1. TrailsInv'
  BY TrailsStep DEF OrderInv
<1>2. /\ app' = app
      /\ faults' <= MaxFaults /\ crashes' <= app'.crashes
      /\ \A t \in Threads : ~Idle(t)' => t \in app'.threads
  BY BoundsStep
<1>3. ASSUME Orderly'
      PROVE  \A t \in app'.threads : /\ Lowest(t)'
                                     /\ NoFault' => Resumes(t)'
                                     /\ NoFault' /\ NoCrash' => Knows(t)'
  <2>1. Orderly /\ app \in Apps
    BY <1>2, <1>3 DEF Orderly, OrderInv, TrailsInv, TypeOK
  <2>2. PICK t \in Threads : app.threads = {t}
    BY <2>1, OneThread
  <2> QED
    BY <1>2, <2>1, <2>2, OrderlyStep
<1> QED
  BY <1>1, <1>2, <1>3 DEF OrderInv

(* What an orderly application may rely on, for finitely many threads:     *)
(* it asks for nothing below the stored version, and until a statement     *)
(* fails or the process dies, its upgrades start where the last one ended. *)
THEOREM OrderInvariant ==
  ASSUME Disciplined, IsFiniteSet(Threads)
  PROVE  Spec => []OrderInv
<1>1. OrderInv /\ [Next]_vars => OrderInv'
  BY OrderStep
<1> QED
  BY OrderInit, <1>1, PTL DEF Spec

(* When one thread upgrades and never asks for less, a callback runs again *)
(* for a version the schema has only after a crash or a failed statement.  *)
THEOREM RepeatsOnlyAfterTrouble ==
  ASSUME Disciplined, IsFiniteSet(Threads)
  PROVE  Spec => []RepeatsNeedTrouble
<1>1. OrderInv => RepeatsNeedTrouble
  <2> SUFFICES ASSUME OrderInv, Orderly, repeated # {}
               PROVE  crashes < app.crashes \/ faults < MaxFaults
    BY DEF RepeatsNeedTrouble
  <2>1. app \in Apps /\ faults \in Nat /\ crashes \in Nat /\ app.crashes \in Nat
    BY DEF OrderInv, TrailsInv, TypeOK
  <2>2. PICK t \in Threads : app.threads = {t}
    BY <2>1, OneThread
  <2>3. ~(NoFault /\ NoCrash)
    BY <2>2 DEF OrderInv, Knows
  <2> QED
    BY <2>1, <2>3 DEF OrderInv, NoFault, NoCrash
<1> QED
  BY OrderInvariant, <1>1, PTL

(* When one thread upgrades and never asks for less, no step lowers the    *)
(* stored version, whatever fails and wherever the process dies.           *)
THEOREM StoredVersionGrows ==
  ASSUME Disciplined, IsFiniteSet(Threads)
  PROVE  Spec => VersionNeverLowered
<1>1. OrderInv /\ [Next]_vars =>
        [Orderly => \A i \in DOMAIN versions :
                      i \in DOMAIN versions' /\ versions'[i] >= versions[i]]_vars
  <2> SUFFICES ASSUME OrderInv, [Next]_vars, Orderly, NEW i \in DOMAIN versions
               PROVE  i \in DOMAIN versions' /\ versions'[i] >= versions[i]
    OBVIOUS
  <2>1. TrailsInv /\ app \in Apps
    BY DEF OrderInv, TrailsInv, TypeOK
  <2>2. PICK t \in Threads : app.threads = {t}
    BY <2>1, OneThread
  <2>3. HasRow /\ i = 1 /\ versions[1] = Stored /\ Stored \in Nat
    <3>1. versions # <<>>
      OBVIOUS
    <3> QED
      BY <2>1, <3>1, RowForm, StoredIs DEF HasRow, Stored
  <2>4. CASE UNCHANGED versions
    BY <2>3, <2>4 DEF Signed
  <2>5. ASSUME NEW u \in Threads, SeedVersion(u)
        PROVE  i \in DOMAIN versions' /\ versions'[i] >= versions[i]
    <3>1. versions[1] > -1 /\ 1 \in DOMAIN versions
      BY <2>3
    <3>2. UNCHANGED versions
      BY <2>5, <3>1 DEF SeedVersion
    <3> QED
      BY <2>4, <3>2
  <2>6. ASSUME NEW u \in Threads, WriteVersion(u), ~UNCHANGED versions
        PROVE  i \in DOMAIN versions' /\ versions'[i] >= versions[i]
    <3>1. u = t /\ Stored <= target[t] /\ target[t] \in Targets
      BY <2>1, <2>2, <2>6 DEF WriteVersion, OrderInv, TrailsInv, Idle, Lowest
    <3>2. ToInt(target[t]) = target[t]
      BY <3>1 DEF ToInt, Disciplined
    <3>3. versions' = [j \in DOMAIN versions |-> target[t]]
      BY <2>6, <3>1, <3>2 DEF WriteVersion
    <3> QED
      BY <2>3, <3>1, <3>3
  <2> QED
    BY <2>4, <2>5, <2>6 DEF Next, Upgrade, Application, Crash, Finished, vars, db,
       Start, CreateTable, ReadVersion, NextVersion, CallCallback, CallNull,
       ProcessDies
<1> QED
  BY OrderInvariant, <1>1, PTL DEF Spec, VersionNeverLowered

(* When one thread upgrades and never asks for less, and no statement      *)
(* failed, no callback runs in an upgrade to the version written last.     *)
THEOREM SameVersionNoCalls ==
  ASSUME Disciplined, IsFiniteSet(Threads)
  PROVE  Spec => NoCallsOnSameVersion
<1>1. OrderInv => \A t \in Threads : Orderly /\ pc[t] = "call" =>
                    target[t] # recorded \/ faults < MaxFaults
  <2> SUFFICES ASSUME OrderInv, Orderly, NEW t \in Threads, pc[t] = "call",
                      target[t] = recorded
               PROVE  faults < MaxFaults
    OBVIOUS
  <2>1. /\ t \in app.threads /\ cur[t] < target[t]
        /\ target[t] \in Nat /\ cur[t] \in Nat /\ faults \in Nat
    BY DEF OrderInv, TrailsInv, TypeOK, Idle, Unsigned
  <2>2. ~NoFault
    BY <2>1 DEF OrderInv, Resumes
  <2> QED
    BY <2>1, <2>2 DEF OrderInv, NoFault
<1>2. OrderInv /\ [Next]_vars =>
        [\A t \in Threads : Orderly /\ pc[t] = "call" /\ cur'[t] # cur[t]
                            => target[t] # recorded \/ faults < MaxFaults]_vars
  BY <1>1
<1> QED
  BY OrderInvariant, <1>2, PTL DEF Spec, NoCallsOnSameVersion
=============================================================================
