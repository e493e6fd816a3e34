-------------------------- MODULE MigrationProofs --------------------------
(***************************************************************************)
(* What Migration promises, for any number of runs, tables, versions,      *)
(* seconds and starts.                                                     *)
(***************************************************************************)
EXTENDS Migration, TLAPS

(***************************************************************************)
(* The invariant. Runs that are under way together are all crossed, so a   *)
(* run that is not has the machine for itself; then each statement leaves  *)
(* what the next one needs.                                                *)
(***************************************************************************)
CrossingsKnown ==
    /\ crossed \subseteq Active
    /\ mixed \subseteq crossed
    /\ \A r, o \in Active : r # o => r \in crossed

Snapshot(r) ==
    /\ pc[r] \notin {"off", "select"} => view[r] \in Version
    /\ pc[r] = "off" => view[r] = 0
    /\ view[r] = 0 => idx[r] = 1

SnapshotFixed == \A r \in Run : Snapshot(r)

InStep(r) ==
    /\ pc[r] = "upload" => file[idx[r]] = view[r]
    /\ pc[r] \in {"truncate", "copy"} => bucket[<<idx[r], key[r]>>] = view[r]
    /\ pc[r] = "copy" => table[idx[r]] = <<>>
    /\ pc[r] = "count" => table[idx[r]] = <<view[r]>>
    /\ \A t \in TABLES : t < idx[r] => table[t] = <<view[r]>>

Inv == TypeOK /\ CrossingsKnown /\ SnapshotFixed /\ \A r \in Active \ crossed : InStep(r)

-----------------------------------------------------------------------------

\* What the end of a run leaves of the types.
LEMMA EndTyped ==
    ASSUME TypeOK, NEW r \in Run, End(r)
    PROVE  /\ pc' \in [Run -> Stage] /\ idx' \in [Run -> TABLES]
           /\ view' \in [Run -> Version \union {0}] /\ key' \in [Run -> Second]
           /\ mixed' \subseteq Run /\ crossed' \subseteq Run
<1>1. "off" \in Stage /\ 1 \in TABLES /\ 1 \in Second
  BY MigrationAssumption DEF Stage, TABLES, Second
<1>2. pc' \in [Run -> Stage] /\ idx' \in [Run -> TABLES]
  BY <1>1 DEF TypeOK, End, Go
<1>3. view' \in [Run -> Version \union {0}] /\ key' \in [Run -> Second]
  BY <1>1 DEF TypeOK, End
<1>4. mixed' \subseteq Run /\ crossed' \subseteq Run
  BY DEF TypeOK, End
<1> QED
  BY <1>2, <1>3, <1>4

\* Type correctness is kept by every step.
LEMMA TypeKept ==
    ASSUME TypeOK, SnapshotFixed, [Next]_vars
    PROVE  TypeOK'
<1>1. CASE UNCHANGED vars
  BY <1>1 DEF TypeOK, vars, stores, locals
<1>2. CASE Write
  BY <1>2, MigrationAssumption DEF TypeOK, Write, stores, locals, Version
<1>3. CASE Tick
  BY <1>3, MigrationAssumption DEF TypeOK, Tick, stores, locals, Second
<1>4. ASSUME NEW r \in Run, Migrate(r)
      PROVE  TypeOK'
  <2>1. CASE Start(r)
    <3>1. starts' \in 0 .. MaxStarts
      BY <2>1, MigrationAssumption DEF TypeOK, Start
    <3>2. pc' \in [Run -> Stage]
      BY <2>1 DEF TypeOK, Start, Go, Stage
    <3>3. crossed' \subseteq Run
      BY <2>1 DEF TypeOK, Start, Active
    <3> QED
      BY <2>1, <3>1, <3>2, <3>3 DEF TypeOK, Start, stores, locals
  <2>2. CASE Select(r)
    BY <2>2 DEF TypeOK, Select, Go, stores, locals, Stage
  <2>3. CASE Open(r)
    BY <2>3 DEF TypeOK, Open, Go, locals, Stage, Content
  <2>4. CASE Close(r)
    <3>1. PICK c \in {view[r]} \union (IF r \in mixed THEN {Torn} ELSE {}) :
            file' = [file EXCEPT ![idx[r]] = c]
      BY <2>4 DEF Close
    <3>2. c \in Content
      BY <2>4, <3>1 DEF Close, SnapshotFixed, Snapshot, Content
    <3> QED
      BY <2>4, <3>1, <3>2 DEF TypeOK, Close, Go, locals, Stage
  <2>5. CASE Upload(r)
    BY <2>5 DEF TypeOK, Upload, Go, Stage
  <2>6. CASE Truncate(r)
    BY <2>6 DEF TypeOK, Truncate, Go, locals, Stage
  <2>7. CASE Copy(r)
    BY <2>7 DEF TypeOK, Copy, Go, locals, Stage
  <2>8. CASE Count(r)
    <3>1. CASE idx[r] < TableCount
      <4>1. idx[r] + 1 \in TABLES
        BY <3>1, MigrationAssumption DEF TypeOK, TABLES
      <4> QED
        BY <2>8, <3>1, <4>1 DEF TypeOK, Count, Go, stores, Stage
    <3>2. CASE ~(idx[r] < TableCount)
      BY <2>8, <3>2, EndTyped DEF TypeOK, Count, stores
    <3> QED
      BY <3>1, <3>2
  <2>9. CASE Fail(r)
    BY <2>9, EndTyped DEF TypeOK, Fail, stores
  <2> QED
    BY <1>4, <2>1, <2>2, <2>3, <2>4, <2>5, <2>6, <2>7, <2>8, <2>9 DEF Migrate
<1> QED
  BY <1>1, <1>2, <1>3, <1>4 DEF Next

\* So is the order of SELECT and what depends on it.
LEMMA SnapshotKept ==
    ASSUME TypeOK, SnapshotFixed, [Next]_vars
    PROVE  SnapshotFixed'
<1> USE DEF SnapshotFixed, Snapshot
<1>1. CASE UNCHANGED vars \/ Write \/ Tick
  <2>1. UNCHANGED <<pc, idx, view>>
    BY <1>1 DEF vars, locals, Write, Tick
  <2> QED
    BY <2>1
<1>2. ASSUME NEW r \in Run, Migrate(r), NEW o \in Run
      PROVE  Snapshot(o)'
  <2> USE DEF TypeOK
  <2>1. CASE o # r
    <3>1. pc'[o] = pc[o] /\ view'[o] = view[o] /\ idx'[o] = idx[o]
      BY <1>2, <2>1 DEF Migrate, Start, Select, Open, Close, Upload, Truncate, Copy,
         Count, Fail, End, Go, locals
    <3> QED
      BY <3>1
  <2>2. CASE o = r /\ (Start(r) \/ Select(r))
    BY <2>2, MigrationAssumption DEF Start, Select, Go, locals, Version
  <2>3. CASE o = r /\ (Open(r) \/ Close(r) \/ Upload(r) \/ Truncate(r) \/ Copy(r))
    BY <2>3 DEF Open, Close, Upload, Truncate, Copy, Go, locals
  <2>4. CASE o = r /\ (Count(r) \/ Fail(r))
    <3>1. CASE End(r)
      BY <2>4, <3>1 DEF End, Go
    <3>2. CASE ~End(r)
      <4>1. pc[r] = "count" /\ pc'[r] = "select" /\ UNCHANGED view
        BY <2>4, <3>2 DEF Count, Fail, Go
      <4>2. view[r] # 0
        <5>1. view[r] \in Version
          BY <4>1
        <5> QED
          BY <5>1, MigrationAssumption DEF Version
      <4> QED
        BY <2>4, <4>1, <4>2
    <3> QED
      BY <3>1, <3>2
  <2> QED
    BY <1>2, <2>1, <2>2, <2>3, <2>4 DEF Migrate
<1> QED
  BY <1>1, <1>2 DEF Next

\* A step of the script that is not a start is one of a run under way, which
\* ends or stays in the same company.
LEMMA Company ==
    ASSUME TypeOK, CrossingsKnown, NEW r \in Run, Migrate(r), ~Start(r)
    PROVE  /\ r \in Active
           /\ \/ End(r)
              \/ /\ crossed' = crossed
                 /\ Active' = Active
                 /\ mixed' \subseteq crossed
<1> USE DEF TypeOK, CrossingsKnown, Active
<1>1. CASE Select(r)
  BY <1>1 DEF Select, Go
<1>2. CASE Open(r)
  <2>1. r \in Active /\ crossed' = crossed /\ Active' = Active
    BY <1>2 DEF Open, Go
  <2>2. mixed' \subseteq crossed
    <3>1. PICK writers \in SUBSET Run :
            /\ writers \subseteq Active \ {r}
            /\ mixed' = IF writers = {} THEN mixed ELSE mixed \union writers \union {r}
      <4> DEFINE W == {o \in Run : pc[o] = "write" /\ idx[o] = idx[r]}
      <4>1. mixed' = IF W = {} THEN mixed ELSE mixed \union W \union {r}
        BY <1>2 DEF Open
      <4>2. W \in SUBSET Run /\ W \subseteq Active \ {r}
        BY <1>2 DEF Open
      <4> QED
        BY <4>1, <4>2
    <3> QED
      BY <2>1, <3>1
  <2> QED
    BY <2>1, <2>2
<1>3. CASE Close(r)
  BY <1>3 DEF Close, Go
<1>4. CASE Upload(r)
  BY <1>4 DEF Upload, Go
<1>5. CASE Truncate(r)
  BY <1>5 DEF Truncate, Go
<1>6. CASE Copy(r)
  BY <1>6 DEF Copy, Go
<1>7. CASE Count(r)
  BY <1>7 DEF Count, Go
<1>8. CASE Fail(r)
  BY <1>8 DEF Fail
<1> QED
  BY <1>1, <1>2, <1>3, <1>4, <1>5, <1>6, <1>7, <1>8 DEF Migrate

\* Runs that are under way together stay known as crossed.
LEMMA CrossingsKept ==
    ASSUME TypeOK, CrossingsKnown, NEW r \in Run, Migrate(r)
    PROVE  CrossingsKnown'
<1> USE DEF TypeOK, CrossingsKnown
<1>1. CASE Start(r)
  <2>1. Active' = Active \union {r} /\ mixed' = mixed
    BY <1>1 DEF Start, Go, Active
  <2>2. crossed' = IF Active = {} THEN crossed ELSE crossed \union Active \union {r}
    BY <1>1 DEF Start
  <2> QED
    BY <2>1, <2>2
<1>2. CASE End(r)
  <2>1. Active' = Active \ {r}
    BY <1>2 DEF End, Go, Active
  <2> QED
    BY <1>2, <2>1 DEF End
<1> QED
  BY <1>1, <1>2, Company

\* A run that is alone finds what its last statement left and leaves what its
\* next one needs.
LEMMA StepKept ==
    ASSUME Inv, NEW r \in Run, Migrate(r), TypeOK', CrossingsKnown',
           NEW o \in (Active \ crossed)'
    PROVE  InStep(o)'
<1>1. CASE Start(r)
  <2>1. o = r
    <3>1. Active' = Active \union {r}
      BY <1>1 DEF Start, Go, Active, Inv, TypeOK
    <3>2. crossed' = IF Active = {} THEN crossed ELSE crossed \union Active \union {r}
      BY <1>1 DEF Start
    <3> QED
      BY <3>1, <3>2
  <2>2. pc'[r] = "select" /\ idx'[r] = 1
    BY <1>1 DEF Start, Go, locals, Inv, TypeOK, SnapshotFixed, Snapshot
  <2> QED
    BY <2>1, <2>2 DEF InStep, TABLES
<1>2. CASE ~Start(r)
  <2>1. r \in Active /\ ~End(r) /\ crossed' = crossed /\ Active' = Active
    <3>1. ASSUME End(r)
          PROVE  FALSE
      <4>1. Active' = Active \ {r} /\ crossed' = crossed \ {r}
        BY <3>1 DEF End, Go, Active, Inv, TypeOK
      <4>2. r \in Active
        BY <1>2, Company DEF Inv
      <4> QED
        BY <4>1, <4>2 DEF Inv, CrossingsKnown
    <3> QED
      BY <1>2, <3>1, Company DEF Inv
  <2>2. o = r /\ r \notin crossed /\ r \notin mixed
    BY <2>1 DEF Inv, CrossingsKnown
  <2>3. InStep(r) /\ TypeOK /\ SnapshotFixed
    BY <2>1, <2>2 DEF Inv
  <2> USE DEF InStep, TypeOK, Go, TABLES
  <2>4. CASE Select(r)
    BY <2>2, <2>3, <2>4 DEF Select, SnapshotFixed, Snapshot, stores
  <2>5. CASE Open(r)
    BY <2>2, <2>3, <2>5 DEF Open, locals
  <2>6. CASE Close(r)
    BY <2>2, <2>3, <2>6 DEF Close, locals
  <2>7. CASE Upload(r)
    BY <2>2, <2>3, <2>7 DEF Upload, Second
  <2>8. CASE Truncate(r)
    BY <2>2, <2>3, <2>8 DEF Truncate, locals
  <2>9. CASE Copy(r)
    <3>1. table'[idx[r]] = <<view[r]>>
      BY <2>3, <2>9 DEF Copy
    <3>2. \A t \in TABLES : t # idx[r] => table'[t] = table[t]
      BY <2>3, <2>9 DEF Copy
    <3> QED
      BY <2>2, <2>3, <2>9, <3>1, <3>2 DEF Copy, locals
  <2>10. CASE Count(r)
    BY <2>1, <2>2, <2>3, <2>10 DEF Count, stores
  <2>11. CASE Fail(r)
    BY <2>1, <2>11 DEF Fail
  <2> QED
    BY <1>2, <2>4, <2>5, <2>6, <2>7, <2>8, <2>9, <2>10, <2>11 DEF Migrate
<1> QED
  BY <1>1, <1>2

\* The invariant holds initially.
LEMMA InvInit == Init => Inv
BY MigrationAssumption DEF Init, Inv, TypeOK, TABLES, Version, Second, Content, Stage,
   CrossingsKnown, SnapshotFixed, Snapshot, InStep, Active

\* Every step keeps the invariant.
LEMMA InvNext == Inv /\ [Next]_vars => Inv'
<1> SUFFICES ASSUME Inv, [Next]_vars PROVE Inv'
  OBVIOUS
<1>1. TypeOK' /\ SnapshotFixed'
  BY TypeKept, SnapshotKept DEF Inv
<1>2. CASE UNCHANGED vars \/ Write \/ Tick
  <2>1. UNCHANGED <<stores, pc, locals, mixed, crossed>>
    BY <1>2 DEF vars, Write, Tick
  <2>2. CrossingsKnown' /\ (Active \ crossed)' = Active \ crossed
    BY <2>1 DEF Inv, CrossingsKnown, Active
  <2>3. ASSUME NEW r \in Active \ crossed
        PROVE  InStep(r)'
    BY <2>1, <2>3 DEF Inv, InStep, stores, locals
  <2> QED
    BY <1>1, <2>2, <2>3 DEF Inv
<1>3. ASSUME NEW r \in Run, Migrate(r)
      PROVE  Inv'
  <2>1. CrossingsKnown'
    BY <1>3, CrossingsKept DEF Inv
  <2> QED
    BY <1>1, <1>3, <2>1, StepKept DEF Inv
<1> QED
  BY <1>2, <1>3 DEF Next

THEOREM Invariance == Spec => []Inv
BY InvInit, InvNext, PTL DEF Spec

\* Every variable keeps its type.
THEOREM TypeCorrect == Spec => []TypeOK
<1>1. Inv => TypeOK
  BY DEF Inv
<1> QED
  BY <1>1, Invariance, PTL

\* A run that no other one overlapped overwrites the tables it is through
\* with, all with the same state of Aurora, whatever earlier runs left behind.
THEOREM LoneRunsOverwrite == Spec => []LoneRunOverwrites
<1>1. Inv => LoneRunOverwrites
  BY DEF Inv, InStep, LoneRunOverwrites, Done, Active
<1> QED
  BY <1>1, Invariance, PTL

\* While such a run has a table empty, a complete dump of it lies under the
\* name its COPY will read.
THEOREM EmptiedIsSafe == Spec => []EmptiedIsBackedUp
<1>1. Inv => EmptiedIsBackedUp
  BY DEF Inv, InStep, EmptiedIsBackedUp, Active
<1> QED
  BY <1>1, Invariance, PTL
=============================================================================
