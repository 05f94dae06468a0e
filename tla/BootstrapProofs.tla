-------------------------- MODULE BootstrapProofs ---------------------------
(***************************************************************************)
(* Theorems about Bootstrap, for any number of sidecars and of starts, on  *)
(* every database a sidecar may have left.                                 *)
(***************************************************************************)
EXTENDS Bootstrap, TLAPS

\* No file of the base comes after BASE_BOOTSTRAP_MAX_VERSION.
AtFile(s) ==
    /\ phase[s] \in {"schema", "regclass"} => at[s] = 0
    /\ phase[s] = "base" => at[s] \in 0..3

Typed == TypeOK /\ \A s \in Sidecars : AtFile(s)

Wrote(s, objects, rows) ==
    /\ mine[s].objects = objects \ db.objects
    /\ mine[s].rows = rows \ db.rows

\* While the database is not current, what the transaction of s wrote is
\* exactly what the files before its own create and the database lacks.
Progress(s) ==
    /\ phase[s] \in {"down", "schema", "booted", "serving"} => Wrote(s, {}, {})
    /\ phase[s] = "down" => ~waiting[s]
    /\ (phase[s] = "schema" /\ waiting[s]) => 0 \notin db.objects
    /\ phase[s] = "regclass" => Wrote(s, {0}, {})
    /\ phase[s] = "base" =>
           /\ 3 \notin db.objects
           /\ Wrote(s, {o \in Object : o = 0 \/ o < at[s]}, {})
    /\ phase[s] = "select" => Wrote(s, 0..3, {Baseline})
    /\ phase[s] = "incremental" =>
           /\ at[s] \in 4..6
           /\ applied[s] = db.rows \union {Baseline}
           /\ Wrote(s, {o \in Object : o < at[s]}, {v \in Current.rows : v < at[s]})

BootInv ==
    /\ Typed
    /\ db \in Released
    /\ \A s \in Sidecars : mine[s].rows \subseteq Current.rows
    /\ db # Current => \A s \in Sidecars : Progress(s)
    /\ SchemaBeforeWork

USE BootstrapAssumption DEF Object, Incremental, BASE_BOOTSTRAP_MAX_VERSION, Baseline

-----------------------------------------------------------------------------

(* Every step keeps the types.                                              *)
LEMMA BootTypeStep ==
    ASSUME Typed, [Next]_vars
    PROVE  Typed'
<1> USE DEF Typed, AtFile, TypeOK, Database, Migrating, Nothing, Goto
<1>1. ASSUME NEW s \in Sidecars, fail(s) PROVE Typed'
  BY <1>1 DEF fail
<1>2. ASSUME NEW s \in Sidecars, connect(s) PROVE Typed'
  BY <1>2 DEF connect
<1>3. ASSUME NEW s \in Sidecars, wait(s) \/ to_regclass(s) \/ serve(s) PROVE Typed'
  <2>1. CASE wait(s) \/ serve(s)
    BY <2>1 DEF wait, serve
  <2>2. ASSUME NEW p \in {"select", "base"}, Goto(s, p), phase[s] = "regclass",
               UNCHANGED <<db, prerequisites, mine, at, waiting, applied, starts>>
        PROVE  Typed'
    BY <2>2
  <2> QED
    BY <1>3, <2>1, <2>2 DEF to_regclass
<1>4. ASSUME NEW s \in Sidecars, NEW o \in Object, NEW versions \in SUBSET Object,
             Create(s, o, versions)
      PROVE  mine' \in [Sidecars -> Database] /\ waiting' \in [Sidecars -> BOOLEAN]
  BY <1>4 DEF Create
<1>5. ASSUME NEW s \in Sidecars, create_schema(s) PROVE Typed'
  BY <1>1, <1>4, <1>5 DEF create_schema
<1>6. ASSUME NEW s \in Sidecars, run_base_file(s) PROVE Typed'
  <2>0. at[s] \in 0..3
    BY <1>6 DEF run_base_file
  <2>1. CASE fail(s)
    BY <1>1, <2>1
  <2>2. CASE at[s] = 0 /\ NextBaseFile(s) /\ UNCHANGED <<mine, waiting>>
    BY <2>2 DEF NextBaseFile
  <2>3. ASSUME at[s] > 0, NextBaseFile(s), NEW versions \in SUBSET Object,
               Create(s, at[s], versions)
        PROVE  Typed'
    <3>2. mine' \in [Sidecars -> Database] /\ waiting' \in [Sidecars -> BOOLEAN]
      BY <1>4, <2>3, <2>0
    <3>3. at' \in [Sidecars -> 0..6] /\ at'[s] = at[s] + 1
      BY <2>3, <2>0 DEF NextBaseFile
    <3>4. ASSUME NEW p \in {"select", "base"}, Goto(s, p), p = "base" => at[s] # 3
          PROVE  Typed'
      <4>1. TypeOK'
        BY <2>3, <3>2, <3>3, <3>4 DEF NextBaseFile
      <4>2. AtFile(s)'
        BY <2>0, <3>3, <3>4
      <4>3. ASSUME NEW u \in Sidecars \ {s} PROVE AtFile(u)'
        BY <2>3, <3>4 DEF NextBaseFile
      <4> QED
        BY <4>1, <4>2, <4>3
    <3> QED
      BY <2>3, <3>4 DEF NextBaseFile
  <2>4. {Baseline} \in SUBSET Object /\ {} \in SUBSET Object
    OBVIOUS
  <2> QED
    BY <1>6, <2>1, <2>2, <2>3, <2>4 DEF run_base_file
<1>7. ASSUME NEW s \in Sidecars, select_versions(s) PROVE Typed'
  BY <1>7 DEF select_versions
<1>8. ASSUME NEW s \in Sidecars, run_incremental(s) PROVE Typed'
  BY <1>1, <1>4, <1>8 DEF run_incremental
<1>9. ASSUME NEW s \in Sidecars, commit(s) PROVE Typed'
  BY <1>9 DEF commit
<1>10. CASE create_extensions
  BY <1>10 DEF create_extensions
<1>11. CASE UNCHANGED vars
  BY <1>11 DEF vars
<1>12. QED
  BY <1>1, <1>2, <1>3, <1>5, <1>6, <1>7, <1>8, <1>9, <1>10, <1>11 DEF Next, Step, stop

(* What a sidecar may find.                                                 *)
LEMMA ReleasedShape ==
    ASSUME db \in Released
    PROVE  /\ db.objects \subseteq Object /\ db.rows \subseteq Current.rows
           /\ 3 \notin db.objects => db.objects \subseteq {0} /\ db.rows = {}
           /\ 3 \in db.objects => 0..3 \subseteq db.objects /\ Baseline \in db.rows
           /\ \A i \in Incremental : i \in db.objects <=> i \in db.rows
BY DEF Released, Current

(* A database being brought up to date by s lacks nothing s will not write:
   the transaction that commits it makes it current.                       *)
LEMMA CommitsCurrent ==
    ASSUME BootInv, NEW s \in Sidecars, commit(s)
    PROVE  db' = Current
<1> USE DEF BootInv, Typed, TypeOK, Database
<1>1. db \in Released /\ mine[s].rows \subseteq Current.rows
  OBVIOUS
<1>2. CASE db = Current
  BY <1>1, <1>2 DEF commit, Current
<1>3. CASE db # Current
  <2>1. /\ at[s] = 6
        /\ Wrote(s, {o \in Object : o < at[s]}, {v \in Current.rows : v < at[s]})
    <3>1. Progress(s) /\ phase[s] = "incremental" /\ at[s] \notin 4..5
      BY <1>3 DEF commit
    <3> QED
      BY <3>1 DEF Progress
  <2>2. db.objects \subseteq Object /\ db.rows \subseteq Current.rows
    BY <1>1 DEF Released, Current
  <2>3. db'.objects = Object /\ db'.rows = Current.rows
    BY <2>1, <2>2 DEF commit, Current, Wrote
  <2> QED
    BY <2>3 DEF commit, Current
<1> QED
  BY <1>2, <1>3

(* A step that leaves the database as it is, and another's variables, leaves
   the other's progress.                                                   *)
LEMMA OthersProgress ==
    ASSUME NEW t \in Sidecars, Progress(t), UNCHANGED db,
           mine'[t] = mine[t], phase'[t] = phase[t], at'[t] = at[t],
           waiting'[t] = waiting[t], applied'[t] = applied[t]
    PROVE  Progress(t)'
BY DEF Progress, Wrote

(* What s does while the database is not current keeps its own progress.   *)
LEMMA OwnProgress ==
    ASSUME BootInv, db # Current, NEW s \in Sidecars, UNCHANGED db,
           connect(s) \/ Step(s) \/ stop(s)
    PROVE  Progress(s)'
<1> USE DEF BootInv, Typed, TypeOK, Database, Nothing, Goto, Migrating
<1>0. Progress(s) /\ AtFile(s) /\ phase[s] \notin {"booted", "serving"}
  BY DEF SchemaBeforeWork
<1>r. /\ db.objects \subseteq Object /\ db.rows \subseteq Current.rows
      /\ 3 \notin db.objects => db.objects \subseteq {0} /\ db.rows = {}
      /\ 3 \in db.objects => 0..3 \subseteq db.objects /\ Baseline \in db.rows
      /\ \A i \in Incremental : i \in db.objects <=> i \in db.rows
  BY ReleasedShape
<1>1. CASE fail(s)
  BY <1>1 DEF fail, Progress, Wrote
<1>w. Wrote(s, {}, {}) <=> mine[s] = Nothing
  BY DEF Wrote
<1>2. CASE connect(s)
  <2>1. /\ phase'[s] = "schema" /\ ~waiting'[s]
        /\ UNCHANGED mine /\ Wrote(s, {}, {})
    BY <1>0, <1>2 DEF connect, Progress
  <2> QED
    BY <2>1, <1>w DEF Progress, Wrote
<1>3. CASE wait(s)
  BY <1>0, <1>3 DEF wait, Progress, Wrote
<1>4. CASE create_schema(s)
  <2>1. Wrote(s, {}, {})
    BY <1>0, <1>4 DEF create_schema, Progress
  <2>2. CASE fail(s)
    BY <1>1, <2>2
  <2>3. CASE 0 \in db.objects /\ phase'[s] = "regclass" /\ UNCHANGED mine
    BY <2>1, <2>3 DEF Progress, Wrote
  <2>4. CASE 0 \notin db.objects /\ phase'[s] = "regclass" /\ Create(s, 0, {})
    BY <2>1, <2>4 DEF Progress, Wrote, Create
  <2> QED
    BY <1>4, <2>2, <2>3, <2>4 DEF create_schema
<1>5. CASE to_regclass(s)
  <2>1. Wrote(s, {0}, {}) /\ at[s] = 0 /\ UNCHANGED <<mine, at>>
    BY <1>0, <1>5 DEF to_regclass, Progress, AtFile
  <2>2. CASE 3 \in db.objects /\ phase'[s] = "select"
    BY <1>r, <2>1, <2>2 DEF Progress, Wrote
  <2>3. CASE 3 \notin db.objects /\ phase'[s] = "base"
    BY <2>1, <2>3 DEF Progress, Wrote
  <2> QED
    BY <1>5, <2>1, <2>2, <2>3 DEF to_regclass, Exists, Wrote
<1>6. CASE run_base_file(s)
  <2>1. /\ 3 \notin db.objects /\ at[s] \in 0..3
        /\ db.objects \subseteq {0} /\ db.rows = {}
        /\ Wrote(s, {o \in Object : o = 0 \/ o < at[s]}, {})
    BY <1>0, <1>r, <1>6 DEF run_base_file, Progress, AtFile
  <2>2. CASE fail(s)
    BY <1>1, <2>2
  <2>3. CASE at[s] = 0 /\ phase'[s] = "base" /\ at'[s] = 1 /\ UNCHANGED mine
    BY <2>1, <2>3 DEF Progress, Wrote
  <2>4. CASE at[s] \in {1, 2} /\ phase'[s] = "base" /\ at'[s] = at[s] + 1 /\ Create(s, at[s], {})
    <3>1. mine'[s].objects = mine[s].objects \union {at[s]} /\ mine'[s].rows = mine[s].rows
      BY <2>4 DEF Create
    <3>2. {o \in Object : o = 0 \/ o < at'[s]} = {o \in Object : o = 0 \/ o < at[s]} \union {at[s]}
      BY <2>4
    <3> QED
      BY <2>1, <2>4, <3>1, <3>2 DEF Progress, Wrote
  <2>5. CASE at[s] = 3 /\ phase'[s] = "select" /\ Create(s, at[s], {Baseline})
    <3>1. mine'[s].objects = mine[s].objects \union {3} /\ mine'[s].rows = mine[s].rows \union {Baseline}
      BY <2>5 DEF Create
    <3>2. 0..3 = {o \in Object : o = 0 \/ o < 3} \union {3}
      OBVIOUS
    <3> QED
      BY <2>1, <2>5, <3>1, <3>2 DEF Progress, Wrote
  <2> QED
    BY <1>6, <2>1, <2>2, <2>3, <2>4, <2>5 DEF run_base_file, NextBaseFile
<1>7. CASE select_versions(s)
  <2>1. Wrote(s, 0..3, {Baseline}) /\ UNCHANGED mine
    BY <1>0, <1>7 DEF select_versions, Progress
  <2>2. /\ phase'[s] = "incremental" /\ at'[s] = 4
        /\ applied'[s] = db.rows \union {Baseline}
    BY <1>7, <2>1 DEF select_versions, Wrote
  <2>3. /\ {o \in Object : o < 4} = 0..3
        /\ {v \in Current.rows : v < 4} = {Baseline}
    BY DEF Current
  <2> QED
    BY <2>1, <2>2, <2>3 DEF Progress, Wrote
<1>8. CASE run_incremental(s)
  <2>1. /\ at[s] \in {4, 5} /\ applied[s] = db.rows \union {Baseline}
        /\ Wrote(s, {o \in Object : o < at[s]}, {v \in Current.rows : v < at[s]})
        /\ phase[s] = "incremental"
    BY <1>0, <1>8 DEF run_incremental, Progress
  <2>2. CASE fail(s)
    BY <1>1, <2>2
  <2>3. ASSUME at'[s] = at[s] + 1, UNCHANGED <<phase, applied>>
        PROVE  /\ {o \in Object : o < at'[s]} = {o \in Object : o < at[s]} \union {at[s]}
               /\ {v \in Current.rows : v < at'[s]} = {v \in Current.rows : v < at[s]} \union {at[s]}
    BY <2>1, <2>3 DEF Current
  <2>4. CASE at[s] \in db.rows /\ at'[s] = at[s] + 1 /\ UNCHANGED <<mine, phase, applied>>
    BY <1>r, <2>1, <2>3, <2>4 DEF Progress, Wrote
  <2>5. CASE at[s] \notin db.rows /\ at'[s] = at[s] + 1 /\ UNCHANGED <<phase, applied>> /\ Create(s, at[s], {at[s]})
    <3>1. /\ mine'[s].objects = mine[s].objects \union {at[s]}
          /\ mine'[s].rows = mine[s].rows \union {at[s]}
      BY <2>5 DEF Create
    <3>2. at[s] \notin db.objects
      BY <1>r, <2>1, <2>5
    <3> QED
      BY <2>1, <2>3, <2>5, <3>1, <3>2 DEF Progress, Wrote
  <2> QED
    BY <1>8, <2>1, <2>2, <2>4, <2>5 DEF run_incremental
<1>9. CASE commit(s)
  BY <1>9, CommitsCurrent
<1> QED
  BY <1>0, <1>1, <1>2, <1>3, <1>4, <1>5, <1>6, <1>7, <1>8, <1>9 DEF Step, stop, serve

(* Who sets out from a database that is not current ends in an error only
   if the extensions are missing.                                          *)
LEMMA FailsForExtensions ==
    ASSUME BootInv, db # Current, NEW s \in Sidecars, Step(s), phase'[s] = "down"
    PROVE  ~prerequisites
<1> USE DEF BootInv, Typed, TypeOK, Goto, Migrating
<1>0. Progress(s) /\ AtFile(s)
  OBVIOUS
<1>r. /\ 3 \notin db.objects => db.objects \subseteq {0}
      /\ \A i \in Incremental : i \in db.objects <=> i \in db.rows
  BY ReleasedShape
<1>4. CASE create_schema(s)
  BY <1>0, <1>4 DEF create_schema, Progress
<1>6. CASE run_base_file(s)
  <2>1. /\ 3 \notin db.objects /\ at[s] \in 0..3
        /\ Wrote(s, {o \in Object : o = 0 \/ o < at[s]}, {})
    BY <1>0, <1>6 DEF run_base_file, Progress, AtFile
  <2>2. at[s] > 0 => ~Exists(s, at[s])
    BY <1>r, <2>1 DEF Exists, Wrote
  <2>3. NextBaseFile(s) => phase'[s] # "down"
    BY DEF NextBaseFile
  <2> QED
    BY <1>6, <2>2, <2>3 DEF run_base_file
<1>8. CASE run_incremental(s)
  <2>1. /\ at[s] \in {4, 5} /\ applied[s] = db.rows \union {Baseline}
        /\ Wrote(s, {o \in Object : o < at[s]}, {v \in Current.rows : v < at[s]})
        /\ phase[s] = "incremental"
    BY <1>0, <1>8 DEF run_incremental, Progress
  <2>2. at[s] \notin applied[s] => ~Exists(s, at[s])
    BY <1>r, <2>1 DEF Exists, Wrote
  <2> QED
    BY <1>8, <2>1, <2>2 DEF run_incremental
<1> QED
  BY <1>4, <1>6, <1>8 DEF Step, wait, to_regclass, select_versions, commit, serve

(* Every step keeps the inductive invariant.                               *)
LEMMA BootStep ==
    ASSUME BootInv, [Next]_vars
    PROVE  BootInv' /\ (UNCHANGED db \/ (db # Current /\ db' = Current))
<1> USE DEF BootInv
<1>1. Typed'
  BY BootTypeStep
<1>2. UNCHANGED db \/ \E s \in Sidecars : commit(s)
  BY DEF Next, Step, connect, wait, create_schema, to_regclass, run_base_file, NextBaseFile,
         select_versions, run_incremental, serve, stop, fail, create_extensions, vars
<1>3. UNCHANGED db \/ (db # Current /\ db' = Current)
  <2>1. UNCHANGED db \/ db' = Current
    BY <1>2, CommitsCurrent
  <2>2. (db = Current /\ db' = Current) => UNCHANGED db
    OBVIOUS
  <2> QED
    BY <2>1, <2>2
<1>4. db' \in Released
  BY <1>3 DEF Released, Current
<1>5. ASSUME NEW t \in Sidecars PROVE mine'[t].rows \subseteq Current.rows
  <2> USE DEF Typed, TypeOK, Database, Goto, Nothing
  <2>0. mine[t].rows \subseteq Current.rows
    OBVIOUS
  <2>1. ASSUME NEW s \in Sidecars, NEW o, NEW versions, Create(s, o, versions),
               versions \subseteq Current.rows
        PROVE  mine'[t].rows \subseteq Current.rows
    BY <2>0, <2>1 DEF Create
  <2>2. ASSUME NEW s \in Sidecars, fail(s) \/ commit(s) PROVE mine'[t].rows \subseteq Current.rows
    BY <2>0, <2>2 DEF fail, commit
  <2>3. {} \subseteq Current.rows /\ {Baseline} \subseteq Current.rows
        /\ \A i \in Incremental : {i} \subseteq Current.rows
    BY DEF Current
  <2>4. CASE UNCHANGED mine
    BY <2>0, <2>4
  <2>5. ASSUME NEW s \in Sidecars, connect(s) \/ Step(s) \/ stop(s)
        PROVE  mine'[t].rows \subseteq Current.rows
    <3>1. CASE create_schema(s) \/ run_base_file(s) \/ run_incremental(s)
      BY <2>1, <2>2, <2>3, <2>4, <3>1 DEF create_schema, run_base_file, run_incremental
    <3> QED
      BY <2>2, <2>4, <2>5, <3>1
         DEF Step, stop, connect, wait, to_regclass, select_versions, serve
  <2> QED
    BY <2>4, <2>5 DEF Next, create_extensions, vars
<1>6. ASSUME db' # Current PROVE \A t \in Sidecars : Progress(t)'
  <2>1. db # Current /\ UNCHANGED db /\ \A t \in Sidecars : Progress(t)
    BY <1>3, <1>6
  <2>2. ASSUME NEW s \in Sidecars, connect(s) \/ Step(s) \/ stop(s)
        PROVE  \A t \in Sidecars : Progress(t)'
    <3>1. Progress(s)'
      BY <2>1, <2>2, OwnProgress
    <3>2. ASSUME NEW t \in Sidecars \ {s} PROVE Progress(t)'
      <4>1. /\ mine'[t] = mine[t] /\ phase'[t] = phase[t] /\ at'[t] = at[t]
            /\ waiting'[t] = waiting[t] /\ applied'[t] = applied[t]
        BY <2>2, <3>2 DEF Typed, TypeOK, Step, stop, fail, connect, wait, create_schema, Create,
             to_regclass, run_base_file, NextBaseFile, select_versions, run_incremental, commit,
             serve, Goto
      <4> QED
        BY <2>1, <3>2, <4>1, OthersProgress
    <3> QED
      BY <3>1, <3>2
  <2>3. CASE UNCHANGED <<mine, phase, at, waiting, applied>>
    BY <2>1, <2>3, OthersProgress
  <2> QED
    BY <2>2, <2>3 DEF Next, create_extensions, vars
<1>7. SchemaBeforeWork'
  <2>1. CASE db = Current \/ db' = Current
    BY <1>3, <2>1 DEF SchemaBeforeWork
  <2>2. CASE db # Current /\ db' # Current
    <3>1. ASSUME NEW t \in Sidecars PROVE phase[t] \notin {"booted", "serving"}
      BY <2>2 DEF SchemaBeforeWork
    <3>2. ASSUME NEW s \in Sidecars PROVE ~commit(s)
      BY <2>2, CommitsCurrent
    <3>3. ASSUME NEW t \in Sidecars PROVE phase'[t] \notin {"booted", "serving"}
      <4> DEFINE Goal == phase'[t] \notin {"booted", "serving"}
      <4> USE DEF Goto
      <4>1. ASSUME NEW s \in Sidecars, NEW p \in Migrating \union {"down"}, Goto(s, p) PROVE Goal
        BY <3>1, <4>1 DEF Typed, TypeOK, Migrating
      <4>2. ASSUME NEW s \in Sidecars, fail(s) \/ connect(s) \/ to_regclass(s) \/ select_versions(s) PROVE Goal
        BY <4>1, <4>2 DEF fail, connect, to_regclass, select_versions, Migrating
      <4>3. ASSUME NEW s \in Sidecars, create_schema(s) \/ run_base_file(s) PROVE Goal
        BY <4>1, <4>2, <4>3 DEF create_schema, run_base_file, NextBaseFile, Migrating
      <4>4. ASSUME NEW s \in Sidecars, run_incremental(s) PROVE Goal
        BY <3>1, <4>2, <4>4 DEF run_incremental
      <4>5. ASSUME NEW s \in Sidecars, wait(s) PROVE Goal
        BY <3>1, <4>5 DEF wait
      <4>6. ASSUME NEW s \in Sidecars PROVE ~serve(s)
        BY <3>1 DEF serve
      <4>7. CASE create_extensions \/ UNCHANGED vars
        BY <3>1, <4>7 DEF create_extensions, vars
      <4> QED
        BY <3>2, <4>2, <4>3, <4>4, <4>5, <4>6, <4>7 DEF Next, Step, stop
    <3> QED
      BY <3>3 DEF SchemaBeforeWork
  <2> QED
    BY <2>1, <2>2
<1> QED
  BY <1>1, <1>3, <1>4, <1>5, <1>6, <1>7

-----------------------------------------------------------------------------

(* The inductive invariant, on every database a sidecar may have left.     *)
LEMMA BootInvariant ==
    ASSUME Databases \subseteq Released
    PROVE  Spec => []BootInv
<1>1. Init => BootInv
  <2> SUFFICES ASSUME Init PROVE BootInv
    OBVIOUS
  <2> USE DEF Init, Nothing, Database
  <2>1. Typed
    BY DEF Typed, AtFile, TypeOK, Migrating
  <2>2. db \in Released
    OBVIOUS
  <2>3. \A s \in Sidecars : mine[s].rows \subseteq Current.rows /\ Progress(s)
    BY DEF Progress, Wrote
  <2>4. SchemaBeforeWork
    BY DEF SchemaBeforeWork
  <2> QED
    BY <2>1, <2>2, <2>3, <2>4 DEF BootInv
<1>2. BootInv /\ [Next]_vars => BootInv'
  BY BootStep
<1> QED
  BY <1>1, <1>2, PTL DEF Spec

(* Every variable has its type: no run of main leaves the phases of
   run_migrations, or writes an object no file names.                      *)
THEOREM BootTypeCorrect == Spec => []TypeOK
<1>1. Init => Typed
  BY DEF Init, Nothing, Database, Typed, AtFile, TypeOK, Migrating
<1>2. Typed /\ [Next]_vars => Typed'
  BY BootTypeStep
<1>3. Typed => TypeOK
  BY DEF Typed
<1> QED
  BY <1>1, <1>2, <1>3, PTL DEF Spec

(* main.rs bootstraps the schema before any worker claims a job: whatever
   the others do meanwhile, a sidecar that works finds it current.         *)
THEOREM WorkOnCurrentSchema ==
    ASSUME Databases \subseteq Released
    PROVE  Spec => []SchemaBeforeWork
<1>1. BootInv => SchemaBeforeWork
  BY DEF BootInv
<1> QED
  BY <1>1, BootInvariant, PTL

(* The transaction of run_migrations: the database is brought up to date
   in one step, by one sidecar, and is never touched again.                *)
THEOREM UpgradedOnce ==
    ASSUME Databases \subseteq Released
    PROVE  Spec => OneUpgrade
<1>1. BootInv /\ [Next]_vars => [db # Current /\ db' = Current]_db
  BY BootStep
<1> QED
  BY <1>1, BootInvariant, PTL DEF Spec, OneUpgrade

(* run_migrations fails only because another one succeeded or because the
   extensions are missing: of any sidecars that start together one wins.   *)
THEOREM OneWins ==
    ASSUME Databases \subseteq Released
    PROVE  Spec => LosesOnlyToAWinner
<1>1. BootInv /\ [Next]_vars =>
          [ \A s \in Sidecars :
              (Step(s) /\ phase'[s] = "down") => db = Current \/ ~prerequisites ]_vars
  BY FailsForExtensions
<1> QED
  BY <1>1, BootInvariant, PTL DEF Spec, LosesOnlyToAWinner
=============================================================================
