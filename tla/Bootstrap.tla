----------------------------- MODULE Bootstrap ------------------------------
(***************************************************************************)
(* Start of a sidecar (pg_raggraph_sidecar/src/main.rs): it connects,      *)
(* brings the schema of the database up to date in one transaction         *)
(* (bootstrap.rs, run_migrations) and only then works.  Several sidecars   *)
(* start at once against one database; each may be stopped at any point    *)
(* and started again.                                                      *)
(*                                                                         *)
(* run_migrations takes no lock of its own.  What orders two of them is    *)
(* the catalog: to create what another open transaction has just created   *)
(* is to wait for it, and to fail if it commits.                           *)
(***************************************************************************)
EXTENDS Naturals

CONSTANTS
    Sidecars,       \* processes
    Databases,      \* states a database may be found in
    MaxStarts       \* bound: times a sidecar is started

\* Object 0 is the schema pgrg; object v is what file v of
\* EMBEDDED_MIGRATIONS creates: 1 the tables, 2 their indexes, 3 the table
\* pgrg.migrations, 4 a function, 5 a constraint.  File 0 creates nothing.
Object == 0..5
BASE_BOOTSTRAP_MAX_VERSION == 3
Incremental == (BASE_BOOTSTRAP_MAX_VERSION + 1)..5

\* Of the base only version 1 is ever recorded, by file 3 itself.
Baseline == 1

Database == [objects : SUBSET Object, rows : SUBSET Object]
Current  == [objects |-> Object, rows |-> {Baseline} \union Incremental]

\* An empty database; one where client.sql created the schema; those left by
\* a sidecar with no incremental migration, with the first, and with both.
Released ==
    {[objects |-> o, rows |-> {}] : o \in {{}, {0}}}
    \union {[objects |-> 0..v, rows |-> {Baseline} \union {i \in Incremental : i <= v}] : v \in 3..5}

\* The extension runs every file and records version 1 only.
Extension == {[objects |-> Object, rows |-> {Baseline}]}

ASSUME BootstrapAssumption ==
    /\ Databases \subseteq Database
    /\ MaxStarts \in Nat

VARIABLES
    db,             \* committed: what exists, versions in pgrg.migrations
    prerequisites,  \* the extensions vector and pg_trgm are installed
    mine,           \* per sidecar, what its open transaction wrote
    phase,          \* per sidecar, where main is
    at,             \* per sidecar, the file it is at
    waiting,        \* per sidecar, its statement waits for another's
    applied,        \* per sidecar, the versions it read
    starts          \* per sidecar, times it was started

vars == <<db, prerequisites, mine, phase, at, waiting, applied, starts>>

Nothing   == [objects |-> {}, rows |-> {}]
Migrating == {"schema", "regclass", "base", "select", "incremental"}

Init ==
    /\ db \in Databases
    /\ prerequisites \in BOOLEAN
    /\ mine = [s \in Sidecars |-> Nothing]
    /\ phase = [s \in Sidecars |-> "down"]
    /\ at = [s \in Sidecars |-> 0]
    /\ waiting = [s \in Sidecars |-> FALSE]
    /\ applied = [s \in Sidecars |-> {}]
    /\ starts = [s \in Sidecars |-> 0]

-----------------------------------------------------------------------------
(* Statements of the transaction                                             *)

Goto(s, p) == phase' = [phase EXCEPT ![s] = p]

\* What s would create: the schema, or what its file creates.
Target(s) == IF phase[s] = "schema" THEN 0 ELSE at[s]

Exists(s, o) == o \in db.objects \union mine[s].objects

Locked(s, o) == \E t \in Sidecars \ {s} : o \in mine[t].objects

\* An object another open transaction has created, or replaced.
wait(s) ==
    /\ \/ phase[s] = "schema" /\ 0 \notin db.objects
       \/ phase[s] = "base" /\ at[s] > 0
       \/ phase[s] = "incremental" /\ at[s] \notin applied[s] /\ at[s] \in Incremental
    /\ Locked(s, Target(s))
    /\ waiting' = [waiting EXCEPT ![s] = TRUE]
    /\ UNCHANGED <<db, prerequisites, mine, phase, at, applied, starts>>

Create(s, o, versions) ==
    /\ mine' = [mine EXCEPT ![s] = [objects |-> @.objects \union {o},
                                    rows    |-> @.rows \union versions]]
    /\ waiting' = [waiting EXCEPT ![s] = FALSE]

\* Mutation: an error leaves the transaction open.
fail_open(s) ==
    /\ waiting' = [waiting EXCEPT ![s] = FALSE]
    /\ Goto(s, "down")
    /\ UNCHANGED <<db, prerequisites, mine, at, applied, starts>>

\* An error: the transaction is rolled back and main returns it.
fail(s) ==
    /\ mine' = [mine EXCEPT ![s] = Nothing]
    /\ waiting' = [waiting EXCEPT ![s] = FALSE]
    /\ Goto(s, "down")
    /\ UNCHANGED <<db, prerequisites, at, applied, starts>>

connect(s) ==
    /\ phase[s] = "down"
    /\ starts[s] < MaxStarts
    /\ Goto(s, "schema")
    /\ at' = [at EXCEPT ![s] = 0]
    /\ starts' = [starts EXCEPT ![s] = @ + 1]
    /\ UNCHANGED <<db, prerequisites, mine, waiting, applied>>

\* CREATE SCHEMA IF NOT EXISTS.  The test comes before the wait: if another
\* transaction commits the schema meanwhile this is a unique violation.
create_schema(s) ==
    /\ phase[s] = "schema"
    /\ \/ /\ 0 \in db.objects /\ ~waiting[s]
          /\ Goto(s, "regclass")
          /\ UNCHANGED <<db, prerequisites, mine, at, waiting, applied, starts>>
       \/ /\ 0 \notin db.objects /\ ~Locked(s, 0)
          /\ Create(s, 0, {})
          /\ Goto(s, "regclass")
          /\ UNCHANGED <<db, prerequisites, at, applied, starts>>
       \/ /\ 0 \in db.objects /\ waiting[s]
          /\ fail(s)

\* Mutation: the base is run again whatever exists.
to_regclass_always(s) ==
    /\ phase[s] = "regclass"
    /\ Goto(s, "base")
    /\ UNCHANGED <<db, prerequisites, mine, at, waiting, applied, starts>>

\* needs_base: SELECT to_regclass('pgrg.migrations') IS NULL.
to_regclass(s) ==
    /\ phase[s] = "regclass"
    /\ Goto(s, IF Exists(s, BASE_BOOTSTRAP_MAX_VERSION) THEN "select" ELSE "base")
    /\ UNCHANGED <<db, prerequisites, mine, at, waiting, applied, starts>>

NextBaseFile(s) ==
    /\ Goto(s, IF at[s] = BASE_BOOTSTRAP_MAX_VERSION THEN "select" ELSE "base")
    /\ at' = [at EXCEPT ![s] = @ + 1]
    /\ UNCHANGED <<db, prerequisites, applied, starts>>

\* Files 0 to 3, none of which can be run twice.
run_base_file(s) ==
    /\ phase[s] = "base"
    /\ ~Locked(s, at[s]) \/ at[s] = 0
    /\ \/ /\ at[s] = 0 /\ prerequisites
          /\ NextBaseFile(s)
          /\ UNCHANGED <<mine, waiting>>
       \/ /\ at[s] = 0 /\ ~prerequisites
          /\ fail(s)
       \/ /\ at[s] > 0 /\ ~Exists(s, at[s])
          /\ Create(s, at[s], IF at[s] = BASE_BOOTSTRAP_MAX_VERSION THEN {Baseline} ELSE {})
          /\ NextBaseFile(s)
       \/ /\ at[s] > 0 /\ Exists(s, at[s])
          /\ fail(s)

select_versions(s) ==
    /\ phase[s] = "select"
    /\ applied' = [applied EXCEPT ![s] = db.rows \union mine[s].rows]
    /\ at' = [at EXCEPT ![s] = BASE_BOOTSTRAP_MAX_VERSION + 1]
    /\ Goto(s, "incremental")
    /\ UNCHANGED <<db, prerequisites, mine, waiting, starts>>

\* Mutation: version > BASE_BOOTSTRAP_MAX_VERSION + 1.
run_incremental_late(s) ==
    /\ phase[s] = "incremental"
    /\ at[s] \in Incremental
    /\ \/ /\ at[s] \in applied[s] \union {BASE_BOOTSTRAP_MAX_VERSION + 1}
          /\ UNCHANGED <<mine, waiting>>
       \/ /\ at[s] \notin applied[s] \union {BASE_BOOTSTRAP_MAX_VERSION + 1}
          /\ ~Locked(s, at[s])
          /\ Create(s, at[s], {at[s]})
    /\ at' = [at EXCEPT ![s] = @ + 1]
    /\ UNCHANGED <<db, prerequisites, phase, applied, starts>>

\* Files 4 and 5, each recorded when it has run.  004 replaces its function,
\* unless another transaction did so while it waited; 005 adds a constraint
\* and fails if it is there.
run_incremental(s) ==
    /\ phase[s] = "incremental"
    /\ at[s] \in Incremental
    /\ \/ /\ at[s] \in applied[s]
          /\ at' = [at EXCEPT ![s] = @ + 1]
          /\ UNCHANGED <<db, prerequisites, mine, phase, waiting, applied, starts>>
       \/ /\ at[s] \notin applied[s]
          /\ ~Locked(s, at[s])
          /\ ~Exists(s, at[s]) \/ at[s] = 4
          /\ Create(s, at[s], {at[s]})
          /\ at' = [at EXCEPT ![s] = @ + 1]
          /\ UNCHANGED <<db, prerequisites, phase, applied, starts>>
       \/ /\ at[s] \notin applied[s]
          /\ ~Locked(s, at[s])
          /\ Exists(s, at[s])
          /\ at[s] = 4 => waiting[s]
          /\ fail(s)

\* Mutation: every file is committed by itself.
commit_each(s) ==
    /\ phase[s] \in Migrating
    /\ mine[s] # Nothing
    /\ db' = [objects |-> db.objects \union mine[s].objects,
              rows    |-> db.rows \union mine[s].rows]
    /\ mine' = [mine EXCEPT ![s] = Nothing]
    /\ IF phase[s] = "incremental" /\ at[s] \notin Incremental
       THEN Goto(s, "booted") ELSE UNCHANGED phase
    /\ UNCHANGED <<prerequisites, at, waiting, applied, starts>>

commit(s) ==
    /\ phase[s] = "incremental"
    /\ at[s] \notin Incremental
    /\ db' = [objects |-> db.objects \union mine[s].objects,
              rows    |-> db.rows \union mine[s].rows]
    /\ mine' = [mine EXCEPT ![s] = Nothing]
    /\ Goto(s, "booted")
    /\ UNCHANGED <<prerequisites, at, waiting, applied, starts>>

-----------------------------------------------------------------------------
(* The rest of main                                                          *)

\* build_embedder, then the workers, the reaper and the HTTP server.
serve(s) ==
    /\ phase[s] = "booted"
    /\ Goto(s, "serving")
    /\ UNCHANGED <<db, prerequisites, mine, at, waiting, applied, starts>>

\* ctrl_c, a crash, a lost connection, or an embedder that does not load.
stop(s) ==
    /\ phase[s] # "down"
    /\ fail(s)

\* The DBA installs vector and pg_trgm.
create_extensions ==
    /\ ~prerequisites
    /\ prerequisites' = TRUE
    /\ UNCHANGED <<db, mine, phase, at, waiting, applied, starts>>

Step(s) ==
    \/ wait(s) /\ ~waiting[s]
    \/ create_schema(s)
    \/ to_regclass(s)
    \/ run_base_file(s)
    \/ select_versions(s)
    \/ run_incremental(s)
    \/ commit(s)
    \/ serve(s)

Next ==
    \/ \E s \in Sidecars : connect(s) \/ Step(s) \/ stop(s)
    \/ create_extensions

Spec == Init /\ [][Next]_vars

\* A running process goes on; PostgreSQL wakes who waited.
FairSpec == Spec /\ \A s \in Sidecars : WF_vars(Step(s))

-----------------------------------------------------------------------------
(* Properties *)

\* Every variable has its type.
TypeOK ==
    /\ db \in Database
    /\ prerequisites \in BOOLEAN
    /\ mine \in [Sidecars -> Database]
    /\ phase \in [Sidecars -> Migrating \union {"down", "booted", "serving"}]
    /\ at \in [Sidecars -> 0..6]
    /\ waiting \in [Sidecars -> BOOLEAN]
    /\ applied \in [Sidecars -> SUBSET Object]
    /\ starts \in [Sidecars -> 0..MaxStarts]

\* "Bootstrap the pgrg.* schema ONCE before any worker claims a job": a
\* sidecar that works, or is about to, works on a database that is current,
\* whatever the others were doing when it read what was applied.
SchemaBeforeWork ==
    \A s \in Sidecars : phase[s] \in {"booted", "serving"} => db = Current

\* "A mid-bootstrap failure rolls back cleanly": the database changes in one
\* step, from what was found to what is current, by one sidecar.
OneUpgrade == [][ db # Current /\ db' = Current ]_db

\* Two sidecars that start together are not both lost: a bootstrap that ends
\* in an error either finds the database current, so that it succeeds when it
\* is started again, or the extensions missing.
LosesOnlyToAWinner ==
    [][ \A s \in Sidecars :
          (Step(s) /\ phase'[s] = "down") => db = Current \/ ~prerequisites ]_vars

\* No bootstrap waits forever for another.
EveryBootstrapEnds ==
    \A s \in Sidecars : phase[s] \in Migrating ~> phase[s] \notin Migrating
=============================================================================
