# pg-raggraph-rs: verification project

pg-raggraph-rs is GraphRAG inside PostgreSQL. Documents are enqueued in a table,
background workers chunk, embed and extract them into a graph of entities, and
`ask` answers questions from it. Three crates matter:

* `src/pg_raggraph` - the PostgreSQL extension (pgrx): SQL functions and
  background workers;
* `src/pg_raggraph_core` - the PostgreSQL-agnostic core: the document pipeline,
  chunking, providers, retrieval;
* `src/pg_raggraph_sidecar` - the same product as a process beside PostgreSQL
  (tokio tasks, libpq connections, an HTTP server), for servers where the
  extension cannot be installed.

Extension and sidecar share the schema (`src/pg_raggraph/sql`), the SQL of the job
queue and the pipeline `run_job`. They differ in what surrounds these: how a
sweep is split into transactions, what happens to a transaction after an error,
what ends a worker. The models of ingestion have one constant per such difference, so that both
deployments are checked and proved by the same modules; in `Ask` the deployment
is the way a question comes in.

## 1. Inventory

| Component | Code | State it keeps | Operations | What makes it hard |
|---|---|---|---|---|
| Job queue | `ingest.rs`, `bgw/queue.rs`, sidecar `jobloop.rs` | `pgrg.ingest_jobs`: status, attempt_count, updated_at, enqueued_at | enqueue, claim, complete, fail | concurrent claims; verdict UPDATEs that test nothing; workers that die between claim and verdict |
| Reaper | `bgw/reaper.rs`, `bgw/launcher.rs`, sidecar `reap_stale_jobs` | none (clock only) | requeue stale rows, fail those at the attempt cap | cannot tell a dead worker from a slow one; two statements |
| Document transaction | core `ingest/run.rs`, `spi_client.rs`, `pg_client.rs` | `documents`, `chunks`, entities and relationships; one open transaction per worker | existence test, inserts, COMMIT / ROLLBACK | test-then-insert races, unique index waits, what an `Err` does to the transaction |
| Administration | `admin.rs` | `namespaces` | namespace_create / drop, delete_document, provider_* | deletes under running transactions; check and DELETE in two statements |
| Worker loop | `bgw/worker.rs`, sidecar `process_one` | the job in hand | claim, run, verdict | two or three transactions per job; crash between any two |
| Entity resolution | core `ingest/resolve.rs`, `spi_client.rs` | `entities` | resolve_or_insert_entity | lookup-then-insert under concurrency; NULL kinds; rows whose stored vector is another's; index deadlock |
| Bootstrap | sidecar `bootstrap.rs` | `pgrg.schema_migrations` | run_migrations | two sidecars at once, interruption, a database the extension installed |
| Ask | `ask.rs`, `retrieval.rs`, sidecar `http.rs`, `client.sql`, both `provider_factory.rs` | none of its own; reads `providers`, `namespaces`, the graph; a row of pg_net | ask, query, POST /v1/ask | up to nine statements with no snapshot in common; errors swallowed by fallbacks; a request pg_net may lose, or not see before the wait for it is over |
| Provider rows, credentials | `admin.rs`, core `credentials/*`, `llm/resolve.rs` | `providers`, the master key file | provider_create / drop, encrypt, decrypt, resolve | a key that changes between writing and reading; names that are no row |
| LLM retry | core `llm/retry.rs` | attempt, elapsed time | run_with_retry | backoff against a wall-clock cap |
| LLM providers | core `llm/*.rs` | none | complete, extract | which responses may be retried |
| Retrieval | core `retrieval/*` | none | the fused query | walks with repetitions, limits, ties |
| Prompt, citations | core `llm/prompt.rs` | none | build_ask_prompt, extract_citations | token budgets, numbers of no block |
| Chunking, embedding, settings, parity benchmark | the rest | none shared | - | numeric or I/O code |

Interaction of ingestion. `enqueue` inserts a row and commits. A worker's claim is a
transaction of its own; `run_job` runs in a second one (one connection, READ
COMMITTED); the verdict is a third in the sidecar, and in the extension too
(`complete_job` / `fail_job` after `BackgroundWorker::transaction` returns).
Workers, reapers and administrators share nothing but the tables: there are no
messages, and the only coordination is row locks, the unique index on
`documents.content_hash`, foreign keys, and the clock in
`updated_at < now() - interval`. The transactions of two jobs meet again in
`entities` and `relationships`, whose unique keys they take in the order their
chunks name them. A sidecar does all this only after `run_migrations`, another
transaction, returned.

Interaction of an ask. The handler reads the namespace, the providers, the graph
and the budget in separate statements, calls an LLM over HTTP and answers; it
writes nothing. From a database without the extension the call goes
`client.sql` -> pg_net -> HTTP server of the sidecar -> the same database, and
back through a table of pg_net.

What must be right, component by component:

* queue: one claim per attempt; at most `MaxAttempts` claims; a job in two hands
  only when the first holder outlived the interval; every job settles;
* document transaction: documents are whole, unique by content and never without
  namespace; `Ok` means stored; retries are harmless;
* worker loop: `completed` is the truth about the document (in the sidecar:
  see section 3);
* entity resolution: one row per key; links and relationships point at rows;
  a job that commits has linked what it extracted; one that is refused lost to a
  rival or met a fixture's row of another vector; nobody waits for ever;
* bootstrap: the schema is current before work starts, and is upgraded in one
  step, by one sidecar; a bootstrap that fails lost to one that did not;
* ask: every handler answers or fails, and so does the shim once pg_net has
  written a row; the answer comes from the provider it is attributed to; secrets reach a provider in the clear; attempts stop at their
  cap; the prompt keeps its budget; citations are blocks the model was shown;
  results are in scope, ordered, and what the graph promises.

## 2. Modules

```
JobLifecycle  <--implements--  JobQueue  <---+
                                             +-- IngestSystem
DocumentStore <--implements--  IngestTxn <---+
                                  : persist_chunk_extraction in detail
GraphStore    <--implements--  EntityResolution

Bootstrap

Retrieval, Prompt, Providers  <--extends--  Ask
```

| Module | What it is |
|---|---|
| `JobLifecycle` | abstract: the status and attempt_count columns as a reader sees them. `Spec` is the strict contract, `LateSpec` adds late verdicts |
| `JobQueue` | the table, the workers, the reapers, the clock |
| `DocumentStore` | abstract: documents appear in one step, under a namespace, and are only ever deleted |
| `IngestTxn` | `run_job` and the end of its transaction for several writers, and the administration functions |
| `IngestSystem` | both: each worker of the queue is a writer of the transaction module |
| `GraphStore` | abstract: the in-memory store the unit tests of the pipeline run against (`FakePgClient`): buffers, commit, rollback. Of its writes: not of its lookup, which sees committed rows only, nor of errors |
| `EntityResolution` | the entities, links and relationships of a chunk, statement by statement, by concurrent jobs and fixture loaders |
| `Bootstrap` | `main` of the sidecar up to its workers: `run_migrations` by several of them |
| `Retrieval`, `Prompt`, `Providers` | operators: the fused query; prompt and citations; credentials, choice and construction of a provider, reading of LLM responses |
| `Ask` | a call by any of its ways in, statement by statement, with pg_net and the administration around it |
| `MCJobQueue`, `MCIngestTxn`, `MCIngestSystem`, `MCEntityResolution`, `MCBootstrap`, `MCAsk` | instances for TLC |
| `JobQueueProofs`, `IngestTxnProofs`, `IngestSystemProofs`, `EntityResolutionProofs`, `EntityLinkProofs`, `BootstrapProofs`, `RetrievalProofs`, `AskProofs` | theorems checked by TLAPS |

Definitions marked "Mutation" are
plausible mistakes in the definition that follows them. They are not part of the
model; putting one in the place of the definition makes the property named in
`PROJECT.json` fail, which shows that the property depends on that code.

### JobQueue and the code

| Model | Code |
|---|---|
| `status`, `attempt_count`, `enqueued_at` | the columns; `absent` is a row not inserted yet |
| `age[j]` | `now() - updated_at` in Ticks, saturated at `StaleAge`, the first age the reaper's predicate accepts |
| `pc`, `job`, `attempt` | where a worker is in `pg_raggraph_worker_main` / `process_one`, the id and the attempt_count its claim returned |
| `hold` | Ticks since the claim; no code variable, it lets properties speak of slow workers |
| `swept[r]` | a sidecar reaper is between its two UPDATEs |
| `claim_select`, `claim_update` | the CTE with `FOR UPDATE SKIP LOCKED`, then the UPDATE and COMMIT: a claim can be cut off, or overtaken by other statements, in between |
| `run_job` | the whole pipeline, with either outcome (`IngestTxn` has the detail) |
| `complete_job`, `fail_job` | `UPDATE ... WHERE id = $1`: no test of status or attempt, as in the code |
| `Abandon` | every way a worker stops without a verdict |
| `run_reaper_sweep` / `reap_requeue`, `reap_fail_capped`, `ReaperAbandon` | extension (`AtomicSweep`) / sidecar |
| `Prompt` | when TRUE, time does not advance past the interval while a live worker holds a job: an assumption about operation, not something the code enforces |

`enqueued_at` may be any stamp: it is the start time of the inserting
transaction, which may commit after a later one. Error texts, payloads and the
idle backoff are left out.

### IngestTxn and the code

| Model | Code |
|---|---|
| `documents[h]` | the committed row with content hash `h` (the index is on the hash alone): namespace and number of committed chunks |
| `phase`, `req`, `wrote`, `nchunks` | the position in `run_job`, its request, whether `ON CONFLICT DO NOTHING` inserted the row, chunks inserted |
| `document_exists_by_hash`, `commit_skipped` | the incremental skip, by namespace and hash, and the COMMIT of the transaction that then wrote nothing: what it found may be deleted in between, and is reported as skipped all the same |
| `insert_document` | three outcomes: nothing inserted, inserted, refused by the namespace foreign key; waits while another open transaction holds the hash (`Contended`) |
| `insert_chunk` | refused by the foreign key when the document row was not inserted: `run_job` uses the id it minted, not the one in the table |
| `persist_chunk_extraction` | entities, links and relationships of one chunk: one step, which stores them all, fails by `raise`, or is refused (a foreign key, a deadlock: `EntityResolution` has the statements) |
| `raise` / `refused` | an `Err` from `run_job` with a healthy transaction / a statement the server rejected |
| `commit`, `rollback`, `commit_after_err`, `die` | sidecar: COMMIT or ROLLBACK. Extension: COMMIT after an `Err` too; a refused statement ends the bgworker |
| `namespace_drop_cascade`, `namespace_drop_check`, `namespace_drop_delete` | `namespace_drop(name, true)`; the two statements of `namespace_drop(name, false)` |
| `Referenced` | the KEY SHARE lock of the foreign key, which a DELETE of the namespace waits for |

Statements see what is committed when they start (READ COMMITTED). Chunking and
embedding are the reasons for `raise`, not data. Documents have `NChunks` chunks;
a source with none is an `Err`.

### IngestSystem and the code

The claim's commit and the begin of the document transaction are one step
(nothing else writes in between on that connection); the verdict follows the
outcome; a crash takes the worker and its open transaction. `Content` gives each
job its namespace and hash. `Errored` is the extension's worker after a refused
statement: an SPI ERROR unwinds past `fail_job`, the worker restarts, and the
job stays `running` until the reaper requeues it, up to the attempt cap. (The
design document, `src/docs/superpowers/specs/2026-05-03-pg-raggraph-rs-extension-design.md:76`, expects
`status='failed'` at once for any per-document failure.)

### EntityResolution and the code

| Model | Code |
|---|---|
| `tables`, `buffer[r]` | committed rows of `entities`, `chunk_entities`, `relationships`; the uncommitted rows of the transaction of `r` |
| `phase`, `chunk`, `item`, `extraction` | where the loops of `persist_chunk_extraction` are, and what `provider.extract` returned for the chunk |
| `id[r]`, `name_to_id[r]` | the id `resolve_or_insert_entity` returns; the map from names to ids of the chunk |
| `seen[r]` | the rows the last lookup selected from; no code variable, `RefusedByRivalOrFixture` speaks of it |
| `fuzzy_match_entity` | the candidate query (any `TRGM_CANDIDATE_LIMIT` most similar rows), then both thresholds; a hit gives the id of the row, a miss mints one |
| `insert_entity` | `INSERT ... ON CONFLICT DO NOTHING`: the caller keeps the id it minted even if no row was written |
| `insert_chunk_entity`, `insert_relationship` | refused by the foreign key when the id is no row; a relationship with an end that was not extracted is dropped |
| `WaitsFor`, `Deadlocked`, `deadlock_timeout` | an INSERT waits for the uncommitted row of its key; PostgreSQL aborts one transaction of a cycle |
| `commit_after_err` | the extension commits after an `Err`; the sidecar's rollback leaves the database as `die` does |
| `load_entity`, `load_no_link` | `ingest_extracted`: entities of a fixture, ids of its own, links only where the fixture has them |

An id is the run, its transaction, the chunk and the item it was minted for,
which makes it as unique as a UUID. Trigram similarity is given on names (`Trgm`);
cosine on vectors (`Near`): a job compares what its embedder makes of the name it
extracted (`Embed`) with the `name_emb` the row was stored with, which for a row of
a fixture is whatever the file says (`Fixture`). So a row of the same name need
not be merged (`src/pg_raggraph_core/tests/ingest_resolve.rs:71-107`), and if the
kind agrees too, its key keeps the job's new row out and the foreign key refuses the
job's link: every job that names such an entity fails, with no rival. A NULL or zero
`name_emb` is a vector near nothing. The kind plays no part in a merge. The embedder
is the same in all workers and throughout.

### Bootstrap and the code

| Model | Code |
|---|---|
| `db.objects`, `db.rows` | what exists (the schema, and one object for what each migration file creates), the versions in `pgrg.migrations` |
| `mine[s]` | what the open transaction of a sidecar created |
| `waiting[s]` | its statement found another's uncommitted object and waits |
| `create_schema`, `to_regclass`, `run_base_file`, `select_versions`, `run_incremental`, `commit` | the statements of `run_migrations` in order; every `?` is `fail`, which rolls back |
| `prerequisites` | file 000 tests for `vector` and `pg_trgm` |
| `connect`, `serve`, `stop` | the rest of `main`; `stop` is any end of the process |
| `Released` | the databases a sidecar can find that a sidecar, or `client.sql`, left |

`CREATE ... IF NOT EXISTS` and `CREATE OR REPLACE` test before they wait, and so
fail when the transaction they waited for commits: that is PostgreSQL's
behaviour, and why a second sidecar that starts together with the first can end
in an error although nothing is wrong with the database.

### Ask and the code

| Model | Code |
|---|---|
| `Path(r)` | the statements of `pgrg.query`, `pgrg.ask`, `ask_handler` and the core's `ask`, in order. The sidecar resolves the provider twice when the caller named none: once to build it, once to name it |
| `got` | the local variables: default of the namespace, provider name, implementation, model, chunks, budget, blocks of the prompt |
| `ns_default`, `resolve`, `build`, `provider_model`, `ask_token_budget` | each with what the code makes of an error: the sidecar reads a failed statement as NULL and falls back to `MockProvider`, the extension raises |
| `query` | the fused SQL; equal scores in any order; from an HNSW index (`src/pg_raggraph/sql/002_indexes.sql:6`, `:10`) any of the rows that pass namespace, filter and distance, which are applied to what it returns |
| `complete_once`, `complete`, `from_status` | one HTTP call and the classes of its response |
| `run_with_retry`, `cap_reached`, `Sleep` | `RetryingProvider`: attempts that take time, waits cut to what remains of the cap. No factory constructs it, so its way in is "library" |
| `client`, `tries`, `net` | the PL/pgSQL function of `client.sql`, and its request in pg_net, which may lose it, time out or report an error |
| `await_response`, `poll_found`, `poll_not_found` | `net._await_response`, which returns only when a row is written; the bounded loop behind it, whose SELECT may not see that row |
| `db.eager` | whether the installed pg_net takes a request out of an open transaction: see section 3 |
| `cancel` | the caller's statement is cancelled |
| `provider_create`, `provider_drop`, `namespace_*`, `delete_document`, `set_master_key` | administration between any two statements |
| `quiet` | no administration and no lost connection since the call began; no code variable |

Calls only read, so one at a time is enough: what others do to a call is the
administration. Response bodies are the set of fields found in them, chunk texts
their token counts, an answer the numbers it cites. Distances and text ranks are
any order; what a graph walk counts is computed, with the multiplicities of its
`UNION ALL` and of relationships that differ in kind alone. Citations are by
number, as in the code: a chunk in two blocks may be cited twice.

## 3. Runs

| Run | Instance | Question and result |
|---|---|---|
| `queue_sidecar` | 2 jobs, 2 workers, 1 reaper, 2 attempts, interval 2, slow workers | the queue with nothing assumed: types, attempt cap, one holder per attempt, reruns only after a full interval, implements `LateSpec`; every job settles. Holds |
| `queue_prompt` | same with 3 attempts, interval 3, `Prompt`, launcher sweep | mutual exclusion, verdicts on the current claim only, reaper is crash recovery only, implements the strict contract. Holds |
| `queue_exactly_once` | 1 job, 2 workers | mutual exclusion without `Prompt`. Violated |
| `txn_sidecar` | 2 writers, 2 namespaces, 2 hashes, 2 chunks, deletions | whole documents, references, exclusive hashes, `Ok` means stored, implements `DocumentStore`. Holds |
| `txn_extension` | the same, extension | `Ok` means stored, implements `DocumentStore` with documents of any size. Holds |
| `txn_ext_atomicity` | extension, 2 chunks | whole documents. Violated |
| `txn_concurrent_duplicate` | sidecar, 2 writers, same content | a duplicate is skipped, never refused. Violated |
| `system_retries` | sidecar, 2 jobs with different content, 2 chunks, crashes anywhere, prompt workers | transaction and claim agree, retries never collide with earlier attempts, `completed` is said of whole documents only. Holds |
| `system_liveness` | extension, 1 job, 2 chunks, 2 workers that rerun it against each other, 3 attempts | the job settles. Holds |
| `entities` | 2 jobs and 1 loader, 3 names, 4 vectors, 2 kinds (one NULL), candidate limit 2, 1 chunk, 2 transactions each | keys unique, references hold, commits are linked, a refusal has a rival or a fixture's vector behind it, implements `GraphStore`; every run ends. Holds |
| `bootstrap` | 2 sidecars, 3 starts each, every `Released` database | current schema before work, one upgrade, a loser lost to a winner; every bootstrap ends. Holds |
| `ask` | 4 chunks, 3 entities, 2 namespaces, 3 databases, 23 calls by all five ways in, 2 administrative changes | secrets, retrieval, budget, citations, attribution, retries; every handler ends, and the shim after a row is written. Holds |

Bounds. Two workers are enough for every pairwise race the code has (two claims,
claim and late verdict, two writers of a hash); the theorems remove the bound.
Two jobs let claims choose and sweeps treat rows differently. An attempt limit of
2 or 3 reaches the cap and a retry below it. `StaleAge` 2 or 3 separates "claimed
a moment ago", "older" and "stale"; more Ticks only repeat the middle. Two chunks
give a document that is neither empty nor whole. Two hashes and two namespaces
give same text in the same and in another namespace. Sets of interchangeable
values are symmetric in the safety runs and in none of the liveness runs.
Deadlock is checked where the system goes on for ever: time always advances, in
`IngestTxn` a namespace can always be created, and in `Ask` a call
is always under way or can be made, and what waits can be cancelled. In `entities` and `bootstrap` it is not, because the number of
transactions and of starts is bounded, and the system stops when they are used
up; the liveness properties there show that nothing stops before.

In `entities` two jobs name two entities in opposite orders, which is what a
deadlock takes; the loader writes beside them without a lookup; all three names are similar by trigram and two candidates are looked at,
so that a name can be crowded out; the fixture's row for one name and kind has a
vector far from the name's own; one name comes twice in a chunk, once with kind
NULL; the second transaction is the retry of a refused job. In `bootstrap`
two sidecars make every pairwise wait, and a third start follows two failures.
In `ask` the chunks' token counts (2, 3, 1, 1) against a budget of 4 or 2 make
the second chunk too large and the third fit; lanes return at most 2 rows and
the walk starts from 1 entity, so that all limits bite; 0, 1 and 2 hops tell a
directed walk from an undirected one; 3 attempts with waits 1 and 2 against a cap
of 4 and attempts of up to 3 reach both ends of the loop; 2 administrative
changes fall between any two statements; two relationships of one pair differ in
kind; a caller of the core's `ask` hands one chunk twice; pg_net is eager in two
of the three databases.

Bounds named in the modules: `MaxAttempts` (the literal 3 of the reaper; in
`Ask`, the attempts of a `RetryingProvider`), `StaleAge` (saturation of `age` and
`hold`), `NChunks`, `MaxRuns` (transactions of a job), `MaxStarts`,
`MaxChanges`. Limits of the code with a smaller value in the instances:
`MaxPolls` (300), `LaneLimit` (50), `SeedLimit` (8), `DefaultBudget` (4000),
`TRGM_CANDIDATE_LIMIT`.

Fairness (`Fairness` in `JobQueue` and `IngestSystem`, `FairSpec` elsewhere). The poll loops, the
reaper's ticker and the clock run for ever (`worker.rs` and `run_worker` loop
until shutdown; the launcher's `wait_latch` and the sidecar's interval repeat): weak
fairness of claims, verdicts, sweeps and Tick. `run_job` is local work, bounded
loops, SQL, and HTTP calls with a timeout: weak fairness of its steps. Strong
fairness where a step is repeatedly disabled by something that does not last:
`claim_update` and the second reaper statement, which crashes can interrupt (a
crash at every single claim would be no progress, by nobody's fault), and an
INSERT that waits for a transaction which ends. Nobody is obliged to enqueue, to
crash, or to raise an error. In `EntityResolution`, weak fairness of each run's
statements: PostgreSQL schedules every backend, wakes waiters and looks for
deadlocks after `deadlock_timeout`. In `Bootstrap`, weak fairness of each running
sidecar's statements; nobody is obliged to start one. In `Ask`, weak fairness of
the handler, whose HTTP calls have timeouts, and of the function of `client.sql`,
which runs on once `net._await_response` has returned. Nothing is asked of pg_net,
nor is anybody obliged to cancel a call: `EveryAskEnds` says that every handler
ends, and that the function ends after pg_net has written a row, be it a timeout or
an error, and seen or not.

Why the violations are real: each is a run of statements the code sends, in an
order nothing forbids, and `findings` in `PROJECT.json` quotes the comment
or changelog that says otherwise. In short: (1) a job longer than the
reaper interval runs twice, since nothing refreshes `updated_at`; (2) in the
extension an `Err` after the first chunk commits a partial document, which later
ingests then skip (and so does the job's own retry, if the worker dies before
`fail_job`: it then says `completed`); (3) two concurrent ingests of the same new text: the second
fails on a foreign key instead of being skipped.

Behaviour worth knowing that contradicts no run, met while modelling:

* `namespace_drop(name, false)` tests and deletes in two statements
  (`admin.rs:51-74`): a document committed between them goes with the
  namespace, though the message says "pass cascade := true to delete". The steps
  are in `IngestTxn`.
* A database installed by the extension has a row for version 1 only; a sidecar
  pointed at it runs file 005 again, whose `ADD CONSTRAINT` fails, at every
  start. `LosesOnlyToAWinner` is violated with `Databases <- Extension`.
* In the extension `completed` may be said of a document that lacks chunks: after
  `commit_after_err` and a crash before `fail_job`, or for another job of the same
  text, the existence test finds the partial document and `SkippedDuplicate` is a
  success (`src/pg_raggraph/src/bgw/worker.rs:113`, `:130-132`). Hence
  `CompletedMeansStored`, which asks for every chunk, is a property of the sidecar
  only.
* The function of `client.sql` waits in the transaction that queued its request,
  and pg_net takes committed requests only: by its documented behaviour the request
  is not sent before the wait is over, and `net._await_response` (`client.sql:90-92`)
  blocks until a row is written. The poll of "~30s ceiling" (`client.sql:94-95`) is
  behind it and bounds nothing then; nor does it when the worker drops the request
  "with no response row" (`client.sql:39-40`). The model has both: with `eager` FALSE
  nothing is ever delivered and the call waits until it is cancelled; with `eager`
  TRUE (a pg_net that sees the request) a lost request does the same, and the rest
  of the function is exercised. The file's own header says that the round trip was
  never observed.
* A row stored with a vector far from its name's own (by a fixture) makes every job
  that extracts this name and kind fail: see EntityResolution above.
* `extract_citations` returns citations in the order of the answer;
  `src/pg_raggraph_core/src/llm/prompt.rs:108` says "sorted".
* An attempt begun just before the retry cap may outlast it by the timeout of one
  request; `RetryStopsAtCap` states the bound that holds, Cap + Timeout. The file
  says more: "must not hang for more than ~30s"
  (`src/pg_raggraph_core/src/llm/retry.rs:4-5`), "10s total wall-clock cap" (`:10`),
  "bounded by `total_cap_ms` wall-clock" (`:64`); with the HTTP client's 30s for
  a request none of these is kept by the loop itself. No program constructs a
  `RetryingProvider`, so nobody meets it yet.
* When the choice of the provider is left to the sidecar, it chooses twice: once to
  build, once for the name in the answer (`http.rs:313-322`). A change between the
  two, or a lost connection, makes the answer bear another's name. And when the
  chosen provider cannot be built, the mock's empty answer bears its name, although
  the comment at `http.rs:391-395` takes an empty name to go with the fallback.
  `HonestAttribution` states what holds: for a question that names its provider, and
  in the extension, the name is right whatever happens; for the others, if nothing
  changed and the provider could be built. The model is read by one more statement and is
  right if nothing changed. The two exceptions are not covered by any property.
* A failed budget query in the sidecar means the default budget, also when the
  setting is no number; the extension raises. `PromptKeepsBudget` compares with the
  setting only when it could be read.
* The graph lane has a LIMIT and no ORDER BY of its own; the model takes the rows
  in rank order, as the window function's sort leaves them.

## 4. Proofs

All theorems hold for any sets of jobs, workers, reapers, namespaces and hashes
and any limits; the assumptions are the `ASSUME`s of `JobQueue`, `IngestTxn`,
`IngestSystem`, `EntityResolution`, `Bootstrap`, `Retrieval`, `Prompt` and `Ask`,
which type the constants. Three say more than a type: corpus and graph are finite
(`RetrievalAssumption`); a credential that administration passes in or a database
starts with was encrypted at most once (`IsProvider`): the code never encrypts a
ciphertext, nor would it decrypt one twice; and only a caller of the core's `ask`
brings chunks and a provider, whose key is in the clear (`IsRequest`).
`Prompt` (no live worker outlasts the stale interval), `~Extension`,
`~Administered`, `OwnContent` (no two jobs have the same text), `SelfSimilar` (a
name is similar to itself, and the vector the worker's embedder makes of it is close
to itself: both similarities are 1; it says nothing of the vectors in fixtures) and `Databases \subseteq Released` appear as hypotheses of the
theorems that need them.

* `JobQueueProofs`. `QueueInv` is the inductive invariant. `AttemptCap` alone is
  not inductive: the claim tests neither status nor count, so one needs that the
  locked row is still queued (`ClaimLockHeld`), which needs that nobody else has
  it locked (`OneClaimantPerAttempt`), and that a queued row has an attempt left.
  `RerunOnlyAfterStale` needs `HoldTracksAge` (updated_at is the time of the claim
  as long as the row is its holder's) and `SupersededIsStale` (a holder whose row
  was taken back had it for the whole interval). With `Prompt`, `FreshClaims` says
  no live claim is stale, so the reaper takes none: mutual exclusion
  (`PromptWorkersAreSafe`), current verdicts (`PromptVerdictsAreCurrent`) and the
  strict contract follow. Both refinements map every step to an
  abstract step or a stutter.
* `IngestTxnProofs`. `TxnInv`: types and order of writes (`WritesInOrder`), then
  `OneRowPerHash` and `ReferencesHold` together: COMMIT keeps references because
  the namespace could not be dropped under an uncommitted row, and never replaces
  a document because the index kept everybody else from the hash. From it:
  `OkMeansStored`, and the refinements: `DocumentStore` with documents of any size
  in both deployments, with whole documents in the sidecar.
* `IngestSystemProofs`. The system implements both parts, so their theorems carry
  over (through instances of the two proof modules); `TxnFollowsClaim` connects
  their states, and `CompletedMeansStored` follows in the sidecar because stored
  documents stay (`StoredStays`), an `Ok` is only said of one (`OkIsStored`), and
  all of them are whole (`DocumentsAreWhole`).
  `RetriesAreHarmless` (prompt workers, `OwnContent`) needs `Uncontested`: between
  a run's existence test and its INSERT nobody else stores its hash, because
  another open transaction for that hash would be another live claim of the same
  job (`RunsAreApart`, from mutual exclusion), and what is stored already is
  under the job's own namespace, where the existence test finds it.
* `EntityResolutionProofs`. `EntityInv`: types, `OneRowPerKey` and
  `ReferencesHold`. The first holds through COMMIT because its second conjunct
  keeps uncommitted keys apart, by the wait of `insert_entity`; the second
  because a link is tested against rows that are committed or the run's own, and
  no row of `entities` is taken away. Every step inserts one row in one buffer,
  commits or discards it: `EntitiesImplementGraphStore`. `RefusalsHaveACause`
  rests on `RaceInv`: what a run is about to insert has a key its lookup did not
  see (`CandidatesCover`: the LIMIT of the query cannot have hidden a row of the
  same name unless more names are as similar), so that a conflict is with a row
  committed since, or with one it saw and did not merge, whose vector is far from
  the name's own: a fixture's, since rows of jobs carry their name's vector.
* `EntityLinkProofs`. `JobsLinkTheirChunks` needs to know that an id which lost its
  row to ON CONFLICT DO NOTHING is no other row's id, or the foreign key would let
  a wrong link through. `IdsInv` says that every stored id was minted at a
  position its run has passed (`PastStep`), so that the one about to be minted is
  fresh (`MintedIsFresh`); `Settled` says that every entity and relationship
  before the current one is stored, and what the map of names holds are rows of
  those names.
* `BootstrapProofs`. `BootInv` says, for each place in `run_migrations`, exactly
  what the transaction has written (`Progress`), as long as the database is not
  current; and that it is one of `Released` and, once current, stays so. A
  COMMIT then always writes exactly what was missing (`UpgradedOnce`), an error
  is a wait for a COMMIT that made the database current (`OneWins`), and no
  sidecar reaches its workers before (`WorkOnCurrentSchema`).
* `RetrievalProofs`. What the operators compute, for any corpus, graph and limits.
  The walk, the folds and the greedy loop are recursive functions and folds of the
  community modules; the library's induction theorems take an operator, so the
  module has its own induction over a set of numbers (`SetInduction`, from the
  well-foundedness of `<`), shows that such a recursion has a solution
  (`FoldLeftExists`, `RunExists`) and reasons about its trace.
  `WalkFindsNeighbours`: the counts of `UNION ALL`, summed over the depths, are
  positive exactly within the number of hops (a sum of naturals is positive when
  one term is, `SumPositive`). `GraphLaneReaches`: the lane has as many of the
  chunks that mention those entities as its limit admits, none twice.
  `FusionRanks`: a row that is first in every lane has a larger score
  (`DominatingScore`, from the exact unit of the scores), so the sort cannot put
  it later. `QueryIsSound` joins the three lanes. `PromptFits` keeps `Fitted`
  from chunk to chunk: what was passed over did not fit beside some prefix of
  what was included. `CitationsFollowNumbers` keeps `Cited` from number to number.
* `AskProofs`. `RetryInv` adds to `RetryStopsAtCap` that a running loop has
  attempts left and that a sleep is cut to the cap, so that `elapsed` passes it
  within an attempt only. `AttributionInv` says what is in the handler's hand at
  each place of its path, in terms of the database: it is needed because name,
  implementation and model are read by different statements, and it holds only
  while `quiet`; where the caller named no provider, the fallback may be in hand
  instead, and that answers nothing. `SteadyInv` is what holds without `quiet`: on
  the paths of a named question and of the extension (`Fixed`) the name in hand is
  read once, before the provider is built, and from then on is that provider's. `StoredInv` says administration leaves rows
  of the shape it was given, so that what `build` decrypts once is in the clear
  (`SecretsAreDecrypted`). For the rest, `HandlerTurns` and `OtherTurns` reduce
  every step to what it does to the chunks, the budget, the prompt and the
  answer: it retrieves, sets the budget, prompts, completes, or does something
  aside. `RetrievalHolds` is then `QueryIsSound` at the first of these.
  `PromptKeepsBudget` is not inductive: `PromptInv` adds that the handler is on its
  path, that what it retrieved is in scope, that past the budget statement of an
  undisturbed call the budget is the namespace's, and that there is a prompt only
  from `build_ask_prompt` on (`PathOrder` gives the order of the statements on
  each way in). It was checked by TLC on the `ask` instance before it was proved.
  `CitationsHold` follows from it: blocks are retrieved chunks, and what was
  retrieved is in scope.

Only model-checked: liveness (`EveryJobSettles`, `EveryRunEnds`,
`EveryBootstrapEnds`, `EveryAskEnds`): fairness and ENABLED are out of the
prover's reach. Every safety property of a passing run has a theorem.

## 5. Not modelled, and what could follow

Left out for good: chunkshop's splitting, ONNX arithmetic, PostgreSQL's ranking
(HNSW, `ts_rank`), the wire formats of LLM services, the parsing of extractions,
the cipher of credentials and the tests of the key file, settings and profiles,
`status`, `health`, `provider_list` and its `redact`, and the parity benchmark.
None of them keeps state that another part reads: where a model depends on one
(an extraction, a rank, a response), it takes any value.

In part: the files `client.sql` and the migrations are modelled by what they
create and by the function `pgrg.ask`; other SQL objects of theirs play no part.
`EntityResolution` has one namespace, since no statement of it sees another.

What could follow: a composition of `IngestTxn` with `EntityResolution`. Today the
former takes the statements of a chunk as one step that may fail, which the
latter justifies: nothing of them is visible to others before the COMMIT, and the
foreign keys they can fail on end the transaction the same way.
