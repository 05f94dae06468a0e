-------------------------- MODULE EntityResolution --------------------------
(***************************************************************************)
(* How the entities and relationships of a chunk reach the database:       *)
(* persist_chunk_extraction (pg_raggraph_core/src/ingest/run.rs) and       *)
(* resolve_or_insert_entity (ingest/resolve.rs) over the PgClient adapters *)
(* (bgw/spi_client.rs in the extension, pg_client.rs in the sidecar), and  *)
(* the fixture loader pgrg.ingest_extracted, several of them at once.      *)
(*                                                                         *)
(* Each runs in one transaction at READ COMMITTED: a statement sees the    *)
(* rows committed when it starts and its own.  An INSERT whose UNIQUE key  *)
(* another open transaction has just written waits for it; if that closes  *)
(* a cycle, PostgreSQL aborts one of them.  One namespace: the rows of     *)
(* another are invisible to every statement here.                          *)
(***************************************************************************)
EXTENDS Naturals, Sequences, FiniteSets

CONSTANTS
    Resolvers,              \* jobs of run_job
    Loaders,                \* calls of ingest_extracted
    Names, Kinds,           \* of entities
    NoKind,                 \* kind NULL
    Trgm,                   \* similarity(name, name), in whole percents
    TRGM_MERGE,             \* least similarity of a merge
    Embeddings,             \* vectors; NULL and zero are ones near nothing
    Embed,                  \* what the worker's embedder makes of a name
    Fixture,                \* name_emb of the entities in a loader's file
    Near,                   \* pairs of vectors with cosine >= COSINE_MERGE
    TRGM_CANDIDATE_LIMIT,   \* LIMIT of the candidate query
    Extractions,            \* what the provider may extract from a chunk
    NChunks,                \* chunks of a job
    MaxRuns                 \* bound: transactions begun for a job

Runs    == Resolvers \union Loaders
Mention == [name : Names, kind : Kinds]

ASSUME EntityAssumption ==
    /\ Resolvers \intersect Loaders = {}
    /\ NoKind \in Kinds
    /\ Trgm \in [Names -> [Names -> Nat]]
    /\ TRGM_MERGE \in Nat
    /\ Embed \in [Names -> Embeddings]
    /\ Fixture \in [Loaders -> [Mention -> Embeddings]]
    /\ Near \subseteq Embeddings \X Embeddings
    /\ TRGM_CANDIDATE_LIMIT \in Nat
    /\ Extractions \subseteq [entities : Seq(Mention), relationships : Seq(Names \X Names)]
    /\ NChunks \in Nat
    /\ MaxRuns \in Nat

VARIABLES
    tables,         \* committed rows of entities, chunk_entities, relationships
    buffer,         \* per run, the rows its open transaction wrote
    phase,          \* per run, the statement it is at
    run,            \* per run, transactions begun so far
    chunk,          \* per run, the chunk it is at
    extraction,     \* what provider.extract returned for that chunk
    item,           \* next entity, or relationship, of the extraction
    seen,           \* entities the last fuzzy_match_entity selected from
    id,             \* the id an entity was resolved to
    name_to_id      \* per name, {} or the id it was resolved to in this chunk

progress == <<run, chunk, extraction, item>>
local    == <<progress, seen, id, name_to_id>>
vars     == <<tables, buffer, phase, run, chunk, extraction, item, seen, id, name_to_id>>

\* An id a run mints is used for one mention only.
Id        == Runs \X (0..MaxRuns) \X Nat \X Nat
Entity    == [id : Id, name : Names, kind : Kinds, name_emb : Embeddings]
Link      == [chunk : Runs \X (0..MaxRuns) \X Nat, entity : Id]
Relation  == [src : Id, dst : Id]
TableName == {"entities", "chunk_entities", "relationships"}

Empty   == [t \in TableName |-> {}]
Nothing == [entities |-> <<>>, relationships |-> <<>>]

Open  == {"extract", "resolve", "insert", "link"}
Ended == {"committed", "failed", "refused", "died"}

Init ==
    /\ tables = Empty
    /\ buffer = [r \in Runs |-> Empty]
    /\ phase = [r \in Runs |-> "queued"]
    /\ run = [r \in Runs |-> 0]
    /\ chunk = [r \in Runs |-> 1]
    /\ extraction = [r \in Runs |-> Nothing]
    /\ item = [r \in Runs |-> 1]
    /\ seen = [r \in Runs |-> {}]
    /\ id = [r \in Runs |-> <<r, 0, 0, 0>>]
    /\ name_to_id = [r \in Runs |-> [n \in Names |-> {}]]

-----------------------------------------------------------------------------
(* The tables, as a statement of run r finds them                            *)

Goto(r, p) == phase' = [phase EXCEPT ![r] = p]

Visible(r, t) == tables[t] \union buffer[r][t]

Write(r, t, row) ==
    /\ buffer' = [buffer EXCEPT ![r][t] = @ \union {row}]
    /\ UNCHANGED tables

Discard(r) ==
    /\ buffer' = [buffer EXCEPT ![r] = Empty]
    /\ UNCHANGED tables

\* Mutation: the rows stay in the buffer.
Publish_undrained(r) ==
    /\ tables' = [t \in TableName |-> tables[t] \union buffer[r][t]]
    /\ UNCHANGED buffer

Publish(r) ==
    /\ tables' = [t \in TableName |-> tables[t] \union buffer[r][t]]
    /\ buffer' = [buffer EXCEPT ![r] = Empty]

\* UNIQUE(namespace, name, kind): NULL kinds are distinct.
SameKey(e, f) == e.name = f.name /\ e.kind = f.kind /\ e.kind # NoKind

\* The transaction of r ends; the variables of run_job go out of scope.
End(r, p) ==
    /\ Goto(r, p)
    /\ chunk' = [chunk EXCEPT ![r] = 1]
    /\ extraction' = [extraction EXCEPT ![r] = Nothing]
    /\ item' = [item EXCEPT ![r] = 1]
    /\ seen' = [seen EXCEPT ![r] = {}]
    /\ id' = [id EXCEPT ![r] = <<r, 0, 0, 0>>]
    /\ name_to_id' = [name_to_id EXCEPT ![r] = [n \in Names |-> {}]]
    /\ UNCHANGED run

\* The row of entities that the next INSERT of r would write.  A job embeds
\* the name itself; a fixture brings any vector.
NextEntity(r) ==
    LET m == extraction[r].entities[item[r]]
    IN  [id |-> id[r], name |-> m.name, kind |-> m.kind,
         name_emb |-> IF r \in Loaders THEN Fixture[r][m] ELSE Embed[m.name]]

NEntities(r) == Len(extraction[r].entities)

\* Both names were extracted, as entities, from this chunk.
Endpoints(r) ==
    LET pair == extraction[r].relationships[item[r] - NEntities(r)]
    IN  name_to_id[r][pair[1]] \X name_to_id[r][pair[2]]

AtRelationship(r) ==
    /\ phase[r] = "resolve"
    /\ item[r] > NEntities(r)
    /\ item[r] <= NEntities(r) + Len(extraction[r].relationships)

\* The uncommitted row of s that the next INSERT of r waits for.
WaitsFor(r, s) ==
    /\ s # r
    /\ \/ /\ phase[r] = "insert"
          /\ \E e \in buffer[s]["entities"] : SameKey(e, NextEntity(r))
       \/ /\ AtRelationship(r)
          /\ \E p \in Endpoints(r) : [src |-> p[1], dst |-> p[2]] \in buffer[s]["relationships"]

Blocked(r) == \E s \in Runs : WaitsFor(r, s)

\* r waits, through others, for itself.
Deadlocked(r) ==
    Blocked(r) /\ \E n \in 1..Cardinality(Runs) : \E path \in [0..n -> Runs] :
        /\ path[0] = r /\ path[n] = r
        /\ \A i \in 0..(n - 1) : WaitsFor(path[i], path[i + 1])

-----------------------------------------------------------------------------
(* persist_chunk_extraction                                                  *)

\* A job is claimed, or claimed again after its worker's transaction was
\* refused; or somebody calls ingest_extracted.
begin(r) ==
    /\ phase[r] = "queued" \/ (r \in Resolvers /\ phase[r] \in {"refused", "died"})
    /\ run[r] < MaxRuns
    /\ Goto(r, "extract")
    /\ run' = [run EXCEPT ![r] = @ + 1]
    /\ UNCHANGED <<tables, buffer, chunk, extraction, item, seen, id, name_to_id>>

\* provider.extract: each call may answer something else.  A chunk has a map
\* from names to ids of its own.
extract(r, x) ==
    /\ phase[r] = "extract"
    /\ chunk[r] <= NChunks
    /\ Goto(r, "resolve")
    /\ extraction' = [extraction EXCEPT ![r] = x]
    /\ item' = [item EXCEPT ![r] = 1]
    /\ name_to_id' = [name_to_id EXCEPT ![r] = [n \in Names |-> {}]]
    /\ UNCHANGED <<tables, buffer, run, chunk, seen, id>>

\* ORDER BY sim DESC LIMIT n: which of equally similar rows is not said.
Candidates(rows, name) ==
    { C \in SUBSET rows :
        /\ Cardinality(C) <= TRGM_CANDIDATE_LIMIT
        /\ C = rows \/ Cardinality(C) = TRGM_CANDIDATE_LIMIT
        /\ \A c \in C, e \in rows \ C : Trgm[name][c.name] >= Trgm[name][e.name] }

\* Mutation: insert_entity leaves name_emb NULL.
Merges_no_embedding(e, name) == FALSE

\* Both thresholds are cleared, the second by the vector the row was stored
\* with: an equal name may miss it.  The kind is not looked at.
Merges(e, name) ==
    /\ Trgm[name][e.name] >= TRGM_MERGE
    /\ <<Embed[name], e.name_emb>> \in Near

\* The first candidate that clears both, or else a new id.
fuzzy_match_entity(r) ==
    /\ phase[r] = "resolve"
    /\ item[r] <= NEntities(r)
    /\ r \in Resolvers
    /\ LET name == extraction[r].entities[item[r]].name
           rows == Visible(r, "entities")
       IN  \E C \in Candidates(rows, name) :
             LET hits == {e \in C : Merges(e, name)}
             IN  \/ /\ hits = {}
                    /\ id' = [id EXCEPT ![r] = <<r, run[r], chunk[r], item[r]>>]
                    /\ Goto(r, "insert")
                 \/ \E e \in hits :
                        /\ \A f \in hits : Trgm[name][e.name] >= Trgm[name][f.name]
                        /\ id' = [id EXCEPT ![r] = e.id]
                        /\ Goto(r, "link")
    /\ seen' = [seen EXCEPT ![r] = Visible(r, "entities")]
    /\ UNCHANGED <<tables, buffer, progress, name_to_id>>

\* ingest_extracted resolves nothing: the fixture names the id.
load_entity(r) ==
    /\ phase[r] = "resolve"
    /\ item[r] <= NEntities(r)
    /\ r \in Loaders
    /\ id' = [id EXCEPT ![r] = <<r, run[r], chunk[r], item[r]>>]
    /\ Goto(r, "insert")
    /\ UNCHANGED <<tables, buffer, progress, seen, name_to_id>>

\* Mutation: the INSERT does not wait for an uncommitted row of its key.
insert_entity_unwaiting(r) ==
    /\ phase[r] = "insert"
    /\ IF \E e \in Visible(r, "entities") : SameKey(e, NextEntity(r))
       THEN UNCHANGED <<tables, buffer>>
       ELSE Write(r, "entities", NextEntity(r))
    /\ Goto(r, "link")
    /\ UNCHANGED local

\* INSERT ... ON CONFLICT (namespace, name, kind) DO NOTHING.  The caller is
\* not told whether a row was written.
insert_entity(r) ==
    /\ phase[r] = "insert"
    /\ ~Blocked(r)
    /\ IF \E e \in Visible(r, "entities") : SameKey(e, NextEntity(r))
       THEN UNCHANGED <<tables, buffer>>
       ELSE Write(r, "entities", NextEntity(r))
    /\ Goto(r, "link")
    /\ UNCHANGED local

IsEntity(r, i) == \E e \in Visible(r, "entities") : e.id = i

\* name_to_id.insert, and on to the next entity.
Resolved(r) ==
    /\ LET name == extraction[r].entities[item[r]].name
       IN  name_to_id' = [name_to_id EXCEPT ![r][name] = {id[r]}]
    /\ Goto(r, "resolve")
    /\ item' = [item EXCEPT ![r] = @ + 1]
    /\ UNCHANGED <<run, chunk, extraction, seen, id>>

\* Mutation: a link whose entity is missing is left out.
insert_chunk_entity_lenient(r) ==
    /\ phase[r] = "link"
    /\ IF IsEntity(r, id[r])
       THEN Write(r, "chunk_entities", [chunk |-> <<r, run[r], chunk[r]>>, entity |-> id[r]])
       ELSE UNCHANGED <<tables, buffer>>
    /\ Resolved(r)

\* Mutation: chunk_entities.entity_id without a foreign key.
insert_chunk_entity_unchecked(r) ==
    /\ phase[r] = "link"
    /\ Write(r, "chunk_entities", [chunk |-> <<r, run[r], chunk[r]>>, entity |-> id[r]])
    /\ Resolved(r)

\* The foreign key refuses an id without a row: the transaction is gone.
insert_chunk_entity(r) ==
    /\ phase[r] = "link"
    /\ \/ /\ IsEntity(r, id[r])
          /\ Write(r, "chunk_entities", [chunk |-> <<r, run[r], chunk[r]>>, entity |-> id[r]])
          /\ Resolved(r)
       \/ /\ ~IsEntity(r, id[r])
          /\ Discard(r)
          /\ End(r, "refused")

\* A fixture need not link the entity to a chunk.
load_no_link(r) ==
    /\ phase[r] = "link"
    /\ r \in Loaders
    /\ Resolved(r)
    /\ UNCHANGED <<tables, buffer>>

NextItem(r) ==
    /\ item' = [item EXCEPT ![r] = @ + 1]
    /\ UNCHANGED <<phase, run, chunk, extraction, seen, id, name_to_id>>

\* A relationship between names that were not both extracted is dropped.
\* The foreign keys refuse an endpoint without a row.
insert_relationship(r) ==
    /\ AtRelationship(r)
    /\ ~Blocked(r)
    /\ \/ /\ Endpoints(r) = {}
          /\ NextItem(r)
          /\ UNCHANGED <<tables, buffer>>
       \/ \E p \in Endpoints(r) :
            \/ /\ IsEntity(r, p[1]) /\ IsEntity(r, p[2])
               /\ NextItem(r)
               /\ IF [src |-> p[1], dst |-> p[2]] \in Visible(r, "relationships")
                  THEN UNCHANGED <<tables, buffer>>
                  ELSE Write(r, "relationships", [src |-> p[1], dst |-> p[2]])
            \/ /\ ~(IsEntity(r, p[1]) /\ IsEntity(r, p[2]))
               /\ Discard(r)
               /\ End(r, "refused")

next_chunk(r) ==
    /\ phase[r] = "resolve"
    /\ item[r] > NEntities(r) + Len(extraction[r].relationships)
    /\ Goto(r, "extract")
    /\ chunk' = [chunk EXCEPT ![r] = @ + 1]
    /\ UNCHANGED <<tables, buffer, run, extraction, item, seen, id, name_to_id>>

-----------------------------------------------------------------------------
(* The end of the transaction                                                *)

commit(r) ==
    /\ phase[r] = "extract"
    /\ chunk[r] > NChunks
    /\ Publish(r)
    /\ End(r, "committed")

\* The provider, or the embedding of an entity name, fails: run_job returns
\* Err, and the bgworker's transaction commits what was written so far.
commit_after_err(r) ==
    /\ r \in Resolvers
    /\ \/ phase[r] = "extract" /\ chunk[r] <= NChunks
       \/ phase[r] = "resolve" /\ item[r] <= NEntities(r)
    /\ Publish(r)
    /\ End(r, "failed")

\* Mutation: no deadlock detection.
deadlock_timeout_never(r) == FALSE /\ UNCHANGED vars

deadlock_timeout(r) ==
    /\ Deadlocked(r)
    /\ Discard(r)
    /\ End(r, "refused")

\* The process is gone; or the fixture has a line that does not parse.
die(r) ==
    /\ phase[r] \in Open
    /\ Discard(r)
    /\ End(r, "died")

-----------------------------------------------------------------------------

Step(r) ==
    \/ \E x \in Extractions : extract(r, x)
    \/ fuzzy_match_entity(r)
    \/ load_entity(r)
    \/ insert_entity(r)
    \/ insert_chunk_entity(r)
    \/ load_no_link(r)
    \/ insert_relationship(r)
    \/ next_chunk(r)
    \/ commit(r)
    \/ deadlock_timeout(r)

Next == \E r \in Runs :
    \/ begin(r)
    \/ Step(r)
    \/ commit_after_err(r)
    \/ die(r)

Spec == Init /\ [][Next]_vars

\* PostgreSQL schedules every backend, wakes the waiter of a transaction that
\* ended, and looks for deadlocks after deadlock_timeout.
FairSpec == Spec /\ \A r \in Runs : WF_vars(Step(r))

-----------------------------------------------------------------------------
(* Properties *)

RowsTyped(t) ==
    /\ t \in [TableName -> SUBSET (Entity \union Link \union Relation)]
    /\ t["entities"] \subseteq Entity
    /\ t["chunk_entities"] \subseteq Link
    /\ t["relationships"] \subseteq Relation

\* Every variable has its type, and a run that inserts or links an entity is
\* at one of its extraction.
TypeOK ==
    /\ RowsTyped(tables)
    /\ buffer \in [Runs -> [TableName -> SUBSET (Entity \union Link \union Relation)]]
    /\ \A r \in Runs : RowsTyped(buffer[r])
    /\ phase \in [Runs -> Open \union Ended \union {"queued"}]
    /\ run \in [Runs -> 0..MaxRuns]
    /\ chunk \in [Runs -> Nat]
    /\ extraction \in [Runs -> Extractions \union {Nothing}]
    /\ item \in [Runs -> Nat \ {0}]
    /\ \A r \in Runs : phase[r] \in {"insert", "link"} => item[r] <= NEntities(r)
    /\ seen \in [Runs -> SUBSET Entity]
    /\ id \in [Runs -> Id]
    /\ name_to_id \in [Runs -> [Names -> SUBSET Id]]

\* No two committed entities have the same name and kind, unless the kind is
\* NULL, and an uncommitted one has its key to itself: COMMIT never brings a
\* second row of a key.
OneRowPerKey ==
    /\ \A e, f \in tables["entities"] : SameKey(e, f) => e = f
    /\ \A r \in Runs : \A e \in buffer[r]["entities"] :
           /\ \A f \in tables["entities"] : ~SameKey(e, f)
           /\ \A s \in Runs : \A f \in buffer[s]["entities"] : SameKey(e, f) => s = r /\ e = f

Points(t, entities) ==
    /\ \A l \in t["chunk_entities"] : \E e \in entities : e.id = l.entity
    /\ \A p \in t["relationships"] :
           /\ \E e \in entities : e.id = p.src
           /\ \E e \in entities : e.id = p.dst

\* Every link and every relationship, committed or not, points at entities
\* that are committed or written by the same transaction, although a minted
\* id may have lost its row to ON CONFLICT DO NOTHING and a failed job
\* commits what it wrote.
ReferencesHold ==
    /\ Points(tables, tables["entities"])
    /\ \A r \in Runs : Points(buffer[r], Visible(r, "entities"))

\* A job that commits linked every entity of its last chunk to a row the
\* mention resolves to, and stored every relationship between two of them:
\* no conflict, wait or lost id makes Ok lose one.
ChunksAreLinked ==
    [][ \A r \in Resolvers : (phase[r] = "resolve" /\ phase'[r] = "extract") =>
          /\ \A i \in 1..NEntities(r) : \E e \in Visible(r, "entities") :
                /\ [chunk |-> <<r, run[r], chunk[r]>>, entity |-> e.id]
                       \in Visible(r, "chunk_entities")
                /\ Merges(e, extraction[r].entities[i].name)
          /\ \A i \in 1..Len(extraction[r].relationships) :
                LET pair == extraction[r].relationships[i]
                    Mentioned(n) == \E j \in 1..NEntities(r) : extraction[r].entities[j].name = n
                    Is(n, e) == \E f \in Visible(r, "entities") : f.id = e /\ Merges(f, n)
                IN  (Mentioned(pair[1]) /\ Mentioned(pair[2])) =>
                      \E p \in Visible(r, "relationships") : Is(pair[1], p.src) /\ Is(pair[2], p.dst)
      ]_vars

\* More rows than the candidate query returns are as similar as a merge asks.
Crowded(rows, name) ==
    Cardinality({e \in rows : Trgm[name][e.name] >= TRGM_MERGE}) > TRGM_CANDIDATE_LIMIT

\* A row of a fixture, of a vector the name's own is not close to.
Distant(e, name) == e.id[1] \in Loaders /\ <<Embed[name], e.name_emb>> \notin Near

\* A job loses its transaction over an entity only to a rival that committed
\* the same name and kind after the job had looked for it, or to a fixture's
\* row of that key and a distant vector, which refuses every job that names
\* it.  A row some job stored never does: what the lookup could see of those
\* is merged and not inserted again (unless similar names crowd it out of
\* the candidates).
RefusedByRivalOrFixture ==
    [][ \A r \in Resolvers :
          (phase[r] = "link" /\ phase'[r] = "refused")
              => \/ Crowded(seen[r], NextEntity(r).name)
                 \/ \E e \in tables["entities"] :
                        /\ SameKey(e, NextEntity(r))
                        /\ e \notin seen[r] \/ Distant(e, NextEntity(r).name) ]_vars

\* The store the unit tests run against is a fair stand-in for the writes of
\* the adapters: rows reach the tables in one step, at the end of the
\* transaction that wrote them.  Of its reads this says nothing.
Store == INSTANCE GraphStore WITH
    Clients <- Runs, Tables <- TableName
ImplementsGraphStore == Store!Spec

\* No run waits forever: INSERTs that wait for each other's keys, in
\* whichever order their chunks name them, end with one of them aborted.
EveryRunEnds == \A r \in Runs : phase[r] \in Open ~> phase[r] \in Ended
=============================================================================
