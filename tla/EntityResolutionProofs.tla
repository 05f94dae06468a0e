----------------------- MODULE EntityResolutionProofs -----------------------
(***************************************************************************)
(* Theorems about EntityResolution, for every set of jobs, fixture loads,  *)
(* names and kinds, every similarity and all that a provider may extract.  *)
(***************************************************************************)
EXTENDS EntityResolution, TLAPS, FiniteSetTheorems

USE EntityAssumption

-----------------------------------------------------------------------------
(* What the three ways to change the tables do                               *)

(* A row that is written keeps the rows typed.                              *)
LEMMA WriteTyped ==
    ASSUME TypeOK, NEW r \in Runs, NEW t \in TableName, NEW row, Write(r, t, row),
           \/ t = "entities" /\ row \in Entity
           \/ t = "chunk_entities" /\ row \in Link
           \/ t = "relationships" /\ row \in Relation
    PROVE  /\ RowsTyped(tables')
           /\ buffer' \in [Runs -> [TableName -> SUBSET (Entity \union Link \union Relation)]]
           /\ \A s \in Runs : RowsTyped(buffer'[s])
  BY DEF TypeOK, Write, RowsTyped, TableName

(* COMMIT and ROLLBACK keep the rows typed.                                 *)
LEMMA EndTyped ==
    ASSUME TypeOK, NEW r \in Runs, Publish(r) \/ Discard(r)
    PROVE  /\ RowsTyped(tables')
           /\ buffer' \in [Runs -> [TableName -> SUBSET (Entity \union Link \union Relation)]]
           /\ \A s \in Runs : RowsTyped(buffer'[s])
<1>1. RowsTyped(Empty)
  BY DEF RowsTyped, Empty, TableName
<1>2. CASE Discard(r)
  BY <1>1, <1>2 DEF TypeOK, Discard, RowsTyped
<1>3. CASE Publish(r)
  <2>1. RowsTyped(tables')
    BY <1>3 DEF TypeOK, Publish, RowsTyped, TableName
  <2>2. QED
    BY <1>1, <1>3, <2>1 DEF TypeOK, Publish, RowsTyped
<1>4. QED
  BY <1>2, <1>3

(* The variables of the job that ends keep their types.                     *)
LEMMA ScopeEnds ==
    ASSUME TypeOK, NEW r \in Runs, NEW p \in Ended, End(r, p)
    PROVE  /\ phase' \in [Runs -> Open \union Ended \union {"queued"}]
           /\ run' \in [Runs -> 0..MaxRuns]
           /\ chunk' \in [Runs -> Nat]
           /\ extraction' \in [Runs -> Extractions \union {Nothing}]
           /\ item' \in [Runs -> Nat \ {0}]
           /\ \A s \in Runs : phase'[s] \in {"insert", "link"} => item'[s] <= Len(extraction'[s].entities)
           /\ seen' \in [Runs -> SUBSET Entity]
           /\ id' \in [Runs -> Id]
           /\ name_to_id' \in [Runs -> [Names -> SUBSET Id]]
  BY DEF TypeOK, End, Goto, Open, Ended, NEntities, Id

(* An entity of an extraction has a name and a kind; its row is typed.      *)
LEMMA MentionTyped ==
    ASSUME TypeOK, NEW r \in Runs, item[r] <= NEntities(r)
    PROVE  /\ extraction[r].entities[item[r]] \in Mention
           /\ NextEntity(r) \in Entity
<1>0. extraction[r] # Nothing
  <2>1. Nothing.entities = <<>> /\ Len(<<>>) = 0
    BY DEF Nothing
  <2>2. item[r] \in Nat \ {0}
    BY DEF TypeOK
  <2>3. QED
    BY <2>1, <2>2 DEF NEntities
<1>1. extraction[r] \in [entities : Seq(Mention), relationships : Seq(Names \X Names)]
  BY <1>0 DEF TypeOK
<1>2. extraction[r].entities \in Seq(Mention)
  BY <1>1
<1>3. extraction[r].entities[item[r]] \in Mention
  BY <1>2 DEF TypeOK, NEntities
<1>4. /\ id[r] \in Id
      /\ Embed[extraction[r].entities[item[r]].name] \in Embeddings
      /\ r \in Loaders => Fixture[r][extraction[r].entities[item[r]]] \in Embeddings
  <2>1. id[r] \in Id
    BY DEF TypeOK
  <2>2. \A m \in Mention : m.name \in Names
    BY DEF Mention
  <2>3. QED
    BY <1>3, <2>1, <2>2
<1>5. QED
  BY <1>3, <1>4 DEF NextEntity, Entity, Mention

(* What an INSERT finds in the tables is typed.                             *)
LEMMA VisibleTyped ==
    ASSUME TypeOK, NEW r \in Runs
    PROVE  Visible(r, "entities") \subseteq Entity
  BY DEF TypeOK, Visible, RowsTyped

(* Every step keeps the types: one step per action.                         *)
LEMMA TypeStep ==
    ASSUME TypeOK, [Next]_vars
    PROVE  TypeOK'
<1> USE DEF Open, Ended, Goto
<1>1. ASSUME NEW r \in Runs, begin(r) PROVE TypeOK'
  BY <1>1 DEF begin, TypeOK, NEntities
<1>2. ASSUME NEW r \in Runs, NEW x \in Extractions, extract(r, x) PROVE TypeOK'
  <2>1. /\ phase' \in [Runs -> Open \union Ended \union {"queued"}]
        /\ extraction' \in [Runs -> Extractions \union {Nothing}]
        /\ item' \in [Runs -> Nat \ {0}]
        /\ name_to_id' \in [Runs -> [Names -> SUBSET Id]]
    BY <1>2 DEF extract, TypeOK
  <2>2. phase'[r] = "resolve"
    BY <1>2 DEF extract, TypeOK
  <2>3. \A s \in Runs \ {r} : phase'[s] = phase[s] /\ item'[s] = item[s] /\ extraction'[s] = extraction[s]
    BY <1>2 DEF extract, TypeOK
  <2>4. \A s \in Runs : phase'[s] \in {"insert", "link"} => item'[s] <= Len(extraction'[s].entities)
    BY <2>2, <2>3 DEF TypeOK, NEntities
  <2>5. QED
    BY <1>2, <2>1, <2>4 DEF extract, TypeOK, NEntities
<1>3. ASSUME NEW r \in Runs, fuzzy_match_entity(r) PROVE TypeOK'
  <2>1. Visible(r, "entities") \subseteq Entity
    BY VisibleTyped
  <2>2. <<r, run[r], chunk[r], item[r]>> \in Id
    BY DEF Id, TypeOK
  <2>3. \A C \in Candidates(Visible(r, "entities"), extraction[r].entities[item[r]].name) :
            C \subseteq Entity
    BY <2>1 DEF Candidates
  <2>4. \A e \in Entity : e.id \in Id
    BY DEF Entity
  <2>5. /\ id' \in [Runs -> Id]
        /\ phase' \in [Runs -> Open \union Ended \union {"queued"}]
        /\ phase'[r] \in {"insert", "link"}
        /\ \A s \in Runs \ {r} : phase'[s] = phase[s]
    <3>1. PICK i \in Id, p \in {"insert", "link"} : id' = [id EXCEPT ![r] = i] /\ Goto(r, p)
      BY <1>3, <2>2, <2>3, <2>4 DEF fuzzy_match_entity
    <3>2. QED
      BY <3>1 DEF TypeOK
  <2>6. QED
    BY <1>3, <2>1, <2>5 DEF fuzzy_match_entity, TypeOK, progress, NEntities
<1>4. ASSUME NEW r \in Runs, load_entity(r) PROVE TypeOK'
  <2>1. <<r, run[r], chunk[r], item[r]>> \in Id
    BY DEF Id, TypeOK
  <2>2. QED
    BY <1>4, <2>1 DEF load_entity, TypeOK, progress, NEntities
<1>5. ASSUME NEW r \in Runs, insert_entity(r) PROVE TypeOK'
  <2>1. NextEntity(r) \in Entity
    BY <1>5, MentionTyped DEF insert_entity, TypeOK
  <2>2. CASE UNCHANGED <<tables, buffer>>
    BY <1>5, <2>2 DEF insert_entity, TypeOK, local, progress, NEntities
  <2>3. CASE Write(r, "entities", NextEntity(r))
    <3>1. /\ RowsTyped(tables')
          /\ buffer' \in [Runs -> [TableName -> SUBSET (Entity \union Link \union Relation)]]
          /\ \A s \in Runs : RowsTyped(buffer'[s])
      BY <2>1, <2>3, WriteTyped DEF TableName
    <3>2. QED
      BY <1>5, <3>1 DEF insert_entity, TypeOK, local, progress, NEntities
  <2>4. QED
    BY <1>5, <2>2, <2>3 DEF insert_entity
<1>6. ASSUME NEW r \in Runs, phase[r] = "link", Resolved(r)
      PROVE  /\ phase' \in [Runs -> Open \union Ended \union {"queued"}]
             /\ run' \in [Runs -> 0..MaxRuns]
             /\ chunk' \in [Runs -> Nat]
             /\ extraction' \in [Runs -> Extractions \union {Nothing}]
             /\ item' \in [Runs -> Nat \ {0}]
             /\ \A s \in Runs : phase'[s] \in {"insert", "link"} => item'[s] <= Len(extraction'[s].entities)
             /\ seen' \in [Runs -> SUBSET Entity]
             /\ id' \in [Runs -> Id]
             /\ name_to_id' \in [Runs -> [Names -> SUBSET Id]]
  <2>1. extraction[r].entities[item[r]].name \in Names
    BY <1>6, MentionTyped DEF TypeOK, Mention
  <2>2. QED
    BY <1>6, <2>1 DEF Resolved, TypeOK, NEntities
<1>7. ASSUME NEW r \in Runs, insert_chunk_entity(r) PROVE TypeOK'
  <2>1. CASE IsEntity(r, id[r])
    <3>1. [chunk |-> <<r, run[r], chunk[r]>>, entity |-> id[r]] \in Link
      BY DEF Link, TypeOK
    <3>2. /\ RowsTyped(tables')
          /\ buffer' \in [Runs -> [TableName -> SUBSET (Entity \union Link \union Relation)]]
          /\ \A s \in Runs : RowsTyped(buffer'[s])
      BY <1>7, <2>1, <3>1, WriteTyped DEF insert_chunk_entity, TableName
    <3>3. QED
      BY <1>6, <1>7, <2>1, <3>2 DEF insert_chunk_entity, TypeOK, NEntities
  <2>2. CASE ~IsEntity(r, id[r])
    BY <1>7, <2>2, ScopeEnds, EndTyped DEF insert_chunk_entity, TypeOK, NEntities
  <2>3. QED
    BY <2>1, <2>2
<1>8. ASSUME NEW r \in Runs, load_no_link(r) PROVE TypeOK'
  BY <1>6, <1>8 DEF load_no_link, TypeOK, NEntities
<1>9. ASSUME NEW r \in Runs, insert_relationship(r) PROVE TypeOK'
  <2>1. ASSUME NextItem(r), phase[r] = "resolve",
               RowsTyped(tables'),
               buffer' \in [Runs -> [TableName -> SUBSET (Entity \union Link \union Relation)]],
               \A s \in Runs : RowsTyped(buffer'[s])
        PROVE  TypeOK'
    BY <2>1 DEF NextItem, TypeOK, NEntities
  <2>2. CASE NextItem(r) /\ UNCHANGED <<tables, buffer>>
    BY <1>9, <2>1, <2>2 DEF insert_relationship, AtRelationship, TypeOK
  <2>3. ASSUME NEW p \in Endpoints(r), IsEntity(r, p[1]), IsEntity(r, p[2]), NextItem(r),
               Write(r, "relationships", [src |-> p[1], dst |-> p[2]])
        PROVE  TypeOK'
    <3>1. p[1] \in Id /\ p[2] \in Id
      BY <2>3, VisibleTyped DEF IsEntity, Entity
    <3>2. [src |-> p[1], dst |-> p[2]] \in Relation
      BY <3>1 DEF Relation
    <3>3. /\ RowsTyped(tables')
          /\ buffer' \in [Runs -> [TableName -> SUBSET (Entity \union Link \union Relation)]]
          /\ \A s \in Runs : RowsTyped(buffer'[s])
      BY <2>3, <3>2, WriteTyped DEF TableName
    <3>4. QED
      BY <1>9, <2>1, <2>3, <3>3 DEF insert_relationship, AtRelationship
  <2>4. CASE Discard(r) /\ End(r, "refused")
    BY <2>4, ScopeEnds, EndTyped DEF TypeOK, NEntities
  <2>5. QED
    BY <1>9, <2>2, <2>3, <2>4 DEF insert_relationship
<1>10. ASSUME NEW r \in Runs, next_chunk(r) PROVE TypeOK'
  BY <1>10 DEF next_chunk, TypeOK, NEntities
<1>11. ASSUME NEW r \in Runs, commit(r) \/ commit_after_err(r) PROVE TypeOK'
  BY <1>11, ScopeEnds, EndTyped DEF commit, commit_after_err, TypeOK, NEntities
<1>12. ASSUME NEW r \in Runs, deadlock_timeout(r) \/ die(r) PROVE TypeOK'
  BY <1>12, ScopeEnds, EndTyped DEF deadlock_timeout, die, TypeOK, NEntities
<1>13. CASE UNCHANGED vars
  BY <1>13 DEF vars, TypeOK, NEntities
<1>14. QED
  BY <1>1, <1>2, <1>3, <1>4, <1>5, <1>7, <1>8, <1>9, <1>10, <1>11, <1>12, <1>13 DEF Next, Step

(* Every variable keeps its type.                                           *)
THEOREM EntityTypeCorrect == Spec => []TypeOK
<1>1. Init => TypeOK
  BY DEF Init, TypeOK, RowsTyped, Empty, TableName, Open, Ended, Id, NEntities
<1>2. QED
  BY <1>1, TypeStep, PTL DEF Spec

-----------------------------------------------------------------------------
(* What each step does to the tables.  The invariants below speak of        *)
(* tables and buffer only, so four cases stand for the eleven actions.      *)

\* A row of entities that nobody's row contradicts; a link to, or a
\* relationship between, entities the run can see.
Inserts(r, t, row) ==
    /\ Write(r, t, row)
    /\ \/ /\ t = "entities"
          /\ phase[r] = "insert" /\ row = NextEntity(r)
          /\ \A e \in Visible(r, "entities") : ~SameKey(e, row)
          /\ \A s \in Runs \ {r} : \A e \in buffer[s]["entities"] : ~SameKey(e, row)
       \/ t = "chunk_entities" /\ IsEntity(r, row.entity)
       \/ t = "relationships" /\ IsEntity(r, row.src) /\ IsEntity(r, row.dst)

LEMMA TableStep ==
    ASSUME TypeOK, [Next]_vars
    PROVE  \/ UNCHANGED <<tables, buffer>>
           \/ \E r \in Runs : Publish(r) \/ Discard(r)
           \/ \E r \in Runs : \E t \in TableName : \E row : Inserts(r, t, row)
<1> DEFINE Goal ==
        \/ UNCHANGED <<tables, buffer>>
        \/ \E r \in Runs : Publish(r) \/ Discard(r)
        \/ \E r \in Runs : \E t \in TableName : \E row : Inserts(r, t, row)
<1>1. ASSUME NEW r \in Runs, insert_entity(r) PROVE Goal
  <2>1. ASSUME Write(r, "entities", NextEntity(r)),
               \A e \in Visible(r, "entities") : ~SameKey(e, NextEntity(r))
        PROVE  Inserts(r, "entities", NextEntity(r))
    BY <1>1, <2>1 DEF insert_entity, Blocked, WaitsFor, Inserts
  <2>2. QED
    BY <1>1, <2>1 DEF insert_entity, TableName
<1>2. ASSUME NEW r \in Runs, insert_chunk_entity(r) PROVE Goal
  <2>1. ASSUME IsEntity(r, id[r])
        PROVE  Inserts(r, "chunk_entities", [chunk |-> <<r, run[r], chunk[r]>>, entity |-> id[r]])
    BY <1>2, <2>1 DEF insert_chunk_entity, Inserts
  <2>2. QED
    BY <1>2, <2>1 DEF insert_chunk_entity, TableName
<1>3. ASSUME NEW r \in Runs, insert_relationship(r) PROVE Goal
  <2>1. ASSUME NEW p \in Endpoints(r), IsEntity(r, p[1]), IsEntity(r, p[2]),
               Write(r, "relationships", [src |-> p[1], dst |-> p[2]])
        PROVE  Inserts(r, "relationships", [src |-> p[1], dst |-> p[2]])
    BY <2>1 DEF Inserts
  <2>2. QED
    BY <1>3, <2>1 DEF insert_relationship, TableName
<1>4. ASSUME NEW r \in Runs,
             commit(r) \/ commit_after_err(r) \/ deadlock_timeout(r) \/ die(r)
      PROVE  Goal
  BY <1>4 DEF commit, commit_after_err, deadlock_timeout, die
<1>5. ASSUME NEW r \in Runs,
             \/ begin(r) \/ \E x \in Extractions : extract(r, x)
             \/ fuzzy_match_entity(r) \/ load_entity(r) \/ load_no_link(r) \/ next_chunk(r)
      PROVE  Goal
  BY <1>5 DEF begin, extract, fuzzy_match_entity, load_entity, load_no_link, next_chunk
<1>6. CASE UNCHANGED vars
  BY <1>6 DEF vars
<1>7. QED
  BY <1>1, <1>2, <1>3, <1>4, <1>5, <1>6 DEF Next, Step

-----------------------------------------------------------------------------

EntityInv == TypeOK /\ OneRowPerKey /\ ReferencesHold

(* An entity is inserted when no row, visible or another run's, has its     *)
(* key; a commit keeps keys single because the waiting has kept the         *)
(* uncommitted rows of two runs apart.                                      *)
LEMMA KeyStep ==
    ASSUME TypeOK, OneRowPerKey, [Next]_vars
    PROVE  OneRowPerKey'
<1>1. CASE UNCHANGED <<tables, buffer>>
  BY <1>1 DEF OneRowPerKey
<1>2. ASSUME NEW r \in Runs, Discard(r) PROVE OneRowPerKey'
  <2>1. /\ tables' = tables
        /\ \A s \in Runs : buffer'[s]["entities"] \subseteq buffer[s]["entities"]
    BY <1>2 DEF Discard, Empty, TableName, TypeOK
  <2>2. QED
    BY <2>1 DEF OneRowPerKey
<1>3. ASSUME NEW r \in Runs, Publish(r) PROVE OneRowPerKey'
  <2>1. /\ tables'["entities"] = tables["entities"] \union buffer[r]["entities"]
        /\ buffer'[r]["entities"] = {}
        /\ \A s \in Runs \ {r} : buffer'[s] = buffer[s]
    BY <1>3 DEF Publish, Empty, TableName, TypeOK
  <2>2. \A e, f : SameKey(e, f) => SameKey(f, e)
    BY DEF SameKey
  <2>3. \A e, f \in tables["entities"] \union buffer[r]["entities"] : SameKey(e, f) => e = f
    BY <2>2 DEF OneRowPerKey
  <2>4. ASSUME NEW s \in Runs, NEW e \in buffer'[s]["entities"]
        PROVE  /\ s # r /\ e \in buffer[s]["entities"]
               /\ \A f \in tables["entities"] \union buffer[r]["entities"] : ~SameKey(e, f)
               /\ \A q \in Runs : \A f \in buffer'[q]["entities"] : SameKey(e, f) => q = s /\ e = f
    <3>1. s # r /\ e \in buffer[s]["entities"]
      BY <2>1, <2>4
    <3>2. QED
      BY <2>1, <2>4, <3>1 DEF OneRowPerKey
  <2>5. QED
    BY <2>1, <2>3, <2>4 DEF OneRowPerKey
<1>4. ASSUME NEW r \in Runs, NEW t \in TableName, NEW row, Inserts(r, t, row)
      PROVE  OneRowPerKey'
  <2>1. CASE t = "entities"
    <3>1. /\ tables' = tables
          /\ buffer'[r]["entities"] = buffer[r]["entities"] \union {row}
          /\ \A s \in Runs \ {r} : buffer'[s] = buffer[s]
      <4>1. tables' = tables /\ buffer' = [buffer EXCEPT ![r]["entities"] = @ \union {row}]
        BY <1>4, <2>1 DEF Inserts, Write
      <4>2. QED
        BY <4>1 DEF TypeOK, TableName
    <3>2. /\ \A e \in tables["entities"] \union buffer[r]["entities"] : ~SameKey(e, row)
          /\ \A s \in Runs \ {r} : \A e \in buffer[s]["entities"] : ~SameKey(e, row)
      BY <1>4, <2>1 DEF Inserts, Visible
    <3>3. \A e, f : SameKey(e, f) => SameKey(f, e)
      BY DEF SameKey
    <3>4. \A e, f \in tables'["entities"] : SameKey(e, f) => e = f
      BY <3>1 DEF OneRowPerKey
    <3>5. ASSUME NEW s \in Runs, NEW e \in buffer'[s]["entities"]
          PROVE  /\ \A f \in tables'["entities"] : ~SameKey(e, f)
                 /\ \A q \in Runs : \A f \in buffer'[q]["entities"] : SameKey(e, f) => q = s /\ e = f
      <4>1. CASE s = r /\ e = row
        BY <3>1, <3>2, <3>3, <4>1
      <4>2. CASE ~(s = r /\ e = row)
        <5>1. e \in buffer[s]["entities"]
          BY <3>1, <3>5, <4>2
        <5>2. \A f \in tables["entities"] : ~SameKey(e, f)
          BY <5>1 DEF OneRowPerKey
        <5>3. ~SameKey(e, row)
          BY <3>2, <5>1
        <5>4. ASSUME NEW q \in Runs, NEW f \in buffer'[q]["entities"], SameKey(e, f)
              PROVE  q = s /\ e = f
          <6>1. f \in buffer[q]["entities"]
            BY <3>1, <5>3, <5>4
          <6>2. QED
            BY <5>1, <5>4, <6>1 DEF OneRowPerKey
        <5>5. QED
          BY <3>1, <5>2, <5>4
      <4>3. QED
        BY <4>1, <4>2
    <3>6. QED
      BY <3>4, <3>5 DEF OneRowPerKey
  <2>2. CASE t # "entities"
    <3>1. /\ tables' = tables
          /\ \A s \in Runs : buffer'[s]["entities"] = buffer[s]["entities"]
      BY <1>4, <2>2 DEF Inserts, Write, TypeOK, TableName
    <3>2. QED
      BY <3>1 DEF OneRowPerKey
  <2>3. QED
    BY <2>1, <2>2
<1>5. QED
  BY <1>1, <1>2, <1>3, <1>4, TableStep

(* Rows reach the tables together with the entities they point at, and no   *)
(* step takes a committed entity away.                                      *)
LEMMA PointStep ==
    ASSUME TypeOK, ReferencesHold, [Next]_vars
    PROVE  ReferencesHold'
<1> USE DEF Points, Visible
<1>1. CASE UNCHANGED <<tables, buffer>>
  BY <1>1 DEF ReferencesHold
<1>2. ASSUME NEW r \in Runs, Discard(r) PROVE ReferencesHold'
  <2>1. /\ tables' = tables
        /\ buffer'[r]["chunk_entities"] = {} /\ buffer'[r]["relationships"] = {}
        /\ \A s \in Runs \ {r} : buffer'[s] = buffer[s]
    BY <1>2 DEF Discard, Empty, TableName, TypeOK
  <2>2. \A s \in Runs : Points(buffer'[s], tables'["entities"] \union buffer'[s]["entities"])
    <3>1. ASSUME NEW s \in Runs \ {r}
          PROVE  Points(buffer'[s], tables'["entities"] \union buffer'[s]["entities"])
      <4>1. Points(buffer[s], tables["entities"] \union buffer[s]["entities"])
        BY <3>1 DEF ReferencesHold
      <4>2. QED
        BY <2>1, <3>1, <4>1
    <3>2. Points(buffer'[r], tables'["entities"] \union buffer'[r]["entities"])
      BY <2>1
    <3>3. QED
      BY <3>1, <3>2
  <2>3. QED
    BY <2>1, <2>2 DEF ReferencesHold
<1>3. ASSUME NEW r \in Runs, Publish(r) PROVE ReferencesHold'
  <2>1. /\ tables'["entities"] = tables["entities"] \union buffer[r]["entities"]
        /\ tables'["chunk_entities"] = tables["chunk_entities"] \union buffer[r]["chunk_entities"]
        /\ tables'["relationships"] = tables["relationships"] \union buffer[r]["relationships"]
        /\ buffer'[r]["chunk_entities"] = {} /\ buffer'[r]["relationships"] = {}
        /\ \A s \in Runs \ {r} : buffer'[s] = buffer[s]
    BY <1>3 DEF Publish, Empty, TableName, TypeOK
  <2>2. Points(tables', tables'["entities"])
    BY <2>1 DEF ReferencesHold
  <2>3. \A s \in Runs : Points(buffer'[s], tables'["entities"] \union buffer'[s]["entities"])
    <3>1. ASSUME NEW s \in Runs \ {r}
          PROVE  Points(buffer'[s], tables'["entities"] \union buffer'[s]["entities"])
      <4>1. Points(buffer[s], tables["entities"] \union buffer[s]["entities"])
        BY <3>1 DEF ReferencesHold
      <4>2. QED
        BY <2>1, <3>1, <4>1
    <3>2. Points(buffer'[r], tables'["entities"] \union buffer'[r]["entities"])
      BY <2>1
    <3>3. QED
      BY <3>1, <3>2
  <2>4. QED
    BY <2>2, <2>3 DEF ReferencesHold
<1>4. ASSUME NEW r \in Runs, NEW t \in TableName, NEW row, Inserts(r, t, row)
      PROVE  ReferencesHold'
  <2>1. /\ tables' = tables
        /\ buffer'[r][t] = buffer[r][t] \union {row}
        /\ \A u \in TableName \ {t} : buffer'[r][u] = buffer[r][u]
        /\ \A s \in Runs \ {r} : buffer'[s] = buffer[s]
    BY <1>4 DEF Inserts, Write, TypeOK, TableName
  <2>2. Points(buffer[r], tables["entities"] \union buffer[r]["entities"])
    BY DEF ReferencesHold
  <2>3. Points(buffer'[r], tables'["entities"] \union buffer'[r]["entities"])
    <3>1. CASE t = "entities"
      BY <2>1, <2>2, <3>1 DEF TableName
    <3>2. CASE t = "chunk_entities"
      <4>1. \E e \in tables["entities"] \union buffer[r]["entities"] : e.id = row.entity
        BY <1>4, <3>2 DEF Inserts, IsEntity
      <4>2. QED
        BY <2>1, <2>2, <3>2, <4>1 DEF TableName
    <3>3. CASE t = "relationships"
      <4>1. /\ \E e \in tables["entities"] \union buffer[r]["entities"] : e.id = row.src
            /\ \E e \in tables["entities"] \union buffer[r]["entities"] : e.id = row.dst
        BY <1>4, <3>3 DEF Inserts, IsEntity
      <4>2. QED
        BY <2>1, <2>2, <3>3, <4>1 DEF TableName
    <3>4. QED
      BY <3>1, <3>2, <3>3 DEF TableName
  <2>4. \A s \in Runs : Points(buffer'[s], tables'["entities"] \union buffer'[s]["entities"])
    <3>1. \A s \in Runs \ {r} : Points(buffer[s], tables["entities"] \union buffer[s]["entities"])
      BY DEF ReferencesHold
    <3>2. QED
      BY <2>1, <2>3, <3>1
  <2>5. QED
    BY <2>1, <2>4 DEF ReferencesHold
<1>5. QED
  BY <1>1, <1>2, <1>3, <1>4, TableStep

(* Both together are inductive: an id in use is never taken away.           *)
LEMMA EntityInvariant == Spec => []EntityInv
<1>1. Init => EntityInv
  <2>1. Init => TypeOK
    BY DEF Init, TypeOK, RowsTyped, Empty, TableName, Open, Ended, Id, NEntities
  <2>2. Init => OneRowPerKey /\ ReferencesHold
    BY DEF Init, Empty, TableName, OneRowPerKey, ReferencesHold, Points, Visible
  <2>3. QED
    BY <2>1, <2>2 DEF EntityInv
<1>2. EntityInv /\ [Next]_vars => EntityInv'
  BY TypeStep, KeyStep, PointStep DEF EntityInv
<1>3. QED
  BY <1>1, <1>2, PTL DEF Spec

(* No two committed entities share a name and a kind that is not NULL,      *)
(* whichever runs race.                                                     *)
THEOREM EntitiesAreSound == Spec => []OneRowPerKey
BY EntityInvariant, PTL DEF EntityInv

(* Every link and relationship points at entities, though a run may have     *)
(* been given the id of a row it did not insert.                            *)
THEOREM EntityReferencesHold == Spec => []ReferencesHold
BY EntityInvariant, PTL DEF EntityInv

(* The graph tables behave as the fake the unit tests use: a step inserts   *)
(* one row into one run's buffer, commits it or rolls it back, or changes   *)
(* nothing.                                                                 *)
THEOREM EntitiesImplementGraphStore == Spec => ImplementsGraphStore
<1>1. Init => Store!Init
  BY DEF Init, Store!Init, Store!NoRows, Empty
<1>2. TypeOK /\ [Next]_vars => [Store!Next]_(Store!vars)
  <2> SUFFICES ASSUME TypeOK, [Next]_vars PROVE [Store!Next]_(Store!vars)
    OBVIOUS
  <2>1. CASE UNCHANGED <<tables, buffer>>
    BY <2>1 DEF Store!vars
  <2>2. ASSUME NEW r \in Runs, Publish(r) PROVE Store!commit(r)
    BY <2>2 DEF Publish, Store!commit, Store!NoRows, Empty
  <2>3. ASSUME NEW r \in Runs, Discard(r) PROVE Store!rollback(r)
    BY <2>3 DEF Discard, Store!rollback, Store!NoRows, Empty
  <2>4. ASSUME NEW r \in Runs, NEW t \in TableName, NEW row, Inserts(r, t, row)
        PROVE  Store!Insert(r, t)
    <3>1. row \in buffer'[r][t]
      BY <2>4 DEF Inserts, Write, TypeOK
    <3>2. QED
      BY <2>4, <3>1 DEF Inserts, Write, Store!Insert
  <2>5. QED
    BY <2>1, <2>2, <2>3, <2>4, TableStep DEF Store!Next
<1>3. QED
  BY <1>1, <1>2, EntityTypeCorrect, PTL DEF Spec, ImplementsGraphStore, Store!Spec

-----------------------------------------------------------------------------
(* Lost races *)

\* A name is as similar to itself as a merge asks, and so is the vector the
\* embedder makes of it (it is not zero).
SelfSimilar == \A n \in Names : Trgm[n][n] >= TRGM_MERGE /\ <<Embed[n], Embed[n]>> \in Near

\* Every row of entities, committed or not.
Stored == tables["entities"] \union UNION {buffer[r]["entities"] : r \in Runs}

FiniteRows ==
    /\ IsFiniteSet(tables["entities"])
    /\ \A r \in Runs : IsFiniteSet(buffer[r]["entities"])

\* An id says which run minted it: the rows of a job have the vector its
\* embedder makes of the name, whoever reads them later.
MintedRows ==
    /\ \A e \in tables["entities"] : e.id[1] \in Resolvers => e.name_emb = Embed[e.name]
    /\ \A r \in Runs : \A e \in buffer[r]["entities"] :
          e.id[1] = r /\ (r \in Resolvers => e.name_emb = Embed[e.name])

Minted ==
    /\ MintedRows
    /\ \A r \in Runs : phase[r] = "insert" => id[r][1] = r

\* The key of the entity a run is about to write, or wrote, was not among the
\* rows its lookup selected from, though all its own were, except where a
\* fixture gave that key a distant vector.
LookedUp(r) ==
    phase[r] = "insert" =>
        /\ buffer[r]["entities"] \subseteq seen[r]
        /\ \/ Crowded(seen[r], NextEntity(r).name)
           \/ \A e \in seen[r] : SameKey(e, NextEntity(r)) => Distant(e, NextEntity(r).name)

\* A committed row of the key that the lookup missed, or could not merge.
RivalRow(r) == \E e \in tables["entities"] :
    SameKey(e, NextEntity(r)) /\ (e \notin seen[r] \/ Distant(e, NextEntity(r).name))

\* The row a run links to is there, or such a row has its key.
RowOrRival(r) ==
    phase[r] = "link" =>
        \/ IsEntity(r, id[r])
        \/ Crowded(seen[r], NextEntity(r).name)
        \/ RivalRow(r)

RaceInv == FiniteRows /\ Minted /\ \A r \in Resolvers : LookedUp(r) /\ RowOrRival(r)

Acts(s) == begin(s) \/ Step(s) \/ commit_after_err(s) \/ die(s)

(* The rows of entities stay finite, and a committed one stays.             *)
LEMMA RowsStayFinite ==
    ASSUME TypeOK, FiniteRows, [Next]_vars
    PROVE  FiniteRows' /\ tables["entities"] \subseteq tables'["entities"]
<1>1. CASE UNCHANGED <<tables, buffer>>
  BY <1>1 DEF FiniteRows
<1>2. ASSUME NEW r \in Runs, Discard(r)
      PROVE  FiniteRows' /\ tables["entities"] \subseteq tables'["entities"]
  <2>1. /\ tables' = tables
        /\ buffer'[r]["entities"] = {}
        /\ \A s \in Runs \ {r} : buffer'[s] = buffer[s]
    BY <1>2 DEF Discard, Empty, TableName, TypeOK
  <2>2. QED
    BY <2>1, FS_EmptySet DEF FiniteRows
<1>3. ASSUME NEW r \in Runs, Publish(r)
      PROVE  FiniteRows' /\ tables["entities"] \subseteq tables'["entities"]
  <2>1. /\ tables'["entities"] = tables["entities"] \union buffer[r]["entities"]
        /\ buffer'[r]["entities"] = {}
        /\ \A s \in Runs \ {r} : buffer'[s] = buffer[s]
    BY <1>3 DEF Publish, Empty, TableName, TypeOK
  <2>2. IsFiniteSet(tables'["entities"])
    <3>1. IsFiniteSet(tables["entities"] \union buffer[r]["entities"])
      <4>1. IsFiniteSet(tables["entities"]) /\ IsFiniteSet(buffer[r]["entities"])
        BY DEF FiniteRows
      <4>2. QED
        BY ONLY <4>1, FS_Union
    <3>2. QED
      BY <2>1, <3>1
  <2>3. QED
    BY <2>1, <2>2, FS_EmptySet DEF FiniteRows
<1>4. ASSUME NEW r \in Runs, NEW t \in TableName, NEW row, Inserts(r, t, row)
      PROVE  FiniteRows' /\ tables["entities"] \subseteq tables'["entities"]
  <2>1. /\ tables' = tables
        /\ buffer'[r]["entities"] \in {buffer[r]["entities"], buffer[r]["entities"] \union {row}}
        /\ \A s \in Runs \ {r} : buffer'[s] = buffer[s]
    BY <1>4 DEF Inserts, Write, TypeOK, TableName
  <2>2. IsFiniteSet(buffer'[r]["entities"])
    <3>1. IsFiniteSet(buffer[r]["entities"])
      BY DEF FiniteRows
    <3>2. IsFiniteSet(buffer[r]["entities"] \union {row})
      BY ONLY <3>1, FS_AddElement
    <3>3. QED
      BY <2>1, <3>1, <3>2
  <2>3. QED
    BY <2>1, <2>2 DEF FiniteRows
<1>5. QED
  BY <1>1, <1>2, <1>3, <1>4, TableStep

(* A step of one run leaves the variables of another alone.                 *)
LEMMA StepIsLocal ==
    ASSUME TypeOK, NEW s \in Runs, Acts(s), NEW r \in Runs \ {s}
    PROVE  /\ phase'[r] = phase[r] /\ buffer'[r] = buffer[r]
           /\ run'[r] = run[r] /\ chunk'[r] = chunk[r]
           /\ extraction'[r] = extraction[r] /\ item'[r] = item[r]
           /\ seen'[r] = seen[r] /\ id'[r] = id[r] /\ name_to_id'[r] = name_to_id[r]
<1> USE DEF TypeOK, Goto, local, progress
<1>1. ASSUME NEW p, End(s, p), Publish(s) \/ Discard(s)
      PROVE  /\ phase'[r] = phase[r] /\ buffer'[r] = buffer[r]
             /\ run'[r] = run[r] /\ chunk'[r] = chunk[r]
             /\ extraction'[r] = extraction[r] /\ item'[r] = item[r]
             /\ seen'[r] = seen[r] /\ id'[r] = id[r] /\ name_to_id'[r] = name_to_id[r]
  BY <1>1 DEF End, Publish, Discard
<1>2. CASE commit(s) \/ commit_after_err(s) \/ deadlock_timeout(s) \/ die(s)
  BY <1>1, <1>2 DEF commit, commit_after_err, deadlock_timeout, die
<1>3. CASE begin(s) \/ (\E x \in Extractions : extract(s, x)) \/ next_chunk(s)
  BY <1>3 DEF begin, extract, next_chunk
<1>4. CASE fuzzy_match_entity(s)
  BY <1>4 DEF fuzzy_match_entity
<1>5. CASE load_entity(s)
  BY <1>5 DEF load_entity
<1>6. CASE insert_entity(s)
  BY <1>6 DEF insert_entity, Write
<1>7. CASE insert_chunk_entity(s)
  <2>1. CASE Resolved(s) /\ Write(s, "chunk_entities", [chunk |-> <<s, run[s], chunk[s]>>, entity |-> id[s]])
    BY <2>1 DEF Resolved, Write
  <2>2. QED
    BY <1>1, <1>7, <2>1 DEF insert_chunk_entity
<1>8. CASE load_no_link(s)
  BY <1>8 DEF load_no_link, Resolved
<1>9. CASE insert_relationship(s)
  <2>1. CASE NextItem(s) /\ UNCHANGED <<tables, buffer>>
    BY <2>1 DEF NextItem
  <2>2. ASSUME NextItem(s), NEW row, Write(s, "relationships", row)
        PROVE  /\ phase'[r] = phase[r] /\ buffer'[r] = buffer[r]
               /\ run'[r] = run[r] /\ chunk'[r] = chunk[r]
               /\ extraction'[r] = extraction[r] /\ item'[r] = item[r]
               /\ seen'[r] = seen[r] /\ id'[r] = id[r] /\ name_to_id'[r] = name_to_id[r]
    BY <2>2 DEF NextItem, Write
  <2>3. QED
    BY <1>1, <1>9, <2>1, <2>2 DEF insert_relationship
<1>10. QED
  BY <1>2, <1>3, <1>4, <1>5, <1>6, <1>7, <1>8, <1>9 DEF Acts, Step

(* An id is minted by the run that inserts with it.                         *)
LEMMA IdStep ==
    ASSUME TypeOK, NEW r \in Runs, Acts(r), phase'[r] = "insert"
    PROVE  id'[r][1] = r
<1> USE DEF TypeOK, Goto
<1>1. CASE fuzzy_match_entity(r)
  <2>1. \/ Goto(r, "link")
        \/ id' = [id EXCEPT ![r] = <<r, run[r], chunk[r], item[r]>>]
    BY <1>1 DEF fuzzy_match_entity
  <2>2. ~Goto(r, "link")
    OBVIOUS
  <2>3. QED
    BY <2>1, <2>2
<1>2. CASE load_entity(r)
  BY <1>2 DEF load_entity
<1>3. ASSUME NEW p \in Ended, End(r, p) PROVE phase'[r] # "insert"
  BY <1>3 DEF End, Ended
<1>4. CASE commit(r) \/ commit_after_err(r) \/ deadlock_timeout(r) \/ die(r)
  BY <1>3, <1>4 DEF commit, commit_after_err, deadlock_timeout, die, Ended
<1>5. CASE begin(r) \/ (\E x \in Extractions : extract(r, x)) \/ next_chunk(r) \/ insert_entity(r)
  BY <1>5 DEF begin, extract, next_chunk, insert_entity
<1>6. CASE insert_chunk_entity(r) \/ load_no_link(r)
  BY <1>3, <1>6 DEF insert_chunk_entity, load_no_link, Resolved, Ended
<1>7. CASE insert_relationship(r)
  BY <1>3, <1>7 DEF insert_relationship, AtRelationship, NextItem, Ended
<1>8. QED
  BY <1>1, <1>2, <1>4, <1>5, <1>6, <1>7 DEF Acts, Step

(* A job's rows keep the vector of their name through COMMIT.               *)
LEMMA MintedStep ==
    ASSUME TypeOK, Minted, [Next]_vars
    PROVE  Minted'
<1>1. ASSUME tables'["entities"] \subseteq Stored,
             \A s \in Runs : buffer'[s]["entities"] \subseteq buffer[s]["entities"]
      PROVE  MintedRows'
  BY <1>1 DEF Minted, MintedRows, Stored
<1>2. ASSUME UNCHANGED <<tables, buffer>> PROVE MintedRows'
  BY <1>1, <1>2 DEF Stored
<1>3. ASSUME NEW r \in Runs, Publish(r) \/ Discard(r) PROVE MintedRows'
  <2>1. /\ tables'["entities"] \subseteq tables["entities"] \union buffer[r]["entities"]
        /\ \A s \in Runs : buffer'[s]["entities"] \subseteq buffer[s]["entities"]
    BY <1>3 DEF Publish, Discard, Empty, TableName, TypeOK
  <2>2. QED
    BY <1>1, <2>1 DEF Stored
<1>4. ASSUME NEW r \in Runs, NEW t \in TableName, NEW row, Inserts(r, t, row) PROVE MintedRows'
  <2>1. tables' = tables /\ buffer' = [buffer EXCEPT ![r][t] = @ \union {row}]
    BY <1>4 DEF Inserts, Write
  <2>2. CASE t = "entities"
    <3>1. row.id = id[r] /\ id[r][1] = r /\ (r \in Resolvers => row.name_emb = Embed[row.name])
      <4>1. phase[r] = "insert" /\ row = NextEntity(r)
        BY <1>4, <2>2 DEF Inserts
      <4>2. id[r][1] = r
        BY <4>1 DEF Minted
      <4>3. QED
        BY <4>1, <4>2 DEF NextEntity
    <3>2. /\ buffer'[r]["entities"] = buffer[r]["entities"] \union {row}
          /\ \A s \in Runs \ {r} : buffer'[s] = buffer[s]
      BY <2>1, <2>2 DEF TypeOK, TableName
    <3>3. QED
      BY <2>1, <3>1, <3>2 DEF Minted, MintedRows
  <2>3. CASE t # "entities"
    <3>1. \A s \in Runs : buffer'[s]["entities"] = buffer[s]["entities"]
      BY <2>1, <2>3 DEF TypeOK, TableName
    <3>2. QED
      BY <1>1, <2>1, <3>1 DEF Stored
  <2>4. QED
    BY <2>2, <2>3
<1>5. \A r \in Runs : phase'[r] = "insert" => id'[r][1] = r
  <2> SUFFICES ASSUME NEW r \in Runs, phase'[r] = "insert" PROVE id'[r][1] = r
    OBVIOUS
  <2>1. CASE UNCHANGED vars
    BY <2>1 DEF vars, Minted
  <2>2. ASSUME NEW s \in Runs, Acts(s) PROVE id'[r][1] = r
    <3>1. CASE s = r
      BY <2>2, <3>1, IdStep
    <3>2. CASE s # r
      BY <2>2, <3>2, StepIsLocal DEF Minted
    <3>3. QED
      BY <3>1, <3>2
  <2>3. QED
    BY <2>1, <2>2 DEF Next, Acts
<1>6. MintedRows'
  BY <1>2, <1>3, <1>4, TableStep
<1>7. QED
  BY <1>5, <1>6 DEF Minted

(* The query returns every row similar enough to merge, unless there are    *)
(* more of them than its LIMIT.                                             *)
LEMMA CandidatesCover ==
    ASSUME NEW rows \in SUBSET Entity, IsFiniteSet(rows), NEW name \in Names,
           NEW C \in Candidates(rows, name), ~Crowded(rows, name),
           NEW e \in rows, Trgm[name][e.name] >= TRGM_MERGE
    PROVE  e \in C
<1> SUFFICES ASSUME e \notin C PROVE FALSE
  OBVIOUS
<1> DEFINE similar == {f \in rows : Trgm[name][f.name] >= TRGM_MERGE}
<1>1. /\ C \subseteq rows /\ Cardinality(C) = TRGM_CANDIDATE_LIMIT
      /\ \A c \in C : Trgm[name][c.name] >= Trgm[name][e.name]
  BY DEF Candidates
<1>2. C \subseteq similar
  <2>1. \A f \in rows : Trgm[name][f.name] \in Nat
    BY DEF Entity
  <2>2. QED
    BY <1>1, <2>1
<1>3. IsFiniteSet(similar) /\ Cardinality(similar) <= TRGM_CANDIDATE_LIMIT
  <2>1. IsFiniteSet(similar)
    BY FS_Subset
  <2>2. Cardinality(similar) \in Nat
    BY <2>1, FS_CardinalityType
  <2>3. QED
    BY <2>1, <2>2 DEF Crowded
<1>4. Cardinality(C) <= Cardinality(similar) /\ (Cardinality(similar) = Cardinality(C) => similar = C)
  BY ONLY <1>2, <1>3, FS_Subset
<1>5. Cardinality(similar) \in Nat
  BY ONLY <1>3, FS_CardinalityType
<1>6. QED
  BY <1>1, <1>3, <1>4, <1>5

(* Everything the two parts of the invariant read of a run at rest stays,   *)
(* and what is committed grows.                                             *)
LEMMA RivalsAct ==
    ASSUME TypeOK, FiniteRows, RaceInv, [Next]_vars, NEW r \in Resolvers,
           /\ phase'[r] = phase[r] /\ buffer'[r] = buffer[r]
           /\ extraction'[r] = extraction[r] /\ item'[r] = item[r]
           /\ seen'[r] = seen[r] /\ id'[r] = id[r]
    PROVE  LookedUp(r)' /\ RowOrRival(r)'
<1>1. tables["entities"] \subseteq tables'["entities"]
  BY RowsStayFinite
<1>2. NextEntity(r)' = NextEntity(r)
  BY DEF NextEntity
<1>3. IsEntity(r, id[r]) => IsEntity(r, id[r])'
  BY <1>1 DEF IsEntity, Visible
<1>4. LookedUp(r) /\ RowOrRival(r)
  BY DEF RaceInv
<1>5. LookedUp(r)'
  BY <1>2, <1>4 DEF LookedUp, Distant
<1>6. RowOrRival(r)'
  BY <1>1, <1>2, <1>3, <1>4 DEF RowOrRival, RivalRow, Distant
<1>7. QED
  BY <1>5, <1>6

(* A lookup that misses has seen no row of the key; one that hits found a   *)
(* row; an INSERT that writes nothing met a row the lookup had not seen.    *)
LEMMA OwnStep ==
    ASSUME SelfSimilar, TypeOK, RaceInv, NEW r \in Resolvers, Acts(r)
    PROVE  LookedUp(r)' /\ RowOrRival(r)'
<1> DEFINE rows == Visible(r, "entities")
           name == extraction[r].entities[item[r]].name
<1>0. r \in Runs /\ r \notin Loaders
  BY DEF Runs
<1>1. CASE fuzzy_match_entity(r)
  <2>1. /\ phase[r] = "resolve" /\ item[r] <= NEntities(r)
        /\ tables' = tables /\ buffer' = buffer
        /\ extraction' = extraction /\ item' = item
        /\ seen'[r] = rows
    BY <1>0, <1>1 DEF fuzzy_match_entity, progress, TypeOK
  <2>2. name \in Names /\ rows \subseteq Entity /\ IsFiniteSet(rows)
    <3>1. extraction[r].entities[item[r]] \in Mention /\ rows \subseteq Entity
      BY <1>0, <2>1, MentionTyped, VisibleTyped
    <3>2. IsFiniteSet(tables["entities"]) /\ IsFiniteSet(buffer[r]["entities"])
      BY <1>0 DEF RaceInv, FiniteRows
    <3>3. IsFiniteSet(tables["entities"] \union buffer[r]["entities"])
      BY ONLY <3>2, FS_Union
    <3>4. QED
      BY <3>1, <3>3 DEF Mention, Visible
  <2>3. NextEntity(r)'.name = name
    BY <2>1 DEF NextEntity
  <2>4. PICK C \in Candidates(rows, name) :
            LET hits == {e \in C : Merges(e, name)}
            IN  \/ hits = {} /\ Goto(r, "insert")
                \/ \E e \in hits : id' = [id EXCEPT ![r] = e.id] /\ Goto(r, "link")
    BY <1>1 DEF fuzzy_match_entity
  <2>5. CASE (\A e \in C : ~Merges(e, name)) /\ Goto(r, "insert")
    <3>1. phase'[r] = "insert"
      BY <1>0, <2>5 DEF Goto, TypeOK
    <3>2. ASSUME ~Crowded(rows, name), NEW e \in rows, e.name = name PROVE Distant(e, name)
      <4>1. ASSUME <<Embed[name], e.name_emb>> \in Near PROVE FALSE
        <5>1. Trgm[name][e.name] >= TRGM_MERGE
          BY <2>2, <3>2 DEF SelfSimilar
        <5>2. PICK R \in SUBSET Entity : R = rows
          BY <2>2
        <5>3. PICK n \in Names : n = name
          BY <2>2
        <5>4. IsFiniteSet(R) /\ C \in Candidates(R, n) /\ ~Crowded(R, n) /\ e \in R
              /\ Trgm[n][e.name] >= TRGM_MERGE
          BY <2>2, <3>2, <5>1, <5>2, <5>3
        <5>5. e \in C
          BY ONLY <5>4, CandidatesCover, EntityAssumption
        <5>6. QED
          BY <2>5, <4>1, <5>1, <5>5 DEF Merges
      <4>2. e \in Entity /\ e.id[1] \in Runs
        BY <2>2, <3>2 DEF Entity, Id
      <4>3. e.id[1] \notin Resolvers
        <5>1. e.id[1] \in Resolvers => e.name_emb = Embed[name]
          BY <1>0, <3>2 DEF RaceInv, Minted, MintedRows, Visible
        <5>2. QED
          BY <2>2, <4>1, <5>1 DEF SelfSimilar
      <4>4. QED
        BY <4>1, <4>2, <4>3 DEF Distant, Runs
    <3>3. buffer'[r]["entities"] \subseteq seen'[r]
      BY <2>1 DEF Visible
    <3>4. LookedUp(r)'
      BY <2>1, <2>3, <3>2, <3>3 DEF LookedUp, SameKey
    <3>5. QED
      BY <3>1, <3>4 DEF RowOrRival
  <2>6. CASE \E e \in C : id' = [id EXCEPT ![r] = e.id] /\ Goto(r, "link")
    <3>1. PICK e \in C : id' = [id EXCEPT ![r] = e.id] /\ Goto(r, "link")
      BY <2>6
    <3>2. phase'[r] = "link" /\ id'[r] = e.id /\ e \in rows
      BY <1>0, <3>1 DEF Goto, TypeOK, Candidates
    <3>3. IsEntity(r, id[r])'
      BY <2>1, <3>2 DEF IsEntity, Visible
    <3>4. QED
      BY <3>2, <3>3 DEF LookedUp, RowOrRival
  <2>7. QED
    BY <2>4, <2>5, <2>6
<1>2. CASE insert_entity(r)
  <2>1. /\ phase[r] = "insert" /\ phase'[r] = "link"
        /\ extraction' = extraction /\ item' = item /\ seen' = seen /\ id' = id
        /\ tables' = tables
    BY <1>0, <1>2 DEF insert_entity, Write, local, progress, Goto, TypeOK
  <2>2. NextEntity(r)' = NextEntity(r)
    BY <2>1 DEF NextEntity
  <2>3. LookedUp(r)
    BY DEF RaceInv
  <2>4. ASSUME NEW e \in rows, SameKey(e, NextEntity(r))
        PROVE  RowOrRival(r)'
    <3>1. CASE Crowded(seen[r], NextEntity(r).name)
      BY <2>1, <2>2, <3>1 DEF RowOrRival
    <3>2. CASE \A f \in seen[r] : SameKey(f, NextEntity(r)) => Distant(f, NextEntity(r).name)
      <4>1. e \in seen[r] => Distant(e, NextEntity(r).name)
        BY <2>4, <3>2
      <4>2. e \in tables["entities"]
        <5>1. CASE e \in buffer[r]["entities"]
          <6>1. e \in seen[r] /\ e.id[1] = r
            BY <1>0, <2>1, <2>3, <5>1 DEF LookedUp, RaceInv, Minted, MintedRows
          <6>2. QED
            BY <1>0, <4>1, <6>1 DEF Distant
        <5>2. QED
          BY <2>4, <5>1 DEF Visible
      <4>3. QED
        BY <2>1, <2>2, <2>4, <4>1, <4>2 DEF RowOrRival, RivalRow, Distant
    <3>3. QED
      BY <2>1, <2>3, <3>1, <3>2 DEF LookedUp
  <2>5. ASSUME Write(r, "entities", NextEntity(r))
        PROVE  RowOrRival(r)'
    <3>1. NextEntity(r) \in buffer'[r]["entities"] /\ NextEntity(r).id = id[r]
      BY <1>0, <2>5 DEF Write, TypeOK, TableName, NextEntity
    <3>2. IsEntity(r, id[r])'
      BY <2>1, <3>1 DEF IsEntity, Visible
    <3>3. QED
      BY <3>2 DEF RowOrRival
  <2>6. RowOrRival(r)'
    BY <1>2, <2>4, <2>5 DEF insert_entity
  <2>7. QED
    BY <2>1, <2>6 DEF LookedUp
<1>3. CASE phase'[r] \notin {"insert", "link"}
  BY <1>3 DEF LookedUp, RowOrRival
<1>4. ASSUME begin(r) \/ (\E x \in Extractions : extract(r, x)) \/ insert_chunk_entity(r) \/ load_no_link(r)
             \/ insert_relationship(r) \/ next_chunk(r) \/ commit(r) \/ deadlock_timeout(r)
             \/ commit_after_err(r) \/ die(r)
      PROVE  phase'[r] \notin {"insert", "link"}
  <2> USE <1>0 DEF TypeOK, Goto
  <2>1. ASSUME NEW p \in Ended, End(r, p) PROVE phase'[r] \notin {"insert", "link"}
    BY <2>1 DEF End, Ended
  <2>2. CASE commit(r) \/ commit_after_err(r) \/ deadlock_timeout(r) \/ die(r)
    BY <2>1, <2>2 DEF commit, commit_after_err, deadlock_timeout, die, Ended
  <2>3. CASE begin(r) \/ (\E x \in Extractions : extract(r, x)) \/ next_chunk(r)
    BY <2>3 DEF begin, extract, next_chunk
  <2>4. CASE insert_chunk_entity(r) \/ load_no_link(r)
    BY <2>1, <2>4 DEF insert_chunk_entity, load_no_link, Resolved, Ended
  <2>5. CASE insert_relationship(r)
    BY <2>1, <2>5 DEF insert_relationship, AtRelationship, NextItem, Ended
  <2>6. QED
    BY <1>4, <2>2, <2>3, <2>4, <2>5
<1>5. QED
  BY <1>0, <1>1, <1>2, <1>3, <1>4 DEF Acts, Step, load_entity

(* An Err of the foreign key (resolve_or_insert_entity mints an id, and     *)
(* insert_entity does not tell that ON CONFLICT wrote nothing) has one of   *)
(* two causes: the job's lookup ran before a rival committed the same name  *)
(* and kind, or a fixture stored that key with a vector the job's own name  *)
(* does not match.  The rows of jobs alone never refuse a later job.        *)
THEOREM RefusalsHaveACause == SelfSimilar /\ Spec => RefusedByRivalOrFixture
<1> SUFFICES ASSUME SelfSimilar PROVE Spec => RefusedByRivalOrFixture
  OBVIOUS
<1>1. Init => RaceInv
  BY FS_EmptySet DEF Init, RaceInv, FiniteRows, Minted, MintedRows, LookedUp, RowOrRival, Empty, TableName, Runs
<1>2. TypeOK /\ RaceInv /\ [Next]_vars => RaceInv'
  <2> SUFFICES ASSUME TypeOK, RaceInv, [Next]_vars PROVE RaceInv'
    OBVIOUS
  <2>1. FiniteRows' /\ Minted'
    BY RowsStayFinite, MintedStep DEF RaceInv
  <2>2. ASSUME NEW r \in Resolvers PROVE LookedUp(r)' /\ RowOrRival(r)'
    <3>1. CASE UNCHANGED vars
      BY <3>1, RivalsAct DEF vars, RaceInv
    <3>2. ASSUME NEW s \in Runs, Acts(s) PROVE LookedUp(r)' /\ RowOrRival(r)'
      <4>1. CASE s = r
        BY <3>2, <4>1, OwnStep
      <4>2. CASE s # r
        BY <3>2, <4>2, StepIsLocal, RivalsAct DEF RaceInv, Runs
      <4>3. QED
        BY <4>1, <4>2
    <3>3. QED
      BY <3>1, <3>2 DEF Next, Acts
  <2>3. QED
    BY <2>1, <2>2 DEF RaceInv
<1>3. TypeOK /\ RaceInv /\ [Next]_vars =>
        [\A r \in Resolvers : (phase[r] = "link" /\ phase'[r] = "refused")
            => \/ Crowded(seen[r], NextEntity(r).name)
               \/ \E e \in tables["entities"] :
                      /\ SameKey(e, NextEntity(r))
                      /\ e \notin seen[r] \/ Distant(e, NextEntity(r).name)]_vars
  <2> SUFFICES ASSUME TypeOK, RaceInv, Next, NEW r \in Resolvers,
                      phase[r] = "link", phase'[r] = "refused"
               PROVE  Crowded(seen[r], NextEntity(r).name) \/ RivalRow(r)
    BY DEF RivalRow
  <2>1. PICK s \in Runs : Acts(s)
    BY DEF Next, Acts
  <2>2. s = r
    BY <2>1, StepIsLocal DEF Runs
  <2>3. insert_chunk_entity(r)
    <3>1. ~fuzzy_match_entity(r) /\ ~load_entity(r) /\ ~insert_entity(r) /\ ~next_chunk(r)
          /\ ~begin(r) /\ ~insert_relationship(r) /\ ~commit(r) /\ ~(\E x \in Extractions : extract(r, x))
      BY DEF fuzzy_match_entity, load_entity, insert_entity, next_chunk, begin, insert_relationship,
             AtRelationship, commit, extract
    <3>2. ~load_no_link(r)
      BY DEF load_no_link, EntityAssumption
    <3>3. ~deadlock_timeout(r)
      BY DEF deadlock_timeout, Deadlocked, Blocked, WaitsFor, AtRelationship
    <3>4. ~commit_after_err(r) /\ ~die(r)
      BY DEF commit_after_err, die, End, Goto, TypeOK, Runs
    <3>5. QED
      BY <2>1, <2>2, <3>1, <3>2, <3>3, <3>4 DEF Acts, Step
  <2>4. ~IsEntity(r, id[r])
    BY <2>3 DEF insert_chunk_entity, Resolved, Goto, TypeOK, Runs
  <2>5. QED
    BY <2>4 DEF RaceInv, RowOrRival
<1>4. QED
  BY <1>1, <1>2, <1>3, EntityTypeCorrect, PTL DEF Spec, RefusedByRivalOrFixture
=============================================================================
