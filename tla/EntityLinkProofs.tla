-------------------------- MODULE EntityLinkProofs ---------------------------
(***************************************************************************)
(* The proof that a job links what it extracted (EntityResolution,         *)
(* ChunksAreLinked).  An id that lost its row to ON CONFLICT DO NOTHING is *)
(* found out by the foreign key of the link, because no other row ever has *)
(* that id: ids are minted at positions a run has not passed.              *)
(***************************************************************************)
EXTENDS EntityResolutionProofs

USE EntityAssumption

-----------------------------------------------------------------------------
(* Minted ids                                                                *)

\* The run has passed the position the id was minted at.
Past(i) ==
    \/ i[2] < run[i[1]]
    \/ /\ i[2] = run[i[1]]
       /\ \/ phase[i[1]] \notin Open
          \/ i[3] < chunk[i[1]]
          \/ /\ i[3] = chunk[i[1]] /\ phase[i[1]] # "extract"
             /\ i[4] < item[i[1]] \/ (i[4] = item[i[1]] /\ phase[i[1]] = "link")

Here(r) == <<r, run[r], chunk[r], item[r]>>

IdsInv ==
    /\ \A e \in Stored : Past(e.id)
    /\ \A r \in Runs : phase[r] = "insert" => id[r] = Here(r)

(* A position that was passed stays passed.                                 *)
LEMMA PastStep ==
    ASSUME TypeOK, [Next]_vars, NEW i \in Id, Past(i)
    PROVE  Past(i)'
<1>0. PICK r \in Runs, n \in 0..MaxRuns, c \in Nat, k \in Nat : i = <<r, n, c, k>>
  BY DEF Id
<1>1. /\ i[1] = r /\ i[2] = n /\ i[3] = c /\ i[4] = k
      /\ run[r] \in Nat /\ chunk[r] \in Nat /\ item[r] \in Nat
  BY <1>0 DEF TypeOK
<1>2. \/ n < run[r]
      \/ n = run[r] /\ phase[r] \notin Open
      \/ n = run[r] /\ c < chunk[r]
      \/ n = run[r] /\ c = chunk[r] /\ phase[r] # "extract"
            /\ (k < item[r] \/ (k = item[r] /\ phase[r] = "link"))
  BY <1>1 DEF Past
<1> DEFINE After ==
        \/ n < run'[r]
        \/ n = run'[r] /\ phase'[r] \notin Open
        \/ n = run'[r] /\ c < chunk'[r]
        \/ n = run'[r] /\ c = chunk'[r] /\ phase'[r] # "extract"
            /\ (k < item'[r] \/ (k = item'[r] /\ phase'[r] = "link"))
<1>3. After => Past(i)'
  BY <1>1 DEF Past
<1>4. CASE UNCHANGED vars
  BY <1>2, <1>3, <1>4 DEF vars
<1>5. ASSUME NEW s \in Runs \ {r}, Acts(s) PROVE After
  <2>1. phase'[r] = phase[r] /\ run'[r] = run[r] /\ chunk'[r] = chunk[r] /\ item'[r] = item[r]
    BY <1>5, StepIsLocal
  <2>2. QED
    BY <1>2, <2>1
<1>6. ASSUME Acts(r) PROVE After
  <2> USE DEF TypeOK, Goto
  <2>1. ASSUME NEW p \in Ended, End(r, p) PROVE After
    <3>1. run'[r] = run[r] /\ phase'[r] \notin Open
      BY <2>1 DEF End, Ended, Open
    <3>2. QED
      BY <1>1, <1>2, <3>1
  <2>2. CASE commit(r) \/ commit_after_err(r) \/ deadlock_timeout(r) \/ die(r)
    BY <2>1, <2>2 DEF commit, commit_after_err, deadlock_timeout, die, Ended
  <2>3. CASE begin(r)
    <3>1. run'[r] = run[r] + 1
      BY <2>3 DEF begin
    <3>2. QED
      BY <1>1, <1>2, <3>1
  <2>4. ASSUME NEW x \in Extractions, extract(r, x) PROVE After
    <3>1. phase[r] = "extract" /\ run'[r] = run[r] /\ chunk'[r] = chunk[r]
      BY <2>4 DEF extract
    <3>2. QED
      BY <1>1, <1>2, <3>1 DEF Open
  <2>5. CASE fuzzy_match_entity(r) \/ load_entity(r) \/ insert_entity(r)
    <3>1. /\ phase[r] \in {"resolve", "insert"} /\ phase'[r] \in {"insert", "link"}
          /\ run'[r] = run[r] /\ chunk'[r] = chunk[r] /\ item'[r] = item[r]
      <4>1. CASE fuzzy_match_entity(r)
        BY <4>1 DEF fuzzy_match_entity, progress
      <4>2. CASE load_entity(r)
        BY <4>2 DEF load_entity, progress
      <4>3. CASE insert_entity(r)
        BY <4>3 DEF insert_entity, local, progress
      <4>4. QED
        BY <2>5, <4>1, <4>2, <4>3
    <3>2. QED
      BY <1>1, <1>2, <3>1 DEF Open
  <2>6. CASE phase[r] = "link" /\ Resolved(r)
    <3>1. phase'[r] = "resolve" /\ run'[r] = run[r] /\ chunk'[r] = chunk[r] /\ item'[r] = item[r] + 1
      BY <2>6 DEF Resolved
    <3>2. QED
      BY <1>1, <1>2, <2>6, <3>1 DEF Open
  <2>7. CASE phase[r] = "resolve" /\ NextItem(r)
    <3>1. phase'[r] = "resolve" /\ run'[r] = run[r] /\ chunk'[r] = chunk[r] /\ item'[r] = item[r] + 1
      BY <2>7 DEF NextItem
    <3>2. QED
      BY <1>1, <1>2, <2>7, <3>1 DEF Open
  <2>8. CASE insert_chunk_entity(r) \/ load_no_link(r)
    BY <2>1, <2>6, <2>8 DEF insert_chunk_entity, load_no_link, Ended
  <2>9. CASE insert_relationship(r)
    BY <2>1, <2>7, <2>9 DEF insert_relationship, AtRelationship, Ended
  <2>10. CASE next_chunk(r)
    <3>1. phase[r] = "resolve" /\ run'[r] = run[r] /\ chunk'[r] = chunk[r] + 1
      BY <2>10 DEF next_chunk
    <3>2. QED
      BY <1>1, <1>2, <3>1 DEF Open
  <2>11. QED
    BY <1>6, <2>2, <2>3, <2>4, <2>5, <2>8, <2>9, <2>10 DEF Acts, Step
<1>7. QED
  BY <1>3, <1>4, <1>5, <1>6 DEF Next, Acts

(* A row of entities comes from insert_entity.                              *)
LEMMA RowsComeFromInserts ==
    ASSUME TypeOK, NEW r \in Runs, Acts(r), NEW e \in Stored', e \notin Stored
    PROVE  insert_entity(r) /\ e = NextEntity(r)
<1> DEFINE Kept == Stored' \subseteq Stored
<1> USE DEF TypeOK
<1>1. ASSUME tables' = tables, \A s \in Runs : buffer'[s]["entities"] \subseteq buffer[s]["entities"]
      PROVE  Kept
  BY <1>1 DEF Stored
<1>2. CASE UNCHANGED <<tables, buffer>>
  BY <1>1, <1>2
<1>3. CASE Discard(r)
  <2>1. \A s \in Runs : buffer'[s]["entities"] \subseteq buffer[s]["entities"]
    BY <1>3 DEF Discard, Empty, TableName
  <2>2. QED
    BY <1>1, <1>3, <2>1 DEF Discard
<1>4. CASE Publish(r)
  <2>1. /\ tables'["entities"] = tables["entities"] \union buffer[r]["entities"]
        /\ \A s \in Runs : buffer'[s]["entities"] \subseteq buffer[s]["entities"]
    BY <1>4 DEF Publish, Empty, TableName
  <2>2. QED
    BY <2>1 DEF Stored
<1>5. ASSUME NEW t \in TableName \ {"entities"}, NEW row, Write(r, t, row)
      PROVE  Kept
  <2>1. \A s \in Runs : buffer'[s]["entities"] \subseteq buffer[s]["entities"]
    BY <1>5 DEF Write, TableName
  <2>2. QED
    BY <1>1, <1>5, <2>1 DEF Write
<1>6. CASE insert_entity(r)
  <2>1. CASE Write(r, "entities", NextEntity(r))
    <3>1. /\ tables' = tables
          /\ buffer'[r]["entities"] = buffer[r]["entities"] \union {NextEntity(r)}
          /\ \A s \in Runs \ {r} : buffer'[s] = buffer[s]
      BY <2>1 DEF Write, TableName
    <3>2. e \in Stored \union {NextEntity(r)}
      <4>1. e \in tables'["entities"] \/ \E s \in Runs : e \in buffer'[s]["entities"]
        BY DEF Stored
      <4>2. ASSUME NEW s \in Runs, e \in buffer'[s]["entities"], e # NextEntity(r)
            PROVE  e \in buffer[s]["entities"]
        BY <3>1, <4>2
      <4>3. QED
        BY <3>1, <4>1, <4>2 DEF Stored
    <3>3. QED
      BY <1>6, <3>2
  <2>2. QED
    BY <1>2, <1>6, <2>1 DEF insert_entity
<1>7. CASE insert_chunk_entity(r) \/ insert_relationship(r)
  <2>1. "chunk_entities" \in TableName \ {"entities"} /\ "relationships" \in TableName \ {"entities"}
    BY DEF TableName
  <2>2. QED
    BY <1>2, <1>3, <1>5, <1>7, <2>1 DEF insert_chunk_entity, insert_relationship
<1>8. CASE commit(r) \/ commit_after_err(r) \/ deadlock_timeout(r) \/ die(r)
  BY <1>3, <1>4, <1>8 DEF commit, commit_after_err, deadlock_timeout, die
<1>9. CASE \/ begin(r) \/ \E x \in Extractions : extract(r, x)
           \/ fuzzy_match_entity(r) \/ load_entity(r) \/ load_no_link(r) \/ next_chunk(r)
  BY <1>2, <1>9 DEF begin, extract, fuzzy_match_entity, load_entity, load_no_link, next_chunk
<1>10. QED
  BY <1>6, <1>7, <1>8, <1>9 DEF Acts, Step

(* What a run is about to insert has an id no row ever had.                 *)
LEMMA MintedIsFresh ==
    ASSUME TypeOK, IdsInv, NEW r \in Runs, phase[r] \in {"resolve", "insert"}
    PROVE  \A e \in Stored : e.id # Here(r)
<1>1. Here(r)[1] = r /\ Here(r)[2] = run[r] /\ Here(r)[3] = chunk[r] /\ Here(r)[4] = item[r]
  BY DEF Here
<1>2. run[r] \in Nat /\ chunk[r] \in Nat /\ item[r] \in Nat
  BY DEF TypeOK
<1>3. ~Past(Here(r))
  BY <1>1, <1>2 DEF Past, Open
<1>4. QED
  BY <1>3 DEF IdsInv

(* Every step keeps the positions of the ids behind their runs.             *)
LEMMA IdsStep ==
    ASSUME TypeOK, IdsInv, [Next]_vars
    PROVE  IdsInv'
<1>1. \A e \in Stored : e.id \in Id
  BY DEF Stored, TypeOK, RowsTyped, Entity
<1>2. CASE UNCHANGED vars
  BY <1>2 DEF vars, IdsInv, Stored, Past, Here
<1>3. ASSUME NEW s \in Runs, Acts(s) PROVE IdsInv'
  <2>1. ASSUME NEW e \in Stored' PROVE Past(e.id)'
    <3>1. CASE e \in Stored
      BY <1>1, <3>1, PastStep DEF IdsInv
    <3>2. CASE e \notin Stored
      <4>1. insert_entity(s) /\ e = NextEntity(s)
        BY <1>3, <2>1, <3>2, RowsComeFromInserts
      <4>2. e.id = Here(s) /\ phase'[s] = "link" /\ run' = run /\ chunk' = chunk /\ item' = item
        BY <4>1 DEF IdsInv, NextEntity, insert_entity, Goto, TypeOK, local, progress
      <4>3. QED
        BY <4>2 DEF Past, Here
    <3>3. QED
      BY <3>1, <3>2
  <2>2. ASSUME NEW r \in Runs, phase'[r] = "insert" PROVE id'[r] = Here(r)'
    <3>1. CASE s # r
      BY <1>3, <2>2, <3>1, StepIsLocal DEF IdsInv, Here
    <3>2. CASE s = r
      <4>1. fuzzy_match_entity(r) \/ load_entity(r)
        <5> USE DEF TypeOK, Goto
        <5>1. ASSUME NEW p \in Ended, End(r, p) PROVE FALSE
          BY <2>2, <5>1 DEF End, Ended
        <5>2. ~commit(r) /\ ~commit_after_err(r) /\ ~deadlock_timeout(r) /\ ~die(r)
          BY <5>1 DEF commit, commit_after_err, deadlock_timeout, die, Ended
        <5>3. ~begin(r) /\ ~(\E x \in Extractions : extract(r, x)) /\ ~insert_entity(r) /\ ~next_chunk(r)
          BY <2>2 DEF begin, extract, insert_entity, next_chunk
        <5>4. ~insert_chunk_entity(r) /\ ~load_no_link(r) /\ ~insert_relationship(r)
          BY <2>2, <5>1 DEF insert_chunk_entity, load_no_link, insert_relationship, AtRelationship,
                            Resolved, NextItem, Ended
        <5>5. QED
          BY <1>3, <3>2, <5>2, <5>3, <5>4 DEF Acts, Step
      <4>2. run' = run /\ chunk' = chunk /\ item' = item
        BY <4>1 DEF fuzzy_match_entity, load_entity, progress
      <4>3. id'[r] = <<r, run[r], chunk[r], item[r]>>
        <5>1. CASE load_entity(r)
          BY <5>1 DEF load_entity, TypeOK
        <5>2. CASE fuzzy_match_entity(r)
          <6>1. ~Goto(r, "link")
            BY <2>2 DEF Goto, TypeOK
          <6>2. id' = [id EXCEPT ![r] = <<r, run[r], chunk[r], item[r]>>]
            BY <5>2, <6>1 DEF fuzzy_match_entity
          <6>3. QED
            BY <6>2 DEF TypeOK
        <5>3. QED
          BY <4>1, <5>1, <5>2
      <4>4. QED
        BY <4>2, <4>3 DEF Here
    <3>3. QED
      BY <3>1, <3>2
  <2>3. QED
    BY <2>1, <2>2 DEF IdsInv
<1>4. QED
  BY <1>2, <1>3 DEF Next, Acts

-----------------------------------------------------------------------------
(* What a job has settled of the chunk it is at                              *)

\* x is the id of a row that name n resolves to.
Is(r, n, x) == \E f \in Visible(r, "entities") : f.id = x /\ Merges(f, n)

NameAt(r, i) == extraction[r].entities[i].name
ChunkOf(r)   == <<r, run[r], chunk[r]>>

Linked(r, i) == \E e \in Visible(r, "entities") :
    /\ [chunk |-> ChunkOf(r), entity |-> e.id] \in Visible(r, "chunk_entities")
    /\ Merges(e, NameAt(r, i))

Mentioned(r, n) == \E j \in 1..NEntities(r) : NameAt(r, j) = n

Related(r, i) ==
    LET pair == extraction[r].relationships[i]
    IN  (Mentioned(r, pair[1]) /\ Mentioned(r, pair[2])) =>
            \E p \in Visible(r, "relationships") : Is(r, pair[1], p.src) /\ Is(r, pair[2], p.dst)

\* The entities and relationships before the current one are stored, what the
\* map of names holds are rows of those names, and the id about to be linked
\* is either such a row or one that lost its own.
Entities(r) == \A i \in 1..NEntities(r) :
    i < item[r] => Linked(r, i) /\ name_to_id[r][NameAt(r, i)] # {}
Mapped(r)   == \A n \in Names : \A x \in name_to_id[r][n] : Is(r, n, x)
Relations(r) == \A i \in 1..Len(extraction[r].relationships) :
    NEntities(r) + i < item[r] => Related(r, i)
RowOrLost(r) ==
    phase[r] = "link" =>
        \/ Is(r, NameAt(r, item[r]), id[r])
        \/ id[r][1] = r /\ \A e \in Stored : e.id # id[r]

Settled(r) ==
    phase[r] \in {"resolve", "insert", "link"} =>
        Entities(r) /\ Mapped(r) /\ Relations(r) /\ RowOrLost(r)

(* What is settled of the chunk stays so while rows only come.              *)
LEMMA SettledStays ==
    ASSUME NEW r \in Runs, \A t \in TableName : Visible(r, t) \subseteq Visible(r, t)',
           run'[r] = run[r], chunk'[r] = chunk[r], extraction'[r] = extraction[r]
    PROVE  /\ NEntities(r)' = NEntities(r)
           /\ \A i : NameAt(r, i)' = NameAt(r, i)
           /\ \A n, x : Is(r, n, x) => Is(r, n, x)'
           /\ \A i : Linked(r, i) => Linked(r, i)'
           /\ \A i : Related(r, i) => Related(r, i)'
<1>1. NEntities(r)' = NEntities(r) /\ \A i : NameAt(r, i)' = NameAt(r, i)
  BY DEF NEntities, NameAt
<1>2. /\ Visible(r, "entities") \subseteq Visible(r, "entities")'
      /\ Visible(r, "chunk_entities") \subseteq Visible(r, "chunk_entities")'
      /\ Visible(r, "relationships") \subseteq Visible(r, "relationships")'
  BY DEF TableName
<1>3. ASSUME NEW n, NEW x, Is(r, n, x) PROVE Is(r, n, x)'
  BY <1>2, <1>3 DEF Is, Merges
<1>4. ASSUME NEW i, Linked(r, i) PROVE Linked(r, i)'
  <2>1. PICK e \in Visible(r, "entities") :
            /\ [chunk |-> ChunkOf(r), entity |-> e.id] \in Visible(r, "chunk_entities")
            /\ Merges(e, NameAt(r, i))
    BY <1>4 DEF Linked
  <2>2. ChunkOf(r)' = ChunkOf(r)
    BY DEF ChunkOf
  <2>3. Merges(e, NameAt(r, i))' <=> Merges(e, NameAt(r, i))
    BY <1>1 DEF Merges
  <2>4. QED
    BY <1>2, <2>1, <2>2, <2>3 DEF Linked
<1>5. ASSUME NEW i, Related(r, i) PROVE Related(r, i)'
  <2> DEFINE pair == extraction[r].relationships[i]
  <2>1. \A n : Mentioned(r, n)' <=> Mentioned(r, n)
    BY <1>1 DEF Mentioned
  <2>2. CASE Mentioned(r, pair[1]) /\ Mentioned(r, pair[2])
    <3>1. PICK p \in Visible(r, "relationships") : Is(r, pair[1], p.src) /\ Is(r, pair[2], p.dst)
      BY <1>5, <2>2 DEF Related
    <3>2. Is(r, pair[1], p.src)' /\ Is(r, pair[2], p.dst)'
      BY <1>3, <3>1
    <3>3. QED
      BY <1>2, <3>1, <3>2 DEF Related
  <2>3. QED
    BY <2>1, <2>2 DEF Related
<1>6. QED
  BY <1>1, <1>3, <1>4, <1>5

(* Committed rows are never taken away.                                     *)
LEMMA TablesGrow ==
    ASSUME TypeOK, [Next]_vars, NEW t \in TableName
    PROVE  tables[t] \subseteq tables'[t]
<1>1. CASE UNCHANGED <<tables, buffer>>
  BY <1>1
<1>2. ASSUME NEW r \in Runs, Publish(r) \/ Discard(r) PROVE tables[t] \subseteq tables'[t]
  BY <1>2 DEF Publish, Discard
<1>3. ASSUME NEW r \in Runs, NEW u \in TableName, NEW row, Inserts(r, u, row)
      PROVE  tables[t] \subseteq tables'[t]
  BY <1>3 DEF Inserts, Write
<1>4. QED
  BY <1>1, <1>2, <1>3, TableStep

(* What a job has settled survives the others: their ids are not its own.   *)
LEMMA OthersSettle ==
    ASSUME TypeOK, IdsInv, [Next]_vars, NEW r \in Resolvers, Settled(r),
           NEW s \in Runs \ {r}, Acts(s)
    PROVE  Settled(r)'
<1>0. r \in Runs
  BY DEF Runs
<1>1. /\ phase'[r] = phase[r] /\ buffer'[r] = buffer[r]
      /\ run'[r] = run[r] /\ chunk'[r] = chunk[r]
      /\ extraction'[r] = extraction[r] /\ item'[r] = item[r]
      /\ id'[r] = id[r] /\ name_to_id'[r] = name_to_id[r]
  BY <1>0, StepIsLocal
<1>2. \A t \in TableName : Visible(r, t) \subseteq Visible(r, t)'
  BY <1>1, TablesGrow DEF Visible
<1>3. /\ NEntities(r)' = NEntities(r)
      /\ \A i : NameAt(r, i)' = NameAt(r, i)
      /\ \A n, x : Is(r, n, x) => Is(r, n, x)'
      /\ \A i : Linked(r, i) => Linked(r, i)'
      /\ \A i : Related(r, i) => Related(r, i)'
  BY <1>0, <1>1, <1>2, SettledStays
<1>4. SUFFICES ASSUME phase[r] \in {"resolve", "insert", "link"}
               PROVE  Entities(r)' /\ Mapped(r)' /\ Relations(r)' /\ RowOrLost(r)'
  BY <1>1 DEF Settled
<1>5. Entities(r) /\ Mapped(r) /\ Relations(r) /\ RowOrLost(r)
  BY <1>4 DEF Settled
<1>6. Entities(r)'
  BY <1>1, <1>3, <1>5 DEF Entities
<1>7. Mapped(r)'
  BY <1>1, <1>3, <1>5 DEF Mapped
<1>8. Relations(r)'
  BY <1>1, <1>3, <1>5 DEF Relations
<1>9. ASSUME phase[r] = "link", id[r][1] = r, \A e \in Stored : e.id # id[r], NEW e \in Stored'
      PROVE  e.id # id[r]
  <2>1. CASE e \in Stored
    BY <1>9, <2>1
  <2>2. CASE e \notin Stored
    <3>1. insert_entity(s) /\ e = NextEntity(s)
      BY <1>9, <2>2, RowsComeFromInserts
    <3>2. e.id = Here(s)
      BY <3>1 DEF IdsInv, insert_entity, NextEntity
    <3>3. e.id[1] = s
      BY <3>2 DEF Here
    <3>4. QED
      BY <1>9, <3>3
  <2>3. QED
    BY <2>1, <2>2
<1>10. RowOrLost(r)'
  <2>1. CASE phase[r] = "link" /\ Is(r, NameAt(r, item[r]), id[r])
    <3>1. Is(r, NameAt(r, item[r]), id[r])'
      <4>1. (\E f \in Visible(r, "entities") : f.id = id[r] /\ Merges(f, NameAt(r, item[r])))
        BY <2>1 DEF Is
      <4>2. extraction'[r].entities[item'[r]].name = extraction[r].entities[item[r]].name
        BY <1>1
      <4>3. Visible(r, "entities") \subseteq Visible(r, "entities")'
        BY <1>2 DEF TableName
      <4>4. QED
        BY <1>1, <4>1, <4>2, <4>3 DEF Is, NameAt, Merges
    <3>2. QED
      BY <3>1 DEF RowOrLost
  <2>2. CASE phase[r] = "link" /\ id[r][1] = r /\ \A e \in Stored : e.id # id[r]
    BY <1>1, <1>9, <2>2 DEF RowOrLost
  <2>3. QED
    BY <1>1, <1>5, <2>1, <2>2 DEF RowOrLost
<1>11. QED
  BY <1>6, <1>7, <1>8, <1>10

(* An extraction has so many entities, each with a name.                    *)
LEMMA NEntitiesTyped ==
    ASSUME TypeOK, NEW r \in Runs
    PROVE  /\ extraction[r].entities \in Seq(Mention)
           /\ extraction[r].relationships \in Seq(Names \X Names)
           /\ NEntities(r) \in Nat /\ Len(extraction[r].relationships) \in Nat
<1>1. Nothing \in [entities : Seq(Mention), relationships : Seq(Names \X Names)]
  <2>1. <<>> \in Seq(Mention) /\ <<>> \in Seq(Names \X Names)
    OBVIOUS
  <2>2. QED
    BY <2>1 DEF Nothing
<1>2. extraction[r].entities \in Seq(Mention) /\ extraction[r].relationships \in Seq(Names \X Names)
  <2>1. extraction[r] \in [entities : Seq(Mention), relationships : Seq(Names \X Names)]
    BY <1>1 DEF TypeOK
  <2>2. QED
    BY <2>1
<1>3. QED
  BY <1>2 DEF NEntities

(* The names of its entities are names.                                     *)
LEMMA NameTyped ==
    ASSUME TypeOK, NEW r \in Runs, NEW i \in 1..NEntities(r)
    PROVE  NameAt(r, i) \in Names
<1>1. extraction[r].entities[i] \in Mention
  BY NEntitiesTyped DEF NEntities
<1>2. QED
  BY <1>1 DEF Mention, NameAt

(* The lookup and the INSERT settle the id: a row of the name, or an id of  *)
(* no row.                                                                  *)
LEMMA ResolveSettles ==
    ASSUME SelfSimilar, TypeOK, IdsInv, NEW r \in Resolvers, Settled(r),
           fuzzy_match_entity(r) \/ insert_entity(r)
    PROVE  Settled(r)'
<1>0. r \in Runs
  BY DEF Runs
<1>1. /\ phase[r] \in {"resolve", "insert"}
      /\ run' = run /\ chunk' = chunk /\ extraction' = extraction /\ item' = item
      /\ name_to_id' = name_to_id /\ tables' = tables
      /\ \A t \in TableName : Visible(r, t) \subseteq Visible(r, t)'
  <2>1. CASE fuzzy_match_entity(r)
    BY <2>1 DEF fuzzy_match_entity, progress, Visible
  <2>2. CASE insert_entity(r)
    <3>1. /\ phase[r] = "insert"
          /\ run' = run /\ chunk' = chunk /\ extraction' = extraction /\ item' = item
          /\ name_to_id' = name_to_id /\ tables' = tables
          /\ UNCHANGED <<tables, buffer>> \/ Write(r, "entities", NextEntity(r))
      BY <2>2 DEF insert_entity, local, progress, Write
    <3>2. ASSUME NEW t \in TableName PROVE buffer[r][t] \subseteq buffer'[r][t]
      <4>1. CASE Write(r, "entities", NextEntity(r))
        <5>1. \/ t = "entities" /\ buffer'[r][t] = buffer[r][t] \union {NextEntity(r)}
              \/ t # "entities" /\ buffer'[r][t] = buffer[r][t]
          BY <1>0, <4>1 DEF Write, TypeOK, TableName
        <5>2. QED
          BY <5>1
      <4>2. QED
        BY <3>1, <4>1
    <3>3. QED
      BY <3>1, <3>2 DEF Visible
  <2>3. QED
    BY <2>1, <2>2
<1>2. /\ NEntities(r)' = NEntities(r)
      /\ \A i : NameAt(r, i)' = NameAt(r, i)
      /\ \A n, x : Is(r, n, x) => Is(r, n, x)'
      /\ \A i : Linked(r, i) => Linked(r, i)'
      /\ \A i : Related(r, i) => Related(r, i)'
  BY <1>0, <1>1, SettledStays
<1>3. Entities(r) /\ Mapped(r) /\ Relations(r)
  BY <1>1 DEF Settled
<1>4. Entities(r)' /\ Mapped(r)' /\ Relations(r)'
  BY <1>1, <1>2, <1>3 DEF Entities, Mapped, Relations
<1>5. CASE fuzzy_match_entity(r)
  <2> DEFINE name == extraction[r].entities[item[r]].name
  <2>1. ASSUME phase'[r] = "link"
        PROVE  \E e \in Visible(r, "entities") : Merges(e, name) /\ id'[r] = e.id
    <3>1. ~Goto(r, "insert")
      BY <1>0, <2>1 DEF Goto, TypeOK
    <3>2. PICK C \in Candidates(Visible(r, "entities"), name) :
              \E e \in {c \in C : Merges(c, name)} : id' = [id EXCEPT ![r] = e.id]
      BY <1>5, <3>1 DEF fuzzy_match_entity
    <3>3. PICK e \in C : Merges(e, name) /\ id' = [id EXCEPT ![r] = e.id]
      BY <3>2
    <3>4. C \subseteq Visible(r, "entities")
      BY <3>2 DEF Candidates
    <3>5. id'[r] = e.id
      BY <1>0, <3>3 DEF TypeOK
    <3>6. QED
      BY <3>3, <3>4, <3>5
  <2>2. Visible(r, "entities")' = Visible(r, "entities")
    BY <1>5 DEF fuzzy_match_entity, Visible
  <2>3. RowOrLost(r)'
    BY <1>1, <2>1, <2>2 DEF RowOrLost, Is, NameAt, Merges
  <2>4. QED
    BY <1>4, <2>3 DEF Settled
<1>6. CASE insert_entity(r)
  <2>1. phase[r] = "insert" /\ id' = id /\ id[r] = Here(r)
    BY <1>6 DEF insert_entity, local, IdsInv, Runs
  <2>2. CASE UNCHANGED <<tables, buffer>>
    <3>1. Stored' = Stored
      BY <2>2 DEF Stored
    <3>2. \A e \in Stored : e.id # id[r]
      BY <1>0, <2>1, MintedIsFresh
    <3>3. id[r][1] = r
      BY <2>1 DEF Here
    <3>4. RowOrLost(r)'
      BY <2>1, <3>1, <3>2, <3>3 DEF RowOrLost
    <3>5. QED
      BY <1>4, <3>4 DEF Settled
  <2>3. CASE Write(r, "entities", NextEntity(r))
    <3> DEFINE row == NextEntity(r)
    <3>1. row \in Visible(r, "entities")'
      BY <1>0, <2>3 DEF Write, Visible, TypeOK, TableName
    <3>2. row.id = id[r] /\ row.name = NameAt(r, item[r]) /\ row.name_emb = Embed[NameAt(r, item[r])]
      BY <1>0 DEF NextEntity, NameAt, Runs
    <3>3. NameAt(r, item[r]) \in Names
      <4>1. item[r] <= NEntities(r)
        BY <1>0, <2>1 DEF TypeOK
      <4>2. QED
        BY <1>0, <4>1, MentionTyped DEF Mention, NameAt
    <3>4. Merges(row, NameAt(r, item[r]))
      BY <3>2, <3>3 DEF Merges, SelfSimilar
    <3>5. RowOrLost(r)'
      BY <1>1, <2>1, <3>1, <3>2, <3>4 DEF RowOrLost, Is, NameAt, Merges
    <3>6. QED
      BY <1>4, <3>5 DEF Settled
  <2>4. QED
    BY <1>6, <2>2, <2>3 DEF insert_entity
<1>7. QED
  BY <1>5, <1>6

(* The foreign key lets a link through to a row only, and with it the name  *)
(* and its id enter the map.                                                *)
LEMMA LinkSettles ==
    ASSUME TypeOK, NEW r \in Resolvers, Settled(r), phase[r] = "link", IsEntity(r, id[r]),
           Write(r, "chunk_entities", [chunk |-> ChunkOf(r), entity |-> id[r]]), Resolved(r)
    PROVE  Settled(r)'
<1>0. r \in Runs
  BY DEF Runs
<1>k. PICK k \in Nat : k = item[r]
  BY <1>0 DEF TypeOK
<1>n. PICK name : name = NameAt(r, k)
  OBVIOUS
<1>1. /\ run' = run /\ chunk' = chunk /\ extraction' = extraction
      /\ item'[r] = k + 1 /\ phase'[r] = "resolve"
  BY <1>0, <1>k DEF Resolved, Goto, TypeOK
<1>2. /\ tables' = tables
      /\ \A t \in TableName : buffer[r][t] \subseteq buffer'[r][t]
      /\ [chunk |-> ChunkOf(r), entity |-> id[r]] \in buffer'[r]["chunk_entities"]
  BY <1>0 DEF Write, TypeOK, TableName
<1>3. \A t \in TableName : Visible(r, t) \subseteq Visible(r, t)'
  BY <1>2 DEF Visible
<1>4. /\ NEntities(r)' = NEntities(r)
      /\ \A i : NameAt(r, i)' = NameAt(r, i)
      /\ \A n, x : Is(r, n, x) => Is(r, n, x)'
      /\ \A i : Linked(r, i) => Linked(r, i)'
      /\ \A i : Related(r, i) => Related(r, i)'
  BY <1>0, <1>1, <1>3, SettledStays
<1>5. Entities(r) /\ Mapped(r) /\ Relations(r) /\ RowOrLost(r)
  BY DEF Settled
<1>6. name \in Names
  <2>1. item[r] <= NEntities(r)
    BY <1>0 DEF TypeOK
  <2>2. QED
    BY <1>0, <1>k, <1>n, <2>1, MentionTyped DEF Mention, NameAt
<1>7. /\ name_to_id'[r][name] = {id[r]}
      /\ \A n \in Names \ {name} : name_to_id'[r][n] = name_to_id[r][n]
  <2>1. name_to_id' = [name_to_id EXCEPT ![r][name] = {id[r]}]
    BY <1>k, <1>n DEF Resolved, NameAt
  <2>2. name_to_id[r] \in [Names -> SUBSET Id]
    BY <1>0 DEF TypeOK
  <2>3. name_to_id'[r] = [name_to_id[r] EXCEPT ![name] = {id[r]}]
    BY <1>0, <2>1 DEF TypeOK
  <2>4. QED
    BY <1>6, <2>2, <2>3
<1>8. Is(r, name, id[r])
  <2>1. IsEntity(r, id[r]) => \E e \in Stored : e.id = id[r]
    BY <1>0 DEF IsEntity, Visible, Stored
  <2>2. QED
    BY <1>5, <1>k, <1>n, <2>1 DEF RowOrLost
<1>9. Linked(r, k)'
  <2>1. PICK f \in Visible(r, "entities") : f.id = id[r] /\ Merges(f, name)
    BY <1>8 DEF Is
  <2>2. f \in Visible(r, "entities")'
    BY <1>3, <2>1 DEF TableName
  <2>3. [chunk |-> ChunkOf(r)', entity |-> f.id] \in Visible(r, "chunk_entities")'
    BY <1>1, <1>2, <2>1 DEF ChunkOf, Visible
  <2>4. NameAt(r, k)' = name
    BY <1>1, <1>n DEF NameAt
  <2>5. QED
    BY <2>1, <2>2, <2>3, <2>4 DEF Linked, Merges
<1>10. Entities(r)'
  <2>1. ASSUME NEW i \in 1..NEntities(r), i < k + 1
        PROVE  Linked(r, i)' /\ name_to_id'[r][NameAt(r, i)] # {}
    <3>1. CASE i = k
      BY <1>7, <1>9, <1>n, <3>1
    <3>2. CASE i # k
      <4>1. i < item[r]
        BY <1>k, <2>1, <3>2, NEntitiesTyped
      <4>2. Linked(r, i) /\ name_to_id[r][NameAt(r, i)] # {}
        BY <1>5, <4>1 DEF Entities
      <4>3. NameAt(r, i) \in Names
        BY <1>0, <2>1, NameTyped
      <4>4. QED
        BY <1>4, <1>7, <4>2, <4>3
    <3>3. QED
      BY <3>1, <3>2
  <2>2. QED
    BY <1>1, <1>4, <2>1 DEF Entities
<1>11. Mapped(r)'
  <2>1. ASSUME NEW n \in Names, NEW x \in name_to_id'[r][n] PROVE Is(r, n, x)'
    <3>1. CASE n = name
      BY <1>4, <1>7, <1>8, <2>1, <3>1
    <3>2. CASE n # name
      BY <1>4, <1>5, <1>7, <2>1, <3>2 DEF Mapped
    <3>3. QED
      BY <3>1, <3>2
  <2>2. QED
    BY <2>1 DEF Mapped
<1>12. Relations(r)'
  <2>1. NEntities(r) \in Nat /\ item[r] <= NEntities(r)
    BY <1>0, NEntitiesTyped DEF TypeOK
  <2>2. QED
    BY <1>1, <1>4, <1>k, <2>1 DEF Relations
<1>13. QED
  BY <1>1, <1>10, <1>11, <1>12 DEF Settled, RowOrLost

(* A relationship is stored between the rows its names were resolved to; it *)
(* is dropped only if one of them was not extracted.                        *)
LEMMA RelationSettles ==
    ASSUME TypeOK, NEW r \in Resolvers, Settled(r), insert_relationship(r), NextItem(r)
    PROVE  Settled(r)'
<1>0. r \in Runs
  BY DEF Runs
<1>k. PICK k \in Nat : k = item[r]
  BY <1>0 DEF TypeOK
<1>1. /\ phase[r] = "resolve" /\ phase' = phase
      /\ run' = run /\ chunk' = chunk /\ extraction' = extraction /\ name_to_id' = name_to_id
      /\ item'[r] = k + 1 /\ k > NEntities(r) /\ NEntities(r) \in Nat
      /\ Len(extraction[r].relationships) \in Nat
      /\ k <= NEntities(r) + Len(extraction[r].relationships)
  BY <1>0, <1>k, NEntitiesTyped DEF insert_relationship, AtRelationship, NextItem, TypeOK
<1>p. PICK pair \in Names \X Names : pair = extraction[r].relationships[k - NEntities(r)]
  <2>1. k - NEntities(r) \in 1..Len(extraction[r].relationships)
    BY <1>1
  <2>2. extraction[r].relationships \in Seq(Names \X Names)
    BY <1>0, NEntitiesTyped
  <2>3. \A j \in 1..Len(extraction[r].relationships) : extraction[r].relationships[j] \in Names \X Names
    BY ONLY <2>2
  <2>4. QED
    BY <2>1, <2>3
<1>e. Endpoints(r) = name_to_id[r][pair[1]] \X name_to_id[r][pair[2]]
  BY <1>k, <1>p DEF Endpoints
<1>2. \A t \in TableName : Visible(r, t) \subseteq Visible(r, t)'
  <2>1. CASE UNCHANGED <<tables, buffer>>
    BY <2>1 DEF Visible
  <2>2. ASSUME NEW row, Write(r, "relationships", row), NEW t \in TableName
        PROVE  Visible(r, t) \subseteq Visible(r, t)'
    <3>1. \/ t = "relationships" /\ buffer'[r][t] = buffer[r][t] \union {row}
          \/ t # "relationships" /\ buffer'[r][t] = buffer[r][t]
      BY <1>0, <2>2 DEF Write, TypeOK, TableName
    <3>2. QED
      BY <2>2, <3>1 DEF Visible, Write
  <2>3. ~End(r, "refused")
    BY <1>0, <1>1 DEF End, Goto, TypeOK
  <2>4. QED
    BY <2>1, <2>2, <2>3 DEF insert_relationship
<1>3. /\ NEntities(r)' = NEntities(r)
      /\ \A i : NameAt(r, i)' = NameAt(r, i)
      /\ \A n, x : Is(r, n, x) => Is(r, n, x)'
      /\ \A i : Linked(r, i) => Linked(r, i)'
      /\ \A i : Related(r, i) => Related(r, i)'
  BY <1>0, <1>1, <1>2, SettledStays
<1>4. Entities(r) /\ Mapped(r) /\ Relations(r)
  BY <1>1 DEF Settled
<1>5. Entities(r)' /\ Mapped(r)'
  <2>1. \A i \in 1..NEntities(r) : i < item[r]
    BY <1>1, <1>k
  <2>2. QED
    BY <1>1, <1>3, <1>4, <2>1 DEF Entities, Mapped
<1>6. Related(r, k - NEntities(r))'
  <2>1. SUFFICES ASSUME Mentioned(r, pair[1]), Mentioned(r, pair[2])
                 PROVE  \E p \in Visible(r, "relationships")' : Is(r, pair[1], p.src)' /\ Is(r, pair[2], p.dst)'
    <3>1. extraction'[r].relationships[k - NEntities(r)'] = pair
      BY <1>1, <1>3, <1>p
    <3>2. \A n : Mentioned(r, n)' <=> Mentioned(r, n)
      BY <1>3 DEF Mentioned
    <3>3. QED
      BY <3>1, <3>2 DEF Related
  <2>2. ASSUME NEW n \in Names, Mentioned(r, n) PROVE name_to_id[r][n] # {}
    <3>1. PICK j \in 1..NEntities(r) : NameAt(r, j) = n
      BY <2>2 DEF Mentioned
    <3>2. j < item[r]
      BY <1>1, <1>k
    <3>3. QED
      BY <1>4, <3>1, <3>2 DEF Entities
  <2>3. pair[1] \in Names /\ pair[2] \in Names
    OBVIOUS
  <2>4. Endpoints(r) # {}
    <3>1. name_to_id[r][pair[1]] # {} /\ name_to_id[r][pair[2]] # {}
      BY <2>1, <2>2, <2>3
    <3>2. PICK a, b : a \in name_to_id[r][pair[1]] /\ b \in name_to_id[r][pair[2]]
      BY <3>1
    <3>3. <<a, b>> \in Endpoints(r)
      BY <1>e, <3>2
    <3>4. QED
      BY <3>3
  <2>5. PICK p \in Endpoints(r) : [src |-> p[1], dst |-> p[2]] \in Visible(r, "relationships")'
    <3>1. ~End(r, "refused")
      BY <1>0, <1>1 DEF End, Goto, TypeOK
    <3>2. PICK p \in Endpoints(r) :
              IF [src |-> p[1], dst |-> p[2]] \in Visible(r, "relationships")
              THEN UNCHANGED <<tables, buffer>>
              ELSE Write(r, "relationships", [src |-> p[1], dst |-> p[2]])
      BY <2>4, <3>1 DEF insert_relationship
    <3>3. CASE UNCHANGED <<tables, buffer>> /\ [src |-> p[1], dst |-> p[2]] \in Visible(r, "relationships")
      BY <3>3 DEF Visible
    <3>4. CASE Write(r, "relationships", [src |-> p[1], dst |-> p[2]])
      BY <1>0, <3>4 DEF Write, Visible, TypeOK, TableName
    <3>5. QED
      BY <3>2, <3>3, <3>4
  <2>6. p[1] \in name_to_id[r][pair[1]] /\ p[2] \in name_to_id[r][pair[2]]
    BY <1>e
  <2>7. Is(r, pair[1], p[1])' /\ Is(r, pair[2], p[2])'
    BY <1>3, <1>4, <2>3, <2>6 DEF Mapped
  <2>8. [src |-> p[1], dst |-> p[2]].src = p[1] /\ [src |-> p[1], dst |-> p[2]].dst = p[2]
    OBVIOUS
  <2>9. QED
    BY <2>5, <2>7, <2>8
<1>7. Relations(r)'
  <2>1. ASSUME NEW i \in 1..Len(extraction[r].relationships), NEntities(r) + i < k + 1
        PROVE  Related(r, i)'
    <3>1. CASE i = k - NEntities(r)
      BY <1>3, <1>6, <3>1
    <3>2. CASE i # k - NEntities(r)
      <4>1. i \in Nat /\ NEntities(r) \in Nat /\ k \in Nat
        BY <1>1
      <4>2. NEntities(r) + i < k
        BY ONLY <4>1, <2>1, <3>2
      <4>3. QED
        BY <1>k, <1>3, <1>4, <4>2 DEF Relations
    <3>3. QED
      BY <3>1, <3>2
  <2>2. QED
    BY <1>1, <1>3, <2>1 DEF Relations
<1>8. QED
  BY <1>1, <1>5, <1>7 DEF Settled, RowOrLost

(* Every step of a job settles what it passes, or the chunk is over.        *)
LEMMA OwnSettles ==
    ASSUME SelfSimilar, TypeOK, IdsInv, NEW r \in Resolvers, Settled(r), Acts(r)
    PROVE  Settled(r)'
<1>0. r \in Runs /\ r \notin Loaders
  BY DEF Runs
<1>1. CASE fuzzy_match_entity(r) \/ insert_entity(r)
  BY <1>1, ResolveSettles
<1>2. CASE phase'[r] \notin {"resolve", "insert", "link"}
  BY <1>2 DEF Settled
<1>3. ASSUME NEW p \in Ended, End(r, p) PROVE Settled(r)'
  <2>1. phase'[r] = p
    BY <1>0, <1>3 DEF End, Goto, TypeOK
  <2>2. QED
    BY <1>2, <2>1 DEF Ended
<1>4. CASE insert_chunk_entity(r)
  <2>1. CASE End(r, "refused")
    BY <1>3, <2>1 DEF Ended
  <2>2. CASE /\ IsEntity(r, id[r]) /\ Resolved(r)
             /\ Write(r, "chunk_entities", [chunk |-> <<r, run[r], chunk[r]>>, entity |-> id[r]])
    BY <1>4, <2>2, LinkSettles DEF insert_chunk_entity, ChunkOf
  <2>3. QED
    BY <1>4, <2>1, <2>2 DEF insert_chunk_entity
<1>5. CASE insert_relationship(r)
  <2>1. NextItem(r) \/ End(r, "refused")
    BY <1>5 DEF insert_relationship
  <2>2. QED
    BY <1>3, <1>5, <2>1, RelationSettles DEF Ended
<1>6. ASSUME NEW x \in Extractions, extract(r, x) PROVE Settled(r)'
  <2>1. phase'[r] = "resolve" /\ item'[r] = 1 /\ \A n \in Names : name_to_id'[r][n] = {}
    BY <1>0, <1>6 DEF extract, Goto, TypeOK
  <2>2. NEntities(r)' \in Nat
    <3>1. extraction'[r] = x
      BY <1>0, <1>6 DEF extract, TypeOK
    <3>2. x \in [entities : Seq(Mention), relationships : Seq(Names \X Names)]
      OBVIOUS
    <3>3. x.entities \in Seq(Mention)
      BY <3>2
    <3>4. QED
      BY <3>1, <3>3 DEF NEntities
  <2>3. Entities(r)' /\ Mapped(r)' /\ Relations(r)'
    BY <2>1, <2>2 DEF Entities, Mapped, Relations
  <2>4. QED
    BY <2>1, <2>3 DEF Settled, RowOrLost
<1>7. CASE begin(r) \/ next_chunk(r)
  <2>1. phase'[r] = "extract"
    BY <1>0, <1>7 DEF begin, next_chunk, Goto, TypeOK
  <2>2. QED
    BY <1>2, <2>1
<1>8. CASE commit(r) \/ commit_after_err(r) \/ deadlock_timeout(r) \/ die(r)
  BY <1>3, <1>8 DEF commit, commit_after_err, deadlock_timeout, die, Ended
<1>9. QED
  BY <1>0, <1>1, <1>4, <1>5, <1>6, <1>7, <1>8 DEF Acts, Step, load_entity, load_no_link

-----------------------------------------------------------------------------

(* A job that leaves a chunk has linked every entity extracted from it and   *)
(* stored every relationship between two of them (persist_chunk_extraction), *)
(* whatever ids were lost, keys waited for and rows committed meanwhile.     *)
THEOREM JobsLinkTheirChunks == SelfSimilar /\ Spec => ChunksAreLinked
<1> SUFFICES ASSUME SelfSimilar PROVE Spec => ChunksAreLinked
  OBVIOUS
<1> DEFINE LinkInv == IdsInv /\ \A r \in Resolvers : Settled(r)
           Leaves(r) == phase[r] = "resolve" /\ phase'[r] = "extract"
           Whole(r) ==
               /\ \A i \in 1..NEntities(r) : Linked(r, i)
               /\ \A i \in 1..Len(extraction[r].relationships) : Related(r, i)
<1>1. Init => LinkInv
  BY DEF Init, IdsInv, Stored, Empty, TableName, Settled, Runs
<1>2. TypeOK /\ LinkInv /\ [Next]_vars => LinkInv'
  <2> SUFFICES ASSUME TypeOK, LinkInv, [Next]_vars PROVE LinkInv'
    OBVIOUS
  <2>1. IdsInv'
    BY IdsStep
  <2>2. ASSUME NEW r \in Resolvers PROVE Settled(r)'
    <3>1. CASE UNCHANGED vars
      <4>1. /\ phase' = phase /\ run' = run /\ chunk' = chunk /\ extraction' = extraction /\ item' = item
            /\ id' = id /\ name_to_id' = name_to_id /\ tables' = tables /\ buffer' = buffer
        BY <3>1 DEF vars
      <4>2. Visible(r, "entities")' = Visible(r, "entities") /\ Stored' = Stored
        BY <4>1 DEF Visible, Stored
      <4>3. \A t \in TableName : Visible(r, t) \subseteq Visible(r, t)'
        BY <4>1 DEF Visible
      <4>4. /\ NEntities(r)' = NEntities(r)
            /\ \A i : NameAt(r, i)' = NameAt(r, i)
            /\ \A n, x : Is(r, n, x) => Is(r, n, x)'
            /\ \A i : Linked(r, i) => Linked(r, i)'
            /\ \A i : Related(r, i) => Related(r, i)'
        BY <4>1, <4>3, SettledStays DEF Runs
      <4>5. Entities(r) => Entities(r)'
        BY <4>1, <4>4 DEF Entities
      <4>6. Mapped(r) => Mapped(r)'
        BY <4>1, <4>4 DEF Mapped
      <4>7. Relations(r) => Relations(r)'
        BY <4>1, <4>4 DEF Relations
      <4>8. RowOrLost(r) => RowOrLost(r)'
        BY <4>1, <4>2 DEF RowOrLost, Is, NameAt, Merges
      <4>9. QED
        BY <4>1, <4>5, <4>6, <4>7, <4>8 DEF Settled
    <3>2. ASSUME NEW s \in Runs, Acts(s) PROVE Settled(r)'
      BY <3>2, OthersSettle, OwnSettles
    <3>3. QED
      BY <3>1, <3>2 DEF Next, Acts
  <2>3. QED
    BY <2>1, <2>2
<1>3. TypeOK /\ LinkInv /\ [Next]_vars => [\A r \in Resolvers : Leaves(r) => Whole(r)]_vars
  <2> SUFFICES ASSUME TypeOK, LinkInv, Next, NEW r \in Resolvers, Leaves(r) PROVE Whole(r)
    OBVIOUS
  <2>0. r \in Runs
    BY DEF Runs
  <2>1. PICK s \in Runs : Acts(s)
    BY DEF Next, Acts
  <2>2. s = r
    BY <2>0, <2>1, StepIsLocal
  <2>3. next_chunk(r)
    <3> USE DEF TypeOK, Goto
    <3>1. ~fuzzy_match_entity(r) /\ ~load_entity(r) /\ ~insert_entity(r) /\ ~insert_chunk_entity(r)
          /\ ~load_no_link(r) /\ ~begin(r) /\ ~(\E x \in Extractions : extract(r, x)) /\ ~commit(r)
      BY <2>0 DEF fuzzy_match_entity, load_entity, insert_entity, insert_chunk_entity, load_no_link, begin,
                  extract, commit
    <3>2. ASSUME NEW p \in Ended, End(r, p) PROVE FALSE
      BY <2>0, <3>2 DEF End, Ended
    <3>3. ~commit_after_err(r) /\ ~die(r) /\ ~deadlock_timeout(r) /\ ~insert_relationship(r)
      BY <3>2 DEF commit_after_err, die, deadlock_timeout, insert_relationship, NextItem, Ended
    <3>4. QED
      BY <2>1, <2>2, <3>1, <3>3 DEF Acts, Step
  <2>4. /\ Entities(r) /\ Relations(r)
        /\ item[r] > NEntities(r) + Len(extraction[r].relationships)
    BY <2>3 DEF next_chunk, Settled
  <2>5. /\ \A i \in 1..NEntities(r) : i < item[r]
        /\ \A i \in 1..Len(extraction[r].relationships) : NEntities(r) + i < item[r]
    <3>1. NEntities(r) \in Nat /\ Len(extraction[r].relationships) \in Nat
      BY <2>0, NEntitiesTyped
    <3>2. item[r] \in Nat
      BY <2>0 DEF TypeOK
    <3>3. QED
      BY ONLY <2>4, <3>1, <3>2
  <2>6. QED
    BY <2>4, <2>5 DEF Entities, Relations
<1>4. [][\A r \in Resolvers : Leaves(r) => Whole(r)]_vars => ChunksAreLinked
  BY PTL DEF ChunksAreLinked, Linked, Related, Is, Mentioned, NameAt, ChunkOf
<1>5. QED
  BY <1>1, <1>2, <1>3, <1>4, EntityTypeCorrect, PTL DEF Spec
=============================================================================
