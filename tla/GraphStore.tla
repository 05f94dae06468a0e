----------------------------- MODULE GraphStore -----------------------------
(***************************************************************************)
(* The graph tables as FakePgClient keeps them                             *)
(* (pg_raggraph_core/src/ingest/pg_client.rs), the store the unit tests of *)
(* the pipeline run against: every insert goes to the buffer of its        *)
(* client, commit appends the buffer to the tables, rollback clears it.    *)
(* EntityResolution is the detailed specification.                         *)
(*                                                                         *)
(* This is the promise of its writes.  Its reads are left out, and differ: *)
(* fuzzy_match_entity of the fake sees committed rows only, that of the    *)
(* adapters the transaction's own too.  So is what becomes of the buffer   *)
(* after an Err, which is the caller's to commit or to roll back.          *)
(***************************************************************************)

CONSTANTS
    Clients,        \* one FakePgClient each, over the same canonical vectors
    Tables          \* the vectors

VARIABLES
    tables,         \* per table, the canonical rows
    buffer          \* per client and table, the rows buffered since commit

vars == <<tables, buffer>>

NoRows == [t \in Tables |-> {}]

Init ==
    /\ tables = NoRows
    /\ buffer = [c \in Clients |-> NoRows]

\* insert_entity, insert_relationship, insert_chunk_entity
Insert(c, t) ==
    /\ \E row \in buffer'[c][t] :
           buffer' = [buffer EXCEPT ![c][t] = @ \union {row}]
    /\ UNCHANGED tables

commit(c) ==
    /\ tables' = [t \in Tables |-> tables[t] \union buffer[c][t]]
    /\ buffer' = [buffer EXCEPT ![c] = NoRows]

rollback(c) ==
    /\ buffer' = [buffer EXCEPT ![c] = NoRows]
    /\ UNCHANGED tables

Next == \E c \in Clients :
    \/ \E t \in Tables : Insert(c, t)
    \/ commit(c)
    \/ rollback(c)

Spec == Init /\ [][Next]_vars
=============================================================================
