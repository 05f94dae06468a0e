--------------------------- MODULE DocumentStore ---------------------------
(***************************************************************************)
(* What pgrg.namespaces, pgrg.documents and pgrg.chunks promise to a       *)
(* reader: a document appears in one step, with all its chunks, under a    *)
(* namespace that exists; nothing replaces it; it goes when it is deleted  *)
(* or when its namespace is dropped.  No transactions, no locks, no        *)
(* workers: IngestTxn is the detailed specification.                       *)
(***************************************************************************)
EXTENDS Naturals

CONSTANTS
    Namespaces,     \* names a namespace may have
    Hashes,         \* content hashes
    Sizes,          \* chunk counts a document may be published with
    NoDoc           \* no document has this hash

VARIABLES
    documents,      \* per hash, the document: its namespace and chunk count
    namespaces      \* rows of pgrg.namespaces

vars == <<documents, namespaces>>

Document == [ns : Namespaces, chunks : Sizes]

Init ==
    /\ documents = [h \in Hashes |-> NoDoc]
    /\ namespaces \in SUBSET Namespaces

Publish(h, doc) ==
    /\ documents[h] = NoDoc
    /\ doc.ns \in namespaces
    /\ documents' = [documents EXCEPT ![h] = doc]
    /\ UNCHANGED namespaces

Delete(h) ==
    /\ documents' = [documents EXCEPT ![h] = NoDoc]
    /\ UNCHANGED namespaces

CreateNamespace(n) ==
    /\ namespaces' = namespaces \union {n}
    /\ UNCHANGED documents

\* ON DELETE CASCADE
DropNamespace(n) ==
    /\ namespaces' = namespaces \ {n}
    /\ documents' = [h \in Hashes |->
          IF documents[h] # NoDoc /\ documents[h].ns = n THEN NoDoc ELSE documents[h]]

Next ==
    \/ \E h \in Hashes, doc \in Document : Publish(h, doc)
    \/ \E h \in Hashes : Delete(h)
    \/ \E n \in Namespaces : CreateNamespace(n) \/ DropNamespace(n)

Spec == Init /\ [][Next]_vars
=============================================================================
