----------------------------- MODULE Retrieval ------------------------------
(***************************************************************************)
(* The fused retrieval query (pg_raggraph_core/src/retrieval): three lanes *)
(* rank the chunks of a namespace, by distance to the question, by its     *)
(* words, and by a walk of the entity graph; reciprocal rank fusion adds   *)
(* up what each lane gives a chunk.                                        *)
(*                                                                         *)
(* Distances and text ranks are not modelled: these lanes may return their *)
(* rows in any order.  What a walk counts is.  An HNSW index is            *)
(* approximate, and namespace and filter are applied to what it returns:   *)
(* the rows nearest to a question may be any of those there are.           *)
(***************************************************************************)
EXTENDS Integers, Sequences, FiniteSets, SequencesExt

CONSTANTS
    Chunks, Entities,
    Corpus,         \* [Chunks -> [namespace, document, tags, token_count]]
    NamespaceOf,    \* [Entities -> namespace]
    Relationships,  \* of [src, dst, kind]: two may differ in kind alone
    Mentions,       \* rows of chunk_entities: of <<chunk, entity>>
    LaneLimit,      \* LIMIT of a lane, 50
    SeedLimit       \* LIMIT of seeds, 8

ASSUME RetrievalAssumption ==
    /\ IsFiniteSet(Chunks) /\ IsFiniteSet(Entities) /\ IsFiniteSet(Relationships)
    /\ NamespaceOf \in [Entities -> {Corpus[c].namespace : c \in Chunks}]
    /\ \A x \in Relationships : x.src \in Entities /\ x.dst \in Entities
    /\ Mentions \subseteq Chunks \X Entities
    /\ LaneLimit \in Nat \ {0} /\ SeedLimit \in Nat \ {0}

RRF_K == 60

\* Mode::parse knows these; a question is what of the store it is near to.
Mode == {"hybrid", "vector", "bm25", "graph"}
uses_vector(mode) == mode \in {"hybrid", "vector"}
uses_bm25(mode)   == mode \in {"hybrid", "bm25"}
uses_graph(mode)  == mode \in {"hybrid", "graph"}

Least(S) == CHOOSE x \in S : \A y \in S : x <= y

-----------------------------------------------------------------------------
(* The lanes                                                                 *)

\* namespace = $4 AND ($2 IS NULL OR metadata @> $2); a NULL filter is {}.
InScope(c, r) == Corpus[c].namespace = r.namespace /\ r.filter \subseteq Corpus[c].tags

Limited(s) == SubSeq(s, 1, Least({Len(s), LaneLimit}))

vec_lane(r, stored) ==
    LET S == IF uses_vector(r.mode) THEN {c \in stored : InScope(c, r)} ELSE {}
    IN  UNION {{Limited(s) : s \in SetToSeqs(T)} : T \in SUBSET S}

bm_lane(r, stored) ==
    LET S == IF uses_bm25(r.mode) THEN {c \in stored : c \in r.q.matches /\ InScope(c, r)} ELSE {}
    IN  {Limited(s) : s \in SetToSeqs(S)}

\* Entities of the namespace near to the question, as the index finds them.
seeds(r) ==
    LET near == {e \in r.q.near : NamespaceOf[e] = r.namespace}
    IN  {S \in SUBSET near : Cardinality(S) <= SeedLimit}

Ends(x) == {x.src, x.dst}

\* From e along x: CASE WHEN src_id = w.id THEN dst_id ELSE src_id.
Other(x, e) == IF x.src = e THEN x.dst ELSE x.src

\* Mutation: the walk follows relationships from src to dst only.
walked_directed(S, hops) ==
    LET walks[d \in 0..hops] ==
            IF d = 0 THEN [e \in Entities |-> IF e \in S THEN 1 ELSE 0]
            ELSE [e \in Entities |-> SumFunction([x \in {y \in Relationships : y.dst = e} |-> walks[d - 1][x.src]])]
    IN  [e \in Entities |-> SumFunction([d \in 0..hops |-> walks[d][e]])]

\* The rows of walked for each entity.  UNION ALL keeps one for every walk of
\* at most hops steps from a seed, back and forth included.
walked(S, hops) ==
    LET walks[d \in 0..hops] ==
            IF d = 0 THEN [e \in Entities |-> IF e \in S THEN 1 ELSE 0]
            ELSE [e \in Entities |-> SumFunction([x \in {y \in Relationships : e \in Ends(y)} |-> walks[d - 1][Other(x, e)]])]
    IN  [e \in Entities |-> SumFunction([d \in 0..hops |-> walks[d][e]])]

\* COUNT(*): rows of chunk_entities joined to rows of walked.
Count(c, w) == SumFunction([e \in {x \in Entities : <<c, x>> \in Mentions} |-> w[e]])

\* Those that are counted, in the order of their counts.
ByCount(n) ==
    {Limited(s) : s \in {t \in SetToSeqs({c \in DOMAIN n : n[c] > 0}) :
        \A i, j \in 1..Len(t) : i < j => n[t[i]] >= n[t[j]]}}

graph_lane(r, stored) ==
    IF ~uses_graph(r.mode) \/ r.hops < 1 THEN {<<>>}
    ELSE LET S == {c \in stored : InScope(c, r)}
         IN  UNION {ByCount(n) : n \in {[c \in S |-> Count(c, walked(T, r.hops))] : T \in seeds(r)}}

-----------------------------------------------------------------------------
(* Fusion                                                                    *)

Lane == {"vec", "bm25", "graph"}

\* SUM(w * (1.0 / (60 + rk))) over the lanes that rank the chunk, in units
\* small enough for every rank to divide them.
Unit == FoldLeft(LAMBDA n, rk : n * (RRF_K + rk), 1, [i \in 1..LaneLimit |-> i])
Share(w, rk) == IF rk = 0 THEN 0 ELSE w * (Unit \div (RRF_K + rk))
fuse(weights, rk) ==
    Share(weights.vec, rk["vec"]) + Share(weights.bm25, rk["bm25"]) + Share(weights.graph, rk["graph"])

\* RrfWeights: a missing weight is 1, a negative one is 0.
RrfWeights(w) == [lane \in DOMAIN w |-> IF w[lane] < 0 THEN 0 ELSE w[lane]]
Equal == [vec |-> 1, bm25 |-> 1, graph |-> 1]

\* The rank of a chunk in each lane, 0 in a lane that does not return it.
Ranks(lanes, c) == [lane \in Lane |->
    IF \E i \in DOMAIN lanes[lane] : lanes[lane][i] = c
    THEN CHOOSE i \in DOMAIN lanes[lane] : lanes[lane][i] = c ELSE 0]

\* ORDER BY score DESC LIMIT top_k: equal scores in any order.
fused(r, weights, lanes) ==
    LET rows == {[chunk |-> c, sigs |-> Ranks(lanes, c), score |-> fuse(weights, Ranks(lanes, c))] :
                    c \in UNION {ToSet(lanes[lane]) : lane \in Lane}}
    IN  {SubSeq(s, 1, Least({Len(s), r.top_k})) : s \in {t \in SetToSeqs(rows) :
            \A i, j \in 1..Len(t) : i < j => t[i].score >= t[j].score}}

-----------------------------------------------------------------------------
(* What the documentation promises of the query                              *)

\* The entities within n relationships of S, in either direction.
Within(S, n) ==
    LET reach[d \in 0..n] == IF d = 0 THEN S ELSE
            reach[d - 1] \union UNION {Ends(x) : x \in {y \in Relationships : Ends(y) \cap reach[d - 1] # {}}}
    IN  reach[n]

\* The chunks the graph is to find from the seeds S.
Reached(r, stored, S) ==
    IF r.hops < 1 THEN {}
    ELSE {c \in stored : InScope(c, r) /\ \E e \in Within(S, r.hops) : <<c, e>> \in Mentions}

\* A chunk ranked no worse than another in every lane, and better in one.
Dominates(a, b) ==
    /\ \A lane \in Lane : b.sigs[lane] # 0 => a.sigs[lane] # 0 /\ a.sigs[lane] <= b.sigs[lane]
    /\ a.sigs # b.sigs
=============================================================================
