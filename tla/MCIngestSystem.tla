--------------------------- MODULE MCIngestSystem ---------------------------
(* Instances of IngestSystem for TLC.                                      *)
EXTENDS IngestSystem, TLC

CONSTANTS j1, j2, w1, w2, r1, n1, h1, h2

OneJob        == {j1}
TwoJobs       == {j1, j2}
TwoWorkers    == {w1, w2}
OneReaper     == {r1}
OneNamespace  == {n1}
OneHash       == {h1}
TwoHashes     == {h1, h2}

\* Two sources in one namespace.
DistinctContent == [j \in Jobs |-> [ns |-> n1, hash |-> IF j = j1 THEN h1 ELSE h2]]

\* The same source.
SameContent     == [j \in Jobs |-> [ns |-> n1, hash |-> h1]]

Symmetry2 == Permutations(TwoWorkers)
=============================================================================
