---------------------------- MODULE MCIngestTxn -----------------------------
(* Instances of IngestTxn for TLC.                                         *)
EXTENDS IngestTxn, TLC

CONSTANTS w1, w2, n1, n2, h1, h2

TwoWriters    == {w1, w2}
OneNamespace  == {n1}
TwoNamespaces == {n1, n2}
OneHash       == {h1}
TwoHashes     == {h1, h2}

\* Connections, names and hashes have no order.
Symmetry2 ==
    Permutations(TwoWriters) \union Permutations(TwoNamespaces) \union Permutations(TwoHashes)
=============================================================================
