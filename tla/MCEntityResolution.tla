------------------------ MODULE MCEntityResolution --------------------------
(* Instances of EntityResolution for TLC.                                  *)
EXTENDS EntityResolution, TLC

CONSTANTS r1, r2, l1, a, b, c, k, far

TwoJobs     == {r1, r2}
OneLoader   == {l1}
ThreeNames  == {a, b, c}
TwoKinds    == {k, NoKind}

\* The names are variants by their trigrams, and differ by their embedding.
Similar     == [x \in ThreeNames |-> [y \in ThreeNames |-> IF x = y THEN 100 ELSE 80]]

\* Every name has a vector of its own, which the worker's embedder finds; the
\* fixture's b of kind k is another b.
Vectors     == ThreeNames \union {far}
OwnVector   == [x \in ThreeNames |-> x]
OtherSense  == [l \in OneLoader |-> [m \in Mention |->
                   IF m = [name |-> b, kind |-> k] THEN far ELSE m.name]]
SameOnly    == {<<x, x>> : x \in Vectors}

Ent(n, kd) == [name |-> n, kind |-> kd]

\* Entities named in two orders, so that runs wait for each other; one named
\* twice; a kind that is NULL; a relationship with an end not extracted.
TwoOrders == {
    [entities |-> <<Ent(a, k), Ent(b, k)>>, relationships |-> <<<<a, b>>>>],
    [entities |-> <<Ent(b, k), Ent(a, k), Ent(b, NoKind)>>, relationships |-> <<<<a, c>>>>] }
=============================================================================
