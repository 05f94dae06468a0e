----------------------------- MODULE MCJobQueue -----------------------------
(* Instances of JobQueue for TLC.                                          *)
EXTENDS JobQueue, TLC

CONSTANTS j1, j2, w1, w2, r1

OneJob       == {j1}
TwoJobs      == {j1, j2}
TwoWorkers   == {w1, w2}
OneReaper    == {r1}

\* Ids have no order: jobs and workers may be renamed.
Symmetry2 == Permutations(TwoJobs) \union Permutations(TwoWorkers)
=============================================================================
