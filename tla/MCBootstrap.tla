---------------------------- MODULE MCBootstrap -----------------------------
(* Instances of Bootstrap for TLC.                                         *)
EXTENDS Bootstrap, TLC

CONSTANTS s1, s2

TwoSidecars == {s1, s2}
=============================================================================
