----------------------------- MODULE MCDataSync -----------------------------
(* Instances of DataSync for TLC. *)
EXTENDS DataSync

CONSTANTS p1, p2, t1, w1, s1, s2

MCTwoSources == <<s1, s2>>
=============================================================================
