---------------------------- MODULE MCResources ----------------------------
(* Module Resources on a small instance, up to renaming of the processes,   *)
(* of the texts and of the incidents.                                       *)
EXTENDS Resources, TLC

CONSTANTS p1, p2, t1, t2, i1, i2

MCProcesses == {p1, p2}
MCTexts     == {t1, t2}
MCIncidents == {i1, i2}

Symmetry == Permutations(MCProcesses) \cup Permutations(MCTexts) \cup Permutations(MCIncidents)
=============================================================================
