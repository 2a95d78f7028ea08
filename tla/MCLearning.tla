----------------------------- MODULE MCLearning -----------------------------
(* Module Learning on a small instance, up to renaming of the incidents and *)
(* of the requests.                                                         *)
EXTENDS Learning, TLC

CONSTANTS i1, i2, r1, r2, a1

MCIncidents   == {i1, i2}
MCRequests    == {r1, r2}
MCAssessments == {a1}

Symmetry == Permutations(MCIncidents) \cup Permutations(MCRequests)
=============================================================================
