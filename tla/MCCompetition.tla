--------------------------- MODULE MCCompetition ---------------------------
(* Competition for TLC: named constants, so that symmetry can be declared. *)
EXTENDS Competition, TLC

CONSTANTS r1, r2, t1, t2, c1

Interchangeable == Permutations(Requests) \cup Permutations(Teams)

============================================================================
