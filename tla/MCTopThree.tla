---------------------------- MODULE MCTopThree ----------------------------
(* TopThreeBoard for TLC: named users, so that symmetry can be declared. *)
EXTENDS TopThreeBoard, TLC

CONSTANTS u1, u2, u3, u4, t1, r1, r2

Interchangeable == Permutations(Users) \cup Permutations(Readers)

============================================================================
