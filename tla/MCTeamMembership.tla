------------------------- MODULE MCTeamMembership -------------------------
(* TeamMembership for TLC: named constants, so that symmetry can be declared. *)
EXTENDS TeamMembership, TLC

CONSTANTS r1, r2, u1, u2, u3, t1, t2

Interchangeable ==
    Permutations(Requests) \cup Permutations(Users) \cup Permutations(Teams)

============================================================================
