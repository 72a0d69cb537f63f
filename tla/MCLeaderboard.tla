--------------------------- MODULE MCLeaderboard ---------------------------
(* Small instances of Leaderboard. *)
EXTENDS Leaderboard, TLC

CONSTANTS u1, u2, t1, c1, c2, r1, r2

(* Different powers of two tell every sum of points from every other. *)
MCPoints == c1 :> 1 @@ c2 :> 2
OnePoint == c1 :> 1
Mates    == u1 :> t1 @@ u2 :> t1

(* The users are in the same team or in none. *)
Alike == Permutations({u1, u2})

============================================================================
