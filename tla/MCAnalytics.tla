---------------------------- MODULE MCAnalytics ----------------------------
(* Small instances of Analytics: two users of one team. *)
EXTENDS Analytics, TLC

CONSTANTS u1, u2, t1, c1, c2

Mates == u1 :> t1 @@ u2 :> t1

OneChallenge == c1 :> "web"
TwoKinds     == c1 :> "web" @@ c2 :> "pwn"
OnePoint     == c1 :> 1
TwoPoints    == c1 :> 1 @@ c2 :> 2

============================================================================
