---------------------------- MODULE BloodBoard ----------------------------
(***************************************************************************)
(* What the topthree plugin promises for a challenge: a board of at most   *)
(* three solvers that only ever grows at its end, and on which nobody      *)
(* stands twice.                                                           *)
(***************************************************************************)
EXTENDS Naturals, Sequences

CONSTANTS Users, Teams, NoTeam

VARIABLE board     \* the solvers, first blood first

Solver == [user: Users, team: Teams \cup {NoTeam}]

Clash(a, b) == a.user = b.user \/ (a.team = b.team /\ a.team # NoTeam)

Init == board = <<>>

Award(s) ==
    /\ Len(board) < 3
    /\ \A i \in 1 .. Len(board) : ~Clash(s, board[i])
    /\ board' = Append(board, s)

Next == \E s \in Solver : Award(s)

Spec == Init /\ [][Next]_board

============================================================================
