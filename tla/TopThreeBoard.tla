--------------------------- MODULE TopThreeBoard ---------------------------
(***************************************************************************)
(* The records of TopThree, in the order of their places, are a BloodBoard.*)
(***************************************************************************)
EXTENDS TopThree

Place(k) == CHOOSE row \in rows : row.rank = k

board == [k \in 1 .. Cardinality(rows) |->
             [user |-> Place(k).user, team |-> Place(k).team]]

Board == INSTANCE BloodBoard WITH board <- board

(* Each commit adds one solver behind the others, nobody who stands on the *)
(* board is moved, replaced or doubled, and nothing else touches the       *)
(* board: concurrent handlers, failures and a change of mode included.     *)
ImplementsBoard == Board!Spec

============================================================================
