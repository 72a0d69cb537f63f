---------------------------- MODULE SolveLedger ----------------------------
(***************************************************************************)
(* What the submission service promises about solves, without requests,    *)
(* statements or failures: a ledger with one line for each user and        *)
(* challenge.  A line is written at most once, names the request that      *)
(* earned it, never changes, and is announced at most once and never       *)
(* before it is written.                                                   *)
(***************************************************************************)
CONSTANTS Users, Challenges, Requests

VARIABLES
    award,         \* for each line, the request that earned it, if any
    announced      \* the lines whose solve was announced to the plugins

Lines == Users \X Challenges

Init ==
    /\ award = [k \in Lines |-> {}]
    /\ announced = {}

Award(k, r) ==
    /\ award[k] = {}
    /\ award' = [award EXCEPT ![k] = {r}]
    /\ UNCHANGED announced

Announce(k) ==
    /\ award[k] # {}
    /\ k \notin announced
    /\ announced' = announced \cup {k}
    /\ UNCHANGED award

Next == \E k \in Lines : Announce(k) \/ \E r \in Requests : Award(k, r)

Spec == Init /\ [][Next]_<<award, announced>>

============================================================================
