------------------------- MODULE SubmissionLedger --------------------------
(* The submissions table and the events of Submission as a SolveLedger.    *)
EXTENDS Submission

SolversOf(k) == {row \in CorrectRows : row.user = k[1] /\ row.chal = k[2]}

award == [k \in Users \X Challenges |-> {row.req : row \in SolversOf(k)}]
announced == {<<e.user, e.chal>> : e \in events}

Ledger == INSTANCE SolveLedger WITH award <- award, announced <- announced

(* Whatever the interleaving, the faults and the administrators do, the    *)
(* submission service writes each user's line for a challenge at most      *)
(* once, keeps it, and announces it at most once and only once written.    *)
ImplementsLedger == Ledger!Spec

============================================================================
