------------------------ MODULE SubmissionHistory -------------------------
(***************************************************************************)
(* Submission with history variables, for the properties that compare a    *)
(* recorded row with what was true while its request ran.  The handler     *)
(* reads the competition, the auth service, the registrations and the      *)
(* challenge one after the other, so its verdict is about no single        *)
(* instant; each part of the verdict must still have been true at some     *)
(* instant between the arrival of the request and its INSERT.              *)
(***************************************************************************)
EXTENDS SubmissionLedger

VARIABLES
    lapsed,        \* what held at some instant of each request, and does no more
    before         \* the solves that were there when each request began

hvars == <<vars, lapsed, before>>

(* What holds now, as a request asking for a could see it. *)
FactsNow(a) ==
    {[kind |-> "open", mode |-> c.mode, join |-> c.join] :
        c \in {d \in {comp} : ~d.deleted /\ d.active /\ d.inWindow}}
    \cup {[kind |-> "member", team |-> t] : t \in {teamOf[a.user]} \cap Teams}
    \cup {[kind |-> "registered", team |-> t] : t \in registered}
    \cup {[kind |-> "enabled", flag |-> c.flag] :
        c \in {d \in {chal[a.chal]} : d.enabled}}

HInit ==
    /\ Init
    /\ lapsed = [r \in Requests |-> {}]
    /\ before = [r \in Requests |-> {}]

(* Only what a request in flight has lived through is kept. *)
HNext ==
    /\ Next
    /\ lapsed' = [r \in Requests |->
                     IF {pc[r], pc'[r]} \subseteq DBSteps
                     THEN (lapsed[r] \cup FactsNow(args[r])) \ FactsNow(args[r])'
                     ELSE {}]
    /\ before' = [r \in Requests |->
                     IF pc'[r] \notin DBSteps THEN {}
                     ELSE IF pc[r] = "idle" THEN CorrectRows ELSE before[r]]

HSpec == HInit /\ [][HNext]_hvars

----------------------------------------------------------------------------

(* The request of the row has seen a fact for each part of its verdict. *)
Witnessed(row) ==
    LET r == row.req
        Saw(P(_)) == \E f \in lapsed[r] \cup FactsNow(args[r]) : P(f)
    IN
    /\ Saw(LAMBDA f : f.kind = "open" /\ f.mode = loc[r].mode
                                      /\ f.join = loc[r].join)
    /\ Saw(LAMBDA f : f.kind = "enabled"
                          /\ (f.flag = args[r].flag) = row.correct)
    /\ loc[r].mode = "individual" => row.team = NoTeam
    /\ loc[r].mode = "team" =>
          Saw(LAMBDA f : f.kind = "member" /\ f.team = row.team)
    /\ loc[r].mode = "team" /\ loc[r].join = "managed" =>
          Saw(LAMBDA f : f.kind = "registered" /\ f.team = row.team)

(* A row is never recorded by a request that ran entirely while the        *)
(* competition was closed, was not in the mode the row was judged in, or   *)
(* had the challenge disabled; its verdict compares with a flag the        *)
(* challenge really had; its team is one the user really was in and, in    *)
(* managed mode, one that really was registered.                           *)
VerdictsAreWitnessed == [][\A row \in rows' \ rows : Witnessed(row)]_hvars

(* The team check works against the past: once a solve of a team is in the *)
(* table, no request that begins later records another one for that team,  *)
(* whichever member sends it.  (Overlapping requests do: OneSolvePerTeam.) *)
NoLaterTeamSolve ==
    [][\A b \in rows' \ rows : b.correct /\ b.team # NoTeam =>
           \A a \in before[b.req] : ~(a.team = b.team /\ a.chal = b.chal)]_hvars

============================================================================
