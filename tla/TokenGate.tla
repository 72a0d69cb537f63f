----------------------------- MODULE TokenGate -----------------------------
(***************************************************************************)
(* What the login and the authentication of requests promise, whatever is  *)
(* cached: a token is handed out to somebody who logs in, is valid for a   *)
(* while, may still be accepted in a period of grace after that, and never *)
(* again afterwards.                                                       *)
(***************************************************************************)
CONSTANTS Tokens, Requests, Nobody

VARIABLES
    phase,         \* phase[t]: how old the token is
    verdict        \* verdict[r]: <<token, "accepted" or "refused">> or Nobody

gvars == <<phase, verdict>>

GateInit ==
    /\ phase = [t \in Tokens |-> "dead"]
    /\ verdict = [r \in Requests |-> Nobody]

(* A token that nobody holds any more stands for the next new one. *)
Issue(t) ==
    /\ phase[t] = "dead"
    /\ phase' = [phase EXCEPT ![t] = "valid"]
    /\ UNCHANGED verdict

(* Time passes, for all tokens at once. *)
Age ==
    /\ phase' \in [Tokens -> {"valid", "grace", "dead"}]
    /\ \A t \in Tokens :
          <<phase[t], phase'[t]>> \in
              {<<p, p>> : p \in {"valid", "grace", "dead"}}
              \cup {<<"valid", "grace">>, <<"grace", "dead">>}
    /\ UNCHANGED verdict

Answer(r) ==
    /\ verdict[r] = Nobody
    /\ \E t \in Tokens :
          \/ /\ phase[t] # "dead"
             /\ verdict' = [verdict EXCEPT ![r] = <<t, "accepted">>]
          \/ verdict' = [verdict EXCEPT ![r] = <<t, "refused">>]
    /\ UNCHANGED phase

Ask(r) ==
    /\ verdict[r] # Nobody
    /\ verdict' = [verdict EXCEPT ![r] = Nobody]
    /\ UNCHANGED phase

(* The server restarts: nobody hears of the requests it was serving. *)
Forget ==
    /\ verdict' = [r \in Requests |-> Nobody]
    /\ UNCHANGED phase

GateNext ==
    \/ \E t \in Tokens : Issue(t)
    \/ Age
    \/ \E r \in Requests : Answer(r) \/ Ask(r)
    \/ Forget

GateSpec == GateInit /\ [][GateNext]_gvars

============================================================================
