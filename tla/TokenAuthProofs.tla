-------------------------- MODULE TokenAuthProofs --------------------------
(***************************************************************************)
(* Proofs about TokenAuth, for every set of tokens, names and requests,    *)
(* every lifetime of tokens and entries, every timeout and every delay     *)
(* between two steps: registrations hold, live entries stay, and no token  *)
(* is accepted when it is Grace past its exp.                              *)
(***************************************************************************)
EXTENDS TokenAuth, TLAPS

----------------------------------------------------------------------------
(* The inductive invariant.                                                *)

(* The names in the table are unique, and who was told so is in it. *)
AccountsFit ==
    /\ acked \subseteq users
    /\ \A u, w \in users : u.name = w.name => u = w

(* An entry that has n ticks to live may be about a token that expired     *)
(* while the verdict travelled, waited for its expiry to be computed,      *)
(* waited for the lock, and lay there for all but n ticks of the TTL.      *)
Unspoilt(t, n) == left[t] >= n + 1 - (TTL + Timeout + Delay)

EntriesFit ==
    \A t \in Tokens : items[t] # Vacant /\ items[t] >= 0 => Unspoilt(t, items[t])

(* What a request under way holds, and how long ago the token that it is   *)
(* about to accept was valid.                                              *)
HoldsFit(r) ==
    /\ pc[r] \in Steps => tok[r] \in Tokens /\ wait[r] <= Patience(pc[r])
    /\ pc[r] = "got" =>
          /\ copy[r] \in Lives
          /\ copy[r] >= 0 => Unspoilt(tok[r], copy[r])
    /\ pc[r] = "answered" => left[tok[r]] >= 1 - wait[r]
    /\ pc[r] = "store" => left[tok[r]] >= 1 - Timeout - wait[r]
    /\ pc[r] = "put" =>
          /\ copy[r] = TTL - wait[r]
          /\ left[tok[r]] >= 1 - Timeout - Delay - wait[r]

IInv ==
    /\ TypeOK
    /\ AccountsFit
    /\ EntriesFit
    /\ \A r \in Requests : HoldsFit(r)

----------------------------------------------------------------------------
(* Types.                                                                  *)

(* Both ways to the acceptance of a token, by a cached verdict and by one  *)
(* that is about to be cached, end before Grace is over.                   *)
LEMMA GraceCovers ==
    /\ Grace \in Nat /\ Dead \in Int /\ Dead < 0
    /\ Dead + 1 <= 1 - (TTL + Timeout + Delay)
    /\ Dead + 1 <= 1 - Timeout - Delay - Delay
  BY CacheAssumption, TokenAssumption DEF Grace, Dead

LEMMA LivesAge ==
    ASSUME NEW e \in Lives \cup {Vacant}
    PROVE  /\ Elapse(e) \in Lives \cup {Vacant}
           /\ e # Vacant => Elapse(e) # Vacant /\ Elapse(e) <= e
           /\ e # Vacant /\ Elapse(e) >= 0 => e = Elapse(e) + 1
           /\ e # Vacant /\ e >= 0 => Elapse(e) = e - 1
  BY CacheAssumption DEF Lives, Elapse, Floor

LEMMA StepTypeOK ==
    ASSUME IInv, Next
    PROVE  TypeOK'
<1> USE DEF IInv, TypeOK, CacheTypeOK, cvars, avars, rvars
<1>1. ASSUME NEW v \in Visitors, NEW a \in Account, Register(v, a)
      PROVE  TypeOK'
  BY <1>1 DEF Register
<1>2. ASSUME NEW v \in Visitors, Insert(v)
      PROVE  TypeOK'
  BY <1>2 DEF Insert
<1>3. ASSUME NEW a \in Account, NEW t \in Tokens, Login(a, t)
      PROVE  TypeOK'
  BY <1>3, GraceCovers, TokenAssumption DEF Login
<1>4. ASSUME NEW r \in Requests, NEW t \in Tokens, Lookup(r, t)
      PROVE  TypeOK'
  BY <1>4, CacheAssumption, TokenAssumption DEF Lookup, Goto, Steps, Tokens
<1>5. ASSUME NEW r \in Requests, Serve(r)
      PROVE  TypeOK'
  <2> USE CacheAssumption, TokenAssumption DEF Goto, Finish, Steps, Ends
  <2>1. CASE CheckExpiry(r) \/ Receive(r)
    BY <2>1 DEF CheckExpiry, Receive
  <2>2. CASE Drop(r)
    <3>1. items' \in [Keys -> Lives \cup {Vacant}]
      BY <2>2 DEF Drop, DropExpired, Expired
    <3>2. QED
      BY <2>2, <3>1 DEF Drop
  <2>3. CASE ComputeExpiry(r)
    <3>1. TTL \in Lives
      BY DEF Lives, Floor
    <3>2. QED
      BY <2>3, <3>1 DEF ComputeExpiry
  <2>4. CASE Store(r)
    <3>1. items' \in [Keys -> Lives \cup {Vacant}]
      BY <2>4 DEF Store, Put
    <3>2. QED
      BY <2>4, <3>1 DEF Store
  <2>5. QED
    BY <1>5, <2>1, <2>2, <2>3, <2>4 DEF Serve
<1>6. ASSUME NEW r \in Requests, Verify(r) \/ VerifyFails(r)
      PROVE  TypeOK'
  BY <1>6, CacheAssumption, TokenAssumption
     DEF Verify, VerifyFails, Finish, Goto, Steps, Ends
<1>7. CASE Sweeping
  BY <1>7, CacheAssumption DEF Sweeping, SweepBegin, SweepEnd, Asleep
<1>8. CASE Tick
  <2>1. items' \in [Keys -> Lives \cup {Vacant}] /\ copy' \in [Requests -> Lives \cup {Vacant}]
    BY <1>8, LivesAge DEF Tick, CacheTick
  <2>2. sweep' \in Asleep .. Delay
    BY <1>8, CacheAssumption DEF Tick, CacheTick, Asleep
  <2>3. left' \in [Tokens -> Dead .. Life]
    BY <1>8, GraceCovers, TokenAssumption DEF Tick
  <2>4. wait' \in [Requests -> 0 .. Timeout + Delay]
    BY <1>8, CacheAssumption, TokenAssumption DEF Tick, Patience
  <2>5. QED
    BY <1>8, <2>1, <2>2, <2>3, <2>4 DEF Tick
<1>9. CASE Restart
  BY <1>9, CacheAssumption, TokenAssumption DEF Restart, Asleep, Ends
<1>10. QED
  BY <1>1, <1>2, <1>3, <1>4, <1>5, <1>6, <1>7, <1>8, <1>9 DEF Next

LEMMA StepAccountsFit ==
    ASSUME IInv, Next
    PROVE  AccountsFit'
<1> USE DEF IInv, AccountsFit, avars
<1>1. ASSUME NEW v \in Visitors, Insert(v)
      PROVE  AccountsFit'
  BY <1>1 DEF Insert, Taken
<1>2. CASE \A v \in Visitors : ~Insert(v)
  BY <1>2 DEF Next, Register, Login, Lookup, Serve, CheckExpiry, Drop, Receive,
     ComputeExpiry, Store, Verify, VerifyFails, Sweeping, Tick, Restart
<1>3. QED
  BY <1>1, <1>2

----------------------------------------------------------------------------
(* Verdicts age no faster than the tokens that they are about.             *)

LEMMA StepEntriesFit ==
    ASSUME IInv, Next
    PROVE  EntriesFit'
<1> USE DEF IInv, TypeOK, CacheTypeOK, Tokens
<1>1. CASE Tick
  <2> SUFFICES ASSUME NEW t \in Tokens, items'[t] # Vacant, items'[t] >= 0
               PROVE  left'[t] >= items'[t] + 1 - (TTL + Timeout + Delay)
    BY DEF EntriesFit, Unspoilt
  <2>1. items'[t] = Elapse(items[t]) /\ items[t] \in Lives \cup {Vacant}
    BY <1>1 DEF Tick, CacheTick
  <2>2. items[t] # Vacant
    BY <2>1 DEF Elapse
  <2>3. items[t] = items'[t] + 1 /\ items[t] \in Int /\ items'[t] \in Int /\ items[t] >= 0
    BY <2>1, <2>2, LivesAge, CacheAssumption DEF Lives, Floor
  <2>4. left[t] >= items[t] + 1 - (TTL + Timeout + Delay)
    BY <2>2, <2>3 DEF EntriesFit, Unspoilt
  <2>5. left'[t] \in Int /\ left'[t] >= left[t] - 1 /\ left[t] \in Int
    BY <1>1, GraceCovers, TokenAssumption DEF Tick
  <2>6. QED
    BY <2>3, <2>4, <2>5, CacheAssumption, TokenAssumption
<1>2. ASSUME NEW r \in Requests, Store(r)
      PROVE  EntriesFit'
  <2>1. items' = [items EXCEPT ![tok[r]] = copy[r]] /\ left' = left /\ pc[r] = "put"
    BY <1>2 DEF Store, Put
  <2>2. Unspoilt(tok[r], copy[r])
    BY <2>1, CacheAssumption, TokenAssumption DEF HoldsFit, Steps, Unspoilt
  <2>3. QED
    BY <2>1, <2>2 DEF EntriesFit, Unspoilt
<1>3. ASSUME NEW a \in Account, NEW t \in Tokens, Login(a, t)
      PROVE  EntriesFit'
  BY <1>3 DEF Login, Unused, EntriesFit, Unspoilt, cvars
<1>4. CASE Restart
  BY <1>4 DEF Restart, EntriesFit
<1>5. ASSUME NEW r \in Requests, Drop(r)
      PROVE  EntriesFit'
  <2>1. \A t \in Tokens : items'[t] \in {items[t], Vacant}
    BY <1>5 DEF Drop, DropExpired
  <2>2. QED
    BY <1>5, <2>1 DEF Drop, EntriesFit, Unspoilt
<1>6. CASE Sweeping
  <2>1. \A t \in Tokens : items'[t] \in {items[t], Vacant}
    BY <1>6 DEF Sweeping, SweepBegin, SweepEnd
  <2>2. QED
    BY <1>6, <2>1 DEF Sweeping, EntriesFit, Unspoilt
<1>7. CASE /\ ~Tick /\ ~Restart /\ ~Sweeping
           /\ \A r \in Requests : ~Store(r) /\ ~Drop(r)
           /\ \A a \in Account, t \in Tokens : ~Login(a, t)
  <2>1. UNCHANGED <<items, left>>
    BY <1>7 DEF Next, Register, Insert, Lookup, Serve, CheckExpiry, Receive,
                ComputeExpiry, Verify, VerifyFails, cvars, avars
  <2>2. QED
    BY <2>1 DEF EntriesFit, Unspoilt
<1>8. QED
  BY <1>1, <1>2, <1>3, <1>4, <1>5, <1>6, <1>7

(* The request that takes a step, ... *)
LEMMA OwnHoldsFit ==
    ASSUME IInv, NEW r \in Requests,
           \/ \E t \in Tokens : Lookup(r, t)
           \/ Serve(r) \/ Verify(r) \/ VerifyFails(r)
    PROVE  HoldsFit(r)'
<1> USE CacheAssumption, TokenAssumption
    DEF IInv, TypeOK, Goto, Finish, Steps, Ends, HoldsFit, Unspoilt, Patience
<1>1. ASSUME NEW t \in Tokens, Lookup(r, t)
      PROVE  HoldsFit(r)'
  <2>1. items[t] \in Lives \cup {Vacant}
    BY DEF CacheTypeOK, Tokens
  <2>2. QED
    BY <1>1, <2>1 DEF Lookup, EntriesFit, cvars
<1>2. CASE CheckExpiry(r) \/ Drop(r)
  BY <1>2 DEF CheckExpiry, Drop
<1>3. CASE Receive(r) \/ ComputeExpiry(r)
  BY <1>3 DEF Receive, ComputeExpiry
<1>4. CASE Store(r) \/ VerifyFails(r)
  BY <1>4 DEF Store, VerifyFails
<1>5. CASE Verify(r)
  BY <1>5 DEF Verify, Verifies
<1>6. QED
  BY <1>1, <1>2, <1>3, <1>4, <1>5 DEF Serve

(* ... and time, which ages what each request holds. *)
LEMMA TickHoldsFit ==
    ASSUME IInv, NEW r \in Requests, Tick
    PROVE  HoldsFit(r)'
<1> USE CacheAssumption, TokenAssumption DEF IInv, TypeOK
<1>1. pc' = pc /\ tok' = tok
  BY DEF Tick
<1>2. CASE pc[r] \notin Steps
  BY <1>1, <1>2 DEF HoldsFit, Steps
<1>3. CASE pc[r] \in Steps
  <2>1. wait'[r] = wait[r] + 1 /\ wait[r] < Patience(pc[r]) /\ wait[r] \in Nat
    BY <1>3 DEF Tick
  <2>2. tok[r] \in Tokens /\ left[tok[r]] \in Int /\ left'[tok[r]] \in Int
        /\ left'[tok[r]] >= left[tok[r]] - 1
    BY <1>3, GraceCovers DEF Tick, HoldsFit
  <2>3. copy'[r] = Elapse(copy[r]) /\ copy[r] \in Lives \cup {Vacant}
    BY DEF Tick
  <2>4. pc'[r] \in Steps => tok'[r] \in Tokens /\ wait'[r] <= Patience(pc'[r])
    BY <1>1, <2>1, <2>2 DEF Patience
  <2>5. CASE pc[r] = "got"
    <3>1. copy[r] \in Lives /\ (copy[r] >= 0 => Unspoilt(tok[r], copy[r]))
      BY <2>5 DEF HoldsFit
    <3>2. copy'[r] \in Lives /\ (copy'[r] >= 0 => copy[r] = copy'[r] + 1)
      BY <2>3, <3>1, LivesAge DEF Lives, Floor
    <3>3. copy'[r] >= 0 => Unspoilt(tok[r], copy[r]) /\ copy[r] = copy'[r] + 1
      BY <3>1, <3>2 DEF Lives, Floor
    <3>4. copy'[r] >= 0 => left'[tok[r]] >= copy'[r] + 1 - (TTL + Timeout + Delay)
      BY <2>2, <3>2, <3>3 DEF Unspoilt, Lives, Floor
    <3>5. QED
      BY <1>1, <2>4, <2>5, <3>2, <3>4 DEF HoldsFit, Unspoilt
  <2>6. CASE pc[r] = "put"
    <3>1. copy[r] = TTL - wait[r] /\ copy[r] # Vacant /\ copy[r] # Floor
      BY <2>1, <2>6 DEF HoldsFit, Floor, Patience
    <3>2. copy'[r] = TTL - wait'[r]
      BY <2>1, <2>3, <3>1 DEF Elapse
    <3>3. QED
      BY <1>1, <2>1, <2>2, <2>4, <2>6, <3>2 DEF HoldsFit
  <2>7. CASE pc[r] \notin {"got", "put"}
    BY <1>1, <2>1, <2>2, <2>4, <2>7 DEF HoldsFit
  <2>8. QED
    BY <2>5, <2>6, <2>7
<1>4. QED
  BY <1>2, <1>3

LEMMA InitIInv ==
    ASSUME Init
    PROVE  IInv
<1> USE CacheAssumption, TokenAssumption DEF Init
<1>1. CacheTypeOK
  BY DEF CacheTypeOK, CacheInit, Asleep
<1>2. left \in [Tokens -> Dead .. Life] /\ wait \in [Requests -> 0 .. Timeout + Delay]
  BY GraceCovers
<1>3. TypeOK
  BY <1>1, <1>2 DEF TypeOK, Ends
<1>4. AccountsFit /\ EntriesFit
  BY DEF AccountsFit, EntriesFit, CacheInit, Tokens
<1>5. \A r \in Requests : HoldsFit(r)
  BY DEF HoldsFit, Steps
<1>6. QED
  BY <1>3, <1>4, <1>5 DEF IInv

LEMMA NextIInv ==
    ASSUME IInv, [Next]_vars
    PROVE  IInv'
<1>1. ASSUME Next, NEW s \in Requests
      PROVE  HoldsFit(s)'
  <2>1. CASE Tick
    BY <2>1, TickHoldsFit
  <2>2. CASE Restart
    BY <2>2 DEF Restart, HoldsFit, Steps
  <2>3. ASSUME NEW r \in Requests,
               \/ \E t \in Tokens : Lookup(r, t)
               \/ Serve(r) \/ Verify(r) \/ VerifyFails(r)
        PROVE  HoldsFit(s)'
    <3>1. CASE s = r
      BY <2>3, <3>1, OwnHoldsFit
    <3>2. CASE s # r
      <4>1. /\ left' = left /\ pc'[s] = pc[s] /\ tok'[s] = tok[s]
            /\ copy'[s] = copy[s] /\ wait'[s] = wait[s]
        BY <2>3, <3>2 DEF IInv, TypeOK, Lookup, Serve, CheckExpiry, Drop, Receive,
           ComputeExpiry, Store, Verify, VerifyFails, Finish, Goto
      <4>2. QED
        BY <4>1 DEF IInv, HoldsFit, Unspoilt
    <3>3. QED
      BY <3>1, <3>2
  <2>4. ASSUME NEW a \in Account, NEW t \in Tokens, Login(a, t)
        PROVE  HoldsFit(s)'
    <3>1. pc[s] \in Ends /\ pc' = pc
      BY <2>4 DEF Login, Unused, rvars
    <3>2. QED
      BY <3>1 DEF HoldsFit, Steps, Ends
  <2>5. CASE Sweeping \/ \E v \in Visitors : (\E a \in Account : Register(v, a)) \/ Insert(v)
    <3>1. UNCHANGED <<left, rvars>>
      BY <2>5 DEF Sweeping, Register, Insert
    <3>2. QED
      BY <3>1 DEF rvars, IInv, HoldsFit, Unspoilt
  <2>6. QED
    BY <1>1, <2>1, <2>2, <2>3, <2>4, <2>5 DEF Next
<1>2. CASE Next
  BY <1>1, <1>2, StepTypeOK, StepAccountsFit, StepEntriesFit DEF IInv
<1>3. CASE UNCHANGED vars
  BY <1>3 DEF vars, cvars, avars, rvars, IInv, TypeOK, CacheTypeOK, AccountsFit,
              EntriesFit, HoldsFit, Unspoilt
<1>4. QED
  BY <1>2, <1>3

----------------------------------------------------------------------------
(* The theorems.                                                           *)

THEOREM Invariant == Spec => []IInv
<1>1. Init => IInv
  BY InitIInv
<1>2. IInv /\ [Next]_vars => IInv'
  BY NextIInv
<1>3. QED
  BY <1>1, <1>2, PTL DEF Spec

(* Every variable keeps its type: in particular no entry is stored without *)
(* an expiry, and no wait exceeds what the delays and the timeout allow.   *)
THEOREM TypeCorrect == Spec => []TypeOK
<1>1. IInv => TypeOK
  BY DEF IInv
<1>2. QED
  BY <1>1, Invariant, PTL

(* Who was told that the registration succeeded can log in, whoever else   *)
(* registers the same name at the same time.                               *)
THEOREM RegistrationsHold == Spec => []RegisteredLogIn
<1>1. IInv => RegisteredLogIn
  BY DEF IInv, AccountsFit, TypeOK, RegisteredLogIn, LogsIn, Taken, MatchesRow
<1>2. QED
  BY <1>1, Invariant, PTL

(* A live entry goes away in a restart and in nothing else.                *)
THEOREM LiveEntriesStayCached == Spec => LiveEntriesStay
<1>1. ASSUME IInv, [Next]_vars, NEW k \in Keys,
             items[k] # Vacant, items[k] >= 0, items'[k] = Vacant
      PROVE  Restart
  <2> USE DEF IInv, TypeOK, CacheTypeOK
  <2>1. items[k] \in Lives /\ items[k] \in Int
    BY <1>1, CacheAssumption DEF Lives, Floor
  <2>2. ~Tick
    BY <1>1, <2>1, LivesAge DEF Tick, CacheTick
  <2>3. ~Sweeping
    BY <1>1, <2>1, CacheAssumption DEF Sweeping, SweepBegin, SweepEnd, Asleep
  <2>4. ASSUME NEW r \in Requests
        PROVE  ~Drop(r) /\ ~Store(r)
    <3>1. ~Drop(r)
      BY <1>1, <2>1 DEF Drop, DropExpired, Expired
    <3>2. ASSUME Store(r)
          PROVE  FALSE
      <4>1. pc[r] = "put" /\ items' = [items EXCEPT ![tok[r]] = copy[r]]
        BY <3>2 DEF Store, Put
      <4>2. copy[r] = TTL - wait[r] /\ wait[r] \in Int
        BY <1>1, <4>1 DEF HoldsFit
      <4>3. copy[r] # Vacant
        BY <4>2, CacheAssumption
      <4>4. QED
        BY <1>1, <4>1, <4>3
    <3>3. QED
      BY <3>1, <3>2
  <2>5. items' # items
    BY <1>1
  <2>6. QED
    BY <1>1, <2>2, <2>3, <2>4, <2>5
       DEF Next, vars, Register, Insert, Login, Lookup, Serve, CheckExpiry,
           Receive, ComputeExpiry, Verify, VerifyFails, cvars
<1>2. IInv /\ [Next]_vars =>
        \A k \in Keys :
           items[k] # Vacant /\ items[k] >= 0 /\ items'[k] = Vacant => Restart
  BY <1>1
<1>3. QED
  BY <1>2, Invariant, PTL DEF Spec, LiveEntriesStay

----------------------------------------------------------------------------
(* Tokens are issued, age and are accepted as TokenGate says.              *)

Phase   == [t \in Tokens |-> PhaseOf(left[t])]
Verdict == [r \in Requests |-> IF pc[r] \in {"accepted", "refused"}
                               THEN <<tok[r], pc[r]>> ELSE Vacant]

(* A tick makes no token younger, and takes none over two boundaries. *)
LEMMA PhasesAge ==
    ASSUME NEW n \in Dead .. Life, NEW m, m = IF n = Dead THEN Dead ELSE n - 1
    PROVE  /\ PhaseOf(m) \in {"valid", "grace", "dead"}
           /\ <<PhaseOf(n), PhaseOf(m)>> \in
                 {<<p, p>> : p \in {"valid", "grace", "dead"}}
                 \cup {<<"valid", "grace">>, <<"grace", "dead">>}
<1>1. n \in Int /\ Dead \in Int /\ Dead < 0
  BY GraceCovers, TokenAssumption
<1>2. PhaseOf(n) = PhaseOf(m) \/ (PhaseOf(n) = "valid" /\ PhaseOf(m) = "grace")
      \/ (PhaseOf(n) = "grace" /\ PhaseOf(m) = "dead")
  BY <1>1 DEF PhaseOf
<1>3. PhaseOf(n) \in {"valid", "grace", "dead"} /\ PhaseOf(m) \in {"valid", "grace", "dead"}
  BY DEF PhaseOf
<1>4. QED
  BY <1>2, <1>3

(* A request is answered, with an acceptance only of a token that is not   *)
(* dead, ...                                                               *)
LEMMA AnswerIsAnswer ==
    ASSUME IInv, NEW r \in Requests,
           pc[r] \in Steps, left' = left, tok' = tok,
           \/ pc' = [pc EXCEPT ![r] = "accepted"] /\ left[tok[r]] # Dead
           \/ pc' = [pc EXCEPT ![r] = "refused"]
    PROVE  Gate!Answer(r)
<1> USE DEF IInv, TypeOK
<1>1. tok[r] \in Tokens
  BY DEF HoldsFit
<1>2. Verdict[r] = Vacant /\ Phase' = Phase
  BY DEF Verdict, Phase, Steps
<1>3. Verdict' = [Verdict EXCEPT ![r] = <<tok[r], pc'[r]>>]
  BY DEF Verdict
<1>4. pc'[r] = "accepted" => Phase[tok[r]] # "dead"
  BY <1>1, GraceCovers, TokenAssumption DEF Phase, PhaseOf
<1>5. pc'[r] \in {"accepted", "refused"}
  OBVIOUS
<1>6. QED
  BY <1>1, <1>2, <1>3, <1>4, <1>5 DEF Gate!Answer, Phase, Verdict

(* ... asks again, or goes on. *)
LEMMA AskIsAsk ==
    ASSUME IInv, NEW r \in Requests, left' = left,
           NEW t \in Tokens, tok' = [tok EXCEPT ![r] = t],
           NEW step \in Steps, pc' = [pc EXCEPT ![r] = step]
    PROVE  Gate!Ask(r) \/ UNCHANGED Gate!gvars
<1> USE DEF IInv, TypeOK
<1>1. Phase' = Phase
  BY DEF Phase
<1>2. Verdict' = [Verdict EXCEPT ![r] = Vacant]
  BY DEF Verdict, Steps
<1>3. Verdict[r] = Vacant => Verdict' = Verdict
  BY <1>2 DEF Verdict
<1>4. QED
  BY <1>1, <1>2, <1>3 DEF Gate!Ask, Gate!gvars, Phase, Verdict

LEMMA OnTheWayIsStutter ==
    ASSUME IInv, NEW r \in Requests, pc[r] \in Steps, left' = left, tok' = tok,
           NEW step \in Steps, pc' = [pc EXCEPT ![r] = step]
    PROVE  UNCHANGED Gate!gvars
<1>1. Phase' = Phase
  BY DEF Phase
<1>2. Verdict' = Verdict
  BY DEF Verdict, IInv, TypeOK, Steps
<1>3. QED
  BY <1>1, <1>2 DEF Gate!gvars, Phase, Verdict

(* What a request accepts has expired less than Grace ago. *)
LEMMA AcceptedInGrace ==
    ASSUME IInv, NEW r \in Requests,
           (pc[r] = "got" /\ ~Expired(copy[r])) \/ pc[r] = "put"
    PROVE  left[tok[r]] # Dead
<1> USE CacheAssumption, TokenAssumption DEF IInv, TypeOK
<1>1. tok[r] \in Tokens /\ left[tok[r]] \in Int
  BY GraceCovers DEF HoldsFit, Steps
<1>2. CASE pc[r] = "got" /\ ~Expired(copy[r])
  <2>1. copy[r] \in Int /\ copy[r] >= 0
    BY <1>2 DEF HoldsFit, Expired, Lives, Floor
  <2>2. Unspoilt(tok[r], copy[r])
    BY <1>2, <2>1 DEF HoldsFit
  <2>3. QED
    BY <1>1, <2>1, <2>2, GraceCovers DEF Unspoilt
<1>3. CASE pc[r] = "put"
  <2>1. wait[r] \in Int /\ wait[r] <= Delay
    BY <1>3 DEF HoldsFit, Steps, Patience
  <2>2. left[tok[r]] >= 1 - Timeout - Delay - wait[r]
    BY <1>3 DEF HoldsFit
  <2>3. QED
    BY <1>1, <2>1, <2>2, GraceCovers
<1>4. QED
  BY <1>2, <1>3

LEMMA StepIsGateStep ==
    ASSUME IInv, [Next]_vars
    PROVE  Gate!GateNext \/ UNCHANGED Gate!gvars
<1> USE DEF IInv, TypeOK
<1>1. ASSUME NEW r \in Requests, NEW t \in Tokens, Lookup(r, t)
      PROVE  Gate!Ask(r) \/ UNCHANGED Gate!gvars
  <2>1. PICK step \in {"verify", "got"} : pc' = [pc EXCEPT ![r] = step]
    BY <1>1 DEF Lookup, Goto
  <2>2. QED
    BY <1>1, <2>1, AskIsAsk DEF Lookup, Steps
<1>2. ASSUME NEW r \in Requests, Serve(r) \/ Verify(r) \/ VerifyFails(r)
      PROVE  Gate!Answer(r) \/ UNCHANGED Gate!gvars
  <2>1. pc[r] \in Steps /\ left' = left /\ tok' = tok
    BY <1>2 DEF Serve, CheckExpiry, Drop, Receive, ComputeExpiry, Store, Verify,
                VerifyFails, Steps
  <2>2. \/ \E step \in Steps : pc' = [pc EXCEPT ![r] = step]
        \/ pc' = [pc EXCEPT ![r] = "refused"]
        \/ pc' = [pc EXCEPT ![r] = "accepted"] /\ left[tok[r]] # Dead
    BY <1>2, AcceptedInGrace
       DEF Serve, CheckExpiry, Drop, Receive, ComputeExpiry, Store, Verify,
           VerifyFails, Steps, Finish, Goto
  <2>3. QED
    BY <2>1, <2>2, AnswerIsAnswer, OnTheWayIsStutter
<1>3. ASSUME NEW a \in Account, NEW t \in Tokens, Login(a, t)
      PROVE  Gate!Issue(t)
  <2>1. left[t] = Dead /\ left' = [left EXCEPT ![t] = Life]
        /\ pc' = pc /\ tok' = tok
    BY <1>3 DEF Login, Unused, rvars
  <2>2. Phase[t] = "dead" /\ Phase' = [Phase EXCEPT ![t] = "valid"]
    <3>1. PhaseOf(Dead) = "dead" /\ PhaseOf(Life) = "valid"
      BY GraceCovers, TokenAssumption DEF PhaseOf
    <3>2. \A s \in Tokens : left'[s] = IF s = t THEN Life ELSE left[s]
      BY <2>1
    <3>3. QED
      BY <2>1, <3>1, <3>2 DEF Phase
  <2>3. Verdict' = Verdict
    BY <2>1 DEF Verdict
  <2>4. QED
    BY <2>2, <2>3 DEF Gate!Issue, Phase, Verdict
<1>4. CASE Tick
  <2>1. pc' = pc /\ tok' = tok
        /\ left' = [t \in Tokens |-> IF left[t] = Dead THEN Dead ELSE left[t] - 1]
    BY <1>4 DEF Tick
  <2>2. Verdict' = Verdict
    BY <2>1 DEF Verdict
  <2>3. \A t \in Tokens :
           /\ Phase'[t] \in {"valid", "grace", "dead"}
           /\ <<Phase[t], Phase'[t]>> \in
                 {<<p, p>> : p \in {"valid", "grace", "dead"}}
                 \cup {<<"valid", "grace">>, <<"grace", "dead">>}
    BY <2>1, PhasesAge DEF Phase
  <2>4. Phase' \in [Tokens -> {"valid", "grace", "dead"}]
    BY <2>3 DEF Phase
  <2>5. QED
    BY <2>2, <2>3, <2>4 DEF Gate!GateNext, Gate!Age, Phase, Verdict
<1>5. CASE Restart
  <2>1. Verdict' = [r \in Requests |-> Vacant] /\ Phase' = Phase
    BY <1>5 DEF Restart, Verdict, Phase
  <2>2. QED
    BY <2>1 DEF Gate!GateNext, Gate!Forget, Phase, Verdict
<1>6. CASE \/ Sweeping \/ UNCHANGED vars
           \/ \E v \in Visitors : (\E a \in Account : Register(v, a)) \/ Insert(v)
  <2>1. UNCHANGED <<left, pc, tok>>
    BY <1>6 DEF Sweeping, vars, Register, Insert, rvars
  <2>2. QED
    BY <2>1 DEF Gate!gvars
<1>7. QED
  BY <1>1, <1>2, <1>3, <1>4, <1>5, <1>6 DEF Next, Gate!GateNext

(* A token is accepted while it is valid, or in the Grace after its exp,   *)
(* and never again: for every TTL, timeout and delay, whatever is cached,  *)
(* by whom, and in whatever order entries are read, stored, dropped and    *)
(* swept.                                                                  *)
THEOREM TokensAreGated == Spec => ImplementsGate
<1>1. Init => Gate!GateInit
  <2>1. ASSUME Init
        PROVE  Gate!GateInit
    <3>1. \A t \in Tokens : PhaseOf(left[t]) = "dead"
      BY <2>1, GraceCovers DEF Init, PhaseOf
    <3>2. QED
      BY <2>1, <3>1 DEF Init, Gate!GateInit
  <2>2. QED
    BY <2>1
<1>2. IInv /\ [Next]_vars => [Gate!GateNext]_Gate!gvars
  BY StepIsGateStep
<1>3. QED
  BY <1>1, <1>2, Invariant, PTL DEF Spec, ImplementsGate, Gate!GateSpec

============================================================================
