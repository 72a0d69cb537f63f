----------------------------- MODULE TokenAuth -----------------------------
(***************************************************************************)
(* Accounts and tokens: the auth server's Register, Login and Verify       *)
(* (internal/auth), and the platform server's Authenticate with its token  *)
(* cache (internal/middleware/auth.go) over TTLCache.  A token carries its *)
(* claims, so a verdict about it depends on the clock alone; what can go   *)
(* wrong is time: a verdict is reached at one moment, travels, is cached,  *)
(* and is used at another.                                                 *)
(*                                                                         *)
(* Times are kept as ticks from now, so the clock has no end.              *)
(***************************************************************************)
EXTENDS TTLCache

CONSTANTS
    Requests,      \* goroutines of the platform server
    Visitors,      \* goroutines of the auth server that register somebody
    Names, Passwords,
    Life,          \* ticks from a login to the token's exp
    Timeout        \* ticks the HTTP client waits for a verification

Tokens == Keys

ASSUME TokenAssumption ==
    /\ Life \in Nat \ {0}
    /\ Timeout \in Nat

VARIABLES
    users,         \* the rows of users
    acked,         \* registrations that were answered with 201
    reg,           \* reg[v]: the account v is about to insert, or Idle
    left,          \* left[t]: ticks to exp of token t, 0 and less is past
    pc,            \* the next step of each request
    tok,           \* the token it carries
    copy,          \* the expiresAt it holds: the entry it read, or will store
    wait           \* ticks since it came to this step

avars == <<users, acked, reg>>
rvars == <<pc, tok, copy, wait>>
vars  == <<cvars, avars, left, rvars>>

Idle    == [name |-> "", pw |-> ""]
Account == [name: Names, pw: Passwords]

(* The longest time after its exp at which a token is still accepted: an   *)
(* entry's TTL starts when the verdict is stored, and the verdict may have *)
(* been on its way for as long as the client waits for it.                 *)
Grace == (IF TTL > Delay THEN TTL ELSE Delay) + Timeout + Delay - 1
Dead  == -(Grace + 1)

Steps == {"got", "drop", "verify", "answered", "store", "put"}
Ends  == {"idle", "accepted", "refused"}

(* What each variable may hold. *)
TypeOK ==
    /\ CacheTypeOK
    /\ users \in SUBSET Account
    /\ acked \in SUBSET Account
    /\ reg \in [Visitors -> Account \cup {Idle}]
    /\ left \in [Tokens -> Dead .. Life]
    /\ pc \in [Requests -> Steps \cup Ends]
    /\ tok \in [Requests -> Tokens \cup {Vacant}]
    /\ copy \in [Requests -> Lives \cup {Vacant}]
    /\ wait \in [Requests -> 0 .. Timeout + Delay]

Init ==
    /\ CacheInit
    /\ users = {}
    /\ acked = {}
    /\ reg = [v \in Visitors |-> Idle]
    /\ left = [t \in Tokens |-> Dead]
    /\ pc = [r \in Requests |-> "idle"]
    /\ tok = [r \in Requests |-> Vacant]
    /\ copy = [r \in Requests |-> Vacant]
    /\ wait = [r \in Requests |-> 0]

----------------------------------------------------------------------------
(* The auth server.                                                        *)

Taken(n) == \E u \in users : u.name = n

(* Register: SELECT by name, an answer that does not say why when it is    *)
(* taken, and bcrypt before the INSERT.                                    *)
Register(v, a) ==
    /\ reg[v] = Idle
    /\ ~Taken(a.name)
    /\ reg' = [reg EXCEPT ![v] = a]
    /\ UNCHANGED <<cvars, users, acked, left, rvars>>

(* Slip: the index is not unique. *)
SlipInsert(v) ==
    /\ reg[v] # Idle
    /\ users' = users \cup {reg[v]}
    /\ acked' = acked \cup {reg[v]}
    /\ reg' = [reg EXCEPT ![v] = Idle]
    /\ UNCHANGED <<cvars, left, rvars>>

(* The INSERT; the unique index on username is the only lock there is.     *)
Insert(v) ==
    /\ reg[v] # Idle
    /\ IF Taken(reg[v].name)
       THEN UNCHANGED <<users, acked>>
       ELSE /\ users' = users \cup {reg[v]}
            /\ acked' \in {acked, acked \cup {reg[v]}}  \* the answer may be lost
    /\ reg' = [reg EXCEPT ![v] = Idle]
    /\ UNCHANGED <<cvars, left, rvars>>

(* GetUserByUsername takes one row of the name, whichever comes first.     *)
MatchesRow(u, a) == u.name = a.name /\ u.pw = a.pw
LogsIn(a) == Taken(a.name) /\ \A u \in users : u.name = a.name => MatchesRow(u, a)

(* A token nobody can tell from a new one. *)
Unused(t) ==
    /\ left[t] = Dead
    /\ items[t] = Vacant
    /\ \A r \in Requests : pc[r] \in Ends

(* Login and GenerateToken: exp is Life from now. *)
Login(a, t) ==
    /\ LogsIn(a)
    /\ Unused(t)
    /\ left' = [left EXCEPT ![t] = Life]
    /\ UNCHANGED <<cvars, avars, rvars>>

(* jwt.Parse: valid while now is before exp. *)
Verifies(t) == left[t] > 0

----------------------------------------------------------------------------
(* Authenticate, with GetOrSet inlined.                                    *)

Goto(r, step, c) ==
    /\ pc' = [pc EXCEPT ![r] = step]
    /\ copy' = [copy EXCEPT ![r] = c]
    /\ wait' = [wait EXCEPT ![r] = 0]

Finish(r, end) == Goto(r, end, Vacant)

(* A request with token t: the entry is read under the read lock. *)
Lookup(r, t) ==
    /\ pc[r] \in Ends
    /\ tok' = [tok EXCEPT ![r] = t]
    /\ IF items[t] = Vacant
       THEN Goto(r, "verify", Vacant)
       ELSE Goto(r, "got", items[t])
    /\ UNCHANGED <<cvars, avars, left>>

(* Slip: an entry is good for a tick more. *)
SlipCheckExpiry(r) ==
    /\ pc[r] = "got"
    /\ IF copy[r] < -1 THEN Goto(r, "drop", Vacant) ELSE Finish(r, "accepted")
    /\ UNCHANGED <<cvars, avars, left, tok>>

(* It is compared with the clock after the lock is released. *)
CheckExpiry(r) ==
    /\ pc[r] = "got"
    /\ IF Expired(copy[r]) THEN Goto(r, "drop", Vacant) ELSE Finish(r, "accepted")
    /\ UNCHANGED <<cvars, avars, left, tok>>

Drop(r) ==
    /\ pc[r] = "drop"
    /\ DropExpired(tok[r])
    /\ Goto(r, "verify", Vacant)
    /\ UNCHANGED <<sweep, avars, left, tok>>

(* The auth server looks at the token; its answer is on the way.           *)
Verify(r) ==
    /\ pc[r] = "verify"
    /\ IF Verifies(tok[r])
       THEN /\ pc' = [pc EXCEPT ![r] = "answered"]
            /\ UNCHANGED <<copy, wait>>    \* the client's timeout goes on
       ELSE Finish(r, "refused")
    /\ UNCHANGED <<cvars, avars, left, tok>>

Receive(r) ==
    /\ pc[r] = "answered"
    /\ Goto(r, "store", Vacant)
    /\ UNCHANGED <<cvars, avars, left, tok>>

(* Slip: a failure is cached like a verdict. *)
SlipVerifyFails(r) ==
    /\ pc[r] \in {"verify", "answered"}
    /\ Goto(r, "store", Vacant)
    /\ UNCHANGED <<cvars, avars, left, tok>>

(* Slip: a client without a timeout does not fail of its own accord. *)
SlipNoTimeout(r) ==
    /\ pc[r] = "answered"
    /\ Finish(r, "refused")
    /\ UNCHANGED <<cvars, avars, left, tok>>

(* The timeout, a lost connection, an answer that is not the expected one. *)
(* Nothing is cached.                                                      *)
VerifyFails(r) ==
    /\ pc[r] \in {"verify", "answered"}
    /\ Finish(r, "refused")
    /\ UNCHANGED <<cvars, avars, left, tok>>

(* Slip: the TTL is counted from the end of the default TTL. *)
SlipComputeExpiry(r) ==
    /\ pc[r] = "store"
    /\ Goto(r, "put", TTL + TTL)
    /\ UNCHANGED <<cvars, avars, left, tok>>

(* SetWithTTL reads the clock before it takes the lock. *)
ComputeExpiry(r) ==
    /\ pc[r] = "store"
    /\ Goto(r, "put", TTL)
    /\ UNCHANGED <<cvars, avars, left, tok>>

Store(r) ==
    /\ pc[r] = "put"
    /\ Put(tok[r], copy[r])
    /\ Finish(r, "accepted")
    /\ UNCHANGED <<sweep, avars, left, tok>>

Serve(r) ==
    \/ CheckExpiry(r) \/ Drop(r) \/ Receive(r) \/ ComputeExpiry(r) \/ Store(r)

----------------------------------------------------------------------------
(* Time and failure.                                                       *)

Patience(step) == IF step \in {"verify", "answered"} THEN Timeout ELSE Delay

(* A tick.  Who waits for the auth server gives up after Timeout, and who  *)
(* waits for nothing goes on within Delay.                                 *)
Tick ==
    /\ \A r \in Requests : pc[r] \in Steps => wait[r] < Patience(pc[r])
    /\ CacheTick
    /\ left' = [t \in Tokens |-> IF left[t] = Dead THEN Dead ELSE left[t] - 1]
    /\ copy' = [r \in Requests |-> Elapse(copy[r])]
    /\ wait' = [r \in Requests |-> IF pc[r] \in Steps THEN wait[r] + 1 ELSE 0]
    /\ UNCHANGED <<avars, pc, tok>>

(* The platform server stops and starts again: the cache is empty, and the *)
(* requests it was serving are gone.  The tokens live on.                  *)
Restart ==
    /\ items' = [k \in Keys |-> Vacant]
    /\ sweep' = Asleep
    /\ pc' = [r \in Requests |-> "idle"]
    /\ tok' = [r \in Requests |-> Vacant]
    /\ copy' = [r \in Requests |-> Vacant]
    /\ wait' = [r \in Requests |-> 0]
    /\ UNCHANGED <<avars, left>>

Sweeping == (SweepBegin \/ SweepEnd) /\ UNCHANGED <<avars, left, rvars>>

Next ==
    \/ \E v \in Visitors : (\E a \in Account : Register(v, a)) \/ Insert(v)
    \/ \E a \in Account, t \in Tokens : Login(a, t)
    \/ \E r \in Requests :
          \/ \E t \in Tokens : Lookup(r, t)
          \/ Serve(r) \/ Verify(r) \/ VerifyFails(r)
    \/ Sweeping
    \/ Tick
    \/ Restart

Spec == Init /\ [][Next]_vars

(* Goroutines run, the ticker fires, and the HTTP client has a timeout.    *)
(* The auth server need not answer, and nobody need send a request.        *)
Fairness ==
    /\ \A r \in Requests : WF_vars(Serve(r)) /\ WF_vars(VerifyFails(r))
    /\ WF_vars(Sweeping)

FairSpec == Spec /\ Fairness

----------------------------------------------------------------------------

(* Whoever was told that the registration succeeded can log in with that   *)
(* password, also when somebody else registers the name at the same time   *)
(* (Register checks, hashes, and inserts).                                 *)
RegisteredLogIn == \A a \in acked : LogsIn(a)

(* A live entry disappears only in a restart: neither the lazy removal in  *)
(* Get nor the sweep, which both act on what they read before they had the *)
(* lock, takes away an entry that was stored in between.                   *)
LiveEntriesStay ==
    [][\A k \in Keys :
          items[k] # Vacant /\ items[k] >= 0 /\ items'[k] = Vacant => Restart]_vars

(* An expired entry does not stay in memory, used or not: cleanupLoop      *)
(* removes it, or a new verdict replaces it.  Nor does a request stay that *)
(* the auth server never answers: the client's timeout ends it.            *)
NothingLingers ==
    /\ \A k \in Keys : Expired(items[k]) ~> ~Expired(items[k])
    /\ \A r \in Requests : pc[r] \in Steps ~> pc[r] \in Ends

(* Tokens are issued, age, and are accepted as TokenGate says: never when  *)
(* they are Grace past their exp, whatever the cache and the races in it.  *)
PhaseOf(n) == IF n > 0 THEN "valid" ELSE IF n > Dead THEN "grace" ELSE "dead"

Gate == INSTANCE TokenGate WITH
            Nobody  <- Vacant,
            phase   <- [t \in Tokens |-> PhaseOf(left[t])],
            verdict <- [r \in Requests |->
                           IF pc[r] \in {"accepted", "refused"}
                           THEN <<tok[r], pc[r]>> ELSE Vacant]

ImplementsGate == Gate!GateSpec

============================================================================
