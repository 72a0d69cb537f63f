----------------------------- MODULE TTLCache -----------------------------
(***************************************************************************)
(* The in-memory cache (internal/cache/cache.go): a map under a mutex and  *)
(* a goroutine that sweeps it.  An entry is modelled by how many ticks its *)
(* expiresAt lies ahead; behind the clock it is negative, and stops at     *)
(* Floor, beyond which nothing tells two pasts apart.  Values are left     *)
(* out: what a key's value is depends on the key alone for its only user   *)
(* here, the token cache.                                                  *)
(***************************************************************************)
EXTENDS Integers

CONSTANTS
    Keys,
    Vacant,        \* no entry under this key
    TTL,           \* default_ttl in ticks
    Delay          \* ticks a goroutine may be held up between two steps

ASSUME CacheAssumption ==
    /\ TTL \in Nat \ {0}
    /\ Delay \in Nat
    /\ Vacant \notin Int

VARIABLES
    items,         \* the entry of each key
    sweep          \* ticks since cleanupLoop read the clock, -1: it sleeps

cvars == <<items, sweep>>

Floor   == -(Delay + 1)
Lives   == Floor .. TTL
Asleep  == -1

CacheTypeOK ==
    /\ items \in [Keys -> Lives \cup {Vacant}]
    /\ sweep \in Asleep .. Delay

CacheInit ==
    /\ items = [k \in Keys |-> Vacant]
    /\ sweep = Asleep

(* expired(now): now is after expiresAt; the instant itself is not. *)
Expired(e) == e # Vacant /\ e < 0

Elapse(e) == IF e = Vacant \/ e = Floor THEN e ELSE e - 1

(* Slip: no second look. *)
SlipDropExpired(k) == items' = [items EXCEPT ![k] = Vacant]

(* The locked part of Get for an entry that was read as expired: by now    *)
(* another goroutine may have stored a new one.                            *)
DropExpired(k) ==
    items' = [items EXCEPT ![k] = IF Expired(@) THEN Vacant ELSE @]

(* The locked part of SetWithTTL; expiresAt was computed before the lock. *)
Put(k, expiresAt) == items' = [items EXCEPT ![k] = expiresAt]

(* The ticker fires and removeExpired reads the clock ... *)
SweepBegin ==
    /\ sweep = Asleep
    /\ sweep' = 0
    /\ UNCHANGED items

(* Slip: what expires within the next tick is swept too. *)
SlipSweepEnd ==
    /\ sweep # Asleep
    /\ items' = [k \in Keys |->
                    IF items[k] # Vacant /\ items[k] - 1 + sweep < 0
                    THEN Vacant ELSE items[k]]
    /\ sweep' = Asleep

(* ... then takes the lock and removes what had expired at that time. *)
SweepEnd ==
    /\ sweep # Asleep
    /\ items' = [k \in Keys |->
                    IF items[k] # Vacant /\ items[k] + sweep < 0
                    THEN Vacant ELSE items[k]]
    /\ sweep' = Asleep

(* One tick of the clock. *)
CacheTick ==
    /\ sweep < Delay
    /\ items' = [k \in Keys |-> Elapse(items[k])]
    /\ sweep' = IF sweep = Asleep THEN Asleep ELSE sweep + 1

============================================================================
