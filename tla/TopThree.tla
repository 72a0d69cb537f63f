----------------------------- MODULE TopThree -----------------------------
(***************************************************************************)
(* The first three solvers of one challenge of one competition, as the     *)
(* topthree plugin (plugins/topthree) records them.  Each correct          *)
(* submission is an event; event.Publish runs handleCorrectSubmission on   *)
(* it in a goroutine of its own, so that the handlers of a challenge run   *)
(* concurrently and in any order.  A handler decides inside a transaction  *)
(* that reads the records FOR UPDATE; the module has the InnoDB locks that *)
(* this takes: a row lock when there are records, and when there are none  *)
(* only a gap lock, which several transactions can hold together.          *)
(*                                                                         *)
(* The plugin also keeps two kinds of entries in the TTL cache: the        *)
(* challenge's own entry, which lets a handler skip the database when the  *)
(* three places are taken, and the two views that readers fill through     *)
(* pluginutil.WithCache.                                                   *)
(***************************************************************************)
EXTENDS Naturals, FiniteSets

CONSTANTS
    Users,         \* each publishes at most one event for the challenge
    Teams,
    NoTeam,        \* Event.TeamID = ""
    Modes,         \* the modes that the competition may have
    Readers,       \* HTTP requests that read a view
    Faults,        \* failures that may happen, a subset of FaultKinds
    MaxChanges     \* bound on the changes of the competition

FaultKinds == {
    "store",       \* a statement fails
    "ack",         \* COMMIT takes effect but its answer never arrives
    "crash"}       \* the server process dies

TeamIDs == Teams \cup {NoTeam}
Places  == 1 .. 3
Row     == [user: Users, team: TeamIDs, rank: Nat, time: Nat]

ASSUME ConstantsAssumption ==
    /\ NoTeam \notin Teams
    /\ Modes \subseteq {"individual", "team"}
    /\ Faults \subseteq FaultKinds
    /\ MaxChanges \in Nat

VARIABLES
    mode,          \* the competition's mode, or "deleted"
    ev,            \* the event of each user: its team and SubmittedAt
    pc,            \* the next statement of each user's handler
    lmode,         \* its local variable mode
    outcome,       \* how it disposed of the event
    rows,          \* committed topthree_records
    gapLock,       \* transactions that hold the gap lock of the empty range
    rowLock,       \* the transaction that holds the row locks, if any
    current,       \* what its locking read returned
    fetched,       \* what the handler's refresh read
    chalCache,     \* cache: "topthree:<comp>:<chal>"
    views,         \* cache: "topthree:<comp>:map" and "topthree:<comp>"
    rpc,           \* the next step of each reader
    rview,         \* the view it is after
    rfetched,      \* what its query returned
    changes        \* changes of the competition made so far

locks   == <<gapLock, rowLock, current>>
readers == <<rpc, rview, rfetched>>
vars    == <<mode, ev, pc, lmode, outcome, rows, locks, fetched, chalCache,
             views, readers, changes>>

AnyMode  == {"individual", "team"}
Absent   == {}           \* a cache key holds at most one entry: {} or {entry}
Views    == {"map",        \* GetCompTopThree, for the leaderboard
             "api"}        \* GET /api/v1/topthree/competitions/{id}
Event    == [team: TeamIDs, time: Nat]
InTx     == {"mode", "lock", "insert", "commit"}
InCache  == {"refresh", "store", "clear"}
Running  == InTx \cup InCache \cup {"check"}
Outcomes == {"none", "full", "already", "recorded", "victim", "dropped", "lost"}

TypeOK ==
    /\ mode \in AnyMode \cup {"deleted"}
    /\ ev \in [Users -> Event]
    /\ pc \in [Users -> Running \cup {"idle", "done"}]
    /\ lmode \in [Users -> AnyMode]
    /\ outcome \in [Users -> Outcomes]
    /\ rows \in SUBSET Row
    /\ gapLock \in SUBSET Users
    /\ rowLock \in SUBSET Users
    /\ current \in [Users -> SUBSET Row]
    /\ fetched \in [Users -> SUBSET Row]
    /\ chalCache \in SUBSET SUBSET Row
    /\ views \in [Views -> SUBSET SUBSET Row]
    /\ rpc \in [Readers -> {"idle", "query", "store"}]
    /\ rview \in [Readers -> Views]
    /\ rfetched \in [Readers -> SUBSET Row]
    /\ changes \in 0 .. MaxChanges

Init ==
    /\ mode \in Modes
    /\ ev = [u \in Users |-> [team |-> NoTeam, time |-> 0]]
    /\ pc = [u \in Users |-> "idle"]
    /\ lmode = [u \in Users |-> "individual"]
    /\ outcome = [u \in Users |-> "none"]
    /\ rows = {}
    /\ gapLock = {}
    /\ rowLock = {}
    /\ current = [u \in Users |-> {}]
    /\ fetched = [u \in Users |-> {}]
    /\ chalCache = Absent
    /\ views = [v \in Views |-> Absent]
    /\ rpc = [r \in Readers |-> "idle"]
    /\ rview = [r \in Readers |-> "map"]
    /\ rfetched = [r \in Readers |-> {}]
    /\ changes = 0

----------------------------------------------------------------------------
(* The handler of user h's event.                                          *)

Goto(h, next) == pc' = [pc EXCEPT ![h] = next]

Decide(h, out) == outcome' = [outcome EXCEPT ![h] = out]

Finish(h, out) == Goto(h, "done") /\ Decide(h, out)

(* Slip: a return without the deferred Rollback. *)
SlipRelease(h) == UNCHANGED <<gapLock, rowLock, current>>

(* The end of a transaction, committed or rolled back. *)
Release(h) ==
    /\ gapLock' = gapLock \ {h}
    /\ rowLock' = rowLock \ {h}
    /\ current' = [current EXCEPT ![h] = {}]

(* SubmitInComp publishes with the clock's reading.  The team is the one   *)
(* its request resolved, under whatever mode the competition then had.     *)
Publish(h) ==
    /\ pc[h] = "idle"
    /\ \E t \in TeamIDs :
          ev' = [ev EXCEPT ![h] =
                    [team |-> t,
                     time |-> Cardinality({u \in Users : pc[u] # "idle"}) + 1]]
    /\ Goto(h, "check")
    /\ UNCHANGED <<mode, lmode, outcome, rows, locks, fetched, chalCache,
                   views, readers, changes>>

(* Slip: any entry counts as full. *)
SlipFull(entry) == entry # {}

Full(entry) == \A k \in Places : \E row \in entry : row.rank = k

(* isTopThreeFullFromCache *)
CheckCache(h) ==
    /\ pc[h] = "check"
    /\ \/ /\ \E entry \in chalCache : Full(entry)
          /\ Finish(h, "full")
       \/ /\ \A entry \in chalCache : ~Full(entry)
          /\ Goto(h, "mode")
          /\ UNCHANGED outcome
    /\ UNCHANGED <<mode, ev, lmode, rows, locks, fetched, chalCache, views,
                   readers, changes>>

(* BeginTx and getCompetitionMode: no row is an error like any other. *)
ReadMode(h) ==
    /\ pc[h] = "mode"
    /\ \/ /\ mode = "deleted"
          /\ Finish(h, "dropped")
          /\ UNCHANGED lmode
       \/ /\ mode # "deleted"
          /\ lmode' = [lmode EXCEPT ![h] = mode]
          /\ Goto(h, "lock")
          /\ UNCHANGED outcome
    /\ UNCHANGED <<mode, ev, rows, locks, fetched, chalCache, views, readers,
                   changes>>

(* Slip: team mates are not recognised. *)
SlipEntityIn(h, records) == \E row \in records : row.user = h

(* entityInTopThree; a record's team is NULL outside team mode. *)
EntityIn(h, records) ==
    \E row \in records :
        IF lmode[h] = "team" /\ ev[h].team # NoTeam
        THEN row.team = ev[h].team
        ELSE row.user = h

(* getCurrentTopThreeForUpdate waits for the transaction that holds, or has *)
(* inserted, a row of the range.  The decisions that follow use only what   *)
(* it returned.                                                             *)
LockAndRead(h) ==
    /\ pc[h] = "lock"
    /\ rowLock = {}
    /\ \/ /\ Cardinality(rows) >= 3        \* read-only commit, then refresh
          /\ Goto(h, "refresh")
          /\ Decide(h, "full")
          /\ UNCHANGED locks
       \/ /\ Cardinality(rows) < 3         \* return; deferred rollback
          /\ EntityIn(h, rows)
          /\ Finish(h, "already")
          /\ UNCHANGED locks
       \/ /\ Cardinality(rows) < 3
          /\ ~EntityIn(h, rows)
          /\ IF rows = {} THEN /\ gapLock' = gapLock \cup {h}
                               /\ UNCHANGED rowLock
                          ELSE /\ rowLock' = {h}
                               /\ UNCHANGED gapLock
          /\ current' = [current EXCEPT ![h] = rows]
          /\ Goto(h, "insert")
          /\ UNCHANGED outcome
    /\ UNCHANGED <<mode, ev, lmode, rows, fetched, chalCache, views, readers,
                   changes>>

(* The INSERT waits while another transaction holds the gap lock. *)
Insert(h) ==
    /\ pc[h] = "insert"
    /\ gapLock \subseteq {h}
    /\ rowLock \subseteq {h}
    /\ rowLock' = {h}
    /\ gapLock' = {}
    /\ Goto(h, "commit")
    /\ UNCHANGED <<mode, ev, lmode, outcome, rows, current, fetched, chalCache,
                   views, readers, changes>>

(* Two transactions wait for each other's gap lock: InnoDB rolls one back, *)
(* and its handler logs the error and drops the event.                     *)
Deadlock(h) ==
    /\ pc[h] = "insert"
    /\ h \in gapLock
    /\ \E g \in gapLock \ {h} : pc[g] = "insert"
    /\ Release(h)
    /\ Finish(h, "victim")
    /\ UNCHANGED <<mode, ev, lmode, rows, fetched, chalCache, views, readers,
                   changes>>

(* Slip: two columns of the INSERT are swapped. *)
SlipNewRow(h) == [user |-> IF lmode[h] = "team" THEN ev[h].team ELSE NoTeam,
                  team |-> h,
                  rank |-> Cardinality(current[h]) + 1,
                  time |-> ev[h].time]

(* calculateNewRank and the row of updateTopThreeInTx.  Only the branch    *)
(* "fewer than three" of both is live: the caller has returned otherwise.  *)
NewRow(h) == [user |-> h,
              team |-> IF lmode[h] = "team" THEN ev[h].team ELSE NoTeam,
              rank |-> Cardinality(current[h]) + 1,
              time |-> ev[h].time]

Commit(h) ==
    /\ pc[h] = "commit"
    /\ rows' = rows \cup {NewRow(h)}
    /\ Release(h)
    /\ Decide(h, "recorded")
    /\ Goto(h, "refresh")
    /\ UNCHANGED <<mode, ev, lmode, fetched, chalCache, views, readers,
                   changes>>

(* refreshChalCache: the query, whose failure yields an empty entry ...    *)
Refresh(h) ==
    /\ pc[h] = "refresh"
    /\ \E entry \in {rows} \cup (IF "store" \in Faults THEN {{}} ELSE {}) :
          fetched' = [fetched EXCEPT ![h] = entry]
    /\ Goto(h, "store")
    /\ UNCHANGED <<mode, ev, lmode, outcome, rows, locks, chalCache, views,
                   readers, changes>>

(* Slip: the handler puts its own record into the entry it read. *)
SlipStoreEntry(h) ==
    /\ pc[h] = "store"
    /\ chalCache' = {fetched[h] \cup {NewRow(h)}}
    /\ fetched' = [fetched EXCEPT ![h] = {}]
    /\ Goto(h, "clear")
    /\ UNCHANGED <<mode, ev, lmode, outcome, rows, locks, views, readers,
                   changes>>

(* ... Set on the challenge's key ...                                      *)
StoreEntry(h) ==
    /\ pc[h] = "store"
    /\ chalCache' = {fetched[h]}
    /\ fetched' = [fetched EXCEPT ![h] = {}]
    /\ Goto(h, "clear")
    /\ UNCHANGED <<mode, ev, lmode, outcome, rows, locks, views, readers,
                   changes>>

(* ... and DeleteByPrefix("topthree:<comp>:map").                          *)
ClearMap(h) ==
    /\ pc[h] = "clear"
    /\ views' = [views EXCEPT !["map"] = Absent]
    /\ Goto(h, "done")
    /\ UNCHANGED <<mode, ev, lmode, outcome, rows, locks, fetched, chalCache,
                   readers, changes>>

----------------------------------------------------------------------------
(* Readers: WithCache(key, query).  A hit changes nothing.                 *)

ReadMiss(r, v) ==
    /\ rpc[r] = "idle"
    /\ views[v] = Absent
    /\ rview' = [rview EXCEPT ![r] = v]
    /\ rpc' = [rpc EXCEPT ![r] = "query"]
    /\ UNCHANGED <<mode, ev, pc, lmode, outcome, rows, locks, fetched,
                   chalCache, views, rfetched, changes>>

Query(r) ==
    /\ rpc[r] = "query"
    /\ rfetched' = [rfetched EXCEPT ![r] = rows]
    /\ rpc' = [rpc EXCEPT ![r] = "store"]
    /\ UNCHANGED <<mode, ev, pc, lmode, outcome, rows, locks, fetched,
                   chalCache, views, rview, changes>>

StoreView(r) ==
    /\ rpc[r] = "store"
    /\ views' = [views EXCEPT ![rview[r]] = {rfetched[r]}]
    /\ rfetched' = [rfetched EXCEPT ![r] = {}]
    /\ rpc' = [rpc EXCEPT ![r] = "idle"]
    /\ UNCHANGED <<mode, ev, pc, lmode, outcome, rows, locks, fetched,
                   chalCache, rview, changes>>

----------------------------------------------------------------------------
(* The TTL, the administrators, and failures.                              *)

ExpireEntry ==
    /\ chalCache # Absent
    /\ chalCache' = Absent
    /\ UNCHANGED <<mode, ev, pc, lmode, outcome, rows, locks, fetched, views,
                   readers, changes>>

(* Slip: one view is cached without a TTL. *)
SlipExpireView(v) ==
    /\ v = "map"
    /\ views[v] # Absent
    /\ views' = [views EXCEPT ![v] = Absent]
    /\ UNCHANGED <<mode, ev, pc, lmode, outcome, rows, locks, fetched,
                   chalCache, readers, changes>>

ExpireView(v) ==
    /\ views[v] # Absent
    /\ views' = [views EXCEPT ![v] = Absent]
    /\ UNCHANGED <<mode, ev, pc, lmode, outcome, rows, locks, fetched,
                   chalCache, readers, changes>>

(* UpdateCompetition changes the mode, DeleteCompetition hides the row. *)
CompetitionChanges ==
    /\ changes < MaxChanges
    /\ changes' = changes + 1
    /\ mode # "deleted"
    /\ mode' \in (Modes \cup {"deleted"}) \ {mode}
    /\ UNCHANGED <<ev, pc, lmode, outcome, rows, locks, fetched, chalCache,
                   views, readers>>

(* A statement of the transaction fails, and the deferred Rollback runs. *)
StatementFails(h) ==
    /\ "store" \in Faults
    /\ pc[h] \in InTx
    /\ Release(h)
    /\ Finish(h, "dropped")
    /\ UNCHANGED <<mode, ev, lmode, rows, fetched, chalCache, views, readers,
                   changes>>

(* The query of a view fails: WithCache stores nothing. *)
QueryFails(r) ==
    /\ "store" \in Faults
    /\ rpc[r] = "query"
    /\ rpc' = [rpc EXCEPT ![r] = "idle"]
    /\ UNCHANGED <<mode, ev, pc, lmode, outcome, rows, locks, fetched,
                   chalCache, views, rview, rfetched, changes>>

(* The record is in, but the handler sees an error and refreshes nothing. *)
CommitUnacknowledged(h) ==
    /\ "ack" \in Faults
    /\ pc[h] = "commit"
    /\ rows' = rows \cup {NewRow(h)}
    /\ Release(h)
    /\ Finish(h, "dropped")
    /\ UNCHANGED <<mode, ev, lmode, fetched, chalCache, views, readers,
                   changes>>

(* Events live in memory only, like the cache; MySQL rolls back. *)
Crash ==
    /\ "crash" \in Faults
    /\ \E u \in Users : pc[u] \in Running
    /\ pc' = [u \in Users |-> IF pc[u] \in Running THEN "done" ELSE pc[u]]
    /\ outcome' = [u \in Users |->
                      IF pc[u] \in Running /\ outcome[u] = "none"
                      THEN "lost" ELSE outcome[u]]
    /\ gapLock' = {}
    /\ rowLock' = {}
    /\ current' = [u \in Users |-> {}]
    /\ fetched' = [u \in Users |-> {}]
    /\ chalCache' = Absent
    /\ views' = [v \in Views |-> Absent]
    /\ rpc' = [r \in Readers |-> "idle"]
    /\ rfetched' = [r \in Readers |-> {}]
    /\ UNCHANGED <<mode, ev, lmode, rows, rview, changes>>

----------------------------------------------------------------------------

Handle(h) ==
    \/ CheckCache(h)
    \/ ReadMode(h)
    \/ LockAndRead(h)
    \/ Insert(h)
    \/ Deadlock(h)
    \/ Commit(h)
    \/ Refresh(h)
    \/ StoreEntry(h)
    \/ ClearMap(h)

Finishes(r) == Query(r) \/ StoreView(r)

Next ==
    \/ \E h \in Users : Publish(h)
    \/ \E h \in Users : Handle(h)
    \/ \E h \in Users : StatementFails(h)
    \/ \E h \in Users : CommitUnacknowledged(h)
    \/ Crash
    \/ \E r \in Readers, v \in Views : ReadMiss(r, v)
    \/ \E r \in Readers : Finishes(r)
    \/ \E r \in Readers : QueryFails(r)
    \/ ExpireEntry
    \/ \E v \in Views : ExpireView(v)
    \/ CompetitionChanges

Spec == Init /\ [][Next]_vars

(* Goroutines run, InnoDB resolves waits and deadlocks, and an entry's TTL *)
(* (5 minutes unless configured) passes.                                   *)
FairSpec ==
    /\ Spec
    /\ \A h \in Users : WF_vars(Handle(h))
    /\ \A r \in Readers : WF_vars(Finishes(r))
    /\ \A v \in Views : WF_vars(ExpireView(v))

----------------------------------------------------------------------------
(* Properties.                                                             *)

(* A handler passes over an event only for a reason: the fast path of      *)
(* topthree.go:221 and the check of :248 give up only when three records   *)
(* are committed, and "already" means a team mate has a place.             *)
PassedOverForCause ==
    \A h \in Users :
        /\ outcome[h] = "full" => Cardinality(rows) = 3
        /\ outcome[h] = "already" =>
              \E row \in rows : row.team = ev[h].team /\ row.team # NoTeam
        /\ outcome[h] = "recorded" => \E row \in rows : row.user = h

(* The cache never shows a record that is not committed, in any entry, and *)
(* nobody is about to put one there: an entry may be old but is never an   *)
(* invention, whatever order the refreshes and the readers interleave in.  *)
CachesShowRecords ==
    /\ \A entry \in chalCache : entry \subseteq rows
    /\ \A v \in Views : \A entry \in views[v] : entry \subseteq rows

(* Every handler ends: no event waits for ever for a lock.                 *)
HandlersFinish ==
    \A h \in Users : pc[h] = "check" ~> pc[h] = "done"

(* Solves are finite, and from some point on every view that is cached     *)
(* shows exactly the records: what the invalidation misses, the TTL mends. *)
ViewsSettle ==
    \A v \in Views : <>[](views[v] \in {Absent, {rows}})

Quiet == /\ \A u \in Users : pc[u] \in {"idle", "done"}
         /\ \A r \in Readers : rpc[r] = "idle"

(* "排名基于提交时间：越早提交排名越靠前" (topthree.go:3): of two records the   *)
(* one with the better place was submitted first.                          *)
RanksFollowSubmission ==
    \A a, b \in rows : a.rank < b.rank => a.time < b.time

(* "记录每道题的前三名解题者" (README.md:17): when no handler is under way,   *)
(* a solver is without a place only if the three are taken or a team mate  *)
(* has one.                                                                *)
FirstThreeRecorded ==
    Quiet => \A h \in Users :
                outcome[h] # "none" /\ Cardinality(rows) < 3 =>
                    outcome[h] \in {"recorded", "already"}

(* "清除比赛级别的 map 缓存（因为它也包含了该题目）" (topthree.go:328): with     *)
(* every handler and reader done, the map is gone or shows the records.    *)
MapIsFresh == Quiet => views["map"] \in {Absent, {rows}}

(* "topthree 缓存由 topthree 插件自己处理" (plugins/cache/cache.go:119): with   *)
(* every handler and reader done, so is the view of the HTTP API.          *)
ApiIsFresh == Quiet => views["api"] \in {Absent, {rows}}

============================================================================
