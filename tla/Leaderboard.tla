---------------------------- MODULE Leaderboard ----------------------------
(***************************************************************************)
(* The leaderboard of one competition (plugins/leaderboard), computed from *)
(* the submissions by several statements (internal/pluginutil), kept in    *)
(* the cache (internal/cache) until its TTL, and thrown out of it when the *)
(* cache plugin (plugins/cache) hears of a correct submission.  The        *)
(* leaderboard asks topthree for the ranks of the first three solvers,     *)
(* which come out of a cache of their own, the map.                        *)
(*                                                                         *)
(* A request that finds nothing in the cache computes and stores, and      *)
(* everybody else's statements and events fall in between.                 *)
(***************************************************************************)
EXTENDS Naturals, FiniteSets, FiniteSetsExt

CONSTANTS
    Readers,       \* goroutines serving requests for the board
    Users,
    Challenges,
    Teams,
    NoTeam,        \* team_id = ""
    TeamOf,        \* the team of each user, in team mode
    Mode,          \* of the competition
    Points,        \* of each challenge
    Places,        \* how many solves topthree records of a challenge: three
    MaxSolves,     \* bound on the correct submissions
    MaxSeconds,    \* bound on the seconds they fall into
    MaxTroubles    \* bound on changes by administrators and failed statements

ASSUME ConstantsAssumption ==
    /\ NoTeam \notin Teams
    /\ IsFiniteSet(Users) /\ IsFiniteSet(Teams) /\ IsFiniteSet(Challenges)
    /\ TeamOf \in [Users -> Teams]
    /\ Mode \in {"individual", "team"}
    /\ Points \in [Challenges -> Nat \ {0}]
    /\ Places \in Nat \ {0}
    /\ MaxSolves \in Nat
    /\ MaxSeconds \in Nat \ {0}
    /\ MaxTroubles \in Nat

VARIABLES
    rows,          \* the correct submissions
    todo,          \* what the subscribers still have to do for each solve
    records,       \* the solves that topthree has recorded
    chals,         \* what has become of each challenge
    cache,         \* the cached board and the cached map, each as a set
    pc,            \* the next statement of each reader
    draft,         \* what it has read so far
    troubles       \* changes and failed statements so far

reading == <<pc, draft>>
vars    == <<rows, todo, records, chals, cache, reading, troubles>>

Row        == [user: Users, team: Teams \cup {NoTeam}, chal: Challenges,
               at: 1 .. MaxSeconds]
Entities   == IF Mode = "team" THEN Teams ELSE Users
Duties     == {"invalidate", "record", "clearmap"}
Keys       == {"leaderboard", "map"}
Statements == {"challenges", "solves", "scores", "bloods", "records",
               "setmap", "store"}

(* A challenge is listed while it is assigned, enabled and not deleted;    *)
(* hidden is one that is not assigned or not enabled.                      *)
ChallengeStates == {"listed", "hidden", "deleted"}

(* The sum of the points of all rows of a set, and of all challenges of    *)
(* one: their points counted one by one, so that sums can be compared in   *)
(* proofs by comparing sets.                                               *)
Sum(S)   == Cardinality(UNION {{row} \X (1 .. Points[row.chal]) : row \in S})
Worth(C) == Cardinality(UNION {{c} \X (1 .. Points[c]) : c \in C})

Entity(row) == IF Mode = "team" THEN row.team ELSE row.user

Entry == [score: Nat, solved: SUBSET Challenges, bloods: SUBSET Challenges,
          last: 0 .. MaxSeconds, rank: 1 .. Cardinality(Entities)]
Draft == [listed: SUBSET Challenges, solves: SUBSET Row,
          scores: [Entities -> Nat], bloods: SUBSET Row]

IsBoard(b) == DOMAIN b \subseteq Entities /\ \A e \in DOMAIN b : b[e] \in Entry

(* Types, and: a board is about those who play, as teams or as users. *)
TypeOK ==
    /\ rows \in SUBSET Row
    /\ todo \in SUBSET (Duties \X Row)
    /\ records \in SUBSET Row
    /\ chals \in [Challenges -> ChallengeStates]
    /\ \A k \in Keys : Cardinality(cache[k]) < 2
    /\ \A b \in cache["leaderboard"] : IsBoard(b)
    /\ cache["map"] \subseteq SUBSET Row
    /\ pc \in [Readers -> Statements \cup {"idle"}]
    /\ draft \in [Readers -> Draft]
    /\ troubles \in 0 .. MaxTroubles

Blank == [listed |-> {}, solves |-> {},
          scores |-> [e \in Entities |-> 0], bloods |-> {}]

Init ==
    /\ rows = {}
    /\ todo = {}
    /\ records = {}
    /\ chals = [c \in Challenges |-> "listed"]
    /\ cache = [k \in Keys |-> {}]
    /\ pc = [r \in Readers |-> "idle"]
    /\ draft = [r \in Readers |-> Blank]
    /\ troubles = 0

----------------------------------------------------------------------------
(* Solves and their events.                                                *)

Trouble == troubles < MaxTroubles /\ troubles' = troubles + 1

(* SubmitInComp records a solve and publishes it.  It refuses the user's   *)
(* second one; that of a teammate can be recorded as well.  It never asks  *)
(* whether the challenge is assigned, and what it read of the challenge    *)
(* before may be over.  created_at has whole seconds: a solve falls into   *)
(* that of the one before it, or into a later one.                         *)
Solve(u, c) ==
    LET last == Max({row.at : row \in rows} \cup {1}) IN
    /\ Cardinality(rows) < MaxSolves
    /\ \A row \in rows : row.user # u \/ row.chal # c
    /\ \E t \in {last, last + 1} \cap 1 .. MaxSeconds :
          LET row == [user |-> u, chal |-> c, at |-> t,
                      team |-> IF Mode = "team" THEN TeamOf[u] ELSE NoTeam]
          IN /\ rows' = rows \cup {row}
             /\ todo' = todo \cup ({"invalidate", "record"} \X {row})
    /\ UNCHANGED <<records, chals, cache, reading, troubles>>

(* The cache plugin's handleCorrectSubmission: DeleteByPrefix of the       *)
(* leaderboard.  The prefix is its whole key.                              *)
Invalidate(row) ==
    /\ <<"invalidate", row>> \in todo
    /\ todo' = todo \ {<<"invalidate", row>>}
    /\ cache' = [cache EXCEPT !["leaderboard"] = {}]
    /\ UNCHANGED <<rows, records, chals, reading, troubles>>

(* topthree's handler, reduced to its effect: the solve is one of the first *)
(* Places and the first of its entity, or it is left out, as a transaction   *)
(* that fails leaves it out.  That they are full is seen in the cache  *)
(* or in the database, and then the cache is refreshed.                     *)
Record(row) ==
    LET others == {s \in records : s.chal = row.chal} IN
    /\ <<"record", row>> \in todo
    /\ \/ /\ Cardinality(others) < Places
          /\ \A s \in others : Entity(s) # Entity(row)
          /\ records' = records \cup {row}
          /\ todo' = (todo \ {<<"record", row>>}) \cup {<<"clearmap", row>>}
          /\ UNCHANGED troubles
       \/ /\ Cardinality(others) >= Places \/ \E s \in others : Entity(s) = Entity(row)
          /\ todo' = todo \ {<<"record", row>>}
          /\ UNCHANGED <<records, troubles>>
       \/ /\ Cardinality(others) >= Places
          /\ todo' = (todo \ {<<"record", row>>}) \cup {<<"clearmap", row>>}
          /\ UNCHANGED <<records, troubles>>
       \/ /\ Trouble
          /\ todo' = todo \ {<<"record", row>>}
          /\ UNCHANGED records
    /\ UNCHANGED <<rows, chals, cache, reading>>

(* After the commit, topthree throws the map out. *)
ClearMap(row) ==
    /\ <<"clearmap", row>> \in todo
    /\ todo' = todo \ {<<"clearmap", row>>}
    /\ cache' = [cache EXCEPT !["map"] = {}]
    /\ UNCHANGED <<rows, records, chals, reading, troubles>>

(* A challenge is disabled, taken out of the competition, put back, or, for *)
(* good, deleted.                                                           *)
ChangeChallenge(c) ==
    /\ Trouble
    /\ chals[c] # "deleted"
    /\ \E s \in ChallengeStates : chals' = [chals EXCEPT ![c] = s]
    /\ UNCHANGED <<rows, todo, records, cache, reading>>

(* Slip: a TTL of zero, which keeps everything for ever. *)
SlipExpire(k) == FALSE /\ UNCHANGED vars

(* The TTL of what is cached runs out. *)
Expire(k) ==
    /\ cache[k] # {}
    /\ cache' = [cache EXCEPT ![k] = {}]
    /\ UNCHANGED <<rows, todo, records, chals, reading, troubles>>

----------------------------------------------------------------------------
(* A request for the board, WithCache: a hit changes nothing, a miss computes. *)

Reads(r, statement, next, d) ==
    /\ pc[r] = statement
    /\ pc' = [pc EXCEPT ![r] = next]
    /\ draft' = [draft EXCEPT ![r] = d]
    /\ UNCHANGED <<rows, todo, records, chals, cache, troubles>>

Miss(r) == cache["leaderboard"] = {} /\ Reads(r, "idle", "challenges", Blank)

(* GetCompChallenges *)
ReadChallenges(r) ==
    Reads(r, "challenges", "solves",
          [draft[r] EXCEPT !.listed = {c \in Challenges : chals[c] = "listed"}])

(* GetCorrectSubmissions and GetTeamCorrectSubmissions *)
ReadSolves(r) == Reads(r, "solves", "scores", [draft[r] EXCEPT !.solves = rows])

(* The rows whose challenge is not deleted; that it is hidden, or that     *)
(* there is another row of the same team, does not matter.                 *)
Scoring(e) == {row \in rows : Entity(row) = e /\ chals[row.chal] # "deleted"}

(* Slip: the sum is of the enabled challenges that are assigned only. *)
SlipReadScores(r) ==
    Reads(r, "scores", "bloods",
          [draft[r] EXCEPT !.scores = [e \in Entities |->
              Sum({row \in Scoring(e) : chals[row.chal] = "listed"})]])

(* GetUserScores and GetTeamScores: SUM(c.score). *)
ReadScores(r) ==
    Reads(r, "scores", "bloods",
          [draft[r] EXCEPT !.scores = [e \in Entities |-> Sum(Scoring(e))]])

(* GetCompTopThree: the cached map, or a miss. *)
ReadMap(r) ==
    \/ \E m \in cache["map"] :
           Reads(r, "bloods", "store", [draft[r] EXCEPT !.bloods = m])
    \/ cache["map"] = {} /\ Reads(r, "bloods", "records", draft[r])

(* getBloodRankEntriesFromDB *)
ReadRecords(r) ==
    Reads(r, "records", "setmap", [draft[r] EXCEPT !.bloods = records])

(* Slip: the entries are those of the teams in either mode, where a user's *)
(* scores and challenges are not found.                                     *)
SlipEntries(d) ==
    [e \in {row.team : row \in d.solves} |->
        [score |-> 0, solved |-> {}, bloods |-> {}, last |-> 0, rank |-> 0]]

(* One entry for everybody with a solve; the details, the time of the last *)
(* solve among them, are about the listed challenges only, the score is    *)
(* not.  A second row of a team for a challenge is later: MIN drops it.    *)
Entries(d) ==
    [e \in {Entity(row) : row \in d.solves} |->
        LET mine   == {row \in d.solves : Entity(row) = e}
            solved == {row.chal : row \in mine} \cap d.listed
            bloods == {row.chal : row \in {s \in d.bloods : Entity(s) = e}}
            First(c) == Min({row.at : row \in {s \in mine : s.chal = c}})
        IN [score  |-> d.scores[e],
            solved |-> solved,
            bloods |-> bloods \cap solved,
            last   |-> Max({First(c) : c \in solved} \cup {0}),
            rank   |-> 0]]

(* Slip: the number of challenges is compared. *)
SlipAhead(a, b) == Cardinality(a.solved) > Cardinality(b.solved)

(* The comparison of sort.Slice. *)
Ahead(a, b) == a.score > b.score \/ (a.score = b.score /\ a.last < b.last)

(* The boards of these entries: sort.Slice is not stable, and puts those   *)
(* that compare as equal in any order.                                     *)
Boards(entries) ==
    LET E == DOMAIN entries
        Orders == {o \in [E -> 1 .. Cardinality(E)] :
                     \A e, f \in E :
                        /\ e # f => o[e] # o[f]
                        /\ Ahead(entries[e], entries[f]) => o[e] < o[f]}
    IN {[e \in E |-> [entries[e] EXCEPT !.rank = o[e]]] : o \in Orders}

Cached(k, x) == cache' = [cache EXCEPT ![k] = {x}]

(* Set of the map. *)
SetMap(r) ==
    /\ pc[r] = "setmap"
    /\ Cached("map", draft[r].bloods)
    /\ pc' = [pc EXCEPT ![r] = "store"]
    /\ UNCHANGED <<rows, todo, records, chals, draft, troubles>>

(* Set of the board, and the answer. *)
Store(r) ==
    /\ pc[r] = "store"
    /\ \E b \in Boards(Entries(draft[r])) : Cached("leaderboard", b)
    /\ pc' = [pc EXCEPT ![r] = "idle"]
    /\ draft' = [draft EXCEPT ![r] = Blank]
    /\ UNCHANGED <<rows, todo, records, chals, troubles>>

(* A query fails and the request with it; that of the records only leaves  *)
(* the board without ranks.                                                *)
ReadFails(r) ==
    /\ Trouble
    /\ \/ /\ pc[r] \in {"challenges", "solves", "scores"}
          /\ pc' = [pc EXCEPT ![r] = "idle"]
          /\ draft' = [draft EXCEPT ![r] = Blank]
       \/ /\ pc[r] = "records"
          /\ pc' = [pc EXCEPT ![r] = "store"]
          /\ UNCHANGED draft
    /\ UNCHANGED <<rows, todo, records, chals, cache>>

----------------------------------------------------------------------------

Read(r) ==
    \/ ReadChallenges(r)
    \/ ReadSolves(r)
    \/ ReadScores(r)
    \/ ReadMap(r)
    \/ ReadRecords(r)
    \/ SetMap(r)
    \/ Store(r)

Handle(row) == Invalidate(row) \/ Record(row) \/ ClearMap(row)

Next ==
    \/ \E u \in Users, c \in Challenges : Solve(u, c)
    \/ \E row \in Row : Handle(row)
    \/ \E c \in Challenges : ChangeChallenge(c)
    \/ \E k \in Keys : Expire(k)
    \/ \E r \in Readers : Miss(r) \/ Read(r) \/ ReadFails(r)

Spec == Init /\ [][Next]_vars

(* Goroutines run and time passes; nobody has to solve or ask anything.    *)
FairSpec ==
    /\ Spec
    /\ \A row \in Row : WF_vars(Invalidate(row))
    /\ \A row \in Row : WF_vars(Record(row)) /\ WF_vars(ClearMap(row))
    /\ \A r \in Readers : WF_vars(Read(r))
    /\ \A k \in Keys : WF_vars(Expire(k))

----------------------------------------------------------------------------
(* Properties.                                                             *)

(* The solved challenges of an entry are read by one statement and its     *)
(* score by a later one.  Whatever is solved, hidden or deleted meanwhile, *)
(* a board that is cached never shows as solved a challenge, not deleted   *)
(* since, whose points its total does not contain.                         *)
ScoresCoverSolves ==
    \A b \in cache["leaderboard"] : \A e \in DOMAIN b :
        b[e].score >= Worth({c \in b[e].solved : chals[c] # "deleted"})

(* The draft of a reader that had read everything in this state. *)
Now ==
    [listed |-> {c \in Challenges : chals[c] = "listed"},
     solves |-> rows, bloods |-> records,
     scores |-> [e \in Entities |-> Sum(Scoring(e))]]

(* Whoever is ahead of another on a cached board has really earned, with   *)
(* all his solves, at least what the other is shown to have solved and was *)
(* not deleted since: the order is that of scores, which are read after    *)
(* what is shown, however much is solved in between.                       *)
RanksAreEarned ==
    \A b \in cache["leaderboard"] : \A e, f \in DOMAIN b :
        b[e].rank < b[f].rank =>
            Sum({row \in rows : Entity(row) = e}) >=
                Worth({c \in b[f].solved : chals[c] # "deleted"})

(* When the solves, the changes and the failures have ended, the cached    *)
(* board ends up right, whatever was stored late: thanks to the TTL.  Ties *)
(* in points and in time still may be in one order now and another later.  *)
BoardsSettle == <>[](cache["leaderboard"] \subseteq Boards(Entries(Now)))

(* "总分降序，同分按最后正确提交时间升序" (leaderboard.go:3): of two entries with  *)
(* the same points the one whose last solve was earlier is ahead.  But the *)
(* solve of a hidden challenge gives points and no time, and a solve that  *)
(* falls between the statements does as well.                              *)
TiesFollowLastSolve ==
    \A b \in cache["leaderboard"] : \A e, f \in DOMAIN b :
        LET LastOf(x) ==
              Max({row.at : row \in {s \in rows : Entity(s) = x}} \cup {0})
        IN todo = {} /\ b[e].score = b[f].score /\ b[e].rank < b[f].rank =>
               LastOf(e) <= LastOf(f)

(* README.md:21: a cached board is invalidated by the event of a solve.    *)
(* So once the handlers are done, it shows every solve.  It need not: a    *)
(* reader that has read before the solve stores after the invalidation.    *)
LeaderboardIsFresh ==
    todo = {} => \A b \in cache["leaderboard"] :
                     \A row \in rows : /\ Entity(row) \in DOMAIN b
                                       /\ row.chal \in b[Entity(row)].solved

(* README.md:17 and leaderboard.go:4: the board shows who was among the    *)
(* first three.  Once the handlers are done, a board on which a solve is   *)
(* shown may still be without its rank: nothing throws the board out when  *)
(* topthree has recorded it, after the cache plugin's handler has run.     *)
RanksAreShown ==
    todo = {} => \A b \in cache["leaderboard"] : \A row \in records :
        LET e == Entity(row) IN
        e \in DOMAIN b /\ row.chal \in b[e].solved => row.chal \in b[e].bloods

(* README.md:15: a challenge counts once for a team.  The total is the sum *)
(* over the submissions, and two teammates may both have one.              *)
TeamScoreCountsOnce ==
    \A b \in cache["leaderboard"] : \A e \in DOMAIN b :
        b[e].score <= Worth({row.chal : row \in {s \in rows : Entity(s) = e}})

============================================================================
