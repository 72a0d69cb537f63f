----------------------------- MODULE Analytics -----------------------------
(***************************************************************************)
(* The analytics plugin (plugins/analytics): four views of a competition,  *)
(* each put together by several statements (internal/pluginutil), some of  *)
(* whose errors are swallowed, and kept in the cache until its TTL.  Each  *)
(* view has a key of its own; a behaviour is about one of them, while      *)
(* submissions arrive and administrators change the mode and the           *)
(* challenges.  The times in the answers are left out, and averages and    *)
(* rates are kept as the numbers that are divided.                         *)
(***************************************************************************)
EXTENDS Naturals, FiniteSets, SequencesExt

CONSTANTS
    Readers,       \* goroutines that serve requests for the view
    Views,         \* the views that are looked at, some of AllViews
    Users,
    Teams,
    NoTeam,        \* team_id = ""
    TeamOf,        \* the team a user plays for in team mode
    Challenges,
    Category,      \* of each challenge
    Points,        \* of each challenge
    MaxRows,       \* bound on the submissions
    MaxChanges,    \* bound on what administrators do
    MaxFaults      \* bound on statements that fail

AllViews == {"overview", "categories", "users", "challenges"}

ASSUME AnalyticsAssumption ==
    /\ Views \subseteq AllViews
    /\ NoTeam \notin Teams
    /\ TeamOf \in [Users -> Teams]
    /\ IsFiniteSet(Challenges)
    /\ Points \in [Challenges -> Nat \ {0}]
    /\ Challenges = DOMAIN Category
    /\ MaxRows \in Nat /\ MaxChanges \in Nat /\ MaxFaults \in Nat

VARIABLES
    view,          \* the view this behaviour is about
    comp,          \* the competition: its mode, and whether it is deleted
    chals,         \* the challenges and their assignments to it
    rows,          \* the submissions
    due,           \* correct submissions whose event has not been handled
    cache,         \* the value cached for the view, as a set
    pc,            \* how far in its plan each reader is; 0 when it is idle
    draft,         \* what it has read so far
    changes,       \* administrative changes made so far
    faults         \* statements failed so far

dbvars  == <<comp, chals, rows>>
vars    == <<view, dbvars, due, cache, pc, draft, changes, faults>>

Modes     == {"individual", "team"}
Comp      == [mode: Modes, deleted: BOOLEAN]
Chal      == [copies: 0 .. 2, enabled: BOOLEAN, deleted: BOOLEAN]
Row       == [user: Users, team: Teams \cup {NoTeam}, chal: Challenges,
              correct: BOOLEAN]

----------------------------------------------------------------------------
(* What the queries return.                                                *)

(* The sum of what a function has on its domain: units counted one by one, *)
(* so that sums can be compared in proofs by comparing sets.               *)
Total(f) == Cardinality(UNION {{x} \X (1 .. f[x]) : x \in DOMAIN f})

Correct(S) == {row \in S : row.correct}
UsersIn(S) == {row.user : row \in S}
TeamsIn(S) == {row.team : row \in S} \ {NoTeam}

(* Everybody with a row: GetCompDistinctUsers, GetCompDistinctTeams. *)
Entities(mode) == IF mode = "team" THEN TeamsIn(rows) ELSE UsersIn(rows)

RowsOf(mode, e) ==
    {row \in rows : e = IF mode = "team" THEN row.team ELSE row.user}

(* GetTeamCorrectSubmissions and GetCorrectSubmissions, a row for each     *)
(* entity and challenge.                                                   *)
Solves(mode) ==
    {s \in Entities(mode) \X Challenges :
        \E row \in Correct(RowsOf(mode, s[1])) : row.chal = s[2]}

(* GetCompChallengeCount counts assignments, whatever became of the        *)
(* challenge; GetCompChallenges lists each as often as it is assigned.     *)
Assignments == Total([c \in Challenges |-> chals[c].copies])
Joined == {c \in Challenges : chals[c].copies > 0 /\ ~chals[c].deleted}
Listed == [c \in {d \in Joined : chals[d].enabled} |-> chals[c].copies]

(* Slip: users are counted, not attempts. *)
SlipCategoryFigures ==
    [k \in {Category[c] : c \in Joined} |->
        LET mine == {c \in Joined : Category[c] = k}
            S    == {row \in rows : row.chal \in mine}
        IN [challenges |-> Cardinality(mine),
            solves     |-> Cardinality(UsersIn(Correct(S))),
            attempts   |-> Cardinality(UsersIn(S)),
            unique     |-> Cardinality(UsersIn(Correct(S)))]]

(* GetCategoryStats: the join has a submission once for each assignment of *)
(* its challenge.                                                          *)
CategoryFigures ==
    LET Weigh(S) == Total([row \in S |-> chals[row.chal].copies]) IN
    [k \in {Category[c] : c \in Joined} |->
        LET mine == {c \in Joined : Category[c] = k}
            S    == {row \in rows : row.chal \in mine}
        IN [challenges |-> Cardinality(mine),
            solves     |-> Weigh(Correct(S)),
            attempts   |-> Weigh(S),
            unique     |-> Cardinality(UsersIn(Correct(S)))]]

(* SUM(CASE WHEN is_correct THEN score ELSE 0 END) over the left join, as a *)
(* set: a deleted challenge has the score NULL, and of NULLs there is no   *)
(* sum.                                                                    *)
Score(S) ==
    LET worth == {row \in S : ~chals[row.chal].deleted} IN
    IF \A row \in S : row.correct /\ chals[row.chal].deleted THEN {}
    ELSE {Total([row \in Correct(worth) |-> Points[row.chal]])}

(* GetUserFullStats and GetTeamFullStats. *)
EntityFigures(mode) ==
    [e \in Entities(mode) |->
        LET S == RowsOf(mode, e)
        IN [solves   |-> Cardinality(Correct(S)),
            attempts |-> Cardinality(S),
            score    |-> Score(S)]]

(* GetChallengeFullStats: of every challenge that has a submission. *)
ChallengeFigures ==
    [c \in {row.chal : row \in rows} |->
        LET S == {row \in rows : row.chal = c}
        IN [solves   |-> Cardinality(Correct(S)),
            attempts |-> Cardinality(S),
            unique   |-> Cardinality(UsersIn(Correct(S)))]]

(* The main query of the view. *)
Figures(mode) == CASE view = "overview"   -> <<>>
                   [] view = "categories" -> CategoryFigures
                   [] view = "users"      -> EntityFigures(mode)
                   [] view = "challenges" -> ChallengeFigures

(* The two queries of the plugin itself for the teams that have solved one *)
(* of the category, or the challenge.                                      *)
SolvedBy(k) ==
    Cardinality(TeamsIn({row \in Correct(rows) :
        IF view = "categories" THEN row.chal \in Joined /\ Category[row.chal] = k
                               ELSE row.chal = k}))

----------------------------------------------------------------------------
(* The plan of a view is the order of its statements.                      *)

(* Slip: the submissions are counted before their authors. *)
SlipPlan ==
    [overview   |-> <<"mode", "count", "totals", "entities", "solves",
                      "average", "store">>,
     categories |-> <<"mode", "entities", "figures", "teams", "store">>,
     users      |-> <<"mode", "figures", "store">>,
     challenges |-> <<"mode", "count", "figures", "teams", "store">>]

Plan ==
    [overview   |-> <<"mode", "count", "entities", "totals", "solves",
                      "average", "store">>,
     categories |-> <<"mode", "entities", "figures", "teams", "store">>,
     users      |-> <<"mode", "figures", "store">>,
     challenges |-> <<"mode", "count", "figures", "teams", "store">>]

At(r, statement) == pc[r] > 0 /\ Plan[view][pc[r]] = statement

(* listed: the challenges of the answer and how often each is in it;       *)
(* left: the categories or challenges whose teams are still to be counted. *)
Blank == [mode |-> "individual", count |-> 0, entities |-> 0, total |-> 0,
          correct |-> 0, solves |-> 0, listed |-> <<>>, figures |-> <<>>,
          left |-> {}, teams |-> <<>>]

Skipped(statement, d) ==
    \/ statement = "solves" /\ d.entities = 0
    \/ statement = "teams" /\ (d.mode # "team" \/ d.left = {})

(* The next statement after the ith that is not skipped. *)
After(i, d) ==
    Min({j \in i + 1 .. Len(Plan[view]) : ~Skipped(Plan[view][j], d)})

Reads(r, d) ==
    /\ draft' = [draft EXCEPT ![r] = d]
    /\ pc' = [pc EXCEPT ![r] =
                 IF At(r, "teams") /\ d.left # {} THEN @ ELSE After(@, d)]
    /\ UNCHANGED <<view, dbvars, due, cache, changes>>

(* A statement is answered. *)
Answers(r, d) == Reads(r, d) /\ UNCHANGED faults

Leave(r) ==
    /\ pc' = [pc EXCEPT ![r] = 0]
    /\ draft' = [draft EXCEPT ![r] = Blank]

(* The request ends with an error, and nothing is cached. *)
Fails(r) == Leave(r) /\ UNCHANGED <<view, dbvars, due, cache, changes>>

(* An error is neglected: the statement counts as answered by d. *)
Fault == faults < MaxFaults /\ faults' = faults + 1

----------------------------------------------------------------------------
(* A request: WithCache, and on a miss the statements of the plan.         *)

Miss(r) ==
    /\ pc[r] = 0
    /\ cache = {}
    /\ pc' = [pc EXCEPT ![r] = 1]
    /\ UNCHANGED <<view, dbvars, due, cache, draft, changes, faults>>

(* The competition is deleted, sql.ErrNoRows, or it has a mode. *)
ReadMode(r) ==
    /\ At(r, "mode")
    /\ \/ comp.deleted /\ Fails(r) /\ UNCHANGED faults
       \/ ~comp.deleted /\ Answers(r, [draft[r] EXCEPT !.mode = comp.mode])

(* The challenges, as a number or as a list. *)
ReadCount(r) ==
    /\ At(r, "count")
    /\ Answers(r, IF view = "overview"
                  THEN [draft[r] EXCEPT !.count = Assignments]
                  ELSE [draft[r] EXCEPT !.listed = Listed,
                                        !.left = DOMAIN Listed])

ReadEntities(r) ==
    /\ At(r, "entities")
    /\ Answers(r, [draft[r] EXCEPT
                      !.entities = Cardinality(Entities(draft[r].mode))])

(* GetCompSubmitStats *)
ReadTotals(r) ==
    /\ At(r, "totals")
    /\ Answers(r, [draft[r] EXCEPT !.total = Cardinality(rows),
                                   !.correct = Cardinality(Correct(rows))])

(* correctSolves, which falls back to correctSubs. *)
Fallback(d, n) == [d EXCEPT !.solves = IF n = 0 THEN d.correct ELSE n]

(* An error leaves correctSolves at 0. *)
ReadSolves(r) ==
    /\ At(r, "solves")
    /\ \/ Answers(r, Fallback(draft[r], Cardinality(Solves(draft[r].mode))))
       \/ Fault /\ Reads(r, Fallback(draft[r], 0))

(* GetAverageSolveTimeFromStart *)
ReadAverage(r) == At(r, "average") /\ Answers(r, draft[r])

(* Slip: the score is scanned into a sql.NullInt64 and copied as it is. *)
SlipUnscannable(F) == FALSE

(* A NULL does not fit into the int it is scanned into. *)
Unscannable(F) == view = "users" /\ \E e \in DOMAIN F : F[e].score = {}

(* The main query, and the loop that scans its rows. *)
ReadFigures(r) ==
    LET F == Figures(draft[r].mode) IN
    /\ At(r, "figures")
    /\ \/ Unscannable(F) /\ Fails(r) /\ UNCHANGED faults
       \/ /\ ~Unscannable(F)
          /\ Answers(r, [draft[r] EXCEPT
                 !.figures = F,
                 !.left = IF view = "categories" THEN DOMAIN F ELSE @])

(* One query for each category or challenge, in team mode.  The error of   *)
(* Scan is not looked at.                                                  *)
ReadTeams(r) ==
    /\ At(r, "teams")
    /\ \E k \in draft[r].left :
          LET Counted(n) ==
                [draft[r] EXCEPT
                    !.left = @ \ {k},
                    !.teams = [j \in DOMAIN @ \cup {k} |->
                                  IF j = k THEN n ELSE @[j]]]
          IN \/ Answers(r, Counted(SolvedBy(k)))
             \/ Fault /\ Reads(r, Counted(0))

(* Every other error ends the request. *)
StatementFails(r) ==
    /\ pc[r] > 0
    /\ ~At(r, "solves") /\ ~At(r, "teams") /\ ~At(r, "store")
    /\ Fault
    /\ Fails(r)

(* The solvers of k: users as the main query counted them, teams as their  *)
(* own query did.                                                          *)
Unique(d, k) == IF d.mode = "team" THEN d.teams[k]
                ELSE IF k \in DOMAIN d.figures THEN d.figures[k].unique ELSE 0

Value(d) ==
    CASE view = "overview" ->
            [mode |-> d.mode, challenges |-> d.count, entities |-> d.entities,
             total |-> d.total, correct |-> d.correct, solves |-> d.solves]
      [] view = "categories" ->
            [k \in DOMAIN d.figures |->
                [d.figures[k] EXCEPT !.unique = Unique(d, k)]]
      [] view = "users" -> d.figures
      [] view = "challenges" ->
            [c \in DOMAIN d.listed |->
                LET known == c \in DOMAIN d.figures IN
                [copies   |-> d.listed[c],
                 solves   |-> IF known THEN d.figures[c].solves ELSE 0,
                 attempts |-> IF known THEN d.figures[c].attempts ELSE 0,
                 unique   |-> Unique(d, c)]]

(* Set, and the answer. *)
Store(r) ==
    /\ At(r, "store")
    /\ cache' = {Value(draft[r])}
    /\ Leave(r)
    /\ UNCHANGED <<view, dbvars, due, changes, faults>>

(* Slip: a TTL of zero, which keeps everything for ever. *)
SlipExpire == FALSE /\ UNCHANGED vars

(* The TTL runs out. *)
Expire ==
    /\ cache # {}
    /\ cache' = {}
    /\ UNCHANGED <<view, dbvars, due, pc, draft, changes, faults>>

----------------------------------------------------------------------------
(* Everybody else.                                                         *)

(* SubmitInComp records a row.  The unique index allows a user one right   *)
(* and one wrong row for a challenge, which may no longer be assigned.     *)
Submit(u, c, ok) ==
    LET row == [user |-> u, chal |-> c, correct |-> ok,
                team |-> IF comp.mode = "team" THEN TeamOf[u] ELSE NoTeam]
    IN
    /\ Cardinality(rows) < MaxRows
    /\ \A old \in rows : <<old.user, old.chal, old.correct>> # <<u, c, ok>>
    /\ rows' = rows \cup {row}
    /\ due' = IF ok THEN due \cup {row} ELSE due
    /\ UNCHANGED <<view, comp, chals, cache, pc, draft, changes, faults>>

(* The parts of keys and prefixes that colons separate. *)
Key == <<"analytics", view, "comp">>
CleanPrefix == <<"analytics", "comp">>

(* The cache plugin's handler of the event, DeleteByPrefix. *)
Invalidate(row) ==
    /\ row \in due
    /\ due' = due \ {row}
    /\ cache' = IF IsPrefix(CleanPrefix, Key) THEN {} ELSE cache
    /\ UNCHANGED <<view, dbvars, pc, draft, changes, faults>>

Change ==
    /\ changes < MaxChanges
    /\ changes' = changes + 1
    /\ UNCHANGED <<view, rows, due, cache, pc, draft, faults>>

(* The competition is played in the other mode from now on, or its         *)
(* challenges are taken out of it and, unless the second statement fails,  *)
(* it is deleted.                                                          *)
ChangeCompetition ==
    /\ Change
    /\ ~comp.deleted
    /\ \/ /\ \E m \in Modes : comp' = [comp EXCEPT !.mode = m]
          /\ UNCHANGED chals
       \/ /\ comp' \in {comp, [comp EXCEPT !.deleted = TRUE]}
          /\ chals' = [c \in Challenges |-> [chals[c] EXCEPT !.copies = 0]]

(* A challenge is assigned (two requests at once assign it twice), taken   *)
(* out again, which clears both, shown or hidden, or deleted for good.     *)
ChangeChallenge(c) ==
    /\ Change
    /\ ~chals[c].deleted
    /\ \/ chals[c].copies < 2 /\ chals' = [chals EXCEPT ![c].copies = @ + 1]
       \/ chals' = [chals EXCEPT ![c].copies = 0]
       \/ chals' = [chals EXCEPT ![c].enabled = ~@]
       \/ chals' = [chals EXCEPT ![c].deleted = TRUE]
    /\ UNCHANGED comp

----------------------------------------------------------------------------

Init ==
    /\ view \in Views
    /\ comp \in {c \in Comp : ~c.deleted}
    /\ chals = [c \in Challenges |->
                   [copies |-> 1, enabled |-> TRUE, deleted |-> FALSE]]
    /\ rows = {} /\ due = {}
    /\ cache = {}
    /\ pc = [r \in Readers |-> 0]
    /\ draft = [r \in Readers |-> Blank]
    /\ changes = 0
    /\ faults = 0

Read(r) ==
    \/ ReadMode(r)
    \/ ReadCount(r)
    \/ ReadEntities(r)
    \/ ReadTotals(r)
    \/ ReadSolves(r)
    \/ ReadAverage(r)
    \/ ReadFigures(r)
    \/ ReadTeams(r)
    \/ Store(r)

Next ==
    \/ \E r \in Readers : Miss(r) \/ Read(r) \/ StatementFails(r)
    \/ \E u \in Users, c \in Challenges, ok \in BOOLEAN : Submit(u, c, ok)
    \/ \E row \in Row : Invalidate(row)
    \/ ChangeCompetition
    \/ \E c \in Challenges : ChangeChallenge(c)
    \/ Expire

Spec == Init /\ [][Next]_vars

(* Goroutines run and time passes; nobody has to submit or to ask. *)
FairSpec ==
    /\ Spec
    /\ \A r \in Readers : WF_vars(Read(r))
    /\ \A row \in Row : WF_vars(Invalidate(row))
    /\ WF_vars(Expire)

----------------------------------------------------------------------------
(* Properties.                                                             *)

Counts == 0 .. 2 * MaxRows
Overview == [mode: Modes, challenges: Nat, entities: Counts,
             total: Counts, correct: Counts, solves: Counts]

IsValue(x) ==
    CASE view = "overview"   -> x \in Overview
      [] view = "users"      ->
            /\ x \in [DOMAIN x -> [solves: Counts, attempts: Counts,
                                   score: SUBSET Nat]]
            /\ \A e \in DOMAIN x : Cardinality(x[e].score) = 1
      [] view = "categories" ->
            x \in [DOMAIN x -> [challenges: Nat, solves: Counts,
                                attempts: Counts, unique: Counts]]
      [] view = "challenges" ->
            x \in [DOMAIN x -> [copies: 1 .. 2, solves: Counts,
                                attempts: Counts, unique: Counts]]

(* Types; and what is cached is a value that the view can show: no figure  *)
(* in it is a NULL, whatever was deleted before it was read.               *)
TypeOK ==
    /\ view \in Views
    /\ comp \in Comp
    /\ chals \in [Challenges -> Chal]
    /\ rows \in SUBSET Row
    /\ due \subseteq Correct(rows)
    /\ Cardinality(cache) < 2
    /\ \A x \in cache : IsValue(x)
    /\ pc \in [Readers -> 0 .. Len(Plan[view])]
    /\ \A r \in Readers : draft[r].mode \in Modes
    /\ changes \in 0 .. MaxChanges
    /\ faults \in 0 .. MaxFaults

(* The numbers of a cached overview were read by four statements.  All the *)
(* same, everybody counted has a submission among the total, and where     *)
(* there is an average for individuals, it is over no fewer solves than    *)
(* are shown as correct: what was read later was at least as much.         *)
OverviewAddsUp ==
    \A x \in cache : view = "overview" =>
        /\ x.entities <= x.total
        /\ x.correct <= x.total
        /\ x.mode = "individual" /\ x.entities > 0 => x.correct <= x.solves

AddUp(F, S) ==
    /\ Total([k \in DOMAIN F |-> F[k].solves]) = Cardinality(Correct(S))
    /\ Total([k \in DOMAIN F |-> F[k].attempts]) = Cardinality(S)

(* The views, each with its own query, tell the same story: while every    *)
(* challenge is assigned once and none is deleted, the categories, the     *)
(* challenges and the users add up to the totals of the overview, and the  *)
(* teams to those of the submissions that were made for a team.            *)
FiguresAgree ==
    (\A c \in Challenges : chals[c].copies = 1 /\ ~chals[c].deleted) =>
        /\ AddUp(CategoryFigures, rows)
        /\ AddUp(ChallengeFigures, rows)
        /\ AddUp(EntityFigures("individual"), rows)
        /\ AddUp(EntityFigures("team"), {row \in rows : row.team # NoTeam})

(* What a reader would answer that read everything in this state. *)
Now ==
    LET m == comp.mode
        K == IF view = "categories" THEN DOMAIN CategoryFigures
                                    ELSE DOMAIN Listed
    IN [Blank EXCEPT !.mode = m, !.count = Assignments,
            !.entities = Cardinality(Entities(m)),
            !.total = Cardinality(rows), !.correct = Cardinality(Correct(rows)),
            !.solves = IF Entities(m) = {} THEN 0
                       ELSE Fallback([Blank EXCEPT !.correct = Cardinality(Correct(rows))],
                                     Cardinality(Solves(m))).solves,
            !.listed = Listed, !.figures = Figures(m),
            !.teams = [k \in K |-> SolvedBy(k)]]

(* When the submissions, the changes and the failures have ended, what is  *)
(* cached ends up as the tables have it, or gone with the competition.     *)
(* That is due to the TTL alone: no event removes it, and what was stored  *)
(* late or after a swallowed error is like any other value.                *)
ViewsSettle ==
    <>[](cache \subseteq
            IF comp.deleted \/ Unscannable(Figures(comp.mode)) THEN {}
                                                              ELSE {Value(Now)})

(* "获取比赛中所有用户的完整统计信息" (internal/pluginutil/queries.go:472), and a   *)
(* left join that keeps the submissions for a deleted challenge: everybody *)
(* has statistics, so only a failing database fails the view.  A user who  *)
(* has only solved what was deleted makes it fail for everybody, for good. *)
OnlyFaultsFail ==
    [][\A r \in Readers :
          At(r, "figures") /\ pc'[r] = 0 => faults' = faults + 1]_vars

(* plugins/cache/cache.go:108 and :118: the event of a solve removes the   *)
(* analytics, by a prefix.  It does not: "analytics:<id>:" is no prefix of *)
(* the key "analytics:overview:<id>".                                      *)
AnalyticsAreInvalidated ==
    [][\A row \in Row : Invalidate(row) => cache' = {}]_vars

(* "完成率（%）" (plugins/analytics/analytics.go:67): the average over the    *)
(* challenges is a share of them.  The solves of a challenge that was      *)
(* taken out still count, and those that come after the users were counted *)
(* do as well, so it can be more than all.                                 *)
CompletionIsAShare ==
    \A x \in cache :
        view = "overview" /\ x.challenges > 0 =>
            x.solves <= x.entities * x.challenges

============================================================================
