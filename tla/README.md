# A verification project for the CTF platform `ad7`

TLA+ models of the platform's Go code, TLC configurations that check them on
small instances, and TLAPS proofs about every one of them. Paths such as
`internal/service/submission.go` are relative to the repository; `PROJECT.json`
maps every definition to its lines, and lists the runs, the deliberate faults
that each property detects, the disagreements found, the hazards of the code and
the theorems.

To run a check: `tlc -config Submission_core.cfg MCSubmissionHistory`; to check
proofs: `tlapm SubmissionProofs.tla`, and so for each module named `...Proofs`. Each `.cfg` begins with what it is for.

## 1. The system

`cmd/server` serves HTTP over one MySQL database; `cmd/auth-server` serves users
and teams and is asked over HTTP. A request is a goroutine. Almost nothing is in
a transaction: a handler reads by one statement, decides in memory, and writes
by another. A correct submission is published on an in-process bus whose
subscribers run in goroutines of their own.

| part | state | operations | talks to |
|---|---|---|---|
| flag submission (`service/submission.go`, `team_resolver.go`, `handler/submission.go`) | `submissions` and its unique index | SubmitInComp, ListByComp | auth server, store, bus |
| event bus (`event/event.go`) | subscribers | Subscribe, Publish | plugins |
| top three (`plugins/topthree`) | `topthree_records`; three kinds of cache keys | handleCorrectSubmission, GetCompTopThree, getTopThree | bus, cache, MySQL locks |
| competitions (`service/competition.go`, `handler/competition.go`) | `competitions`, `competition_challenges`, `competition_teams` | list, get, create, update, delete, start, end, teams, challenges | store, clock |
| team membership (`internal/auth/team_*.go`, `mysql.go`) | `teams`, `team_members` | create, delete, add, remove, set captain, transfer captain | read by flag submission |
| leaderboard (`plugins/leaderboard`, `pluginutil/queries.go`) | a cached board | listByComp | store, top three, cache |
| analytics (`plugins/analytics`, `pluginutil/queries.go`) | four cached views | overview, byCategory, userStats, challengeStats | store, cache |
| cache (`plugins/cache`, `internal/cache`, `pluginutil/cache.go`) | a map with a TTL | Get, Set, GetOrSet, DeleteByPrefix, cleanupLoop, WithCache, handleCorrectSubmission | bus |
| challenges (`service/challenge.go`) | `challenges` | CRUD | read by flag submission |
| hints, notifications (`plugins/...`) | a table each | CRUD | — |
| token verification (`middleware/auth.go`, `auth/verify_handler.go`) | a token cache | Authenticate | auth server |
| registration and login (`auth/service.go`) | `users` | Register, Login | — |
| assembly, configuration, logging, ids, rate limiting | — | start-up | — |

What is hard, and what makes each part correct:

* **Flag submission.** Concurrent requests of one user or one team; the
  competition, challenge, team and registration change between statements; an
  INSERT whose answer is lost; a server that dies before it publishes. Correct
  when nobody scores twice, each event announces one recorded solve, no solve is
  silently lost while the server runs, and every verdict was justified.
* **Top three.** Handlers in any order under InnoDB's row and gap locks, which
  deadlock on an empty range; a cache that lets a handler skip the database.
  Correct when places are dense and distinct, whoever is left out is left out for
  a reason, and the cache never shows what is not recorded.
* **Competitions.** An automatic status driven by the clock and by visits, next
  to manual start and end; updates that write back a whole stale row; a deletion
  in two statements; soft deletion under unique indexes.
* **Team membership.** Check-then-insert; a hand-over in four statements; soft
  deletion under a unique index. Correct when a user is in one team, a team has
  one captain, a deleted team is empty.
* **Leaderboard and analytics.** A value computed from several statements,
  cached, and invalidated by events that race with the computation, or by
  nothing; errors that are swallowed on the way. Correct when the numbers of one
  answer agree although they are of different moments, and the cached values
  catch up.
* **Accounts, tokens and the TTL cache.** Check-then-insert; a verdict that is
  reached on one server, travels, is cached on another, and is used later; a
  cache whose reads, removals and sweeps look at the clock outside its lock.
  Correct when who registered can log in, a token is not accepted much longer
  than it is valid, nothing live is thrown out and nothing expired stays.
* **Challenges, hints, notifications.** Updates that read, merge and write every
  column. Correct when a field holds what was last asked for but for the updates
  that really overlapped, and a deleted record stays as it is.

## 2. The modules

| module | what it is |
|---|---|
| `Submission` | SubmitInComp, statement by statement, with its environment and failures |
| `SolveLedger` | abstract: lines are awarded once per user and challenge, and announced once |
| `SubmissionLedger` | the refinement mapping from `Submission` to `SolveLedger` |
| `SubmissionHistory` | `Submission` with history variables for what was true while a request ran; the module of the core run |
| `SubmissionProofs` | the theorems about `Submission`, `SubmissionLedger` and `SubmissionHistory` |
| `TopThree` | the handlers of one challenge's events, InnoDB's locks, the cache entries, readers |
| `BloodBoard` | abstract: first, second and third are handed out in turn to different entities |
| `TopThreeBoard` | the refinement mapping from `TopThree` to `BloodBoard` |
| `TeamMembership` | teams and members, requests statement by statement |
| `Competition` | one competition's row, its link tables, the clock and the requests |
| `Leaderboard` | the cached leaderboard, its readers, and the subscribers of the solves' events |
| `Analytics` | the four cached views of the analytics, statement by statement, with the figures their queries compute |
| `TTLCache` | the in-memory cache with its mutex, its clock and its sweep, as operators for a composition |
| `TokenGate` | abstract: a token is issued, ages, and is never accepted once it is dead |
| `TokenAuth` | registration, login and the verification of tokens through `TTLCache`; implements `TokenGate` |
| `Catalogue` | one challenge, hint or notification and the requests that create, update and delete it |
| `TopThreeProofs`, `TeamMembershipProofs`, `CompetitionProofs`, `LeaderboardProofs`, `AnalyticsProofs`, `TokenAuthProofs`, `CatalogueProofs` | the theorems about the module each is named after, and its refinement where it has one |
| `MC*` | model values, symmetry and constant functions for TLC |

### How a module reads

`pc[r]` is the next statement of request (handler, reader) `r`; every statement
that touches the database, the network, the bus or the cache is an action named
for the function or the question it asks, and the computation up to the next
statement is part of it. `Goto` and `Return` are the ways out of a statement.
A local variable that survives a statement is a variable of the model (`loc`,
`copy`, `current`, `draft`). Definitions named `Slip...` are plausible faults of
the code: none is used by a specification, each is what a definition is replaced by
to see that a property notices.

**Submission.** `Begin`, `ReadCompetition`, `ResolveTeam`, `CheckRegistered`,
`CheckSolved`, `ReadChallenge`, `Insert` and `Publish` are the statements of
`SubmitInComp` (submission.go:60-166) in their order. `TeamAnswers` has what the
auth server can answer when it fails: anything but a 200 with a list is "no
team". `Duplicate` is the unique index on (user, challenge, competition,
is_correct). `StatementFails` returns an error; `InsertUnacknowledged` returns
one although the row is in; `Crash` loses every running request. The environment
changes the competition (mode, join mode, active, window), deletes it, changes
challenges, teams and registrations.

**TopThree.** One challenge. `gapLock` and `rowLock` model the locks: a SELECT ...
FOR UPDATE that finds records locks them, one that finds none takes the gap
lock, which several transactions hold together; an INSERT waits for the others'
gap locks; two that wait for each other are a deadlock, and InnoDB rolls one
back. `chalCache` is the entry that `isTopThreeFullFromCache` reads; `views` holds the
map for the leaderboard and the page's own key. The code's branches that insert
in front of a later solver are not in the module: they need three records, and
`handleCorrectSubmission` returns then (topthree.go:248).

**TeamMembership.** A user's membership is a live row; `dead` holds the index
keys of the soft-deleted ones, since the index is on (team, user, is_deleted).
`SoftDelete` and `InsertRow` fail on a duplicate key. Requests name teams that
exist or existed and users that exist.

**Competition.** One competition; the clock runs to `MaxTime`, times go one
further. A request reads a copy, and `Sync` (syncStatus) compares that copy with the
clock. `UpdateRow` writes the whole copy. `Merge` applies the body of an update.
Reads are not cached, as in the assembled server, which asks for the
competitions' cache before there is one.

**Leaderboard.** The composition of a solve's row, its event's two handlers, the
two cache entries and the readers. A reader's `draft` grows by one statement at
a time, `Entries` makes what is shown of everybody, `Boards` the orders that an
unstable sort may give them, `Store` caches one. `Sum` and `Worth` count points one by one
(the cardinality of a set of pairs), which is what proofs can compare. The event of a solve is two
duties, one for the cache plugin and one for top three, whose handler is here
reduced to its effect (`TopThree` has it in full). Solves fall into whole
seconds, as `created_at` has it. The competition's mode is a constant, and every
member has a team.

**Analytics.** `Plan` is the order of the statements of each view; `pc[r]` is how
far a reader is in it, and one action answers each kind of statement. What a
query returns is an operator (`CategoryFigures`, `EntityFigures`, `ChallengeFigures`,
`Solves`, `Assignments`) with the joins as the SQL has them: a challenge that is
assigned twice counts its submissions twice in the categories (`Total` is the SUM of the SQL, counted
unit by unit), and the points of
a deleted challenge are NULL, kept as the empty set. An error of the queries
whose error the code drops (`ReadSolves`, `ReadTeams`) counts as an answer of
zero; every other one ends the request. Averages and rates are kept as the
numbers that are divided; an overview divides by users that were counted before
the submissions, so that it can show right submissions and no users.

**TTLCache and TokenAuth.** Times are counted from now: an entry is how many
ticks its expiresAt lies ahead, a token how many ticks its exp does, and `Tick`
moves all of them, so that the clock has no end. `Get` is `Lookup` (the read lock),
`CheckExpiry` (the clock) and `Drop` (the write lock, which looks again);
`GetOrSet` goes on with `Verify`, `Receive`, `ComputeExpiry` (the clock) and `Store` (the
lock); the sweep reads the clock in `SweepBegin` and takes the lock in `SweepEnd`. A
goroutine may be held up for `Delay` ticks between two of these steps, a
verification for `Timeout`. VerifyToken looks at the token and the clock and never
at the `users` table, so an account's row has no part in it. `Taken` has the
unique index, which does not look at `is_deleted` (no statement deletes a user).
Registrations that are refused before the first statement, and passwords that
bcrypt refuses (longer than 72 bytes, though Register allows 255), change
nothing and are left out.

**Catalogue.** `kind` says what the record is and so which columns it has, what an
update's body may leave out (a challenge's never leaves out is_enabled), when it
is validated (hints and notifications before the read, a challenge once merged),
and what a deletion that finds nothing answers. The five texts of a challenge are
merged alike and are one column.

## 3. The runs and what they show

Passing runs. Every property has a `Slip...` that TLC finds to violate it.

| run | bounds | shows |
|---|---|---|
| `Submission_core` | 2 requests, 2 users, 1 team, 1 challenge, 2 flags, all failures, 1 change | nobody scores twice; events announce recorded solves; answers are true; only failed requests leave a silent solve; each verdict was true at some moment between the request's arrival and its answer; a request that begins after a team's solve is in does not score for it again; `Submission` implements `SolveLedger` |
| `TopThree_race` | 4 users, 1 team, team mode | nobody is left out without a cause; `TopThree` implements `BloodBoard`: places are given out once, in turn, to different users and teams |
| `TopThree_views` | 2 users, 1 reader, both modes, all failures, 1 change | every cached entry is a set of committed records; handlers end; cached views come to show the records |
| `TeamMembership_serial` | 1 request at a time, 3 users, 2 teams, failing statements | one team per user, one captain per team, no orphan, SetCaptain keeps everybody else in the team, also after half-done requests |
| `Competition_serial` | 1 request of all ten kinds, failing statements | an update changes only what its body names |
| `Competition_race` | 2 requests: get, start, end, update, delete | the window stays ordered, a deleted row is never written, the status ends up following the clock |
| `Leaderboard_scores` | individual mode, 1 reader, 2 users, 2 challenges, 2 solves, 1 change or failure | points cover the solves that are shown, and who is ranked ahead has earned no less than those behind; the cached board comes to be one of those the tables allow |
| `TokenAuth_cache` | 1 token, 2 requests, 2 registrations of 1 name, TTL 2, exp 2, timeout 1, delay 1 | who was told 201 can log in; live entries stay, expired ones go, and so does every request, answered or not; `TokenAuth` implements `TokenGate`: no token is accepted `Grace` after its exp |
| `Catalogue_updates` | 3 requests of any kind on one record of each of the 3 kinds, 2 texts | a field is what was last asked for, but for overlaps; answers are true; a deleted record is never written |
| `Analytics_views` | 4 views, 1 reader, 2 users of 1 team, 2 challenges of 2 categories, 2 submissions, 1 change, 1 failure | the overview's numbers fit together; the queries agree with each other; the cached view comes to be that of the tables |

Runs that end in a violation check what a comment or a document of the
repository says; the finding in `PROJECT.json` quotes it.

| run | what happens |
|---|---|
| `Submission_teamdup` | two team mates at the same time both score |
| `Analytics_nullsum` | a user whose only submissions are right ones to a deleted challenge has a NULL sum, which does not scan into an int: the view of all users is an error for everybody |

### Further configurations

These are not among the runs of `PROJECT.json`. The first passes; the others, in
the module they are named after, end in a counterexample that is worth reading
next to the code. TLC stops at the first property it finds violated: where a
configuration lists several, leave the others out to see one of them.

| configuration | property | what happens |
|---|---|---|
| `Submission_liveness` | `SolvesAreAnnounced` | passes: without a crash or a lost answer every solve is announced |
| `Submission_unrecorded` | `WrongAttemptsAreRecorded` | a user's second wrong flag is a duplicate key: an internal error, not recorded |
| `TopThree_order` | `RanksFollowSubmission`, `FirstThreeRecorded` | an earlier solve is recorded behind a later one; a first solver is dropped as a deadlock victim although a place is free |
| `TopThree_stale` | `MapIsFresh`, `ApiIsFresh` | a cached view lacks a record when all handlers are done |
| `TeamMembership_race` | `OneTeamPerUser`, `OneCaptain`, `DeletedTeamsAreEmpty` | two concurrent requests break a constraint that each of them checks |
| `TeamMembership_again` | `RemovalsGoThrough`, `CaptaincyIsHandedOver` | a second soft deletion of one pair is a duplicate key: a member cannot be removed a second time, and a team can lose its captain to it |
| `Competition_lostupdate` | `PatchesTouchOnlyTheirFields` | an update undoes another |
| `Competition_status` | `ManualEndHolds`, `ListingActivates` | what was ended by hand is active after the next read; the users' listing activates nothing |
| `Competition_again` | `TeamRemovalsGoThrough`, `AssignedOnce` | a team cannot be removed twice; a challenge is assigned twice |
| `Competition_deletedempty` | `DeletedIsEmpty` | a deleted competition has challenges |
| `Leaderboard_fresh`, `_teamscore` | `LeaderboardIsFresh`, `RanksAreShown`; `TeamScoreCountsOnce` | a stale board is stored after its invalidation; the rank comes after the invalidation; a team's points count twice |
| `Leaderboard_ties` | `TiesFollowLastSolve` | the last solve of a hidden challenge gives points and no time, so a tie is broken against who was first (leaderboard.go:3; README.md:16 says the earliest solve breaks it) |
| `Analytics_claims` | `AnalyticsAreInvalidated`, `CompletionIsAShare` | the prefix `analytics:<id>:` deleted on a solve matches no key `analytics:<view>:<id>`; a completion rate above 100%: solves of a challenge that was taken out still count |
| `Catalogue_lostupdate` | `UpdatesHoldAlways` | an update writes back what it had read before another one: a hidden hint is visible again |

### Why the bounds are enough

The races of this code are between two requests (a check and an INSERT, a read
and a write-back, a computation and an invalidation), so two requests reach
them; the fourth user of `TopThree` is there because three places and one who
finds them taken are needed, and the deadlock needs two. In `TopThree_race` the
mode is "team", and a user without a team is treated as in individual mode
(`EntityIn`), so that both ways to compare entities occur; `TopThree_views` has both
modes and a change between them. One change in the submission runs can fall
between any two statements of either request. Two flags make a right and a wrong
one, and a challenge whose flag changes. In `Competition`, times 0, 1, 2 give a window
that is before, around and after the clock; the race keeps mode and join mode at
one value each, since no statement of its five kinds reads them. In `Leaderboard`, two solves by two
users with one change reach each order of "solve" and "hide or delete" around
the statement that lists and the one that sums; two challenges of different worth
make boards with a first and a second, and with `MaxSeconds` 1 all solves fall into
one second, the tie that the sort leaves open (`Leaderboard_ties` has two seconds).
In `Analytics`, two challenges in two categories, one of which may be taken out,
assigned twice, hidden or deleted, two users of one team, and two submissions,
right or wrong, around any statement of a reader. In `TokenAuth`, a TTL of 2 and
an exp of 2 with a timeout and a delay of 1 make `Grace` longer than any of them:
an entry can outlive its token, a verdict can be stored after its token has
expired, and the sweep can be a tick late; two requests with one token race on
its entry, which is the only entry they share. In `Catalogue`, three requests make
an update that overlaps two others, or an update and two deletions. The theorems
below have no bounds.

Named bounds: `MaxChanges`, `MaxTime`, `MaxAssigned`, `MaxSolves`, `MaxSeconds`,
`MaxTroubles` (changes and failures together), `MaxRows`, `MaxFaults`, in `TTLCache` and
`TokenAuth` `Delay` and `Timeout` (what may be held up for how long) and, from them, `Floor`
and `Dead`, beyond which one past is like another;
and in `Competition` that an update's body names one field besides `is_active`
(which the code always writes). Deadlock is not checked in modules whose
requests are finite or whose clock stops: there the end is a state without steps.

### Fairness

* `Submission` (only in `Submission_liveness`): a request that has begun is served
  (`WF` of its steps): the server runs its goroutines. Nobody need send one, and
  nothing else is fair.
* `TopThree`, `Leaderboard`, `Analytics`: a subscriber's goroutine and a reader run
  (`WF`), and a cached entry expires (`WF`): `default_ttl` is positive in the
  configuration.
* `TokenAuth`: goroutines run and the ticker of the sweep fires (`WF` of `Serve` and of
  `Sweeping`), and a verification that is not answered fails (`WF` of `VerifyFails`):
  `NewAuth` gives its client a timeout of 5 s. Neither `Verify` nor anything else of
  the auth server is fair, nor does anybody have to send a request or to log in.
* `Competition`: the clock runs and requests are served (`WF`); somebody goes on
  visiting the competition (`SF` of beginning a `get`). It is strong because the model
  gives its request slots out one at a time, where the server has no such limit.
  Without visitors the status never changes, which is how the code is meant.

## 4. What is proved

Every safety property of a passing run, invariants and action properties alike, and
each of the three refinements, is a theorem: it holds for any sets of users,
teams, challenges, requests, readers, tokens and texts, and any bounds, lifetimes
and delays. Assumed is only what the modules state of their constants
(`ConstantsAssumption`, `CacheAssumption`, `TokenAssumption`, `AnalyticsAssumption`,
`CatalogueAssumption`): bounds are numbers, modes are modes, no model value is
taken for another, points and lifetimes are positive, and what a leaderboard or a
view adds up over is finite. A theorem states a property of its module's `Spec`,
which has no fairness (`HSpec` with the history variables).

| module | theorem | states |
|---|---|---|
| `SubmissionProofs` | `TypeCorrect` | `TypeOK` |
| | `SolvedOnce` | `OneSolvePerUser` |
| | `BooksKept` | `Bookkeeping`, the inductive invariant |
| | `AnnouncedAreRecorded` | `EventsAnnounceSolves` |
| | `OnlyFailuresAreSilent` | `SilentSolvesFailed` |
| | `AnswersTrue` | `AnswersAreTrue` |
| | `LedgerImplemented` | `ImplementsLedger` |
| | `RowsAreWitnessed` | `VerdictsAreWitnessed` |
| | `TeamsSolveOnceInTurn` | `NoLaterTeamSolve` |
| `TopThreeProofs` | `Invariant` | `IInv`, the inductive invariant |
| | `TypeCorrect` | `TypeOK` |
| | `CachesTrue` | `CachesShowRecords` |
| | `PassedOverForCauseOnly` | `PassedOverForCause` |
| | `RecordsAreBoard` | `ImplementsBoard` |
| `TeamMembershipProofs` | `TypeCorrect` | `TypeOK` and `OneRowPerPair`, for any number of requests |
| | `NobodyInTwoTeams` | `OneTeamPerUser`, one request at a time |
| | `NoTwoCaptains` | `OneCaptain`, one request at a time |
| | `NobodyInDeletedTeams` | `DeletedTeamsAreEmpty`, one request at a time |
| | `NewCaptainKeepsMembers` | `SetCaptainKeepsMembers`, one request at a time |
| `CompetitionProofs` | `TypeCorrect` | `TypeOK` |
| | `WindowOrdered` | `WindowIsOrdered` |
| | `DeletedStays` | `DeletedIsFinal` |
| | `PatchesTouchNoMore` | `PatchesTouchOnlyTheirFields`, one request at a time |
| `LeaderboardProofs` | `Invariant` | `IInv`, the inductive invariant |
| | `TypeCorrect` | `TypeOK` |
| | `TotalsCoverSolves` | `ScoresCoverSolves` |
| | `OrderIsEarned` | `RanksAreEarned` |
| `AnalyticsProofs` | `Invariant` | `IInv`, the inductive invariant |
| | `TypeCorrect` | `TypeOK` |
| | `OverviewsAddUp` | `OverviewAddsUp` |
| | `ViewsAgree` | `FiguresAgree` |
| `TokenAuthProofs` | `Invariant` | `IInv`, the inductive invariant |
| | `TypeCorrect` | `TypeOK` |
| | `RegistrationsHold` | `RegisteredLogIn` |
| | `LiveEntriesStayCached` | `LiveEntriesStay` |
| | `TokensAreGated` | `ImplementsGate` |
| `CatalogueProofs` | `BooksKept` | `TypeOK` and `Bookkeeping`, the inductive invariant |
| | `TypeCorrect` | `TypeOK` |
| | `AnswersTrue` | `AnswersAreTrue` |
| | `DeletedStays` | `DeletedIsFinal` |
| | `UpdatesHeld` | `UpdatesHold` |

*One request at a time.* Four theorems about `TeamMembership` and one about
`Competition` have the hypothesis that all of `Requests` are one, as the runs
`TeamMembership_serial` and `Competition_serial` have it. It is needed: with two the
properties are false, which `TeamMembership_race` and `Competition_lostupdate` show. The one
request slot serves any number of requests after another, and every statement
may fail, so that what is proved is also about requests that ended half-way.

*No induction over data.* Nothing here is summed by recursion. A sum is the
number of elements of a set of pairs (a row, one of its points): sums are
compared by comparing sets, and the library's facts about finite sets do the
rest. That the smallest of a set of times exists, or of the statements that are
still to come, is the well-foundedness of `<` on the naturals.

### The inductive invariants

None of the properties but `OneSolvePerUser` and `WindowIsOrdered` is close to being
inductive, because whether a step keeps it depends on what the acting request
read before. Each invariant says what that can be. TLC checked each of them on
the run of its module before it was proved.

* **Submission.** `SolvedOnce` needs the index only: rows change by an INSERT that
  the index lets through (`RowsChange`), and such an INSERT adds no second solve
  (`InsertOneSolve`). That an event has its row depends on where its request was
  when it published. `Bookkeeping` says for every request what the table and the
  bus hold of it, from its program counter: `RowsMatch` (a row has the user, team,
  challenge and verdict of its request, whose INSERT is behind it), `EventsMatch` (an
  event agrees with its row and its request is done) and `RequestMatches` (what a
  request that is about to publish, or has an answer, has in the table and on
  the bus). `LedgerImplemented` maps an INSERT of a correct row to `Award`, Publish to
  `Announce`, and every other step to a stutter.
* **SubmissionHistory.** `HInv` goes along with a request: what it went by was a fact
  at some instant since it began (`VerdictSeen`: the window and modes, then the
  team, then the registration, then the flag), and, past the check for the team's
  solves, none of the rows that were there when it began was one (`NoneBefore`). A
  fact that was seen stays seen, whatever administrators do next.
* **TopThree.** `LocksProtect` is the heart: a transaction that is to insert or to
  commit holds the gap lock, if it found nothing, or the row lock, which excludes
  all other locks, and as long as it does what it read is what there is and it has
  no record. Hence a commit adds the next place, for somebody without one
  (`RecordIsNext`), and `Dense` is kept: `n` records have the places `1 .. n`. `OutcomesFit` and
  `CachesFit` say that records and outcomes are of handlers that are past their
  transaction, and that what anybody is about to cache are records; records are
  never removed. `RecordsAreBoard` maps a commit, acknowledged or not, to the award of
  a place.
* **TeamMembership.** `RowsFit` is the three constraints, `RequestFits` what the one
  request under way has found out and what it has done so far. In the middle of a
  change of captain the old or the new captain is out of the team, and
  `HandoverFits` says who: `members[r]` is the team with that one put back.
* **Competition.** `Ordered`: every copy that is about to be written has an ordered
  window, since it was validated after the merge. `Fresh`, with one request: the copy is
  the row with the body merged into it.
* **Leaderboard.** `DraftFits`: a reader has of nobody more points than his rows are
  worth now, and, once it has read the points, no fewer than the challenges that
  it had read as solved and that are not deleted. Rows only become more, challenges
  are deleted for good, so both survive what happens before the board is stored,
  and what happens while it is cached (`BoardFits`). The order of an unstable sort is
  any bijection that respects points and times.
* **Analytics.** `Fits` says of each view what a draft has in it before each statement of
  the plan. For an overview: entities, rows and correct rows are counted in this
  order, and each count bounds the next, for rows only become more; and the
  solves of individuals are as many as their correct rows, by the unique index
  (`SolvesCover`). For the views with a query per category or challenge: all that
  the answer has are counted or still to be counted (`TeamsCover`), so that no figure is
  missing at the end. `ViewsAgree` needs of the invariant the types only: it is a lemma
  about the queries (`PartsMakeAddUp`: a set that is partitioned has as many elements
  as its parts together).
* **TokenAuth.** `EntriesFit` and `HoldsFit` bound how long ago the token of a verdict was
  valid, from the ticks that the entry has to live, or from how long the request
  has been held up at its step: at most `Timeout` on the way, `Delay` to compute the
  expiry, and then `Delay` to get the lock or, from the expiry on, `TTL` in the cache. `Grace` is
  the longer of the two ways (`GraceCovers`), which is what `TokensAreGated` needs. `AccountsFit` has the unique index.
* **Catalogue.** `Bookkeeping` ties a request's program counter to its body (a bad
  one is never about to be written), to the record and to its answer; `Holding` says
  of each copy in flight that it is what was asked for, but for the fields that
  others set since it was read.

### Left to TLC

* Liveness, since TLAPS has no ENABLED and no fairness: `HandlersFinish`, `ViewsSettle` (of
  `TopThree` and of `Analytics`), `StatusSettles`, `BoardsSettle`, `NothingLingers` and, in the unlisted
  `Submission_liveness`, `SolvesAreAnnounced`.
* What the code does not guarantee: the properties of the runs that end in a
  violation and of the further configurations.

## 5. What is not modelled

* Wording, JSON, ids, logging; titles and descriptions.
* Listings that only read (submissions, teams, challenges of a competition).
* The times in the analytics' answers, and the queries of `pluginutil/queries.go` that
  no handler calls (`GetScoreDistribution` to `GetCompetitionMode`).
* `Cache.Delete`, `Len` and `Stop`, which nothing calls while the server runs
  (`log.Fatal` in `main` skips the deferred `Stop`).
* bcrypt and JWT, beyond what they decide; `RequireAdmin`, which compares a string.
* In `Leaderboard`, a change of the competition's mode between two statements, and
  rows without a team in team mode (`Analytics` has the change of mode).
* `UpdateTeam` (one statement on a name and a description), `CreateTeamWithCreator` and
  `SetTeamID`, which no handler calls.
* Assembly, configuration, rate limiting, seed data and test support. What start-up
  fixes is taken as given: `main.go:94` asks the cache plugin for the competitions'
  cache before `Register` has made it (line 119), so that competitions are not
  cached although config.yaml says so.

## 6. The plan

Done, in this order: `Submission` with its ledger, history and proofs, `TopThree` with
its board, `TeamMembership`, `Competition`, `Leaderboard`, `TTLCache` and `TokenAuth` with
their gate, `Catalogue`, `Analytics`. Every component with state of its own has a
module, and every safety property that a run checks is proved. What could follow:

1. `TeamMembership` with any number of requests: which pairs of overlapping requests
   are the only ones that break a constraint, as `NoLaterTeamSolve` has it for teams'
   solves, and its theorem.
2. `Leaderboard` and `Analytics`: what of a cached value is exact when nothing was
   changed while it was read.
3. `Competition`: with concurrent requests, that an update undoes nothing but what
   overlapped it, as `UpdatesHold` has it for `Catalogue`.
