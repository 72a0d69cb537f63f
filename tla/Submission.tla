---------------------------- MODULE Submission ----------------------------
(***************************************************************************)
(* Flag submission inside one competition: SubmissionService.SubmitInComp  *)
(* (internal/service/submission.go) as the concurrent HTTP requests run    *)
(* it, the submissions table with its unique index, the auth service that  *)
(* answers "which team is this user in", and the administrators who change *)
(* the competition, the challenges, the teams and the registrations        *)
(* between any two statements of a request.                                *)
(*                                                                         *)
(* Each statement of the handler that touches the database, the network or *)
(* the event bus is one step; the code has no transaction around them.     *)
(***************************************************************************)
EXTENDS Naturals

CONSTANTS
    Requests,      \* HTTP submit requests; each one is served once
    Users,
    Teams,
    NoTeam,        \* teamID = "": individual mode, or no team found
    Challenges,
    Flags,         \* flags a challenge can have, and a client can send
    Oversized,     \* a flag longer than the column: Validate rejects it
    Faults,        \* failures that may happen, a subset of FaultKinds
    MaxChanges     \* bound on what administrators do while requests run

FaultKinds == {
    "store",       \* a statement fails, or the client hangs up first
    "ack",         \* the INSERT commits but its answer never arrives
    "auth",        \* the auth service answers with an error or garbage
    "crash"}       \* the server process dies

ASSUME ConstantsAssumption ==
    /\ NoTeam \notin Teams
    /\ Oversized \notin Flags
    /\ Faults \subseteq FaultKinds
    /\ MaxChanges \in Nat

VARIABLES
    comp,          \* the competitions row, and whether now is in its window
    chal,          \* the challenges rows
    teamOf,        \* the auth service: the team of each user
    registered,    \* teams with a live competition_teams row
    rows,          \* the submissions table
    events,        \* events handed to event.Publish
    args,          \* what each request asks: its user, challenge and flag
    pc,            \* the next statement of each request
    loc,           \* local variables of SubmitInComp
    result,        \* what the request returned
    changes        \* administrative changes made so far

dbvars  == <<comp, chal, teamOf, registered>>
reqvars == <<args, pc, loc, result>>
vars    == <<dbvars, rows, events, reqvars, changes>>

Modes     == {"individual", "team"}
JoinModes == {"free", "managed"}
Comp      == [deleted: BOOLEAN, active: BOOLEAN, inWindow: BOOLEAN,
              mode: Modes, join: JoinModes]
Chal      == [enabled: BOOLEAN, flag: Flags]
TeamIDs   == Teams \cup {NoTeam}
Args      == [user: Users, chal: Challenges, flag: Flags \cup {Oversized}]
Locals    == [mode: Modes, join: JoinModes, team: TeamIDs, correct: BOOLEAN]
Row       == [req: Requests, user: Users, team: TeamIDs,
              chal: Challenges, correct: BOOLEAN]
Event     == [req: Requests, user: Users, team: TeamIDs, chal: Challenges]

DBSteps   == {"comp", "team", "registered", "solved", "challenge", "insert"}
Running   == DBSteps \cup {"publish"}
PCs       == Running \cup {"idle", "done"}
Rejections == {"not_found", "not_active", "must_join", "not_registered",
               "already_solved", "invalid"}
Results   == Rejections \cup {"none", "correct", "incorrect", "error", "lost"}

TypeOK ==
    /\ comp \in Comp
    /\ chal \in [Challenges -> Chal]
    /\ teamOf \in [Users -> TeamIDs]
    /\ registered \in SUBSET Teams
    /\ rows \in SUBSET Row
    /\ events \in SUBSET Event
    /\ args \in [Requests -> Args]
    /\ pc \in [Requests -> PCs]
    /\ loc \in [Requests -> Locals]
    /\ result \in [Requests -> Results]
    /\ changes \in 0 .. MaxChanges

NoLocals == [mode |-> "individual", join |-> "free",
             team |-> NoTeam, correct |-> FALSE]

Init ==
    /\ comp \in {c \in Comp : ~c.deleted}
    /\ chal \in [Challenges -> {c \in Chal : c.enabled}]
    /\ teamOf \in [Users -> TeamIDs]
    /\ registered \in SUBSET Teams
    /\ rows = {}
    /\ events = {}
    /\ args \in [Requests -> Args]
    /\ pc = [r \in Requests |-> "idle"]
    /\ loc = [r \in Requests |-> NoLocals]
    /\ result = [r \in Requests |-> "none"]
    /\ changes = 0

----------------------------------------------------------------------------
(* The handler.  Goto and Return are its only ways to leave a statement.   *)

Goto(r, next) ==
    /\ pc' = [pc EXCEPT ![r] = next]
    /\ UNCHANGED result

Return(r, res) ==
    /\ pc' = [pc EXCEPT ![r] = "done"]
    /\ result' = [result EXCEPT ![r] = res]

Begin(r) ==
    /\ pc[r] = "idle"
    /\ Goto(r, "comp")
    /\ UNCHANGED <<dbvars, rows, events, args, loc, changes>>

(* Slip: the time window is not looked at. *)
SlipOpen == ~comp.deleted /\ comp.active

(* A live competition that is active, at an instant of its time window. *)
Open == ~comp.deleted /\ comp.active /\ comp.inWindow

(* GetCompetitionByID, the status checks, and the choice of the branch. *)
ReadCompetition(r) ==
    /\ pc[r] = "comp"
    /\ \/ /\ comp.deleted
          /\ Return(r, "not_found")
          /\ UNCHANGED loc
       \/ /\ ~comp.deleted /\ ~Open
          /\ Return(r, "not_active")
          /\ UNCHANGED loc
       \/ /\ Open
          /\ loc' = [loc EXCEPT ![r].mode = comp.mode, ![r].join = comp.join]
          /\ Goto(r, IF comp.mode = "team" THEN "team" ELSE "solved")
    /\ UNCHANGED <<dbvars, rows, events, args, changes>>

(* GetUserTeam: an HTTP call to the auth service.  Anything but a 200 with *)
(* a readable body counts as "in no team".                                 *)
TeamAnswers(u) == {teamOf[u]} \cup (IF "auth" \in Faults THEN {NoTeam} ELSE {})

ResolveTeam(r) ==
    /\ pc[r] = "team"
    /\ \E t \in TeamAnswers(args[r].user) :
          \/ /\ t = NoTeam
             /\ Return(r, "must_join")
             /\ UNCHANGED loc
          \/ /\ t # NoTeam
             /\ loc' = [loc EXCEPT ![r].team = t]
             /\ Goto(r, IF loc[r].join = "managed" THEN "registered"
                                                   ELSE "solved")
    /\ UNCHANGED <<dbvars, rows, events, args, changes>>

(* IsTeamInComp, reached in managed mode only. *)
CheckRegistered(r) ==
    /\ pc[r] = "registered"
    /\ \/ /\ loc[r].team \in registered
          /\ Goto(r, "solved")
       \/ /\ loc[r].team \notin registered
          /\ Return(r, "not_registered")
    /\ UNCHANGED <<dbvars, rows, events, args, loc, changes>>

CorrectRows == {row \in rows : row.correct}

(* Slip: the team's solves are not looked for. *)
SlipSolves(r) ==
    {row \in CorrectRows :
        row.chal = args[r].chal /\ row.user = args[r].user}

(* HasTeamCorrectSubmission or HasCorrectSubmission, as the mode says. *)
Solves(r) ==
    {row \in CorrectRows :
        /\ row.chal = args[r].chal
        /\ IF loc[r].mode = "team" THEN row.team = loc[r].team
                                   ELSE row.user = args[r].user}

CheckSolved(r) ==
    /\ pc[r] = "solved"
    /\ \/ /\ Solves(r) # {}
          /\ Return(r, "already_solved")
       \/ /\ Solves(r) = {}
          /\ Goto(r, "challenge")
    /\ UNCHANGED <<dbvars, rows, events, args, loc, changes>>

(* GetEnabledByID, the comparison of the flags, and Validate. *)
ReadChallenge(r) ==
    LET c == chal[args[r].chal] IN
    /\ pc[r] = "challenge"
    /\ \/ /\ ~c.enabled
          /\ Return(r, "not_found")
          /\ UNCHANGED loc
       \/ /\ c.enabled /\ args[r].flag = Oversized
          /\ Return(r, "invalid")
          /\ UNCHANGED loc
       \/ /\ c.enabled /\ args[r].flag # Oversized
          /\ loc' = [loc EXCEPT ![r].correct = (c.flag = args[r].flag)]
          /\ Goto(r, "insert")
    /\ UNCHANGED <<dbvars, rows, events, args, changes>>

(* Slip: two columns of the INSERT are swapped. *)
SlipNewRow(r) == [req |-> r, user |-> loc[r].team, team |-> args[r].user,
                  chal |-> args[r].chal, correct |-> loc[r].correct]

NewRow(r) == [req |-> r, user |-> args[r].user, team |-> loc[r].team,
              chal |-> args[r].chal, correct |-> loc[r].correct]

(* Slip: only the res_id is unique. *)
SlipDuplicate(row) == \E old \in rows : old.req = row.req

(* The unique index idx_user_chal_comp_correct refuses the row: the same   *)
(* user already has a row, right or wrong alike, for the challenge.        *)
Duplicate(row) ==
    \E old \in rows : /\ old.user = row.user
                      /\ old.chal = row.chal
                      /\ old.correct = row.correct

(* Slip: a duplicate key is taken to mean that the challenge is solved. *)
SlipDuplicateMeansSolved(r) ==
    /\ pc[r] = "insert"
    /\ \/ /\ Duplicate(NewRow(r))
          /\ Return(r, "already_solved")
          /\ UNCHANGED rows
       \/ /\ ~Duplicate(NewRow(r))
          /\ rows' = rows \cup {NewRow(r)}
          /\ IF loc[r].correct THEN Goto(r, "publish")
                               ELSE Return(r, "incorrect")
    /\ UNCHANGED <<dbvars, events, args, loc, changes>>

(* Slip: the event is not published. *)
SlipInsertOnly(r) ==
    /\ pc[r] = "insert"
    /\ \/ /\ Duplicate(NewRow(r))
          /\ Return(r, "error")
          /\ UNCHANGED rows
       \/ /\ ~Duplicate(NewRow(r))
          /\ rows' = rows \cup {NewRow(r)}
          /\ Return(r, IF loc[r].correct THEN "correct" ELSE "incorrect")
    /\ UNCHANGED <<dbvars, events, args, loc, changes>>

(* CreateSubmission, one INSERT, and the return of ResultIncorrect. *)
Insert(r) ==
    /\ pc[r] = "insert"
    /\ \/ /\ Duplicate(NewRow(r))
          /\ Return(r, "error")
          /\ UNCHANGED rows
       \/ /\ ~Duplicate(NewRow(r))
          /\ rows' = rows \cup {NewRow(r)}
          /\ IF loc[r].correct THEN Goto(r, "publish")
                               ELSE Return(r, "incorrect")
    /\ UNCHANGED <<dbvars, events, args, loc, changes>>

(* Slip: the event asks for the team again. *)
SlipNewEvent(r) == [req |-> r, user |-> args[r].user,
                    team |-> teamOf[args[r].user], chal |-> args[r].chal]

NewEvent(r) == [req |-> r, user |-> args[r].user, team |-> loc[r].team,
                chal |-> args[r].chal]

(* event.Publish starts one goroutine per subscriber and never blocks. *)
Publish(r) ==
    /\ pc[r] = "publish"
    /\ events' = events \cup {NewEvent(r)}
    /\ Return(r, "correct")
    /\ UNCHANGED <<dbvars, rows, args, loc, changes>>

----------------------------------------------------------------------------
(* Failures.                                                               *)

(* A statement returns an error, and so does the handler. *)
StatementFails(r) ==
    /\ "store" \in Faults
    /\ pc[r] \in DBSteps
    /\ Return(r, "error")
    /\ UNCHANGED <<dbvars, rows, events, args, loc, changes>>

(* The INSERT took effect, but ExecContext reports an error: the row stays *)
(* and the handler returns before event.Publish.                           *)
InsertUnacknowledged(r) ==
    /\ "ack" \in Faults
    /\ pc[r] = "insert"
    /\ ~Duplicate(NewRow(r))
    /\ rows' = rows \cup {NewRow(r)}
    /\ Return(r, "error")
    /\ UNCHANGED <<dbvars, events, args, loc, changes>>

(* The process dies: the requests it was serving get no answer. *)
Crash ==
    /\ "crash" \in Faults
    /\ \E r \in Requests : pc[r] \in Running
    /\ pc' = [r \in Requests |-> IF pc[r] \in Running THEN "done" ELSE pc[r]]
    /\ result' = [r \in Requests |->
                     IF pc[r] \in Running THEN "lost" ELSE result[r]]
    /\ UNCHANGED <<dbvars, rows, events, args, loc, changes>>

----------------------------------------------------------------------------
(* Everybody else, one database statement at a time.                       *)

Change == changes < MaxChanges /\ changes' = changes + 1

(* UpdateCompetition or SetActive writes the row, or time passes. *)
CompetitionChanges ==
    /\ Change
    /\ ~comp.deleted
    /\ comp' \in {c \in Comp : ~c.deleted}
    /\ UNCHANGED <<chal, teamOf, registered, rows, events, reqvars>>

CompetitionDeleted ==
    /\ Change
    /\ comp' = [comp EXCEPT !.deleted = TRUE]
    /\ UNCHANGED <<chal, teamOf, registered, rows, events, reqvars>>

(* Update, or soft delete: GetEnabledByID then finds no row. *)
ChallengeChanges ==
    /\ Change
    /\ \E c \in Challenges, new \in Chal : chal' = [chal EXCEPT ![c] = new]
    /\ UNCHANGED <<comp, teamOf, registered, rows, events, reqvars>>

(* A member is added or removed in the auth service. *)
TeamChanges ==
    /\ Change
    /\ \E u \in Users, t \in TeamIDs : teamOf' = [teamOf EXCEPT ![u] = t]
    /\ UNCHANGED <<comp, chal, registered, rows, events, reqvars>>

RegistrationChanges ==
    /\ Change
    /\ \E t \in Teams : registered' \in {registered \cup {t}, registered \ {t}}
    /\ UNCHANGED <<comp, chal, teamOf, rows, events, reqvars>>

----------------------------------------------------------------------------

Step(r) ==
    \/ Begin(r)
    \/ ReadCompetition(r)
    \/ ResolveTeam(r)
    \/ CheckRegistered(r)
    \/ CheckSolved(r)
    \/ ReadChallenge(r)
    \/ Insert(r)
    \/ Publish(r)

Environment ==
    \/ CompetitionChanges
    \/ CompetitionDeleted
    \/ ChallengeChanges
    \/ TeamChanges
    \/ RegistrationChanges

Next ==
    \/ \E r \in Requests : Step(r)
    \/ \E r \in Requests : StatementFails(r)
    \/ \E r \in Requests : InsertUnacknowledged(r)
    \/ Crash
    \/ Environment

Spec == Init /\ [][Next]_vars

(* A goroutine that can run does run: the Go scheduler and a database that *)
(* answers let every request go on.                                        *)
FairSpec == Spec /\ \A r \in Requests : WF_vars(pc[r] # "idle" /\ Step(r))

----------------------------------------------------------------------------
(* Properties.                                                             *)

(* However many requests race between their check and their INSERT, and    *)
(* however the mode, the teams or the challenge change meanwhile, a user   *)
(* earns a challenge of the competition at most once: the check of         *)
(* submission.go:112 is not enough, the unique index closes the race.      *)
OneSolvePerUser ==
    \A a, b \in CorrectRows : a.user = b.user /\ a.chal = b.chal => a = b

(* Every event of the bus announces a recorded solve, attributed as the    *)
(* table attributes it: the plugins never see a solve that a query made    *)
(* from the handler of the event could not find.                           *)
EventsAnnounceSolves ==
    \A e \in events :
        \E row \in CorrectRows :
            row.req = e.req /\ row.user = e.user
                /\ row.team = e.team /\ row.chal = e.chal

(* A finished request tells its client the truth about the tables: what    *)
(* "correct", "incorrect" and "already_solved" claim is recorded, and a    *)
(* rejection left no trace.  ("error" and "lost" claim nothing.)           *)
AnswersAreTrue ==
    \A r \in Requests :
        LET mine == {row \in rows : row.req = r} IN
        /\ result[r] = "correct" => /\ \E row \in mine : row.correct
                                    /\ \E e \in events : e.req = r
        /\ result[r] = "incorrect" => \E row \in mine : ~row.correct
        /\ result[r] = "already_solved" =>
              \E row \in CorrectRows \ mine :
                 /\ row.chal = args[r].chal
                 /\ \/ row.user = args[r].user
                    \/ row.team = loc[r].team /\ row.team # NoTeam
        /\ result[r] \in Rejections => mine = {}

(* The only solves that are never announced are those of a request that    *)
(* failed after its INSERT: nothing reads the table again to find them.    *)
SilentSolvesFailed ==
    \A row \in CorrectRows :
        \/ pc[row.req] = "publish"
        \/ \E e \in events : e.req = row.req
        \/ result[row.req] \in {"error", "lost"}

(* Without a crash and without a lost acknowledgement every recorded solve *)
(* is announced, so that scores, first bloods and caches catch up with it. *)
SolvesAreAnnounced ==
    \A r \in Requests :
        (\E row \in CorrectRows : row.req = r)
            ~> (\E e \in events : e.req = r)

(* "队伍模式下同一题目只计一次" (submission.go:100, and README.md:15): in team  *)
(* mode a challenge counts once for a team.                                *)
OneSolvePerTeam ==
    \A a, b \in CorrectRows :
        a.team = b.team /\ a.team # NoTeam /\ a.chal = b.chal => a = b

(* "创建提交记录（无论对错都记录，用于后续分析）" (submission.go:133), and the    *)
(* test that sends ten wrong flags in a row and wants 200 each time        *)
(* (integration_test.go:430): a wrong attempt that was judged is recorded. *)
WrongAttemptsAreRecorded ==
    \A r \in Requests :
        result[r] = "error" /\ ~loc[r].correct =>
            \E row \in rows : row.req = r

============================================================================
