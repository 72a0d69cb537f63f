------------------------- MODULE SubmissionProofs --------------------------
(***************************************************************************)
(* Proofs about Submission, and about SubmissionHistory, which watches it, *)
(* for every set of requests, users, teams and challenges, every choice of *)
(* faults and any number of administrative changes.                        *)
(***************************************************************************)
EXTENDS SubmissionHistory, TLAPS

----------------------------------------------------------------------------
(* Type correctness.                                                       *)

(* The statements of the handler keep the types. *)
LEMMA StepTypeOK ==
    ASSUME TypeOK, NEW r \in Requests, Step(r)
    PROVE  TypeOK'
<1> USE ConstantsAssumption DEF TypeOK, dbvars, Goto, Return, PCs, Running,
        DBSteps, Results, Rejections
<1>1. CASE Begin(r)
  BY <1>1 DEF Begin
<1>2. CASE ReadCompetition(r)
  <2>1. comp.mode \in Modes /\ comp.join \in JoinModes
    BY DEF Comp
  <2>2. loc' \in [Requests -> Locals]
    BY <1>2, <2>1 DEF ReadCompetition, Locals
  <2>3. QED
    BY <1>2, <2>2 DEF ReadCompetition
<1>3. CASE ResolveTeam(r)
  <2>1. TeamAnswers(args[r].user) \subseteq TeamIDs
    BY DEF TeamAnswers, TeamIDs, Args
  <2>2. loc' \in [Requests -> Locals]
    BY <1>3, <2>1 DEF ResolveTeam, Locals
  <2>3. QED
    BY <1>3, <2>2 DEF ResolveTeam
<1>4. CASE CheckRegistered(r)
  BY <1>4 DEF CheckRegistered
<1>5. CASE CheckSolved(r)
  BY <1>5 DEF CheckSolved
<1>6. CASE ReadChallenge(r)
  <2>1. loc' = loc \/ \E b \in BOOLEAN : loc' = [loc EXCEPT ![r].correct = b]
    BY <1>6 DEF ReadChallenge
  <2>2. loc' \in [Requests -> Locals]
    BY <2>1 DEF Locals
  <2>3. QED
    BY <1>6, <2>2 DEF ReadChallenge
<1>7. CASE Insert(r)
  <2>1. NewRow(r) \in Row
    BY DEF NewRow, Row, Args, Locals
  <2>2. QED
    BY <1>7, <2>1 DEF Insert
<1>8. CASE Publish(r)
  <2>1. NewEvent(r) \in Event
    BY DEF NewEvent, Event, Args, Locals
  <2>2. QED
    BY <1>8, <2>1 DEF Publish
<1>9. QED
  BY <1>1, <1>2, <1>3, <1>4, <1>5, <1>6, <1>7, <1>8 DEF Step

(* So do the failures, *)
LEMMA FaultTypeOK ==
    ASSUME TypeOK,
           \/ \E r \in Requests : StatementFails(r) \/ InsertUnacknowledged(r)
           \/ Crash
    PROVE  TypeOK'
<1> USE ConstantsAssumption DEF TypeOK, dbvars, Return, PCs, Running,
        DBSteps, Results, Rejections
<1>1. ASSUME NEW r \in Requests, StatementFails(r)
      PROVE  TypeOK'
  BY <1>1 DEF StatementFails
<1>2. ASSUME NEW r \in Requests, InsertUnacknowledged(r)
      PROVE  TypeOK'
  <2>1. NewRow(r) \in Row
    BY DEF NewRow, Row, Args, Locals
  <2>2. QED
    BY <1>2, <2>1 DEF InsertUnacknowledged
<1>3. CASE Crash
  BY <1>3 DEF Crash
<1>4. QED
  BY <1>1, <1>2, <1>3

(* and the administrators. *)
LEMMA EnvironmentTypeOK ==
    ASSUME TypeOK, Environment
    PROVE  TypeOK'
<1> USE ConstantsAssumption DEF TypeOK, Change, reqvars
<1>1. CASE CompetitionChanges
  BY <1>1 DEF CompetitionChanges
<1>2. CASE CompetitionDeleted
  <2>1. comp' \in Comp
    BY <1>2 DEF CompetitionDeleted, Comp
  <2>2. QED
    BY <1>2, <2>1 DEF CompetitionDeleted
<1>3. CASE ChallengeChanges
  BY <1>3 DEF ChallengeChanges
<1>4. CASE TeamChanges
  BY <1>4 DEF TeamChanges
<1>5. CASE RegistrationChanges
  BY <1>5 DEF RegistrationChanges
<1>6. QED
  BY <1>1, <1>2, <1>3, <1>4, <1>5 DEF Environment

(* Every variable keeps its type in every reachable state. *)
THEOREM TypeCorrect == Spec => []TypeOK
<1>1. Init => TypeOK
  BY ConstantsAssumption
     DEF Init, TypeOK, NoLocals, Locals, Modes, JoinModes, TeamIDs, PCs,
         Running, DBSteps, Results, Rejections
<1>2. TypeOK /\ [Next]_vars => TypeOK'
  <2>1. CASE UNCHANGED vars
    BY <2>1 DEF TypeOK, vars, dbvars, reqvars
  <2>2. QED
    BY <2>1, StepTypeOK, FaultTypeOK, EnvironmentTypeOK DEF Next
<1>3. QED
  BY <1>1, <1>2, PTL DEF Spec

----------------------------------------------------------------------------
(* The unique index.                                                       *)

(* An INSERT that the unique index lets through adds no second solve of a *)
(* user.                                                                  *)
LEMMA InsertOneSolve ==
    ASSUME OneSolvePerUser, NEW r \in Requests, ~Duplicate(NewRow(r)),
           rows' = rows \cup {NewRow(r)}
    PROVE  OneSolvePerUser'
<1>1. ASSUME NEW old \in rows, old.correct, NewRow(r).correct,
             old.user = NewRow(r).user, old.chal = NewRow(r).chal
      PROVE  FALSE
  BY <1>1, Zenon DEF Duplicate
<1>2. QED
  BY <1>1 DEF OneSolvePerUser, CorrectRows

(* The table changes by the INSERT of a request, past the index, alone. *)
LEMMA RowsChange ==
    ASSUME Next
    PROVE  \/ UNCHANGED rows
           \/ \E r \in Requests : /\ pc[r] = "insert"
                                  /\ ~Duplicate(NewRow(r))
                                  /\ rows' = rows \cup {NewRow(r)}
<1>1. ASSUME NEW r \in Requests,
             Step(r) \/ StatementFails(r) \/ InsertUnacknowledged(r)
      PROVE  \/ UNCHANGED rows
             \/ /\ pc[r] = "insert"
                /\ ~Duplicate(NewRow(r))
                /\ rows' = rows \cup {NewRow(r)}
  BY <1>1 DEF Step, Begin, ReadCompetition, ResolveTeam, CheckRegistered,
              CheckSolved, ReadChallenge, Insert, Publish, StatementFails,
              InsertUnacknowledged
<1>2. ASSUME Crash \/ Environment
      PROVE  UNCHANGED rows
  BY <1>2 DEF Crash, Environment, CompetitionChanges, CompetitionDeleted,
              ChallengeChanges, TeamChanges, RegistrationChanges
<1>3. QED
  BY <1>1, <1>2 DEF Next

(* No interleaving, fault or administrative change lets a user earn a      *)
(* challenge of the competition twice.                                     *)
THEOREM SolvedOnce == Spec => []OneSolvePerUser
<1>1. Init => OneSolvePerUser
  BY DEF Init, OneSolvePerUser, CorrectRows
<1>2. OneSolvePerUser /\ [Next]_vars => OneSolvePerUser'
  <2>1. ASSUME OneSolvePerUser, UNCHANGED rows
        PROVE  OneSolvePerUser'
    BY <2>1 DEF OneSolvePerUser, CorrectRows
  <2>2. QED
    BY <2>1, RowsChange, InsertOneSolve DEF vars
<1>3. QED
  BY <1>1, <1>2, PTL DEF Spec

----------------------------------------------------------------------------
(* Bookkeeping: what the control state of a request says of the tables.    *)

Kept == {"correct", "incorrect", "error", "lost"}

RowsMatch ==
    \A row \in rows :
        /\ row = NewRow(row.req)
        /\ pc[row.req] = "publish" \/ result[row.req] \in Kept

EventsMatch ==
    \A e \in events : e = NewEvent(e.req) /\ result[e.req] = "correct"

SolvedBefore(r) ==
    \E row \in rows :
        /\ row.correct
        /\ row.req # r
        /\ row.chal = args[r].chal
        /\ \/ row.user = args[r].user
           \/ row.team = loc[r].team /\ row.team # NoTeam

RequestMatches(r) ==
    /\ pc[r] # "done" <=> result[r] = "none"
    /\ pc[r] = "publish" => NewRow(r) \in rows /\ loc[r].correct
    /\ result[r] = "correct" => /\ NewRow(r) \in rows /\ loc[r].correct
                                /\ NewEvent(r) \in events
    /\ result[r] = "incorrect" => NewRow(r) \in rows /\ ~loc[r].correct
    /\ result[r] = "already_solved" => SolvedBefore(r)
    /\ pc[r] = "registered" \/ (pc[r] = "solved" /\ loc[r].mode = "team") =>
           loc[r].team # NoTeam

Bookkeeping ==
    /\ RowsMatch
    /\ EventsMatch
    /\ \A r \in Requests : RequestMatches(r)

(* A step that leaves the tables alone, and only moves a request that has  *)
(* no row yet, keeps the books of every request but its own.               *)
LEMMA QuietStep ==
    ASSUME TypeOK, Bookkeeping, NEW r \in Requests,
           pc[r] \in DBSteps \cup {"idle"},
           UNCHANGED <<rows, events, args>>,
           \A s \in Requests \ {r} : /\ pc'[s] = pc[s]
                                     /\ loc'[s] = loc[s]
                                     /\ result'[s] = result[s],
           RequestMatches(r)'
    PROVE  Bookkeeping'
<1>1. result[r] = "none" /\ pc[r] # "publish"
  BY DEF Bookkeeping, RequestMatches, DBSteps
<1>2. \A row \in rows : row.req \in Requests \ {r}
  BY <1>1 DEF Bookkeeping, RowsMatch, Kept, TypeOK, Row
<1>3. \A e \in events : e.req \in Requests \ {r}
  BY <1>1 DEF Bookkeeping, EventsMatch, TypeOK, Event
<1>4. RowsMatch'
  BY <1>2 DEF Bookkeeping, RowsMatch, NewRow
<1>5. EventsMatch'
  BY <1>3 DEF Bookkeeping, EventsMatch, NewEvent
<1>6. ASSUME NEW s \in Requests \ {r}
      PROVE  RequestMatches(s)'
  BY <1>6 DEF Bookkeeping, RequestMatches, NewRow, NewEvent, SolvedBefore
<1>7. QED
  BY <1>4, <1>5, <1>6 DEF Bookkeeping

(* The INSERT, acknowledged or not, enters its row into the books of its   *)
(* own request.                                                            *)
LEMMA InsertBookkeeping ==
    ASSUME TypeOK, TypeOK', Bookkeeping, NEW r \in Requests, pc[r] = "insert",
           rows' = rows \cup {NewRow(r)},
           UNCHANGED <<events, args, loc>>,
           \A s \in Requests \ {r} : pc'[s] = pc[s] /\ result'[s] = result[s],
           \/ pc'[r] = "publish" /\ result'[r] = "none" /\ loc[r].correct
           \/ pc'[r] = "done" /\ result'[r] = "incorrect" /\ ~loc[r].correct
           \/ pc'[r] = "done" /\ result'[r] = "error"
    PROVE  Bookkeeping'
<1>1. result[r] = "none"
  BY DEF Bookkeeping, RequestMatches
<1>2. NewRow(r).req = r
  BY DEF NewRow
<1>3. \A s \in Requests : NewRow(s)' = NewRow(s) /\ NewEvent(s)' = NewEvent(s)
  BY DEF NewRow, NewEvent
<1>4. RowsMatch'
  <2>1. ASSUME NEW row \in rows
        PROVE  /\ row = NewRow(row.req)' /\ row.req # r
               /\ pc'[row.req] = "publish" \/ result'[row.req] \in Kept
    BY <1>1, <1>3 DEF Bookkeeping, RowsMatch, TypeOK, Row, Kept
  <2>2. pc'[r] = "publish" \/ result'[r] \in Kept
    BY DEF Kept
  <2>3. QED
    BY <1>2, <1>3, <2>1, <2>2 DEF RowsMatch
<1>5. EventsMatch'
  BY <1>1, <1>3 DEF Bookkeeping, EventsMatch, TypeOK, Event
<1>6. ASSUME NEW s \in Requests
      PROVE  RequestMatches(s)'
  <2>1. CASE s = r
    BY <1>3, <2>1 DEF RequestMatches
  <2>2. CASE s # r
    <3>1. RequestMatches(s)
      BY DEF Bookkeeping
    <3>2. SolvedBefore(s) => SolvedBefore(s)'
      BY DEF SolvedBefore
    <3>3. QED
      BY <1>3, <2>2, <3>1, <3>2 DEF RequestMatches
  <2>3. QED
    BY <2>1, <2>2
<1>7. QED
  BY <1>4, <1>5, <1>6 DEF Bookkeeping

(* The event enters the books of the request that publishes it. *)
LEMMA PublishBookkeeping ==
    ASSUME TypeOK, Bookkeeping, NEW r \in Requests, Publish(r)
    PROVE  Bookkeeping'
<1> USE DEF Publish, Return
<1>1. result[r] = "none" /\ NewRow(r) \in rows /\ loc[r].correct
  BY DEF Bookkeeping, RequestMatches
<1>2. NewEvent(r).req = r
  BY DEF NewEvent
<1>3. \A s \in Requests : NewRow(s)' = NewRow(s) /\ NewEvent(s)' = NewEvent(s)
  BY DEF NewRow, NewEvent
<1>4. /\ pc'[r] = "done" /\ result'[r] = "correct"
      /\ \A s \in Requests \ {r} : pc'[s] = pc[s] /\ result'[s] = result[s]
  BY DEF TypeOK
<1>5. RowsMatch'
  BY <1>3, <1>4 DEF Bookkeeping, RowsMatch, TypeOK, Row, Kept
<1>6. EventsMatch'
  <2>1. \A e \in events : e = NewEvent(e.req)' /\ e.req \in Requests \ {r}
    BY <1>1, <1>3 DEF Bookkeeping, EventsMatch, TypeOK, Event
  <2>2. \A e \in events : result'[e.req] = "correct"
    BY <1>4, <2>1 DEF Bookkeeping, EventsMatch
  <2>3. QED
    BY <1>2, <1>3, <1>4, <2>1, <2>2 DEF EventsMatch
<1>7. ASSUME NEW s \in Requests
      PROVE  RequestMatches(s)'
  <2>1. CASE s = r
    BY <1>1, <1>3, <1>4, <2>1 DEF RequestMatches
  <2>2. CASE s # r
    BY <1>3, <1>4, <2>2 DEF Bookkeeping, RequestMatches, SolvedBefore
  <2>3. QED
    BY <2>1, <2>2
<1>8. QED
  BY <1>5, <1>6, <1>7 DEF Bookkeeping

(* Every statement of the handler keeps the books, *)
LEMMA StepBookkeeping ==
    ASSUME TypeOK, TypeOK', Bookkeeping, NEW r \in Requests, Step(r)
    PROVE  Bookkeeping'
<1> USE DEF Goto, Return
<1>1. CASE Begin(r)
  <2>1. RequestMatches(r)'
    BY <1>1 DEF Begin, Bookkeeping, RequestMatches, TypeOK
  <2>2. QED
    BY <1>1, <2>1, QuietStep DEF Begin, TypeOK
<1>2. CASE ReadCompetition(r)
  <2>1. RequestMatches(r)'
    BY <1>2 DEF ReadCompetition, Bookkeeping, RequestMatches, TypeOK, Locals
  <2>2. QED
    BY <1>2, <2>1, QuietStep DEF ReadCompetition, TypeOK, DBSteps
<1>3. CASE ResolveTeam(r)
  <2>1. RequestMatches(r)'
    BY <1>3 DEF ResolveTeam, Bookkeeping, RequestMatches, TypeOK, Locals
  <2>2. QED
    BY <1>3, <2>1, QuietStep DEF ResolveTeam, TypeOK, DBSteps
<1>4. CASE CheckRegistered(r)
  <2>1. RequestMatches(r)'
    BY <1>4 DEF CheckRegistered, Bookkeeping, RequestMatches, TypeOK
  <2>2. QED
    BY <1>4, <2>1, QuietStep DEF CheckRegistered, TypeOK, DBSteps
<1>5. CASE CheckSolved(r)
  <2>1. \A row \in rows : row.req # r
    BY <1>5 DEF CheckSolved, Bookkeeping, RowsMatch, RequestMatches, Kept
  <2>2. Solves(r) # {} => SolvedBefore(r)
    BY <1>5, <2>1
       DEF CheckSolved, Solves, CorrectRows, SolvedBefore, Bookkeeping,
           RequestMatches
  <2>3. SolvedBefore(r) => SolvedBefore(r)'
    BY <1>5 DEF CheckSolved, SolvedBefore
  <2>4. RequestMatches(r)'
    BY <1>5, <2>2, <2>3
       DEF CheckSolved, Bookkeeping, RequestMatches, TypeOK
  <2>5. QED
    BY <1>5, <2>4, QuietStep DEF CheckSolved, TypeOK, DBSteps
<1>6. CASE ReadChallenge(r)
  <2>1. RequestMatches(r)'
    BY <1>6 DEF ReadChallenge, Bookkeeping, RequestMatches, TypeOK
  <2>2. QED
    BY <1>6, <2>1, QuietStep DEF ReadChallenge, TypeOK, DBSteps
<1>7. CASE Insert(r)
  <2>1. CASE Duplicate(NewRow(r))
    <3>1. RequestMatches(r)'
      BY <1>7, <2>1 DEF Insert, Bookkeeping, RequestMatches, TypeOK
    <3>2. QED
      BY <1>7, <2>1, <3>1, QuietStep DEF Insert, TypeOK, DBSteps
  <2>2. CASE ~Duplicate(NewRow(r))
    <3>1. result[r] = "none"
      BY <1>7 DEF Insert, Bookkeeping, RequestMatches
    <3>2. QED
      BY <1>7, <2>2, <3>1, InsertBookkeeping DEF Insert, TypeOK
  <2>3. QED
    BY <2>1, <2>2
<1>8. CASE Publish(r)
  BY <1>8, PublishBookkeeping
<1>9. QED
  BY <1>1, <1>2, <1>3, <1>4, <1>5, <1>6, <1>7, <1>8 DEF Step

(* every failure does, a crash of all running requests included, *)
LEMMA FaultBookkeeping ==
    ASSUME TypeOK, TypeOK', Bookkeeping,
           \/ \E r \in Requests : StatementFails(r) \/ InsertUnacknowledged(r)
           \/ Crash
    PROVE  Bookkeeping'
<1>1. ASSUME NEW r \in Requests, StatementFails(r)
      PROVE  Bookkeeping'
  <2>1. RequestMatches(r)'
    BY <1>1 DEF StatementFails, Return, Bookkeeping, RequestMatches, TypeOK,
                DBSteps
  <2>2. QED
    BY <1>1, <2>1, QuietStep DEF StatementFails, Return, TypeOK
<1>2. ASSUME NEW r \in Requests, InsertUnacknowledged(r)
      PROVE  Bookkeeping'
  BY <1>2, InsertBookkeeping DEF InsertUnacknowledged, Return, TypeOK
<1>3. CASE Crash
  <2>1. \A s \in Requests :
           /\ NewRow(s)' = NewRow(s) /\ NewEvent(s)' = NewEvent(s)
           /\ SolvedBefore(s)' = SolvedBefore(s)
    BY <1>3 DEF Crash, NewRow, NewEvent, SolvedBefore
  <2>2. \A s \in Requests :
           \/ pc[s] \in Running /\ pc'[s] = "done" /\ result'[s] = "lost"
           \/ pc[s] \notin Running /\ pc'[s] = pc[s] /\ result'[s] = result[s]
    BY <1>3 DEF Crash
  <2>3. RowsMatch'
    BY <1>3, <2>1, <2>2
       DEF Crash, Bookkeeping, RowsMatch, TypeOK, Row, Kept, Running
  <2>4. EventsMatch'
    <3>1. \A e \in events : pc[e.req] = "done"
      BY DEF Bookkeeping, EventsMatch, RequestMatches, TypeOK, Event
    <3>2. QED
      BY <1>3, <2>1, <2>2, <3>1
         DEF Crash, Bookkeeping, EventsMatch, TypeOK, Event, Running, DBSteps
  <2>5. ASSUME NEW s \in Requests
        PROVE  RequestMatches(s)'
    BY <1>3, <2>1, <2>2
       DEF Crash, Bookkeeping, RequestMatches, Running, DBSteps
  <2>6. QED
    BY <2>3, <2>4, <2>5 DEF Bookkeeping
<1>4. QED
  BY <1>1, <1>2, <1>3

(* and so does whatever leaves the requests and their tables alone. *)
LEMMA EnvironmentBookkeeping ==
    ASSUME Bookkeeping, UNCHANGED <<rows, events, reqvars>>
    PROVE  Bookkeeping'
BY DEF Bookkeeping, RowsMatch, EventsMatch, RequestMatches, SolvedBefore,
       NewRow, NewEvent, reqvars

(* The inductive invariant: every row and every event is that of its        *)
(* request, whose control state and answer agree with having written them. *)
(* The invariants below follow from it; none of them is inductive alone.   *)
THEOREM BooksKept == Spec => []Bookkeeping
<1>1. Init => Bookkeeping
  BY DEF Init, Bookkeeping, RowsMatch, EventsMatch, RequestMatches
<1>2. TypeOK /\ TypeOK' /\ Bookkeeping /\ [Next]_vars => Bookkeeping'
  <2>1. Environment \/ UNCHANGED vars => UNCHANGED <<rows, events, reqvars>>
    BY DEF Environment, CompetitionChanges, CompetitionDeleted,
           ChallengeChanges, TeamChanges, RegistrationChanges, vars, reqvars
  <2>2. QED
    BY <2>1, StepBookkeeping, FaultBookkeeping, EnvironmentBookkeeping
       DEF Next
<1>3. QED
  BY <1>1, <1>2, TypeCorrect, PTL DEF Spec

(* Every published event announces a recorded solve, attributed alike. *)
THEOREM AnnouncedAreRecorded == Spec => []EventsAnnounceSolves
<1>1. TypeOK /\ Bookkeeping => EventsAnnounceSolves
  <2>1. SUFFICES ASSUME TypeOK, Bookkeeping, NEW e \in events
                 PROVE  \E row \in CorrectRows :
                           row.req = e.req /\ row.user = e.user
                               /\ row.team = e.team /\ row.chal = e.chal
    BY DEF EventsAnnounceSolves
  <2>2. e = NewEvent(e.req) /\ NewRow(e.req) \in rows /\ loc[e.req].correct
    BY <2>1 DEF Bookkeeping, EventsMatch, RequestMatches, TypeOK, Event
  <2>3. NewRow(e.req) \in CorrectRows
    BY <2>2 DEF CorrectRows, NewRow
  <2>4. QED
    BY <2>2, <2>3 DEF NewRow, NewEvent
<1>2. QED
  BY <1>1, TypeCorrect, BooksKept, PTL

(* A solve that is never announced belongs to a request that failed after  *)
(* its INSERT, in every interleaving and for every choice of faults.       *)
THEOREM OnlyFailuresAreSilent == Spec => []SilentSolvesFailed
<1>1. TypeOK /\ Bookkeeping => SilentSolvesFailed
  <2>1. SUFFICES ASSUME TypeOK, Bookkeeping, NEW row \in CorrectRows
                 PROVE  \/ pc[row.req] = "publish"
                        \/ \E e \in events : e.req = row.req
                        \/ result[row.req] \in {"error", "lost"}
    BY DEF SilentSolvesFailed
  <2>2. /\ row = NewRow(row.req) /\ row.req \in Requests
        /\ pc[row.req] = "publish" \/ result[row.req] \in Kept
    BY <2>1 DEF Bookkeeping, RowsMatch, CorrectRows, TypeOK, Row
  <2>3. CASE result[row.req] = "correct"
    BY <2>1, <2>2, <2>3 DEF Bookkeeping, RequestMatches, NewEvent
  <2>4. CASE result[row.req] = "incorrect"
    <3>1. ~loc[row.req].correct
      BY <2>1, <2>2, <2>4 DEF Bookkeeping, RequestMatches
    <3>2. QED
      BY <2>1, <2>2, <3>1 DEF NewRow, CorrectRows
  <2>5. QED
    BY <2>2, <2>3, <2>4 DEF Kept
<1>2. QED
  BY <1>1, TypeCorrect, BooksKept, PTL

(* No answer claims something the tables do not say. *)
THEOREM AnswersTrue == Spec => []AnswersAreTrue
<1>1. TypeOK /\ Bookkeeping => AnswersAreTrue
  <2>1. SUFFICES ASSUME TypeOK, Bookkeeping, NEW r \in Requests
        PROVE  LET mine == {row \in rows : row.req = r} IN
               /\ result[r] = "correct" => /\ \E row \in mine : row.correct
                                           /\ \E e \in events : e.req = r
               /\ result[r] = "incorrect" => \E row \in mine : ~row.correct
               /\ result[r] = "already_solved" =>
                     \E row \in CorrectRows \ mine :
                        /\ row.chal = args[r].chal
                        /\ \/ row.user = args[r].user
                           \/ row.team = loc[r].team /\ row.team # NoTeam
               /\ result[r] \in Rejections => mine = {}
    BY DEF AnswersAreTrue
  <2> DEFINE mine == {row \in rows : row.req = r}
  <2>2. NewRow(r).req = r /\ NewRow(r).correct = loc[r].correct
        /\ NewEvent(r).req = r
    BY DEF NewRow, NewEvent
  <2>3. RequestMatches(r)
    BY <2>1 DEF Bookkeeping
  <2>4. result[r] \in Rejections => mine = {}
    BY <2>1, <2>3
       DEF Bookkeeping, RowsMatch, RequestMatches, Kept, Rejections
  <2>5. result[r] = "already_solved" =>
           \E row \in CorrectRows \ mine :
              /\ row.chal = args[r].chal
              /\ \/ row.user = args[r].user
                 \/ row.team = loc[r].team /\ row.team # NoTeam
    BY <2>3 DEF RequestMatches, SolvedBefore, CorrectRows
  <2>6. QED
    BY <2>2, <2>3, <2>4, <2>5 DEF RequestMatches
<1>2. QED
  BY <1>1, TypeCorrect, BooksKept, PTL

----------------------------------------------------------------------------
(* Submission implements SolveLedger.                                      *)

(* An INSERT writes an empty line of the ledger, or is of a wrong attempt. *)
LEMMA LedgerAward ==
    ASSUME NEW r \in Requests, NEW k \in Users \X Challenges,
           k = <<args[r].user, args[r].chal>>,
           ~Duplicate(NewRow(r)), rows' = rows \cup {NewRow(r)},
           UNCHANGED events
    PROVE  Ledger!Next \/ UNCHANGED <<award, announced>>
<1>1. UNCHANGED announced
  BY DEF announced
<1>2. NewRow(r).user = k[1] /\ NewRow(r).chal = k[2] /\ NewRow(r).req = r
  BY DEF NewRow
<1>3. CASE NewRow(r).correct
  <2>1. \A l \in Users \X Challenges :
           l # k => SolversOf(l)' = SolversOf(l)
    BY <1>2 DEF SolversOf, CorrectRows
  <2>2. SolversOf(k) = {}
    BY <1>2, <1>3, Zenon DEF SolversOf, CorrectRows, Duplicate
  <2>3. SolversOf(k)' = {NewRow(r)}
    <3>1. SolversOf(k)' = {row \in CorrectRows' : row.user = k[1] /\ row.chal = k[2]}
      BY DEF SolversOf
    <3>2. CorrectRows' = CorrectRows \cup {NewRow(r)}
      BY <1>3 DEF CorrectRows
    <3>3. QED
      BY <1>2, <2>2, <3>1, <3>2 DEF SolversOf
  <2>4. award[k] = {} /\ award' = [award EXCEPT ![k] = {r}]
    <3>1. award[k] = {}
      BY <2>2 DEF award
    <3>2. {row.req : row \in SolversOf(k)'} = {r}
      BY <1>2, <2>3
    <3>3. award' = [l \in Users \X Challenges |-> {row.req : row \in SolversOf(l)'}]
      BY DEF award
    <3>4. \A l \in Users \X Challenges :
             award'[l] = IF l = k THEN {r} ELSE award[l]
      BY <2>1, <3>2, <3>3 DEF award
    <3>5. QED
      BY <3>1, <3>3, <3>4 DEF award
  <2>5. Ledger!Award(k, r)
    BY <1>1, <2>4 DEF Ledger!Award
  <2>6. QED
    BY <2>5 DEF Ledger!Next, Ledger!Lines
<1>4. CASE ~NewRow(r).correct
  BY <1>1, <1>4 DEF award, SolversOf, CorrectRows
<1>5. QED
  BY <1>3, <1>4

(* Publish announces a line that is written and was not announced. *)
LEMMA LedgerAnnounce ==
    ASSUME TypeOK, OneSolvePerUser, Bookkeeping, NEW r \in Requests, Publish(r)
    PROVE  Ledger!Next
<1> DEFINE k == <<args[r].user, args[r].chal>>
<1>1. NewRow(r) \in CorrectRows /\ result[r] = "none"
  BY DEF Publish, Bookkeeping, RequestMatches, CorrectRows, NewRow
<1>2. k \in Users \X Challenges
  BY DEF TypeOK, Args
<1>3. NewRow(r) \in SolversOf(k)
  BY <1>1 DEF SolversOf, NewRow
<1>4. award[k] # {}
  BY <1>2, <1>3 DEF award
<1>5. k \notin announced
  <2>1. SUFFICES ASSUME NEW e \in events, <<e.user, e.chal>> = k
                 PROVE  FALSE
    BY DEF announced
  <2>2. /\ e.req \in Requests
        /\ e = NewEvent(e.req) /\ result[e.req] = "correct"
        /\ NewRow(e.req) \in CorrectRows
    BY DEF Bookkeeping, EventsMatch, RequestMatches, CorrectRows, NewRow,
           TypeOK, Event
  <2>3. NewRow(e.req).user = NewRow(r).user /\ NewRow(e.req).chal = NewRow(r).chal
    BY <2>1, <2>2 DEF NewRow, NewEvent
  <2>4. NewRow(e.req) = NewRow(r)
    BY <1>1, <2>2, <2>3 DEF OneSolvePerUser
  <2>5. e.req = r
    BY <2>4 DEF NewRow
  <2>6. QED
    BY <1>1, <2>2, <2>5
<1>6. announced' = announced \cup {k}
  <2>1. events' = events \cup {NewEvent(r)}
    BY DEF Publish
  <2>2. <<NewEvent(r).user, NewEvent(r).chal>> = k
    BY DEF NewEvent
  <2>3. QED
    BY <2>1, <2>2, Zenon DEF announced
<1>7. UNCHANGED award
  BY DEF Publish, award, SolversOf, CorrectRows
<1>8. Ledger!Announce(k)
  BY <1>4, <1>5, <1>6, <1>7 DEF Ledger!Announce
<1>9. QED
  BY <1>2, <1>8 DEF Ledger!Next, Ledger!Lines

(* Nothing but Publish touches the events. *)
LEMMA EventsChange ==
    ASSUME Next
    PROVE  \/ UNCHANGED events
           \/ \E r \in Requests : Publish(r)
BY DEF Next, Step, Begin, ReadCompetition, ResolveTeam, CheckRegistered,
       CheckSolved, ReadChallenge, Insert, StatementFails,
       InsertUnacknowledged, Crash, Environment, CompetitionChanges,
       CompetitionDeleted, ChallengeChanges, TeamChanges, RegistrationChanges

(* Each step of the service is a step of the ledger or leaves it alone:    *)
(* lines are written at most once, kept, and announced at most once, after *)
(* they were written.                                                      *)
THEOREM LedgerImplemented == Spec => ImplementsLedger
<1>1. Init => Ledger!Init
  <2>1. Init => award = [k \in Users \X Challenges |-> {}]
    BY DEF Init, award, SolversOf, CorrectRows
  <2>2. QED
    BY <2>1 DEF Init, Ledger!Init, Ledger!Lines, announced
<1>2. TypeOK /\ OneSolvePerUser /\ Bookkeeping /\ [Next]_vars
         => [Ledger!Next]_<<award, announced>>
  <2> SUFFICES ASSUME TypeOK, OneSolvePerUser, Bookkeeping, [Next]_vars
               PROVE  Ledger!Next \/ UNCHANGED <<award, announced>>
    OBVIOUS
  <2>1. CASE UNCHANGED <<rows, events>>
    BY <2>1 DEF award, announced, SolversOf, CorrectRows
  <2>2. CASE \E r \in Requests : Publish(r)
    BY <2>2, LedgerAnnounce
  <2>3. ASSUME NEW r \in Requests, ~Duplicate(NewRow(r)),
               rows' = rows \cup {NewRow(r)}, UNCHANGED events
        PROVE  Ledger!Next \/ UNCHANGED <<award, announced>>
    <3>1. <<args[r].user, args[r].chal>> \in Users \X Challenges
      BY DEF TypeOK, Args
    <3>2. QED
      BY <2>3, <3>1, LedgerAward
  <2>4. CASE UNCHANGED vars
    BY <2>1, <2>4 DEF vars
  <2>5. QED
    BY <2>1, <2>2, <2>3, <2>4, RowsChange, EventsChange
<1>3. QED
  BY <1>1, <1>2, TypeCorrect, SolvedOnce, BooksKept, PTL
     DEF Spec, ImplementsLedger, Ledger!Spec

----------------------------------------------------------------------------
(* Hindsight: what a request has lived through when it stands before each  *)
(* of its statements.                                                      *)

(* What held at some instant of the request so far, the present included. *)
Seen(r) == lapsed[r] \cup FactsNow(args[r])

(* The team of a request comes from the auth service, in team mode only. *)
TeamIsAsked(r) ==
    /\ pc[r] \in {"idle", "comp", "team"} => loc[r].team = NoTeam
    /\ pc[r] \in {"team", "registered"} => loc[r].mode = "team"
    /\ pc[r] \in DBSteps /\ loc[r].mode = "individual" =>
           loc[r].team = NoTeam

(* Each statement that is behind a request has seen what it went by. *)
VerdictSeen(r) ==
    /\ pc[r] \in {"team", "registered", "solved", "challenge", "insert"} =>
           [kind |-> "open", mode |-> loc[r].mode, join |-> loc[r].join]
               \in Seen(r)
    /\ pc[r] \in {"registered", "solved", "challenge", "insert"}
           /\ loc[r].mode = "team" =>
           [kind |-> "member", team |-> loc[r].team] \in Seen(r)
    /\ pc[r] \in {"solved", "challenge", "insert"}
           /\ loc[r].mode = "team" /\ loc[r].join = "managed" =>
           [kind |-> "registered", team |-> loc[r].team] \in Seen(r)
    /\ pc[r] = "insert" =>
           \E g \in Flags : /\ [kind |-> "enabled", flag |-> g] \in Seen(r)
                            /\ (g = args[r].flag) = loc[r].correct

(* Solves stay in the table, and a request that has looked for those of    *)
(* its team found none, so none was there when it began.                   *)
NoneBefore(r) ==
    /\ before[r] \subseteq CorrectRows
    /\ pc[r] \in {"challenge", "insert"} /\ loc[r].team # NoTeam =>
           \A a \in before[r] :
               ~(a.team = loc[r].team /\ a.chal = args[r].chal)

HInv == \A r \in Requests : TeamIsAsked(r) /\ VerdictSeen(r) /\ NoneBefore(r)

(* The history variables leave the behaviours as they are. *)
LEMMA HistoryOnly == HSpec => Spec /\ []TypeOK
<1>1. HInit => Init
  BY DEF HInit
<1>2. [HNext]_hvars => [Next]_vars
  BY DEF HNext, hvars
<1>3. QED
  BY <1>1, <1>2, TypeCorrect, PTL DEF HSpec, Spec

(* A request is moved by its own statements, or its handler ends. *)
LEMMA OwnMoves ==
    ASSUME TypeOK, Next, NEW r \in Requests
    PROVE  /\ args' = args
           /\ \/ Step(r)
              \/ (pc'[r] = pc[r] /\ loc'[r] = loc[r])
              \/ pc'[r] = "done"
<1> USE DEF TypeOK, Goto, Return
<1>1. ASSUME NEW s \in Requests, Step(s)
      PROVE  args' = args /\ (s = r \/ (pc'[r] = pc[r] /\ loc'[r] = loc[r]))
  BY <1>1 DEF Step, Begin, ReadCompetition, ResolveTeam, CheckRegistered,
              CheckSolved, ReadChallenge, Insert, Publish
<1>2. ASSUME NEW s \in Requests, StatementFails(s) \/ InsertUnacknowledged(s)
      PROVE  /\ args' = args
             /\ pc'[r] = "done" \/ (pc'[r] = pc[r] /\ loc'[r] = loc[r])
  BY <1>2 DEF StatementFails, InsertUnacknowledged
<1>3. ASSUME Crash
      PROVE  /\ args' = args
             /\ pc'[r] = "done" \/ (pc'[r] = pc[r] /\ loc'[r] = loc[r])
  BY <1>3 DEF Crash
<1>4. ASSUME Environment
      PROVE  args' = args /\ pc'[r] = pc[r] /\ loc'[r] = loc[r]
  BY <1>4 DEF Environment, CompetitionChanges, CompetitionDeleted,
              ChallengeChanges, TeamChanges, RegistrationChanges, reqvars
<1>5. QED
  BY <1>1, <1>2, <1>3, <1>4 DEF Next

(* Nothing that a request has seen is forgotten while it runs. *)
LEMMA SeenStays ==
    ASSUME HNext, TypeOK, NEW r \in Requests, pc[r] \in DBSteps,
           pc'[r] \in DBSteps
    PROVE  /\ Seen(r) \subseteq Seen(r)'
           /\ before'[r] = before[r]
<1>1. lapsed'[r] = (lapsed[r] \cup FactsNow(args[r])) \ FactsNow(args[r])'
  BY DEF HNext
<1>2. before'[r] = before[r]
  BY DEF HNext, DBSteps
<1>3. QED
  BY <1>1, <1>2 DEF Seen

(* No solve leaves the table. *)
LEMMA SolvesStay == Next => CorrectRows \subseteq CorrectRows'
  BY RowsChange DEF CorrectRows

----------------------------------------------------------------------------
(* The invariant is kept, statement by statement.                          *)

LEMMA TeamIsAskedStays ==
    ASSUME HNext, TypeOK, NEW r \in Requests, TeamIsAsked(r)
    PROVE  TeamIsAsked(r)'
<1> USE DEF TypeOK, Goto, Return, TeamIsAsked, DBSteps
<1>1. CASE Step(r)
  BY <1>1 DEF Step, Begin, ReadCompetition, ResolveTeam, CheckRegistered,
              CheckSolved, ReadChallenge, Insert, Publish, Locals, Comp, Modes
<1>2. QED
  BY <1>1, OwnMoves DEF HNext

LEMMA VerdictSeenStays ==
    ASSUME HNext, TypeOK, NEW r \in Requests, TeamIsAsked(r), VerdictSeen(r)
    PROVE  VerdictSeen(r)'
<1> DEFINE Past == {"team", "registered", "solved", "challenge", "insert"}
<1>1. args' = args
  BY OwnMoves DEF HNext
<1>2. CASE pc'[r] \notin Past
  BY <1>2 DEF VerdictSeen
<1>3. CASE pc'[r] \in Past /\ pc'[r] = pc[r] /\ loc'[r] = loc[r]
  BY <1>1, <1>3, SeenStays DEF VerdictSeen, DBSteps
<1>4. CASE pc'[r] \in Past /\ Step(r)
  <2> USE DEF TypeOK, Goto, Return
  <2>1. pc[r] \in DBSteps /\ pc'[r] \in DBSteps
    BY <1>4 DEF Step, Begin, ReadCompetition, ResolveTeam, CheckRegistered,
                CheckSolved, ReadChallenge, Insert, Publish, DBSteps
  <2>2. Seen(r) \subseteq Seen(r)' /\ FactsNow(args[r]) \subseteq Seen(r)
    BY <2>1, SeenStays DEF Seen
  <2>3. CASE ReadCompetition(r)
    <3>1. /\ Open /\ loc'[r].mode = comp.mode /\ loc'[r].join = comp.join
          /\ pc'[r] = IF comp.mode = "team" THEN "team" ELSE "solved"
      BY <1>4, <2>3 DEF ReadCompetition, Locals, Comp
    <3>2. [kind |-> "open", mode |-> comp.mode, join |-> comp.join]
              \in FactsNow(args[r])
      BY <3>1 DEF Open, FactsNow
    <3>3. QED
      BY <2>2, <3>1, <3>2 DEF VerdictSeen
  <2>4. CASE ResolveTeam(r)
    <3>1. PICK t \in Teams : /\ t = teamOf[args[r].user]
                             /\ loc'[r] = [loc[r] EXCEPT !.team = t]
                             /\ pc[r] = "team"
                             /\ pc'[r] = IF loc[r].join = "managed"
                                         THEN "registered" ELSE "solved"
      BY <1>4, <2>4, ConstantsAssumption
         DEF ResolveTeam, TeamAnswers, Args, TeamIDs
    <3>2. [kind |-> "member", team |-> t] \in FactsNow(args[r])
      BY <3>1 DEF FactsNow
    <3>3. /\ loc'[r].mode = loc[r].mode /\ loc'[r].join = loc[r].join
          /\ loc'[r].team = t
      BY <3>1 DEF Locals
    <3>4. QED
      BY <2>2, <3>1, <3>2, <3>3 DEF VerdictSeen
  <2>5. CASE CheckRegistered(r)
    <3>1. /\ loc[r].team \in registered /\ loc'[r] = loc[r]
          /\ pc[r] = "registered" /\ pc'[r] = "solved"
      BY <1>4, <2>5 DEF CheckRegistered
    <3>2. [kind |-> "registered", team |-> loc[r].team] \in FactsNow(args[r])
      BY <3>1 DEF FactsNow
    <3>3. QED
      BY <2>2, <3>1, <3>2 DEF VerdictSeen
  <2>6. CASE CheckSolved(r)
    <3>1. /\ loc'[r] = loc[r] /\ pc[r] = "solved" /\ pc'[r] = "challenge"
      BY <1>4, <2>6 DEF CheckSolved
    <3>2. QED
      BY <2>2, <3>1 DEF VerdictSeen
  <2>7. CASE ReadChallenge(r)
    <3> DEFINE g == chal[args[r].chal].flag
    <3>1. /\ chal[args[r].chal].enabled /\ pc[r] = "challenge"
          /\ loc'[r] = [loc[r] EXCEPT !.correct = (g = args[r].flag)]
          /\ pc'[r] = "insert"
      BY <1>4, <2>7 DEF ReadChallenge
    <3>2. g \in Flags /\ [kind |-> "enabled", flag |-> g] \in FactsNow(args[r])
      BY <3>1 DEF FactsNow, Chal, Args
    <3>3. /\ loc'[r].mode = loc[r].mode /\ loc'[r].join = loc[r].join
          /\ loc'[r].team = loc[r].team
          /\ loc'[r].correct = (g = args[r].flag)
      BY <3>1 DEF Locals
    <3>4. QED
      BY <1>1, <2>2, <3>1, <3>2, <3>3 DEF VerdictSeen
  <2>8. QED
    BY <1>4, <2>1, <2>3, <2>4, <2>5, <2>6, <2>7
       DEF Step, Begin, Insert, Publish, DBSteps
<1>5. QED
  BY <1>2, <1>3, <1>4, OwnMoves DEF HNext

LEMMA NoneBeforeStays ==
    ASSUME HNext, TypeOK, NEW r \in Requests, TeamIsAsked(r), NoneBefore(r)
    PROVE  NoneBefore(r)'
<1>1. args' = args /\ CorrectRows \subseteq CorrectRows'
  BY OwnMoves, SolvesStay DEF HNext
<1>2. before'[r] \subseteq CorrectRows'
  BY <1>1 DEF HNext, NoneBefore
<1>3. CASE pc'[r] \notin {"challenge", "insert"}
  BY <1>2, <1>3 DEF NoneBefore
<1>4. CASE pc'[r] \in {"challenge", "insert"}
           /\ pc'[r] = pc[r] /\ loc'[r] = loc[r]
  BY <1>1, <1>2, <1>4, SeenStays DEF NoneBefore, DBSteps
<1>5. CASE pc'[r] \in {"challenge", "insert"} /\ Step(r)
  <2> USE DEF TypeOK, Goto, Return
  <2>1. pc[r] \in DBSteps /\ pc'[r] \in DBSteps
    BY <1>5 DEF Step, Begin, ReadCompetition, ResolveTeam, CheckRegistered,
                CheckSolved, ReadChallenge, Insert, Publish, DBSteps
  <2>2. before'[r] = before[r]
    BY <2>1, SeenStays
  <2>3. CASE CheckSolved(r)
    <3>1. Solves(r) = {} /\ loc'[r] = loc[r] /\ pc[r] = "solved"
      BY <1>5, <2>3 DEF CheckSolved
    <3>2. loc[r].team # NoTeam => loc[r].mode = "team"
      BY <3>1 DEF TeamIsAsked, DBSteps, Locals, Modes
    <3>3. QED
      BY <1>1, <1>2, <2>2, <3>1, <3>2 DEF NoneBefore, Solves
  <2>4. CASE ReadChallenge(r)
    <3>1. loc'[r].team = loc[r].team /\ pc[r] = "challenge"
      BY <1>5, <2>4 DEF ReadChallenge, Locals
    <3>2. QED
      BY <1>1, <1>2, <2>2, <3>1 DEF NoneBefore
  <2>5. QED
    BY <1>5, <2>1, <2>3, <2>4
       DEF Step, Begin, ReadCompetition, ResolveTeam, CheckRegistered, Insert,
           Publish, DBSteps
<1>6. QED
  BY <1>3, <1>4, <1>5, OwnMoves DEF HNext

LEMMA LivedThrough == HSpec => []HInv
<1>1. HInit => HInv
  <2>1. ASSUME HInit, NEW r \in Requests
        PROVE  pc[r] = "idle" /\ loc[r].team = NoTeam /\ before[r] = {}
    BY <2>1 DEF HInit, Init, NoLocals
  <2>2. QED
    BY <2>1 DEF HInv, TeamIsAsked, VerdictSeen, NoneBefore, DBSteps
<1>2. TypeOK /\ HInv /\ [HNext]_hvars => HInv'
  <2>1. ASSUME HInv, UNCHANGED hvars
        PROVE  HInv'
    <3>1. \A r \in Requests : Seen(r)' = Seen(r)
      BY <2>1 DEF hvars, vars, dbvars, Seen, FactsNow, reqvars
    <3>2. CorrectRows' = CorrectRows
      BY <2>1 DEF hvars, vars, CorrectRows
    <3>3. QED
      BY <2>1, <3>1, <3>2
         DEF hvars, vars, reqvars, HInv, TeamIsAsked, VerdictSeen, NoneBefore
  <2>2. QED
    BY <2>1, TeamIsAskedStays, VerdictSeenStays, NoneBeforeStays DEF HInv
<1>3. QED
  BY <1>1, <1>2, HistoryOnly, PTL DEF HSpec

----------------------------------------------------------------------------

(* Each part of the verdict that a row records was true at some instant of *)
(* its request: no interleaving with the administrators, the auth service  *)
(* or other requests lets a handler combine what never was.                *)
THEOREM RowsAreWitnessed == HSpec => VerdictsAreWitnessed
<1>1. ASSUME TypeOK, HInv, HNext, NEW row \in rows' \ rows
      PROVE  Witnessed(row)
  <2>1. PICK r \in Requests : pc[r] = "insert" /\ row = NewRow(r)
    BY <1>1, RowsChange DEF HNext
  <2>2. /\ row.req = r /\ row.team = loc[r].team
        /\ row.correct = loc[r].correct
    BY <2>1 DEF NewRow
  <2>3. TeamIsAsked(r) /\ VerdictSeen(r)
    BY <1>1 DEF HInv
  <2>4. \E f \in lapsed[r] \cup FactsNow(args[r]) :
           f.kind = "open" /\ f.mode = loc[r].mode /\ f.join = loc[r].join
    BY <2>1, <2>3 DEF VerdictSeen, Seen
  <2>5. \E f \in lapsed[r] \cup FactsNow(args[r]) :
           f.kind = "enabled" /\ (f.flag = args[r].flag) = row.correct
    BY <2>1, <2>2, <2>3 DEF VerdictSeen, Seen
  <2>6. loc[r].mode = "individual" => row.team = NoTeam
    BY <2>1, <2>2, <2>3 DEF TeamIsAsked, DBSteps
  <2>7. loc[r].mode = "team" =>
           \E f \in lapsed[r] \cup FactsNow(args[r]) :
               f.kind = "member" /\ f.team = row.team
    BY <2>1, <2>2, <2>3 DEF VerdictSeen, Seen
  <2>8. loc[r].mode = "team" /\ loc[r].join = "managed" =>
           \E f \in lapsed[r] \cup FactsNow(args[r]) :
               f.kind = "registered" /\ f.team = row.team
    BY <2>1, <2>2, <2>3 DEF VerdictSeen, Seen
  <2>9. QED
    BY <2>2, <2>4, <2>5, <2>6, <2>7, <2>8, Zenon DEF Witnessed
<1>2. TypeOK /\ HInv /\ [HNext]_hvars =>
          [\A row \in rows' \ rows : Witnessed(row)]_hvars
  BY <1>1
<1>3. QED
  BY <1>2, LivedThrough, HistoryOnly, PTL DEF HSpec, VerdictsAreWitnessed

(* Whatever happens in between, a solve of a team that was recorded before *)
(* a request began keeps it from recording another: the team check fails   *)
(* only where requests overlap.                                            *)
THEOREM TeamsSolveOnceInTurn == HSpec => NoLaterTeamSolve
<1>1. ASSUME HInv, HNext, NEW b \in rows' \ rows, b.correct, b.team # NoTeam,
             NEW a \in before[b.req]
      PROVE  ~(a.team = b.team /\ a.chal = b.chal)
  <2>1. PICK r \in Requests : pc[r] = "insert" /\ b = NewRow(r)
    BY <1>1, RowsChange DEF HNext
  <2>2. b.req = r /\ b.team = loc[r].team /\ b.chal = args[r].chal
    BY <2>1 DEF NewRow
  <2>3. QED
    BY <1>1, <2>1, <2>2 DEF HInv, NoneBefore
<1>2. HInv /\ [HNext]_hvars =>
          [\A b \in rows' \ rows : b.correct /\ b.team # NoTeam =>
              \A a \in before[b.req] :
                  ~(a.team = b.team /\ a.chal = b.chal)]_hvars
  BY <1>1
<1>3. QED
  BY <1>2, LivedThrough, PTL DEF HSpec, NoLaterTeamSolve

============================================================================
