---------------------------- MODULE Competition ----------------------------
(***************************************************************************)
(* One competition and its administration: CompetitionService              *)
(* (internal/service/competition.go) over Store (internal/store/mysql.go). *)
(* The status is_active is written by three parties that do not know of    *)
(* each other: administrators who start, end or update the competition,    *)
(* and syncStatus, which every read of a competition runs and which makes  *)
(* the status follow the clock.  Each statement is a step of its own; what *)
(* was read before it may be stale.                                        *)
(***************************************************************************)
EXTENDS Naturals

CONSTANTS
    Requests,      \* server goroutines, each serving one request at a time
    Modes,         \* the modes that the competition may have
    JoinModes,     \* and its ways for a team to join
    Kinds,         \* the operations that are asked for, of AllKinds
    Teams,
    Challenges,
    MaxTime,       \* bound on the clock; end_time may lie one beyond it
    MaxAssigned,   \* bound on the live assignments of one challenge
    Faults         \* subset of {"store"}: a statement of a request fails

AllKinds == {"get", "list", "start", "end", "update", "delete",
             "addTeam", "removeTeam", "assign", "unassign"}

ASSUME ConstantsAssumption ==
    /\ Modes \subseteq {"individual", "team"} /\ "individual" \in Modes
    /\ JoinModes \subseteq {"free", "managed"} /\ "free" \in JoinModes
    /\ Kinds \subseteq AllKinds
    /\ MaxTime \in Nat
    /\ MaxAssigned \in Nat \ {0}
    /\ Faults \subseteq {"store"}

VARIABLES
    now,           \* the clock
    row,           \* the competitions row
    teams,         \* competition_teams with is_deleted = 0
    formerTeams,   \* competition_teams with is_deleted = 1: their index keys
    assigned,      \* live competition_challenges rows of each challenge
    op,            \* what each request asks
    pc,            \* its next statement
    copy,          \* the competition as the request has it in memory
    result         \* how its last request ended

links == <<teams, formerTeams, assigned>>
vars  == <<now, row, links, op, pc, copy, result>>

Schedule  == 0 .. MaxTime + 1
Row       == [deleted: BOOLEAN, start: Schedule, end: Schedule,
              active: BOOLEAN, mode: Modes, join: JoinModes]

(* The body of an update: is_active, which is always written, and at most  *)
(* one field that it wants changed (the bound on what an update brings).   *)
Patch == [active: BOOLEAN]
            \cup [active: BOOLEAN, start: Schedule]
            \cup [active: BOOLEAN, end: Schedule]
            \cup [active: BOOLEAN, mode: Modes]
            \cup [active: BOOLEAN, join: JoinModes]

Op == {o \in [kind: {"get", "list", "start", "end", "delete"}]
                \cup [kind: {"update"}, patch: Patch]
                \cup [kind: {"addTeam", "removeTeam"}, team: Teams]
                \cup [kind: {"assign", "unassign"}, chal: Challenges] :
          o.kind \in Kinds}
NoOp == [kind |-> "none"]

Statements == {"read", "sync", "activate", "deactivate", "update",
               "team", "assign", "unassign", "unassignAll", "delete"}
Results == {"none", "ok", "ended", "not_found", "conflict", "invalid", "refused",
            "duplicate", "failed"}

TypeOK ==
    /\ now \in 0 .. MaxTime
    /\ row \in Row
    /\ teams \in SUBSET Teams
    /\ formerTeams \in SUBSET Teams
    /\ assigned \in [Challenges -> 0 .. MaxAssigned]
    /\ op \in [Requests -> Op \cup {NoOp}]
    /\ pc \in [Requests -> Statements \cup {"idle"}]
    /\ copy \in [Requests -> Row]
    /\ result \in [Requests -> Results]

(* Validate *)
Valid(c) == c.end >= c.start

Blank == [deleted |-> FALSE, start |-> 0, end |-> 0, active |-> FALSE,
          mode |-> "individual", join |-> "free"]

(* Create: valid, and active whatever the clock says. *)
Init ==
    /\ now \in 0 .. MaxTime
    /\ row \in {c \in Row : ~c.deleted /\ c.active /\ Valid(c)}
    /\ teams = {}
    /\ formerTeams = {}
    /\ assigned = [c \in Challenges |-> 0]
    /\ op = [r \in Requests |-> NoOp]
    /\ pc = [r \in Requests |-> "idle"]
    /\ copy = [r \in Requests |-> Blank]
    /\ result = [r \in Requests |-> "none"]

----------------------------------------------------------------------------

Tick ==
    /\ now < MaxTime
    /\ now' = now + 1
    /\ UNCHANGED <<row, links, op, pc, copy, result>>

(* A request goes on with a competition in memory, ... *)
Keep(r, c, next) ==
    /\ pc' = [pc EXCEPT ![r] = next]
    /\ copy' = [copy EXCEPT ![r] = c]
    /\ UNCHANGED <<op, result>>

(* ... with what it had there, ... *)
Goto(r, next) == Keep(r, copy[r], next)

(* ... or ends and forgets it. *)
Return(r, res) ==
    /\ pc' = [pc EXCEPT ![r] = "idle"]
    /\ op' = [op EXCEPT ![r] = NoOp]
    /\ copy' = [copy EXCEPT ![r] = Blank]
    /\ result' = [result EXCEPT ![r] = res]

(* An error ends the request, but syncStatus only logs that its write *)
(* failed.                                                            *)
Fail(r) ==
    /\ "store" \in Faults
    /\ Return(r, IF op[r].kind \in {"get", "list"} /\ pc[r] # "read"
                 THEN "ok" ELSE "failed")

(* A statement took effect; the answer may be lost on the way. *)
Done(r, Continue) == Continue \/ Fail(r)

(* A statement that only reads. *)
Read == UNCHANGED <<now, row, links>>

FirstStatementOf(kind) ==
    CASE kind = "assign"   -> "assign"
      [] kind = "unassign" -> "unassign"
      [] kind = "delete"   -> "unassignAll"
      [] OTHER             -> "read"

Begin(r, kinds) ==
    /\ pc[r] = "idle"
    /\ \E o \in Op :
          /\ o.kind \in kinds
          /\ op' = [op EXCEPT ![r] = o]
          /\ pc' = [pc EXCEPT ![r] = FirstStatementOf(o.kind)]
    /\ result' = [result EXCEPT ![r] = "none"]
    /\ UNCHANGED <<now, row, links, copy>>

----------------------------------------------------------------------------
(* Reading a competition, and making its status follow the clock.          *)

(* GetCompetitionByID finds nothing. *)
ReadDeleted(r) ==
    /\ pc[r] = "read"
    /\ op[r].kind # "list"
    /\ row.deleted
    /\ Return(r, "not_found")
    /\ Read

(* Get; List, which the administrator's page calls, does the same for each *)
(* competition.                                                            *)
ReadForGet(r) ==
    /\ pc[r] = "read"
    /\ op[r].kind = "get"
    /\ ~row.deleted
    /\ Keep(r, row, "sync")
    /\ Read

(* ListActive, the users' page: ListActiveCompetitions. *)
ReadForList(r) ==
    /\ pc[r] = "read"
    /\ op[r].kind = "list"
    /\ \/ /\ row.deleted \/ ~row.active
          /\ Return(r, "ok")
       \/ /\ ~row.deleted /\ row.active
          /\ Keep(r, row, "sync")
    /\ Read

(* Slip: the end of a competition is not looked at. *)
SlipSync(r) ==
    LET c == copy[r] IN
    /\ pc[r] = "sync"
    /\ \/ /\ ~c.active /\ c.start <= now
          /\ Goto(r, "activate")
       \/ /\ c.active \/ now < c.start
          /\ Return(r, "ok")
    /\ Read

(* syncStatus compares the copy with the clock. *)
Sync(r) ==
    LET c == copy[r] IN
    /\ pc[r] = "sync"
    /\ \/ /\ ~c.active /\ c.start <= now /\ now < c.end
          /\ Goto(r, "activate")
       \/ /\ c.active /\ c.end <= now
          /\ Goto(r, "deactivate")
       \/ /\ IF c.active THEN now < c.end ELSE ~(c.start <= now /\ now < c.end)
          /\ Return(r, "ok")
    /\ Read

----------------------------------------------------------------------------
(* StartCompetition and EndCompetition.                                    *)

ReadForStatus(r) ==
    /\ pc[r] = "read"
    /\ op[r].kind \in {"start", "end"}
    /\ ~row.deleted
    /\ \/ /\ row.active = (op[r].kind = "start")
          /\ Return(r, "conflict")
       \/ /\ row.active # (op[r].kind = "start")
          /\ Goto(r, IF op[r].kind = "start" THEN "activate" ELSE "deactivate")
    /\ Read

(* SetActive, for syncStatus and for the administrators; the answer to an  *)
(* end by hand is "ended".                                                 *)
SetActive(r) ==
    /\ pc[r] \in {"activate", "deactivate"}
    /\ row' = IF row.deleted THEN row
              ELSE [row EXCEPT !.active = (pc[r] = "activate")]
    /\ Done(r, Return(r, IF op[r].kind = "end" THEN "ended" ELSE "ok"))
    /\ UNCHANGED <<now, links>>

----------------------------------------------------------------------------
(* Update.                                                                 *)

(* Slip: a field that is left out is set to its default. *)
SlipMerge(c, patch) ==
    [f \in DOMAIN c |-> IF f \in DOMAIN patch THEN patch[f]
                        ELSE IF f = "mode" THEN "individual" ELSE c[f]]

Merge(c, patch) ==
    [f \in DOMAIN c |-> IF f \in DOMAIN patch THEN patch[f] ELSE c[f]]

(* Slip: what is there is validated, before the merge. *)
SlipReadForUpdate(r) ==
    /\ pc[r] = "read"
    /\ op[r].kind = "update"
    /\ ~row.deleted
    /\ \/ /\ ~Valid(row)
          /\ Return(r, "invalid")
       \/ /\ Valid(row)
          /\ Keep(r, Merge(row, op[r].patch), "update")
    /\ Read

ReadForUpdate(r) ==
    LET merged == Merge(row, op[r].patch) IN
    /\ pc[r] = "read"
    /\ op[r].kind = "update"
    /\ ~row.deleted
    /\ \/ /\ ~Valid(merged)
          /\ Return(r, "invalid")
       \/ /\ Valid(merged)
          /\ Keep(r, merged, "update")
    /\ Read

(* Slip: the statement does not look at is_deleted. *)
SlipUpdateRow(r) ==
    /\ pc[r] = "update"
    /\ row' = [copy[r] EXCEPT !.deleted = row.deleted]
    /\ Done(r, Return(r, "ok"))
    /\ UNCHANGED <<now, links>>

(* UpdateCompetition writes every column. *)
UpdateRow(r) ==
    /\ pc[r] = "update"
    /\ row' = IF row.deleted THEN row ELSE copy[r]
    /\ Done(r, Return(r, "ok"))
    /\ UNCHANGED <<now, links>>

----------------------------------------------------------------------------
(* AddCompTeam and RemoveCompTeam.                                         *)

ReadForTeams(r) ==
    LET managed == row.mode = "team" /\ row.join = "managed" IN
    /\ pc[r] = "read"
    /\ op[r].kind \in {"addTeam", "removeTeam"}
    /\ ~row.deleted
    /\ \/ ~managed /\ Return(r, "refused")
       \/ managed /\ Goto(r, "team")
    /\ Read

(* INSERT ... ON DUPLICATE KEY UPDATE: the key has is_deleted = 0 in it. *)
AddTeam(r) ==
    /\ pc[r] = "team"
    /\ op[r].kind = "addTeam"
    /\ teams' = teams \cup {op[r].team}
    /\ Done(r, Return(r, "ok"))
    /\ UNCHANGED <<now, row, formerTeams, assigned>>

(* The soft deletion is refused when the pair has been deleted before. *)
RemoveTeam(r) ==
    LET gone == teams \cap {op[r].team} IN
    /\ pc[r] = "team"
    /\ op[r].kind = "removeTeam"
    /\ \/ /\ gone \cap formerTeams # {}
          /\ Return(r, "duplicate")
          /\ UNCHANGED <<teams, formerTeams>>
       \/ /\ gone \cap formerTeams = {}
          /\ teams' = teams \ gone
          /\ formerTeams' = formerTeams \cup gone
          /\ Done(r, Return(r, "ok"))
    /\ UNCHANGED <<now, row, assigned>>

----------------------------------------------------------------------------
(* The assignment of challenges, and Delete.                               *)

(* AddChallenge asks nothing about the competition; the unique index is on *)
(* deleted_at, which is always NULL, and so never refuses.                 *)
Assign(r) ==
    /\ pc[r] = "assign"
    /\ assigned[op[r].chal] < MaxAssigned
    /\ assigned' = [assigned EXCEPT ![op[r].chal] = @ + 1]
    /\ Done(r, Return(r, "ok"))
    /\ UNCHANGED <<now, row, teams, formerTeams>>

(* RemoveChallenge *)
Unassign(r) ==
    /\ pc[r] = "unassign"
    /\ assigned' = [assigned EXCEPT ![op[r].chal] = 0]
    /\ Done(r, Return(r, "ok"))
    /\ UNCHANGED <<now, row, teams, formerTeams>>

(* DeleteCompetition: the assignments, without asking whether there is such *)
(* a competition ...                                                        *)
UnassignAll(r) ==
    /\ pc[r] = "unassignAll"
    /\ assigned' = [c \in Challenges |-> 0]
    /\ Done(r, Goto(r, "delete"))
    /\ UNCHANGED <<now, row, teams, formerTeams>>

(* ... and then the competition. *)
Delete(r) ==
    /\ pc[r] = "delete"
    /\ row' = [row EXCEPT !.deleted = TRUE]
    /\ Done(r, Return(r, "ok"))
    /\ UNCHANGED <<now, links>>

(* A statement fails without effect. *)
StatementFails(r) ==
    /\ pc[r] \notin {"idle", "sync"}
    /\ Fail(r)
    /\ Read

----------------------------------------------------------------------------

Step(r) ==
    \/ ReadDeleted(r)
    \/ ReadForGet(r)
    \/ ReadForList(r)
    \/ Sync(r)
    \/ ReadForStatus(r)
    \/ SetActive(r)
    \/ ReadForUpdate(r)
    \/ UpdateRow(r)
    \/ ReadForTeams(r)
    \/ AddTeam(r)
    \/ RemoveTeam(r)
    \/ Assign(r)
    \/ Unassign(r)
    \/ UnassignAll(r)
    \/ Delete(r)

Next ==
    \/ Tick
    \/ \E r \in Requests : Begin(r, Kinds)
    \/ \E r \in Requests : Step(r)
    \/ \E r \in Requests : StatementFails(r)

Spec == Init /\ [][Next]_vars

(* Time passes, the server runs the requests it has, and somebody goes on  *)
(* asking for the competition; this is strong fairness because it is the   *)
(* model, and not the server, that has to wait for a request to end before *)
(* there can be another.  Administrators promise nothing.                  *)
FairSpec ==
    /\ Spec
    /\ WF_vars(Tick)
    /\ \A r \in Requests : WF_vars(Step(r))
    /\ SF_vars(\E r \in Requests : Begin(r, {"get"}))

----------------------------------------------------------------------------
(* Properties.                                                             *)

(* The window of a competition never ends before it starts, although an    *)
(* update may bring one end of it only, and what it merges with may be     *)
(* stale by the time it is written.                                        *)
WindowIsOrdered == row.start <= row.end

(* What is deleted stays as it was: no start, end, update or automatic     *)
(* change that read the competition before writes to it afterwards.        *)
DeletedIsFinal == [][row.deleted => row' = row]_vars

(* "只更新 patch 中非空/非零值的字段" (competition.go:110): an update changes no  *)
(* other field than is_active and those it was given.  It writes every     *)
(* column, so this takes that nothing else writes between its read and its *)
(* write.                                                                  *)
PatchesTouchOnlyTheirFields ==
    [][\A r \in Requests :
          pc[r] = "update" /\ pc'[r] = "idle" =>
              \A f \in DOMAIN row :
                  row'[f] # row[f] => f \in DOMAIN op[r].patch]_vars

(* Once the administrators have stopped, the status follows the clock and  *)
(* stays with it, whatever they did and whatever requests that were still  *)
(* under way with old copies wrote: active inside the window, not active   *)
(* after it.                                                               *)
FollowsTheClock ==
    /\ row.start <= now /\ now < row.end => row.active
    /\ row.end <= now => ~row.active

ReadersOnly == \A r \in Requests : pc[r] # "idle" => op[r].kind \in {"get", "list"}

StatusSettles == <>[]ReadersOnly => <>[](row.deleted \/ FollowsTheClock)

(* "避免自动状态覆盖手动操作" (competition.go:272): where nobody starts or       *)
(* updates the competition, one that has been ended by hand stays ended.   *)
ManualEndHolds ==
    \A r \in Requests : result[r] = "ended" => ~row.active

(* "调用 ListActive 后验证其自动激活"                                            *)
(* (2026-04-19-competition-start-end-design.md:79): the users' page        *)
(* activates a competition whose time has come.                            *)
ListingActivates ==
    [][\A r \in Requests :
          /\ op[r].kind = "list" /\ pc[r] # "idle" /\ pc'[r] = "idle"
          /\ ~row.deleted /\ row.start <= now /\ now < row.end
          => row'.active]_vars

(* "RemoveCompTeam 从比赛中移除一支队伍" (mysql.go:303): a removal that the rules *)
(* allow and no statement of which fails goes through.                     *)
TeamRemovalsGoThrough ==
    \A r \in Requests : result[r] # "duplicate"

(* "只允许一条未删除记录" (2026-04-20-soft-delete-design.md:64): a challenge is   *)
(* assigned to a competition at most once at a time.                       *)
AssignedOnce == \A c \in Challenges : assigned[c] <= 1

(* "软删除比赛（同时删除题目关联记录）" (competition.go:228): a deleted           *)
(* competition has no challenges.                                          *)
DeletedIsEmpty == row.deleted => \A c \in Challenges : assigned[c] = 0

============================================================================
