-------------------------- MODULE TeamMembership --------------------------
(***************************************************************************)
(* The auth server's teams and their members: TeamService                  *)
(* (internal/auth/team_service.go) over AuthStore (internal/auth/mysql.go).*)
(* Administrators' requests run concurrently, each statement of its own:   *)
(* the service reads, decides, and writes without a transaction.           *)
(*                                                                         *)
(* Members are removed by soft deletion, and the unique index of           *)
(* team_members is on (team_id, user_id, is_deleted): it allows one live   *)
(* and one deleted row for each pair, so a pair's second soft deletion is  *)
(* a duplicate key.                                                        *)
(***************************************************************************)
EXTENDS Naturals, FiniteSets

CONSTANTS
    Requests,      \* server goroutines, each serving one request at a time
    Users,
    Teams,         \* res_ids, taken one after the other by CreateTeam
    Faults         \* subset of {"store"}: a statement of a request fails

ASSUME ConstantsAssumption == Faults \subseteq {"store"}

VARIABLES
    teams,         \* the teams table
    live,          \* team_members with is_deleted = 0
    dead,          \* team_members with is_deleted = 1: their index keys
    op,            \* what each request asks
    pc,            \* its next statement
    captain,       \* SetCaptain: the old captain it read, as a set
    members,       \* history: who was in the team when the request began
    result         \* how its last request ended

table == <<teams, live, dead>>
vars  == <<table, op, pc, captain, members, result>>

Roles == {"captain", "member"}
Row   == [team: Teams, user: Users, role: Roles]

(* A request; an addition may leave the role out, and from is the caller of *)
(* TransferCaptain.                                                         *)
Op == [kind: {"add"}, team: Teams, user: Users, role: Roles \cup {""}]
        \cup [kind: {"remove", "setCaptain"}, team: Teams, user: Users]
        \cup [kind: {"transfer"}, team: Teams, user: Users, from: Users]
        \cup [kind: {"delete"}, team: Teams]

Reads  == {"team", "userTeams", "captains", "member", "count", "from",
           "target", "list"}
Writes == {"insert", "softDelete", "demoteOut", "demoteIn", "promoteOut",
           "promoteIn", "deleteMembers", "deleteTeam"}

TypeOK ==
    /\ teams \in [Teams -> {"unused", "live", "deleted"}]
    /\ live \in SUBSET Row
    /\ dead \in SUBSET (Teams \X Users)
    /\ op \in [Requests -> Op]
    /\ pc \in [Requests -> Reads \cup Writes \cup {"idle"}]
    /\ captain \in [Requests -> SUBSET Users]
    /\ members \in [Requests -> SUBSET Users]
    /\ result \in [Requests ->
                      {"none", "ok", "refused", "duplicate", "failed"}]

MembersOf(t) == {row.user : row \in {m \in live : m.team = t}}
CaptainsOf(t) ==
    {row.user : row \in {m \in live : m.team = t /\ m.role = "captain"}}

Init ==
    /\ teams = [t \in Teams |-> "unused"]
    /\ live = {}
    /\ dead = {}
    /\ op \in [Requests -> {o \in Op : o.kind = "delete"}]
    /\ pc = [r \in Requests |-> "idle"]
    /\ captain = [r \in Requests |-> {}]
    /\ members = [r \in Requests |-> {}]
    /\ result = [r \in Requests |-> "none"]

----------------------------------------------------------------------------

Goto(r, next) ==
    /\ pc' = [pc EXCEPT ![r] = next]
    /\ UNCHANGED result

Return(r, res) ==
    /\ pc' = [pc EXCEPT ![r] = "idle"]
    /\ result' = [result EXCEPT ![r] = res]

(* The statement took effect, but its answer, or the row that the store reads *)
(* back, does not come.                                                       *)
Unacknowledged(r) == "store" \in Faults /\ Return(r, "failed")

(* Slip: the default is forgotten. *)
SlipRoleOf(o) == o.role

(* The role an addition is for. *)
RoleOf(o) == IF o.role = "" THEN "member" ELSE o.role

(* A statement that only reads. *)
Read == UNCHANGED <<table, op, captain, members>>

(* TeamHandler.Create: one INSERT. *)
CreateTeam(t) ==
    /\ teams[t] = "unused"
    /\ teams' = [teams EXCEPT ![t] = "live"]
    /\ UNCHANGED <<live, dead, op, pc, captain, members, result>>

(* A request arrives; its team and its users are res_ids that exist. *)
Begin(r) ==
    /\ pc[r] = "idle"
    /\ \E o \in Op :
          /\ teams[o.team] # "unused"
          /\ op' = [op EXCEPT ![r] = o]
          /\ members' = [members EXCEPT ![r] = MembersOf(o.team)]
          /\ pc' = [pc EXCEPT ![r] =
                       IF o.kind = "delete" THEN "deleteMembers" ELSE "team"]
    /\ captain' = [captain EXCEPT ![r] = {}]
    /\ result' = [result EXCEPT ![r] = "none"]
    /\ UNCHANGED table

FirstReadOf(kind) == CASE kind = "add"        -> "userTeams"
                       [] kind = "remove"     -> "member"
                       [] kind = "setCaptain" -> "target"
                       [] kind = "transfer"   -> "from"

(* GetTeamByID *)
ReadTeam(r) ==
    /\ pc[r] = "team"
    /\ \/ /\ teams[op[r].team] = "deleted"
          /\ Return(r, "refused")
       \/ /\ teams[op[r].team] = "live"
          /\ Goto(r, FirstReadOf(op[r].kind))
    /\ Read

(* Slip: only the team that is asked for is looked at. *)
SlipReadUserTeams(r) ==
    /\ pc[r] = "userTeams"
    /\ \/ /\ op[r].user \in MembersOf(op[r].team)
          /\ Return(r, "refused")
       \/ /\ op[r].user \notin MembersOf(op[r].team)
          /\ Goto(r, IF RoleOf(op[r]) = "captain" THEN "captains" ELSE "insert")
    /\ Read

(* AddMember: GetUserTeams, also of teams that are deleted. *)
ReadUserTeams(r) ==
    /\ pc[r] = "userTeams"
    /\ \/ /\ \E row \in live : row.user = op[r].user
          /\ Return(r, "refused")
       \/ /\ \A row \in live : row.user # op[r].user
          /\ Goto(r, IF RoleOf(op[r]) = "captain" THEN "captains" ELSE "insert")
    /\ Read

(* Slip: any role may be added. *)
SlipReadCaptains(r) ==
    /\ pc[r] = "captains"
    /\ Goto(r, "insert")
    /\ Read

(* AddMember, as captain: ListTeamMembers. *)
ReadCaptains(r) ==
    /\ pc[r] = "captains"
    /\ \/ /\ CaptainsOf(op[r].team) # {}
          /\ Return(r, "refused")
       \/ /\ CaptainsOf(op[r].team) = {}
          /\ Goto(r, "insert")
    /\ Read

(* The INSERT of a row, refused when the pair has a live row. *)
InsertRow(r, u, role, AfterInsert) ==
    LET t == op[r].team IN
    /\ \/ /\ u \in MembersOf(t)
          /\ Return(r, "duplicate")
          /\ UNCHANGED live
       \/ /\ u \notin MembersOf(t)
          /\ live' = live \cup {[team |-> t, user |-> u, role |-> role]}
          /\ AfterInsert \/ Unacknowledged(r)
    /\ UNCHANGED <<teams, dead, op, captain, members>>

(* The soft deletion of a row, refused when the pair has a deleted row; *)
(* without a live row it changes nothing.                               *)
SoftDelete(r, u, AfterUpdate) ==
    LET t == op[r].team IN
    /\ \/ /\ u \in MembersOf(t) /\ <<t, u>> \in dead
          /\ Return(r, "duplicate")
          /\ UNCHANGED <<live, dead>>
       \/ /\ u \in MembersOf(t) => <<t, u>> \notin dead
          /\ live' = {m \in live : ~(m.team = t /\ m.user = u)}
          /\ dead' = dead \cup ({t} \X (MembersOf(t) \cap {u}))
          /\ AfterUpdate \/ Unacknowledged(r)
    /\ UNCHANGED <<teams, op, captain, members>>

Insert(r) ==
    /\ pc[r] = "insert"
    /\ InsertRow(r, op[r].user, RoleOf(op[r]), Return(r, "ok"))

(* RemoveMember: GetMember ... *)
ReadMember(r) ==
    /\ pc[r] = "member"
    /\ \/ /\ op[r].user \notin MembersOf(op[r].team)
          /\ Return(r, "refused")
       \/ /\ op[r].user \in MembersOf(op[r].team)
          /\ Goto(r, IF op[r].user \in CaptainsOf(op[r].team)
                     THEN "count" ELSE "softDelete")
    /\ Read

(* ... GetTeamMemberCount, for a captain ... *)
CountMembers(r) ==
    /\ pc[r] = "count"
    /\ \/ /\ Cardinality(MembersOf(op[r].team)) > 1
          /\ Return(r, "refused")
       \/ /\ Cardinality(MembersOf(op[r].team)) <= 1
          /\ Goto(r, "softDelete")
    /\ Read

(* ... and the UPDATE. *)
Remove(r) ==
    /\ pc[r] = "softDelete"
    /\ SoftDelete(r, op[r].user, Return(r, "ok"))

----------------------------------------------------------------------------
(* SetCaptain, which TransferCaptain enters through a check of its own.    *)

ReadFrom(r) ==
    /\ pc[r] = "from"
    /\ \/ /\ op[r].from \notin CaptainsOf(op[r].team)
          /\ Return(r, "refused")
       \/ /\ op[r].from \in CaptainsOf(op[r].team)
          /\ Goto(r, "target")
    /\ Read

(* GetMember; somebody who is captain already needs nothing. *)
ReadTarget(r) ==
    LET t == op[r].team IN
    /\ pc[r] = "target"
    /\ \/ /\ op[r].user \notin MembersOf(t)
          /\ Return(r, "refused")
       \/ /\ op[r].user \in CaptainsOf(t)
          /\ Return(r, "ok")
       \/ /\ op[r].user \in MembersOf(t) \ CaptainsOf(t)
          /\ Goto(r, "list")
    /\ Read

(* ListTeamMembers; the loop stops at the first captain. *)
ReadMembers(r) ==
    LET old == CaptainsOf(op[r].team) IN
    /\ pc[r] = "list"
    /\ \/ /\ old = {}
          /\ Goto(r, "promoteOut")
          /\ UNCHANGED captain
       \/ \E u \in old :
             /\ captain' = [captain EXCEPT ![r] = {u}]
             /\ Goto(r, "demoteOut")
    /\ UNCHANGED <<table, op, members>>

(* The roles change by removing the row and adding another. *)
DemoteOut(r) ==
    /\ pc[r] = "demoteOut"
    /\ \E u \in captain[r] : SoftDelete(r, u, Goto(r, "demoteIn"))

(* Slip: the old captain is not added again. *)
SlipDemoteIn(r) ==
    /\ pc[r] = "demoteIn"
    /\ Goto(r, "promoteOut")
    /\ Read

DemoteIn(r) ==
    /\ pc[r] = "demoteIn"
    /\ \E u \in captain[r] : InsertRow(r, u, "member", Goto(r, "promoteOut"))

PromoteOut(r) ==
    /\ pc[r] = "promoteOut"
    /\ SoftDelete(r, op[r].user, Goto(r, "promoteIn"))

PromoteIn(r) ==
    /\ pc[r] = "promoteIn"
    /\ InsertRow(r, op[r].user, "captain", Return(r, "ok"))

----------------------------------------------------------------------------
(* DeleteTeam: one UPDATE for all the members ...                          *)

(* Slip: the members are left alone. *)
SlipDeleteMembers(r) ==
    /\ pc[r] = "deleteMembers"
    /\ Goto(r, "deleteTeam")
    /\ Read

DeleteMembers(r) ==
    LET t == op[r].team
        keys == {t} \X MembersOf(t)
    IN
    /\ pc[r] = "deleteMembers"
    /\ \/ /\ keys \cap dead # {}
          /\ Return(r, "duplicate")
          /\ UNCHANGED <<live, dead>>
       \/ /\ keys \cap dead = {}
          /\ live' = {m \in live : m.team # t}
          /\ dead' = dead \cup keys
          /\ Goto(r, "deleteTeam") \/ Unacknowledged(r)
    /\ UNCHANGED <<teams, op, captain, members>>

(* ... and one for the team. *)
DeleteTeam(r) ==
    /\ pc[r] = "deleteTeam"
    /\ teams' = [teams EXCEPT ![op[r].team] = "deleted"]
    /\ Return(r, "ok") \/ Unacknowledged(r)
    /\ UNCHANGED <<live, dead, op, captain, members>>

(* A statement fails without effect, and the request with it. *)
StatementFails(r) ==
    /\ "store" \in Faults
    /\ pc[r] # "idle"
    /\ Return(r, "failed")
    /\ Read

----------------------------------------------------------------------------

Step(r) ==
    \/ Begin(r)
    \/ ReadTeam(r)
    \/ ReadUserTeams(r)
    \/ ReadCaptains(r)
    \/ Insert(r)
    \/ ReadMember(r)
    \/ CountMembers(r)
    \/ Remove(r)
    \/ ReadFrom(r)
    \/ ReadTarget(r)
    \/ ReadMembers(r)
    \/ DemoteOut(r)
    \/ DemoteIn(r)
    \/ PromoteOut(r)
    \/ PromoteIn(r)
    \/ DeleteMembers(r)
    \/ DeleteTeam(r)

Next ==
    \/ \E t \in Teams : CreateTeam(t)
    \/ \E r \in Requests : Step(r)
    \/ \E r \in Requests : StatementFails(r)

Spec == Init /\ [][Next]_vars

----------------------------------------------------------------------------
(* Properties.                                                             *)

(* "检查用户是否已在其他队伍中（单队约束）" (team_service.go:123): nobody is a    *)
(* live member of two teams, the answer GetUserTeam takes the first of.    *)
OneTeamPerUser ==
    \A a, b \in live : a.user = b.user => a.team = b.team

(* "如果要添加为队长，检查当前是否已有队长" (team_service.go:138): no team has    *)
(* two captains, whether they were added or promoted.                      *)
OneCaptain ==
    \A a, b \in live :
        /\ a.team = b.team
        /\ a.role = "captain" /\ b.role = "captain"
        => a.user = b.user

(* "软删除队伍，同时软删除所有相关的 team_members 记录" (auth/mysql.go:153): a    *)
(* deleted team has no live members.  One who is left can join no other    *)
(* team, since AddMember counts the row, nor leave this one, since         *)
(* RemoveMember first looks for the team.                                  *)
DeletedTeamsAreEmpty ==
    \A row \in live : teams[row.team] # "deleted"

(* Handing over the captaincy does not change who is in the team: between  *)
(* requests, the members are those the last SetCaptain found, although it  *)
(* took two of them out and put them in again.                             *)
SetCaptainKeepsMembers ==
    \A r \in Requests :
        /\ pc[r] = "idle"
        /\ op[r].kind \in {"setCaptain", "transfer"}
        /\ result[r] \in {"ok", "refused", "duplicate"}
        /\ \A s \in Requests \ {r} : pc[s] = "idle"
        => MembersOf(op[r].team) = members[r]

(* "RemoveMember 从队伍中移除用户（软删除）" (auth/mysql.go:228): a removal that  *)
(* the rules allow and no statement of which fails goes through.           *)
RemovalsGoThrough ==
    \A r \in Requests :
        op[r].kind = "remove" => result[r] # "duplicate"

(* "SetCaptain 将指定用户提升为队长，原队长降为成员" (team_service.go:243): after   *)
(* it the team has a captain, the new one or, on an error, the old one.    *)
CaptaincyIsHandedOver ==
    \A r \in Requests :
        pc[r] = "idle" /\ captain[r] # {} => CaptainsOf(op[r].team) # {}

============================================================================
