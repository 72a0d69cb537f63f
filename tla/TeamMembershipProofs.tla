----------------------- MODULE TeamMembershipProofs -----------------------
(***************************************************************************)
(* Proofs about TeamMembership, for every set of users and teams and any   *)
(* failure of a statement.  Types, and that a user has one row in a team,  *)
(* hold with any number of concurrent requests.  That nobody is in two     *)
(* teams, that no team has two captains, that a deleted team is empty and  *)
(* that a new captain costs no member are proved for a server that takes   *)
(* one request at a time: they are false with two, since the service       *)
(* decides and writes without a transaction.                               *)
(***************************************************************************)
EXTENDS TeamMembership, TLAPS

----------------------------------------------------------------------------
(* What holds with any number of requests.                                 *)

Handover == {"target", "list", "demoteOut", "demoteIn", "promoteOut", "promoteIn"}
Handing  == {"setCaptain", "transfer"}

(* A request is at a step of what it is asked for. *)
KindFits(r) ==
    /\ pc[r] = "team" => op[r].kind # "delete"
    /\ pc[r] \in {"userTeams", "captains", "insert"} => op[r].kind = "add"
    /\ pc[r] \in {"member", "count", "softDelete"} => op[r].kind = "remove"
    /\ pc[r] = "from" => op[r].kind = "transfer"
    /\ pc[r] \in Handover => op[r].kind \in Handing
    /\ pc[r] \in {"deleteMembers", "deleteTeam"} => op[r].kind = "delete"

OneRowPerPair ==
    \A a, b \in live : a.team = b.team /\ a.user = b.user => a = b

Base ==
    /\ TypeOK
    /\ OneRowPerPair
    /\ \A r \in Requests : KindFits(r)

----------------------------------------------------------------------------
(* What holds with one request at a time.                                  *)

Serial == \A q, r \in Requests : q = r

InNoTeam(u) == \A row \in live : row.user # u

(* The team of a request that has looked for it is live. *)
TeamFits(r) ==
    /\ pc[r] \in (Reads \cup Writes) \ {"team", "deleteMembers", "deleteTeam"} =>
          teams[op[r].team] = "live"
    /\ pc[r] = "deleteTeam" => MembersOf(op[r].team) = {}

(* What an addition has found out. *)
AdditionFits(r) ==
    /\ pc[r] \in {"captains", "insert"} => InNoTeam(op[r].user)
    /\ pc[r] = "insert" /\ RoleOf(op[r]) = "captain" =>
          CaptainsOf(op[r].team) = {}

(* Where a handing over of the captaincy is: who is out of the team, and   *)
(* who is in it for all of its steps.                                      *)
HandoverFits(r) ==
    LET t == op[r].team
        u == op[r].user
    IN
    /\ /\ op[r].kind \in Handing
       /\ pc[r] \in {"team", "from", "target", "list", "demoteOut", "promoteOut"}
       => members[r] = MembersOf(t)
    /\ pc[r] \in {"list", "demoteOut"} => u \in MembersOf(t) \ CaptainsOf(t)
    /\ pc[r] = "demoteOut" => \E c \in CaptainsOf(t) : captain[r] = {c}
    /\ pc[r] = "demoteIn" =>
          \E c \in Users \ {u} :
              /\ captain[r] = {c} /\ InNoTeam(c)
              /\ members[r] = MembersOf(t) \cup {c}
    /\ pc[r] \in {"demoteIn", "promoteOut"} => u \in MembersOf(t)
    /\ pc[r] = "promoteIn" =>
          InNoTeam(u) /\ members[r] = MembersOf(t) \cup {u}
    /\ pc[r] \in {"demoteIn", "promoteOut", "promoteIn"} => CaptainsOf(t) = {}
    /\ /\ pc[r] = "idle" /\ op[r].kind \in Handing
       /\ result[r] \in {"ok", "refused", "duplicate"}
       => members[r] = MembersOf(t)

RowsFit == OneTeamPerUser /\ OneCaptain /\ DeletedTeamsAreEmpty

RequestFits(r) == TeamFits(r) /\ AdditionFits(r) /\ HandoverFits(r)

SInv == Base /\ RowsFit /\ \A r \in Requests : RequestFits(r)

----------------------------------------------------------------------------
(* Requests, members and the two statements that change them.              *)

LEMMA RequestFields ==
    ASSUME NEW o \in Op
    PROVE  /\ o.team \in Teams
           /\ o.kind \in {"add", "remove", "setCaptain", "transfer", "delete"}
           /\ o.kind # "delete" => o.user \in Users
           /\ o.kind = "add" => RoleOf(o) \in Roles
<1>1. CASE o \in [kind: {"add"}, team: Teams, user: Users, role: Roles \cup {""}]
  BY <1>1 DEF RoleOf, Roles
<1>2. CASE o.kind # "add"
  BY <1>2 DEF Op
<1>3. QED
  BY <1>1, <1>2 DEF Op

LEMMA FirstReads ==
    ASSUME NEW kind \in {"add", "remove", "setCaptain", "transfer"}
    PROVE  \/ kind = "add" /\ FirstReadOf(kind) = "userTeams"
           \/ kind = "remove" /\ FirstReadOf(kind) = "member"
           \/ kind = "setCaptain" /\ FirstReadOf(kind) = "target"
           \/ kind = "transfer" /\ FirstReadOf(kind) = "from"
<1>1. CASE kind = "add"
  BY <1>1 DEF FirstReadOf
<1>2. CASE kind = "remove"
  BY <1>2 DEF FirstReadOf
<1>3. CASE kind = "setCaptain"
  BY <1>3 DEF FirstReadOf
<1>4. CASE kind = "transfer"
  BY <1>4 DEF FirstReadOf
<1>5. QED
  BY <1>1, <1>2, <1>3, <1>4

(* A step of a request changes its own control state, and goes on with the *)
(* same request or begins another.                                         *)
LEMMA OthersWait ==
    ASSUME TypeOK, NEW r \in Requests, Step(r) \/ StatementFails(r)
    PROVE  \A s \in Requests \ {r} :
              /\ pc'[s] = pc[s] /\ op'[s] = op[s] /\ captain'[s] = captain[s]
              /\ members'[s] = members[s] /\ result'[s] = result[s]
  BY DEF TypeOK, Step, StatementFails, Begin, ReadTeam, ReadUserTeams, ReadCaptains,
     Insert, ReadMember, CountMembers, Remove, ReadFrom, ReadTarget, ReadMembers,
     DemoteOut, DemoteIn, PromoteOut, PromoteIn, DeleteMembers, DeleteTeam,
     InsertRow, SoftDelete, Read, Goto, Return, Unacknowledged, table

LEMMA StepKindFits ==
    ASSUME Base, NEW r \in Requests, Step(r) \/ StatementFails(r)
    PROVE  /\ KindFits(r)'
           /\ op' \in [Requests -> Op]
           /\ pc' \in [Requests -> Reads \cup Writes \cup {"idle"}]
           /\ result' \in [Requests -> {"none", "ok", "refused", "duplicate", "failed"}]
<1> USE DEF Base, TypeOK, Reads, Writes, KindFits, Handover, Handing, Goto, Return,
            Unacknowledged
<1>1. CASE Begin(r)
  <2>1. PICK o \in Op :
           /\ op' = [op EXCEPT ![r] = o]
           /\ pc' = [pc EXCEPT ![r] =
                        IF o.kind = "delete" THEN "deleteMembers" ELSE "team"]
    BY <1>1 DEF Begin
  <2>2. QED
    BY <1>1, <2>1 DEF Begin
<1>2. CASE ReadTeam(r)
  <2>1. CASE teams[op[r].team] = "live"
    <3>1. op[r].kind \in {"add", "remove", "setCaptain", "transfer"}
      BY <1>2, RequestFields DEF ReadTeam
    <3>2. QED
      BY <1>2, <2>1, <3>1, FirstReads DEF ReadTeam, Read
  <2>2. CASE teams[op[r].team] # "live"
    BY <1>2, <2>2 DEF ReadTeam, Read
  <2>3. QED
    BY <2>1, <2>2
<1>3. CASE ReadUserTeams(r) \/ ReadCaptains(r) \/ Insert(r)
  BY <1>3 DEF ReadUserTeams, ReadCaptains, Insert, InsertRow, Read
<1>4. CASE ReadMember(r) \/ CountMembers(r) \/ Remove(r)
  BY <1>4 DEF ReadMember, CountMembers, Remove, SoftDelete, Read
<1>5. CASE ReadFrom(r) \/ ReadTarget(r) \/ ReadMembers(r)
  BY <1>5 DEF ReadFrom, ReadTarget, ReadMembers, Read
<1>6. CASE DemoteOut(r) \/ DemoteIn(r)
  BY <1>6 DEF DemoteOut, DemoteIn, InsertRow, SoftDelete
<1>7. CASE PromoteOut(r) \/ PromoteIn(r)
  BY <1>7 DEF PromoteOut, PromoteIn, InsertRow, SoftDelete
<1>8. CASE DeleteMembers(r) \/ DeleteTeam(r)
  BY <1>8 DEF DeleteMembers, DeleteTeam
<1>9. CASE StatementFails(r)
  BY <1>9 DEF StatementFails, Read
<1>10. QED
  BY <1>1, <1>2, <1>3, <1>4, <1>5, <1>6, <1>7, <1>8, <1>9 DEF Step

LEMMA MembersAreUsers ==
    ASSUME TypeOK, NEW t
    PROVE  MembersOf(t) \subseteq Users /\ CaptainsOf(t) \subseteq MembersOf(t)
  BY DEF TypeOK, Row, MembersOf, CaptainsOf

(* What an INSERT does to the rows, ... *)
Inserted(t, u, role) ==
    \/ live' = live
    \/ /\ u \notin MembersOf(t)
       /\ live' = live \cup {[team |-> t, user |-> u, role |-> role]}

LEMMA InsertKeepsRows ==
    ASSUME Base, NEW t \in Teams, NEW u \in Users, NEW role \in Roles,
           Inserted(t, u, role)
    PROVE  live' \in SUBSET Row /\ OneRowPerPair'
  BY DEF Inserted, Base, TypeOK, OneRowPerPair, Row, MembersOf

(* ... and a soft deletion. *)
Removed(t, u) ==
    \/ live' = live /\ dead' = dead
    \/ /\ live' = {m \in live : ~(m.team = t /\ m.user = u)}
       /\ dead' = dead \cup ({t} \X (MembersOf(t) \cap {u}))

LEMMA DeletionKeepsRows ==
    ASSUME Base, NEW t \in Teams, NEW u, Removed(t, u)
    PROVE  /\ live' \in SUBSET Row /\ OneRowPerPair'
           /\ dead' \in SUBSET (Teams \X Users)
<1>1. MembersOf(t) \subseteq Users
  BY MembersAreUsers DEF Base
<1>2. QED
  BY <1>1 DEF Removed, Base, TypeOK, OneRowPerPair

LEMMA StepTables ==
    ASSUME Base, NEW r \in Requests, Step(r) \/ StatementFails(r)
    PROVE  /\ teams' \in [Teams -> {"unused", "live", "deleted"}]
           /\ live' \in SUBSET Row /\ OneRowPerPair'
           /\ dead' \in SUBSET (Teams \X Users)
           /\ captain' \in [Requests -> SUBSET Users]
           /\ members' \in [Requests -> SUBSET Users]
<1> DEFINE t == op[r].team
           Reading == ReadTeam(r) \/ ReadUserTeams(r) \/ ReadCaptains(r)
                      \/ ReadMember(r) \/ CountMembers(r) \/ ReadFrom(r)
                      \/ ReadTarget(r) \/ StatementFails(r)
<1>1. t \in Teams
  BY RequestFields DEF Base, TypeOK
<1>2. CASE Begin(r)
  BY <1>2, MembersAreUsers DEF Begin, table, Base, TypeOK, OneRowPerPair
<1>3. CASE Reading
  BY <1>3 DEF ReadTeam, ReadUserTeams, ReadCaptains, ReadMember, CountMembers,
     ReadFrom, ReadTarget, StatementFails, Read, table, Base, TypeOK, OneRowPerPair
<1>4. CASE ReadMembers(r)
  BY <1>4, MembersAreUsers DEF ReadMembers, table, Base, TypeOK, OneRowPerPair
<1>5. CASE Insert(r)
  <2>1. op[r].user \in Users /\ RoleOf(op[r]) \in Roles
    BY <1>5, RequestFields DEF Insert, Base, KindFits, TypeOK
  <2>2. Inserted(t, op[r].user, RoleOf(op[r]))
    BY <1>5 DEF Insert, InsertRow, Inserted
  <2>3. QED
    BY <1>1, <1>5, <2>1, <2>2, InsertKeepsRows DEF Insert, InsertRow, Base, TypeOK
<1>6. CASE Remove(r)
  <2>1. Removed(t, op[r].user)
    BY <1>6 DEF Remove, SoftDelete, Removed
  <2>2. QED
    BY <1>1, <1>6, <2>1, DeletionKeepsRows DEF Remove, SoftDelete, Base, TypeOK
<1>7. CASE DemoteOut(r)
  <2>1. PICK u \in captain[r] : SoftDelete(r, u, Goto(r, "demoteIn"))
    BY <1>7 DEF DemoteOut
  <2>2. Removed(t, u)
    BY <2>1 DEF SoftDelete, Removed
  <2>3. QED
    BY <1>1, <2>1, <2>2, DeletionKeepsRows DEF SoftDelete, Base, TypeOK
<1>8. CASE DemoteIn(r)
  <2>1. PICK u \in captain[r] : InsertRow(r, u, "member", Goto(r, "promoteOut"))
    BY <1>8 DEF DemoteIn
  <2>2. Inserted(t, u, "member") /\ u \in Users
    BY <2>1 DEF InsertRow, Inserted, Base, TypeOK
  <2>3. QED
    BY <1>1, <2>1, <2>2, InsertKeepsRows DEF InsertRow, Base, TypeOK, Roles
<1>9. CASE PromoteOut(r)
  <2>1. Removed(t, op[r].user)
    BY <1>9 DEF PromoteOut, SoftDelete, Removed
  <2>2. QED
    BY <1>1, <1>9, <2>1, DeletionKeepsRows DEF PromoteOut, SoftDelete, Base, TypeOK
<1>10. CASE PromoteIn(r)
  <2>1. op[r].user \in Users
    BY <1>10, RequestFields DEF PromoteIn, Base, KindFits, Handover, Handing, TypeOK
  <2>2. Inserted(t, op[r].user, "captain")
    BY <1>10 DEF PromoteIn, InsertRow, Inserted
  <2>3. QED
    BY <1>1, <1>10, <2>1, <2>2, InsertKeepsRows
       DEF PromoteIn, InsertRow, Base, TypeOK, Roles
<1>11. CASE DeleteMembers(r)
  <2>1. MembersOf(t) \subseteq Users
    BY MembersAreUsers DEF Base
  <2>2. QED
    BY <1>1, <1>11, <2>1 DEF DeleteMembers, Base, TypeOK, OneRowPerPair
<1>12. CASE DeleteTeam(r)
  BY <1>1, <1>12 DEF DeleteTeam, Base, TypeOK, OneRowPerPair
<1>13. QED
  BY <1>2, <1>3, <1>4, <1>5, <1>6, <1>7, <1>8, <1>9, <1>10, <1>11, <1>12 DEF Step

LEMMA InitBase ==
    ASSUME Init
    PROVE  Base
  BY DEF Init, Base, TypeOK, OneRowPerPair, KindFits, Handover

LEMMA NextBase ==
    ASSUME Base, [Next]_vars
    PROVE  Base'
<1>1. ASSUME NEW t \in Teams, CreateTeam(t)
      PROVE  Base'
  BY <1>1 DEF CreateTeam, Base, TypeOK, OneRowPerPair, KindFits
<1>2. ASSUME NEW r \in Requests, Step(r) \/ StatementFails(r)
      PROVE  Base'
  <2>1. \A s \in Requests \ {r} : KindFits(s)'
    BY <1>2, OthersWait DEF Base, KindFits
  <2>2. KindFits(r)'
    BY <1>2, StepKindFits
  <2>3. TypeOK' /\ OneRowPerPair'
    BY <1>2, StepKindFits, StepTables DEF TypeOK
  <2>4. QED
    BY <2>1, <2>2, <2>3 DEF Base
<1>3. CASE UNCHANGED vars
  BY <1>3 DEF vars, table, Base, TypeOK, OneRowPerPair, KindFits
<1>4. QED
  BY <1>1, <1>2, <1>3 DEF Next

(* However many requests interleave: each variable keeps its type, and a   *)
(* user has at most one live row in a team.                                *)
THEOREM TypeCorrect == Spec => [](TypeOK /\ OneRowPerPair)
<1>1. Init => Base
  BY InitBase
<1>2. Base /\ [Next]_vars => Base'
  BY NextBase
<1>3. Base => TypeOK /\ OneRowPerPair
  BY DEF Base
<1>4. QED
  BY <1>1, <1>2, <1>3, PTL DEF Spec

----------------------------------------------------------------------------
(* One request at a time.                                                  *)

(* Who is in a team, and who are its captains, after a row is added. *)
LEMMA InsertedMembers ==
    ASSUME NEW t, NEW u, NEW role \in Roles,
           live' = live \cup {[team |-> t, user |-> u, role |-> role]}
    PROVE  /\ MembersOf(t)' = MembersOf(t) \cup {u}
           /\ role = "member" => CaptainsOf(t)' = CaptainsOf(t)
<1> DEFINE new == [team |-> t, user |-> u, role |-> role]
<1>1. ASSUME NEW x
      PROVE  x \in MembersOf(t)' <=> x \in MembersOf(t) \/ x = u
  <2>1. x \in MembersOf(t)' <=> \E row \in live' : row.team = t /\ row.user = x
    BY DEF MembersOf
  <2>2. x \in MembersOf(t) <=> \E row \in live : row.team = t /\ row.user = x
    BY DEF MembersOf
  <2>3. live' = live \cup {new} /\ new.team = t /\ new.user = u
    OBVIOUS
  <2>4. QED
    BY <2>1, <2>2, <2>3
<1>2. ASSUME role = "member"
      PROVE  \A x : x \in CaptainsOf(t)' <=> x \in CaptainsOf(t)
  BY <1>2 DEF CaptainsOf
<1>3. QED
  BY <1>1, <1>2

(* A user whose only row is removed is in no team. *)
LEMMA RemovedIsOut ==
    ASSUME RowsFit, NEW t, NEW u \in MembersOf(t),
           live' = {m \in live : ~(m.team = t /\ m.user = u)}
    PROVE  InNoTeam(u)'
  BY DEF RowsFit, OneTeamPerUser, MembersOf, InNoTeam

(* Removing rows breaks nothing, ... *)
LEMMA FewerRowsFit ==
    ASSUME RowsFit, live' \subseteq live, teams' = teams
    PROVE  RowsFit'
  BY DEF RowsFit, OneTeamPerUser, OneCaptain, DeletedTeamsAreEmpty

(* ... nor does adding one to a live team, of a user who is in none, as a  *)
(* captain only if there is none.                                          *)
LEMMA OneMoreRowFits ==
    ASSUME RowsFit, NEW t, NEW u, NEW role \in Roles,
           live' = live \cup {[team |-> t, user |-> u, role |-> role]},
           teams' = teams, teams[t] = "live", InNoTeam(u),
           role = "captain" => CaptainsOf(t) = {}
    PROVE  RowsFit'
<1> USE DEF RowsFit, InNoTeam
<1>1. OneTeamPerUser'
  BY DEF OneTeamPerUser
<1>2. OneCaptain'
  BY DEF OneCaptain, CaptainsOf, Roles
<1>3. DeletedTeamsAreEmpty'
  BY DEF DeletedTeamsAreEmpty
<1>4. QED
  BY <1>1, <1>2, <1>3

(* Steps that only read, or end the request. *)
LEMMA ReadsFit ==
    ASSUME SInv, NEW r \in Requests,
           \/ Begin(r) \/ ReadTeam(r) \/ ReadUserTeams(r) \/ ReadCaptains(r)
           \/ ReadMember(r) \/ CountMembers(r) \/ ReadFrom(r)
           \/ ReadTarget(r) \/ ReadMembers(r) \/ StatementFails(r)
    PROVE  RowsFit' /\ RequestFits(r)'
<1>1. live' = live /\ teams' = teams
  BY DEF Begin, ReadTeam, ReadUserTeams, ReadCaptains, ReadMember, CountMembers,
         ReadFrom, ReadTarget, ReadMembers, StatementFails, Read, table
<1>2. RowsFit'
  BY <1>1, FewerRowsFit DEF SInv
<1>3. \A t : MembersOf(t)' = MembersOf(t) /\ CaptainsOf(t)' = CaptainsOf(t)
  BY <1>1 DEF MembersOf, CaptainsOf
<1>4. \A u : InNoTeam(u)' = InNoTeam(u)
  BY <1>1 DEF InNoTeam
<1> USE DEF SInv, Base, TypeOK, KindFits, RequestFits, TeamFits, AdditionFits,
            HandoverFits, Handover, Handing, Goto, Return, Read
<1>5. CASE Begin(r)
  <2>1. PICK o \in Op :
           /\ op' = [op EXCEPT ![r] = o]
           /\ members' = [members EXCEPT ![r] = MembersOf(o.team)]
           /\ pc' = [pc EXCEPT ![r] =
                        IF o.kind = "delete" THEN "deleteMembers" ELSE "team"]
    BY <1>5 DEF Begin
  <2>2. op'[r] = o /\ members'[r] = MembersOf(o.team)' /\ pc'[r] \in {"team", "deleteMembers"}
    BY <1>3, <2>1
  <2>3. QED
    BY <1>2, <2>2
<1>6. CASE ReadTeam(r)
  <2>1. CASE teams[op[r].team] = "live"
    <3>1. op[r].kind \in {"add", "remove", "setCaptain", "transfer"}
      BY <1>6, RequestFields DEF ReadTeam
    <3>2. /\ op' = op /\ members' = members
          /\ pc'[r] \in {"userTeams", "member", "target", "from"}
          /\ op[r].kind \in Handing => pc'[r] \in {"target", "from"}
      BY <1>6, <2>1, <3>1, FirstReads DEF ReadTeam
    <3>3. QED
      BY <1>1, <1>2, <1>3, <1>6, <2>1, <3>2 DEF ReadTeam
  <2>2. CASE teams[op[r].team] # "live"
    BY <1>1, <1>2, <1>3, <1>6, <2>2 DEF ReadTeam, Reads, Writes
  <2>3. QED
    BY <2>1, <2>2
<1>7. CASE ReadUserTeams(r) \/ ReadCaptains(r)
  BY <1>1, <1>2, <1>3, <1>4, <1>7 DEF ReadUserTeams, ReadCaptains, InNoTeam, Reads, Writes
<1>8. CASE ReadMember(r) \/ CountMembers(r)
  BY <1>1, <1>2, <1>3, <1>8 DEF ReadMember, CountMembers, Reads, Writes
<1>9. CASE ReadFrom(r) \/ ReadTarget(r)
  BY <1>1, <1>2, <1>3, <1>9 DEF ReadFrom, ReadTarget, Reads, Writes
<1>10. CASE ReadMembers(r)
  BY <1>1, <1>2, <1>3, <1>10 DEF ReadMembers, Reads, Writes
<1>11. CASE StatementFails(r)
  BY <1>1, <1>2, <1>3, <1>11 DEF StatementFails, Reads, Writes
<1>12. QED
  BY <1>5, <1>6, <1>7, <1>8, <1>9, <1>10, <1>11

(* AddMember's INSERT, RemoveMember's UPDATE and DeleteTeam. *)
LEMMA OtherWritesFit ==
    ASSUME SInv, NEW r \in Requests, NEW t, t = op[r].team,
           Insert(r) \/ Remove(r) \/ DeleteMembers(r) \/ DeleteTeam(r)
    PROVE  RowsFit' /\ RequestFits(r)'
<1> USE DEF SInv, Base, TypeOK, KindFits, Handing, Goto, Return, Unacknowledged
<1>1. CASE Insert(r)
  <2>1. op[r].kind = "add" /\ pc'[r] = "idle" /\ op' = op /\ teams' = teams
    BY <1>1 DEF Insert, InsertRow
  <2>2. RequestFits(r)'
    BY <2>1 DEF RequestFits, TeamFits, AdditionFits, HandoverFits, Reads, Writes
  <2>3. RoleOf(op[r]) \in Roles /\ teams[t] = "live" /\ InNoTeam(op[r].user)
        /\ (RoleOf(op[r]) = "captain" => CaptainsOf(t) = {})
    BY <1>1, <2>1, RequestFields
       DEF Insert, RequestFits, TeamFits, AdditionFits, Reads, Writes
  <2>4. \/ live' = live
        \/ live' = live \cup {[team |-> t, user |-> op[r].user, role |-> RoleOf(op[r])]}
    BY <1>1 DEF Insert, InsertRow
  <2>5. RowsFit'
    BY <2>1, <2>3, <2>4, FewerRowsFit, OneMoreRowFits
  <2>6. QED
    BY <2>2, <2>5
<1>2. CASE Remove(r)
  <2>1. op[r].kind = "remove" /\ pc'[r] = "idle" /\ op' = op /\ teams' = teams
        /\ live' \subseteq live
    BY <1>2 DEF Remove, SoftDelete
  <2>2. RequestFits(r)'
    BY <2>1 DEF RequestFits, TeamFits, AdditionFits, HandoverFits, Reads, Writes
  <2>3. QED
    BY <2>1, <2>2, FewerRowsFit
<1>3. CASE DeleteMembers(r)
  <2>1. op[r].kind = "delete" /\ op' = op /\ teams' = teams /\ live' \subseteq live
    BY <1>3 DEF DeleteMembers
  <2>2. \/ pc'[r] = "idle"
        \/ pc'[r] = "deleteTeam" /\ live' = {m \in live : m.team # t}
    BY <1>3 DEF DeleteMembers
  <2>3. pc'[r] = "deleteTeam" => MembersOf(t)' = {}
    BY <2>2 DEF MembersOf
  <2>4. RequestFits(r)'
    BY <2>1, <2>2, <2>3
       DEF RequestFits, TeamFits, AdditionFits, HandoverFits, Reads, Writes
  <2>5. QED
    BY <2>1, <2>4, FewerRowsFit
<1>4. CASE DeleteTeam(r)
  <2>1. op[r].kind = "delete" /\ pc'[r] = "idle" /\ op' = op /\ live' = live
        /\ teams' = [teams EXCEPT ![t] = "deleted"] /\ MembersOf(t) = {}
    BY <1>4 DEF DeleteTeam, RequestFits, TeamFits
  <2>2. RequestFits(r)'
    BY <2>1 DEF RequestFits, TeamFits, AdditionFits, HandoverFits, Reads, Writes
  <2>3. OneTeamPerUser' /\ OneCaptain'
    BY <2>1 DEF RowsFit, OneTeamPerUser, OneCaptain
  <2>4. DeletedTeamsAreEmpty'
    <3>1. \A row \in live : row.team # t
      BY <2>1 DEF MembersOf
    <3>2. QED
      BY <2>1, <3>1 DEF RowsFit, DeletedTeamsAreEmpty
  <2>5. QED
    BY <2>2, <2>3, <2>4 DEF RowsFit
<1>5. QED
  BY <1>1, <1>2, <1>3, <1>4

(* The four writes of a handing over. *)
LEMMA HandoverWritesFit ==
    ASSUME SInv, NEW r \in Requests,
           NEW t, NEW u, t = op[r].team, u = op[r].user,
           DemoteOut(r) \/ DemoteIn(r) \/ PromoteOut(r) \/ PromoteIn(r)
    PROVE  RowsFit' /\ RequestFits(r)'
<1> USE DEF SInv, Base, TypeOK, Handing, Goto, Return, Unacknowledged
<1>1. op[r].kind \in Handing /\ op' = op /\ teams' = teams /\ teams[t] = "live"
      /\ members' = members /\ captain' = captain
  BY DEF KindFits, Handover, DemoteOut, DemoteIn, PromoteOut, PromoteIn,
         InsertRow, SoftDelete, RequestFits, TeamFits, Reads, Writes
<1>2. pc'[r] = "idle" /\ result'[r] = "failed" => RequestFits(r)'
  BY <1>1 DEF RequestFits, TeamFits, AdditionFits, HandoverFits, Reads, Writes
<1>3. pc'[r] = "idle" /\ members[r] = MembersOf(t)' => RequestFits(r)'
  BY <1>1 DEF RequestFits, TeamFits, AdditionFits, HandoverFits, Reads, Writes
<1>4. live' = live => MembersOf(t)' = MembersOf(t)
  BY DEF MembersOf
<1>5. CASE DemoteOut(r)
  <2>1. PICK c \in CaptainsOf(t) : captain[r] = {c}
    BY <1>5 DEF DemoteOut, RequestFits, HandoverFits
  <2>2. u \in MembersOf(t) \ CaptainsOf(t) /\ members[r] = MembersOf(t)
    BY <1>1, <1>5 DEF DemoteOut, RequestFits, HandoverFits
  <2>3. c \in MembersOf(t) /\ c \in Users /\ c # u
    BY <2>1, <2>2, MembersAreUsers
  <2>4. SoftDelete(r, c, Goto(r, "demoteIn"))
    BY <1>5, <2>1 DEF DemoteOut
  <2>5. CASE live' = live /\ pc'[r] = "idle"
    BY <1>1, <1>3, <1>4, <2>2, <2>5, FewerRowsFit
  <2>6. CASE /\ live' = {m \in live : ~(m.team = t /\ m.user = c)}
             /\ pc'[r] = "idle" /\ result'[r] = "failed"
    BY <1>1, <1>2, <2>6, FewerRowsFit
  <2>7. CASE /\ live' = {m \in live : ~(m.team = t /\ m.user = c)}
             /\ pc'[r] = "demoteIn"
    <3>1. MembersOf(t)' = MembersOf(t) \ {c} /\ CaptainsOf(t)' = CaptainsOf(t) \ {c}
      BY <2>7 DEF MembersOf, CaptainsOf
    <3>2. CaptainsOf(t) = {c}
      BY <2>1 DEF RowsFit, OneCaptain, CaptainsOf
    <3>3. InNoTeam(c)'
      BY <2>3, <2>7, RemovedIsOut
    <3>4. RequestFits(r)'
      BY <1>1, <2>1, <2>2, <2>3, <2>7, <3>1, <3>2, <3>3
         DEF RequestFits, TeamFits, AdditionFits, HandoverFits
    <3>5. QED
      BY <1>1, <2>7, <3>4, FewerRowsFit
  <2>8. QED
    BY <2>3, <2>4, <2>5, <2>6, <2>7 DEF SoftDelete
<1>6. CASE DemoteIn(r)
  <2>1. PICK c \in Users \ {u} : /\ captain[r] = {c} /\ InNoTeam(c)
                                /\ members[r] = MembersOf(t) \cup {c}
    BY <1>6 DEF DemoteIn, RequestFits, HandoverFits
  <2>2. u \in MembersOf(t) /\ CaptainsOf(t) = {}
    BY <1>6 DEF DemoteIn, RequestFits, HandoverFits
  <2>3. InsertRow(r, c, "member", Goto(r, "promoteOut")) /\ c \notin MembersOf(t)
    BY <1>6, <2>1 DEF DemoteIn, InNoTeam, MembersOf
  <2>4. live' = live \cup {[team |-> t, user |-> c, role |-> "member"]}
    BY <2>3 DEF InsertRow
  <2>5. MembersOf(t)' = MembersOf(t) \cup {c} /\ CaptainsOf(t)' = CaptainsOf(t)
    BY <2>4, InsertedMembers DEF Roles
  <2>6. RowsFit'
    BY <1>1, <2>1, <2>2, <2>4, OneMoreRowFits DEF Roles
  <2>7. pc'[r] = "promoteOut" \/ (pc'[r] = "idle" /\ result'[r] = "failed")
    BY <2>3 DEF InsertRow
  <2>8. pc'[r] = "promoteOut" => RequestFits(r)'
    BY <1>1, <2>1, <2>2, <2>5 DEF RequestFits, TeamFits, AdditionFits, HandoverFits
  <2>9. QED
    BY <1>2, <2>6, <2>7, <2>8
<1>7. CASE PromoteOut(r)
  <2>1. u \in MembersOf(t) /\ CaptainsOf(t) = {} /\ members[r] = MembersOf(t)
    BY <1>1, <1>7 DEF PromoteOut, RequestFits, HandoverFits
  <2>2. SoftDelete(r, u, Goto(r, "promoteIn"))
    BY <1>7 DEF PromoteOut
  <2>3. CASE live' = live /\ pc'[r] = "idle"
    BY <1>1, <1>3, <1>4, <2>1, <2>3, FewerRowsFit
  <2>4. CASE /\ live' = {m \in live : ~(m.team = t /\ m.user = u)}
             /\ pc'[r] = "idle" /\ result'[r] = "failed"
    BY <1>1, <1>2, <2>4, FewerRowsFit
  <2>5. CASE /\ live' = {m \in live : ~(m.team = t /\ m.user = u)}
             /\ pc'[r] = "promoteIn"
    <3>1. MembersOf(t)' = MembersOf(t) \ {u} /\ CaptainsOf(t)' = CaptainsOf(t) \ {u}
      BY <2>5 DEF MembersOf, CaptainsOf
    <3>2. InNoTeam(u)'
      BY <2>1, <2>5, RemovedIsOut
    <3>3. RequestFits(r)'
      BY <1>1, <2>1, <2>5, <3>1, <3>2
         DEF RequestFits, TeamFits, AdditionFits, HandoverFits
    <3>4. QED
      BY <1>1, <2>5, <3>3, FewerRowsFit
  <2>6. QED
    BY <2>1, <2>2, <2>3, <2>4, <2>5 DEF SoftDelete
<1>8. CASE PromoteIn(r)
  <2>1. InNoTeam(u) /\ members[r] = MembersOf(t) \cup {u} /\ CaptainsOf(t) = {}
    BY <1>1, <1>8 DEF PromoteIn, RequestFits, HandoverFits
  <2>2. InsertRow(r, u, "captain", Return(r, "ok")) /\ u \notin MembersOf(t)
    BY <1>8, <2>1 DEF PromoteIn, InNoTeam, MembersOf
  <2>3. live' = live \cup {[team |-> t, user |-> u, role |-> "captain"]}
    BY <2>2 DEF InsertRow
  <2>4. MembersOf(t)' = MembersOf(t) \cup {u}
    BY <2>3, InsertedMembers DEF Roles
  <2>5. RowsFit'
    BY <1>1, <2>1, <2>3, OneMoreRowFits DEF Roles
  <2>6. pc'[r] = "idle"
    BY <2>2 DEF InsertRow
  <2>7. QED
    BY <1>3, <2>1, <2>4, <2>5, <2>6
<1>9. QED
  BY <1>5, <1>6, <1>7, <1>8

LEMMA InitSInv ==
    ASSUME Init
    PROVE  SInv
<1>1. RowsFit
  BY DEF Init, RowsFit, OneTeamPerUser, OneCaptain, DeletedTeamsAreEmpty
<1>2. \A r \in Requests : RequestFits(r)
  BY DEF Init, RequestFits, TeamFits, AdditionFits, HandoverFits, Handing, Reads,
         Writes
<1>3. QED
  BY <1>1, <1>2, InitBase DEF SInv

LEMMA NextSInv ==
    ASSUME Serial, SInv, [Next]_vars
    PROVE  SInv'
<1>1. Base'
  BY NextBase DEF SInv
<1>2. ASSUME NEW t \in Teams, CreateTeam(t)
      PROVE  SInv'
  <2>1. UNCHANGED <<live, op, pc, captain, members, result>>
        /\ teams[t] = "unused" /\ teams' = [teams EXCEPT ![t] = "live"]
    BY <1>2 DEF CreateTeam
  <2>2. RowsFit'
    BY <2>1 DEF SInv, Base, TypeOK, Row, RowsFit, OneTeamPerUser, OneCaptain,
                DeletedTeamsAreEmpty
  <2>3. \A s \in Teams : teams[s] = "live" => teams'[s] = "live"
    BY <2>1 DEF SInv, Base, TypeOK
  <2>4. ASSUME NEW r \in Requests
        PROVE  RequestFits(r)'
    <3>1. op[r].team \in Teams
      BY RequestFields DEF SInv, Base, TypeOK
    <3>2. TeamFits(r)'
      BY <2>1, <2>3, <3>1 DEF SInv, RequestFits, TeamFits, MembersOf
    <3>3. AdditionFits(r)' /\ HandoverFits(r)'
      BY <2>1 DEF SInv, RequestFits, AdditionFits, HandoverFits, InNoTeam, MembersOf,
                  CaptainsOf
    <3>4. QED
      BY <3>2, <3>3 DEF RequestFits
  <2>5. QED
    BY <1>1, <2>2, <2>4 DEF SInv
<1>3. ASSUME NEW r \in Requests, Step(r) \/ StatementFails(r)
      PROVE  SInv'
  <2>1. RowsFit' /\ RequestFits(r)'
    BY <1>3, ReadsFit, OtherWritesFit, HandoverWritesFit DEF Step
  <2>2. QED
    BY <1>1, <2>1 DEF SInv, Serial
<1>4. CASE UNCHANGED vars
  BY <1>1, <1>4 DEF vars, table, SInv, RowsFit, OneTeamPerUser, OneCaptain,
     DeletedTeamsAreEmpty, RequestFits, TeamFits, AdditionFits, HandoverFits,
     InNoTeam, MembersOf, CaptainsOf
<1>5. QED
  BY <1>2, <1>3, <1>4 DEF Next

LEMMA SerialInvariant ==
    ASSUME Serial
    PROVE  Spec => []SInv
<1>1. Init => SInv
  BY InitSInv
<1>2. SInv /\ [Next]_vars => SInv'
  BY NextSInv
<1>3. QED
  BY <1>1, <1>2, PTL DEF Spec

(* With one request at a time, and however its statements fail: nobody is  *)
(* a live member of two teams, ...                                         *)
THEOREM NobodyInTwoTeams ==
    ASSUME Serial
    PROVE  Spec => []OneTeamPerUser
<1>1. SInv => OneTeamPerUser
  BY DEF SInv, RowsFit
<1>2. QED
  BY <1>1, SerialInvariant, PTL

(* ... no team has two captains, ...                                       *)
THEOREM NoTwoCaptains ==
    ASSUME Serial
    PROVE  Spec => []OneCaptain
<1>1. SInv => OneCaptain
  BY DEF SInv, RowsFit
<1>2. QED
  BY <1>1, SerialInvariant, PTL

(* ... a deleted team has no live member, ...                              *)
THEOREM NobodyInDeletedTeams ==
    ASSUME Serial
    PROVE  Spec => []DeletedTeamsAreEmpty
<1>1. SInv => DeletedTeamsAreEmpty
  BY DEF SInv, RowsFit
<1>2. QED
  BY <1>1, SerialInvariant, PTL

(* ... and a SetCaptain that ends without a failure of the store leaves in *)
(* the team whom it found there, although it takes two of them out.        *)
THEOREM NewCaptainKeepsMembers ==
    ASSUME Serial
    PROVE  Spec => []SetCaptainKeepsMembers
<1>1. SInv => SetCaptainKeepsMembers
  BY DEF SInv, RequestFits, HandoverFits, Handing, SetCaptainKeepsMembers
<1>2. QED
  BY <1>1, SerialInvariant, PTL

============================================================================
