------------------------- MODULE CompetitionProofs -------------------------
(***************************************************************************)
(* Proofs about Competition, for every set of requests, teams and          *)
(* challenges, every choice of operations and failures, and every bound on *)
(* the clock: the window of a competition is always in order, a deleted    *)
(* competition is never written, and an update that runs alone changes     *)
(* nothing but what it was asked to.                                       *)
(***************************************************************************)
EXTENDS Competition, TLAPS

----------------------------------------------------------------------------
(* Merging.                                                                *)

Columns == {"deleted", "start", "end", "active", "mode", "join"}

(* The body of an update, merged into a competition, makes a competition,  *)
(* in which the fields that the body does not name are as they were.       *)
LEMMA MergedIsRow ==
    ASSUME NEW c \in Row, NEW patch \in Patch
    PROVE  /\ Merge(c, patch) \in Row
           /\ Merge(c, patch).deleted = c.deleted
           /\ \A f \in DOMAIN c \ DOMAIN patch : Merge(c, patch)[f] = c[f]
<1>1. DOMAIN c = Columns
  BY DEF Row, Columns
<1>2. Merge(c, patch) = [f \in Columns |-> IF f \in DOMAIN patch THEN patch[f] ELSE c[f]]
  BY <1>1 DEF Merge
<1>3. QED
  BY <1>1, <1>2 DEF Row, Patch, Columns

----------------------------------------------------------------------------
(* The inductive invariant.                                                *)

(* What is about to be written is an update, and validated. *)
AboutToUpdate(r) ==
    pc[r] = "update" => op[r].kind = "update" /\ Valid(copy[r])

Ordered ==
    /\ Valid(row)
    /\ \A r \in Requests : AboutToUpdate(r)

(* With one request at a time it is also what there is, with the body of   *)
(* the update merged into it.                                              *)
Fresh ==
    \A r \in Requests :
        pc[r] = "update" => copy[r] = Merge(row, op[r].patch)

LEMMA FirstStatement ==
    ASSUME NEW kind
    PROVE  FirstStatementOf(kind) \in {"assign", "unassign", "unassignAll", "read"}
<1>1. CASE kind = "assign"
  BY <1>1 DEF FirstStatementOf
<1>2. CASE kind = "unassign"
  BY <1>2 DEF FirstStatementOf
<1>3. CASE kind = "delete"
  BY <1>3 DEF FirstStatementOf
<1>4. CASE kind \notin {"assign", "unassign", "delete"}
  BY <1>4 DEF FirstStatementOf
<1>5. QED
  BY <1>1, <1>2, <1>3, <1>4

(* How a request goes on: by a statement with some competition in memory,  *)
(* or to its end.                                                          *)
LEMMA KeepTypes ==
    ASSUME TypeOK, NEW r \in Requests, NEW c \in Row,
           NEW next \in Statements, Keep(r, c, next)
    PROVE  /\ op' = op /\ result' = result
           /\ pc' \in [Requests -> Statements \cup {"idle"}]
           /\ copy' \in [Requests -> Row]
  BY DEF Keep, TypeOK

LEMMA ReturnTypes ==
    ASSUME TypeOK, NEW r \in Requests, NEW res \in Results, Return(r, res)
    PROVE  /\ op' \in [Requests -> Op \cup {NoOp}]
           /\ pc' \in [Requests -> Statements \cup {"idle"}]
           /\ copy' \in [Requests -> Row]
           /\ result' \in [Requests -> Results]
<1>1. Blank \in Row
  BY ConstantsAssumption DEF Blank, Row, Schedule
<1>2. QED
  BY <1>1 DEF Return, TypeOK

(* What a step of a request does to its own variables: it goes on, or      *)
(* ends.                                                                   *)
GoesOnOrEnds(r) ==
    \/ \E c \in Row, next \in Statements : Keep(r, c, next)
    \/ \E res \in Results : Return(r, res)

LEMMA FailGoesOnOrEnds ==
    ASSUME NEW r \in Requests, Fail(r)
    PROVE  GoesOnOrEnds(r)
  BY DEF Fail, GoesOnOrEnds, Results

LEMMA StepGoesOnOrEnds ==
    ASSUME TypeOK, NEW r \in Requests, Step(r)
    PROVE  GoesOnOrEnds(r)
<1> USE DEF GoesOnOrEnds, Statements, Results, TypeOK
<1>1. CASE ReadDeleted(r) \/ ReadForGet(r) \/ ReadForList(r)
  BY <1>1 DEF ReadDeleted, ReadForGet, ReadForList
<1>2. CASE Sync(r)
  BY <1>2 DEF Sync, Goto
<1>3. CASE ReadForStatus(r)
  BY <1>3 DEF ReadForStatus, Goto
<1>4. CASE SetActive(r) \/ UpdateRow(r) \/ Delete(r)
  BY <1>4, FailGoesOnOrEnds DEF SetActive, UpdateRow, Delete, Done
<1>5. CASE ReadForUpdate(r)
  <2>1. CASE Valid(Merge(row, op[r].patch))
    <3>1. op[r].patch \in Patch
      BY <1>5 DEF ReadForUpdate, Op, NoOp
    <3>2. Merge(row, op[r].patch) \in Row
      BY <3>1, MergedIsRow
    <3>3. Keep(r, Merge(row, op[r].patch), "update")
      BY <1>5, <2>1 DEF ReadForUpdate
    <3>4. QED
      BY <3>2, <3>3
  <2>2. CASE ~Valid(Merge(row, op[r].patch))
    BY <1>5, <2>2 DEF ReadForUpdate
  <2>3. QED
    BY <2>1, <2>2
<1>6. CASE ReadForTeams(r)
  BY <1>6 DEF ReadForTeams, Goto
<1>7. CASE AddTeam(r) \/ RemoveTeam(r)
  BY <1>7, FailGoesOnOrEnds DEF AddTeam, RemoveTeam, Done
<1>8. CASE Assign(r) \/ Unassign(r) \/ UnassignAll(r)
  BY <1>8, FailGoesOnOrEnds DEF Assign, Unassign, UnassignAll, Done, Goto
<1>9. QED
  BY <1>1, <1>2, <1>3, <1>4, <1>5, <1>6, <1>7, <1>8 DEF Step

(* What a step of a request does to the tables. *)
LEMMA StepTables ==
    ASSUME TypeOK, Ordered, NEW r \in Requests, Step(r)
    PROVE  /\ now' = now
           /\ row' \in Row /\ Valid(row')
           /\ teams' \in SUBSET Teams /\ formerTeams' \in SUBSET Teams
           /\ assigned' \in [Challenges -> 0 .. MaxAssigned]
<1> USE DEF TypeOK, Ordered
<1>1. CASE ReadDeleted(r) \/ ReadForGet(r) \/ ReadForList(r) \/ Sync(r)
           \/ ReadForStatus(r) \/ ReadForUpdate(r) \/ ReadForTeams(r)
  BY <1>1 DEF ReadDeleted, ReadForGet, ReadForList, Sync, ReadForStatus,
              ReadForUpdate, ReadForTeams, Read, links
<1>2. CASE SetActive(r)
  <2>1. row' \in Row /\ Valid(row')
    BY <1>2 DEF SetActive, Row, Valid
  <2>2. QED
    BY <1>2, <2>1 DEF SetActive, links
<1>3. CASE UpdateRow(r)
  BY <1>3 DEF UpdateRow, links, AboutToUpdate
<1>4. CASE Delete(r)
  <2>1. row' \in Row /\ Valid(row')
    BY <1>4 DEF Delete, Row, Valid
  <2>2. QED
    BY <1>4, <2>1 DEF Delete, links
<1>5. CASE AddTeam(r)
  <2>1. op[r].team \in Teams
    BY <1>5 DEF AddTeam, Op, NoOp
  <2>2. QED
    BY <1>5, <2>1 DEF AddTeam
<1>6. CASE RemoveTeam(r)
  BY <1>6 DEF RemoveTeam
<1>7. CASE Assign(r)
  <2>1. assigned' \in [Challenges -> 0 .. MaxAssigned]
    <3> DEFINE chal == op[r].chal
    <3>1. assigned[chal] < MaxAssigned /\ assigned' = [assigned EXCEPT ![chal] = @ + 1]
      BY <1>7 DEF Assign
    <3>2. CASE chal \in Challenges
      <4>1. assigned[chal] + 1 \in 0 .. MaxAssigned
        BY <3>1, <3>2, ConstantsAssumption
      <4>2. QED
        BY <3>1, <4>1
    <3>3. CASE chal \notin Challenges
      BY <3>1, <3>3
    <3>4. QED
      BY <3>2, <3>3
  <2>2. QED
    BY <1>7, <2>1 DEF Assign
<1>8. CASE Unassign(r) \/ UnassignAll(r)
  <2>1. assigned' \in [Challenges -> 0 .. MaxAssigned]
    BY <1>8, ConstantsAssumption DEF Unassign, UnassignAll
  <2>2. QED
    BY <1>8, <2>1 DEF Unassign, UnassignAll
<1>9. QED
  BY <1>1, <1>2, <1>3, <1>4, <1>5, <1>6, <1>7, <1>8 DEF Step

(* What a step of a request does to the validated copies. *)
LEMMA StepCopies ==
    ASSUME TypeOK, Ordered, NEW r \in Requests, Step(r)
    PROVE  \A s \in Requests : AboutToUpdate(s)'
<1> SUFFICES ASSUME NEW s \in Requests
             PROVE  AboutToUpdate(s)'
    OBVIOUS
<1> USE DEF TypeOK, Ordered, AboutToUpdate
<1>1. CASE ReadForUpdate(r)
  BY <1>1 DEF ReadForUpdate, Keep, Return
<1>2. CASE ~ReadForUpdate(r)
  <2>1. \/ \E next \in Statements \ {"update"}, c \in Row : Keep(r, c, next)
        \/ \E res \in Results : Return(r, res)
    BY <1>2 DEF Step, ReadDeleted, ReadForGet, ReadForList, Sync, ReadForStatus,
                ReadForTeams, SetActive, UpdateRow, AddTeam, RemoveTeam, Assign,
                Unassign, UnassignAll, Delete, Done, Fail, Goto, Statements, Results
  <2>2. QED
    BY <2>1 DEF Keep, Return
<1>3. QED
  BY <1>1, <1>2

LEMMA InitIsOrdered ==
    ASSUME Init
    PROVE  TypeOK /\ Ordered
<1>1. Blank \in Row
  BY ConstantsAssumption DEF Blank, Row, Schedule
<1>2. assigned \in [Challenges -> 0 .. MaxAssigned]
  BY ConstantsAssumption DEF Init
<1>3. QED
  BY <1>1, <1>2 DEF Init, TypeOK, Ordered, AboutToUpdate, Results

LEMMA NextIsOrdered ==
    ASSUME TypeOK, Ordered, [Next]_vars
    PROVE  TypeOK' /\ Ordered'
<1>1. CASE Tick
  BY <1>1, ConstantsAssumption DEF Tick, TypeOK, Ordered, AboutToUpdate, links
<1>2. ASSUME NEW r \in Requests, Begin(r, Kinds)
      PROVE  TypeOK' /\ Ordered'
  <2>1. PICK o \in Op : /\ op' = [op EXCEPT ![r] = o]
                        /\ pc' = [pc EXCEPT ![r] = FirstStatementOf(o.kind)]
    BY <1>2 DEF Begin
  <2>2. FirstStatementOf(o.kind) \in Statements \ {"update"}
    BY FirstStatement DEF Statements
  <2>3. QED
    BY <1>2, <2>1, <2>2 DEF Begin, links, TypeOK, Ordered, AboutToUpdate, Results
<1>3. ASSUME NEW r \in Requests, Step(r)
      PROVE  TypeOK' /\ Ordered'
  <2>1. GoesOnOrEnds(r)
    BY <1>3, StepGoesOnOrEnds
  <2>2. /\ op' \in [Requests -> Op \cup {NoOp}]
        /\ pc' \in [Requests -> Statements \cup {"idle"}]
        /\ copy' \in [Requests -> Row]
        /\ result' \in [Requests -> Results]
    BY <2>1, KeepTypes, ReturnTypes DEF GoesOnOrEnds, TypeOK
  <2>3. QED
    BY <1>3, <2>2, StepTables, StepCopies DEF TypeOK, Ordered
<1>4. ASSUME NEW r \in Requests, StatementFails(r)
      PROVE  TypeOK' /\ Ordered'
  <2>1. PICK res \in Results : Return(r, res)
    BY <1>4 DEF StatementFails, Fail, Results
  <2>2. QED
    BY <1>4, <2>1, ReturnTypes
       DEF StatementFails, Read, links, Return, TypeOK, Ordered, AboutToUpdate
<1>5. CASE UNCHANGED vars
  BY <1>5 DEF vars, links, TypeOK, Ordered, AboutToUpdate
<1>6. QED
  BY <1>1, <1>2, <1>3, <1>4, <1>5 DEF Next

----------------------------------------------------------------------------
(* The theorems.                                                           *)

(* Whatever requests there are and however their statements interleave and *)
(* fail, each variable keeps its type.                                     *)
THEOREM TypeCorrect == Spec => []TypeOK
<1>1. Init => TypeOK /\ Ordered
  BY InitIsOrdered
<1>2. TypeOK /\ Ordered /\ [Next]_vars => TypeOK' /\ Ordered'
  BY NextIsOrdered
<1>3. QED
  BY <1>1, <1>2, PTL DEF Spec

(* The window of a competition is in order at every moment, although what  *)
(* an update has merged and validated may be stale when it writes it: it   *)
(* writes both ends, as they were validated.                               *)
THEOREM WindowOrdered == Spec => []WindowIsOrdered
<1>1. Init => TypeOK /\ Ordered
  BY InitIsOrdered
<1>2. TypeOK /\ Ordered /\ [Next]_vars => TypeOK' /\ Ordered'
  BY NextIsOrdered
<1>3. TypeOK /\ Ordered => WindowIsOrdered
  BY DEF TypeOK, Ordered, Valid, WindowIsOrdered, Row, Schedule
<1>4. QED
  BY <1>1, <1>2, <1>3, PTL DEF Spec

(* No request, whatever it read before, writes to a competition that has   *)
(* been deleted; one that deletes it again finds it as it was.             *)
THEOREM DeletedStays == Spec => DeletedIsFinal
<1>1. Spec => []TypeOK
  BY TypeCorrect
<1>2. ASSUME TypeOK, [Next]_vars, row.deleted
      PROVE  row' = row
  <2>1. ASSUME NEW r \in Requests, Step(r)
        PROVE  row' = row
    <3>1. CASE Delete(r)
      BY <1>2, <3>1 DEF Delete, TypeOK, Row
    <3>2. CASE ~Delete(r)
      BY <1>2, <2>1, <3>2
         DEF Step, ReadDeleted, ReadForGet, ReadForList, Sync, ReadForStatus,
             ReadForTeams, ReadForUpdate, SetActive, UpdateRow, AddTeam,
             RemoveTeam, Assign, Unassign, UnassignAll, Read
    <3>3. QED
      BY <3>1, <3>2
  <2>2. QED
    BY <1>2, <2>1 DEF Next, vars, Tick, Begin, StatementFails, Read
<1>3. QED
  BY <1>1, <1>2, PTL DEF Spec, DeletedIsFinal

----------------------------------------------------------------------------
(* One request at a time.                                                  *)

(* Then nothing comes between the read of an update and its write. *)
LEMMA StepIsFresh ==
    ASSUME \A q, r \in Requests : q = r,
           TypeOK, Ordered, Fresh, [Next]_vars
    PROVE  Fresh'
<1> SUFFICES ASSUME NEW r \in Requests, pc'[r] = "update"
             PROVE  copy'[r] = Merge(row, op[r].patch)'
    BY DEF Fresh
<1> USE DEF TypeOK
<1>1. CASE ReadForUpdate(r)
  BY <1>1 DEF ReadForUpdate, Keep, Return, Read, Merge
<1>2. CASE Step(r) /\ ~ReadForUpdate(r)
  <2>1. \/ \E next \in Statements \ {"update"}, c \in Row : Keep(r, c, next)
        \/ \E res \in Results : Return(r, res)
    BY <1>2 DEF Step, ReadDeleted, ReadForGet, ReadForList, Sync, ReadForStatus,
                ReadForTeams, SetActive, UpdateRow, AddTeam, RemoveTeam, Assign,
                Unassign, UnassignAll, Delete, Done, Fail, Goto, Statements, Results
  <2>2. QED
    BY <2>1 DEF Keep, Return
<1>3. CASE Begin(r, Kinds)
  BY <1>3, FirstStatement DEF Begin
<1>4. CASE StatementFails(r)
  BY <1>4 DEF StatementFails, Fail, Return
<1>5. CASE Tick \/ UNCHANGED vars
  BY <1>5 DEF Tick, vars, Fresh, Merge
<1>6. QED
  BY <1>1, <1>2, <1>3, <1>4, <1>5 DEF Next

(* An update that has the competition to itself, whatever statement of it  *)
(* fails, changes is_active and the fields it was given, and no other.     *)
(* What it writes is a whole row, so this is false with two requests.      *)
THEOREM PatchesTouchNoMore ==
    ASSUME \A q, r \in Requests : q = r
    PROVE  Spec => PatchesTouchOnlyTheirFields
<1>1. Init => TypeOK /\ Ordered /\ Fresh
  BY InitIsOrdered DEF Init, Fresh
<1>2. TypeOK /\ Ordered /\ Fresh /\ [Next]_vars => TypeOK' /\ Ordered' /\ Fresh'
  BY NextIsOrdered, StepIsFresh
<1>3. ASSUME TypeOK, Ordered, Fresh, [Next]_vars, NEW r \in Requests,
             pc[r] = "update", pc'[r] = "idle",
             NEW f \in DOMAIN row, row'[f] # row[f]
      PROVE  f \in DOMAIN op[r].patch
  <2>1. op[r].patch \in Patch
    BY <1>3 DEF Ordered, AboutToUpdate, TypeOK, Op, NoOp
  <2>2. UpdateRow(r)
    <3>1. row' # row
      BY <1>3
    <3>2. Step(r) \/ StatementFails(r) \/ Tick \/ Begin(r, Kinds)
      BY <1>3, <3>1 DEF Next, vars
    <3>3. ~StatementFails(r) /\ ~Tick /\ ~Begin(r, Kinds)
      BY <3>1 DEF StatementFails, Read, Tick, Begin
    <3>4. QED
      BY <1>3, <3>2, <3>3
         DEF Step, ReadDeleted, ReadForGet, ReadForList, Sync, ReadForStatus,
             ReadForTeams, ReadForUpdate, SetActive, AddTeam, RemoveTeam,
             Assign, Unassign, UnassignAll, Delete
  <2>3. row' = Merge(row, op[r].patch)
    BY <1>3, <2>2 DEF UpdateRow, Fresh
  <2>4. row \in Row
    BY <1>3 DEF TypeOK
  <2>5. \A g \in DOMAIN row \ DOMAIN op[r].patch : row'[g] = row[g]
    BY <2>1, <2>3, <2>4, MergedIsRow
  <2>6. QED
    BY <1>3, <2>5
<1>4. TypeOK /\ Ordered /\ Fresh /\ [Next]_vars =>
         \A r \in Requests :
            pc[r] = "update" /\ pc'[r] = "idle" =>
                \A f \in DOMAIN row : row'[f] # row[f] => f \in DOMAIN op[r].patch
  BY <1>3
<1>5. QED
  BY <1>1, <1>2, <1>4, PTL DEF Spec, PatchesTouchOnlyTheirFields

============================================================================
