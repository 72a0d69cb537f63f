----------------------------- MODULE Catalogue -----------------------------
(***************************************************************************)
(* What administrators write for the players: a challenge                  *)
(* (service/challenge.go), a hint (plugins/hints) or a notification        *)
(* (plugins/notification).  All three are updated alike: one statement     *)
(* reads the row, the fields that the body names are merged into it, and   *)
(* a second statement writes every column back.  Nothing ties the two      *)
(* together.                                                               *)
(*                                                                         *)
(* One record is modelled: no statement of these handlers touches two.     *)
(***************************************************************************)
EXTENDS Naturals, FiniteSets

CONSTANTS
    Requests,      \* HTTP requests of administrators; each is served once
    Texts,         \* values of a text column
    Bad            \* a text that is too long (or, where it counts, empty)

ASSUME CatalogueAssumption == Bad \notin Texts /\ Texts # {}

VARIABLES
    kind,          \* what the record is
    row,           \* its columns
    state,         \* "absent", "live", or "deleted" (is_deleted = 1)
    pc,            \* the next statement of each request
    ask,           \* what it asks for
    copy,          \* the row that an update has read
    result,        \* what it returned
    since,         \* history: fields others have set since an update's read
    wanted,        \* history: the value last asked for, of each field
    undone,        \* history: fields that an overlapping update wrote back
    applied        \* history: requests whose statement changed the row

dvars == <<kind, row, state>>
rvars == <<pc, ask, copy, result>>
hvars == <<since, wanted, undone, applied>>
vars  == <<dvars, rvars, hvars>>

Kinds == {"challenge", "hint", "notification"}
Switches == {"is_enabled", "is_visible"}
OnOff    == {"on", "off"}

(* The columns of a kind.  The five texts of a challenge are merged alike. *)
Fields(k) == CASE k = "challenge"    -> {"text", "is_enabled"}
               [] k = "hint"         -> {"content", "is_visible"}
               [] k = "notification" -> {"title", "message"}

ValuesOf(f) == IF f \in Switches THEN OnOff ELSE Texts

Row(k) == {c \in [Fields(k) -> Texts \cup OnOff] :
              \A f \in Fields(k) : c[f] \in ValuesOf(f)}

(* The bodies of an update: a value for each field it names.  A challenge's *)
(* body always sets is_enabled: a body without it means "off".              *)
Bodies(S) == {p \in [S -> Texts \cup {Bad} \cup OnOff] :
                 \A f \in S : p[f] \in ValuesOf(f)
                                   \cup (IF f \in Switches THEN {} ELSE {Bad})}
Patches(k) ==
    UNION {Bodies(S) : S \in {T \in SUBSET Fields(k) :
                                  k = "challenge" => "is_enabled" \in T}}

Asks(k) == [op: {"create", "delete", "none"}] \cup [op: {"update"}, patch: Patches(k)]

Names(r) == DOMAIN ask[r].patch

(* Slip: no validation. *)
SlipIsBad(p) == FALSE

IsBad(p) == \E f \in DOMAIN p : p[f] = Bad

(* What each variable may hold. *)
TypeOK ==
    /\ kind \in Kinds
    /\ row \in Row(kind)
    /\ state \in {"absent", "live", "deleted"}
    /\ pc \in [Requests -> {"idle", "read", "write", "insert", "remove", "done"}]
    /\ ask \in [Requests -> Asks(kind)]
    /\ copy \in [Requests -> Row(kind)]
    /\ result \in [Requests -> {"none", "ok", "not_found", "invalid", "error"}]
    /\ since \in [Requests -> SUBSET Fields(kind)]
    /\ wanted \in Row(kind)
    /\ undone \in SUBSET Fields(kind)
    /\ applied \in SUBSET Requests

Init ==
    /\ kind \in Kinds
    /\ row \in Row(kind)
    /\ state \in {"absent", "live"}
    /\ pc = [r \in Requests |-> "idle"]
    /\ ask = [r \in Requests |-> [op |-> "none"]]
    /\ copy = [r \in Requests |-> row]
    /\ result = [r \in Requests |-> "none"]
    /\ since = [r \in Requests |-> {}]
    /\ wanted = row
    /\ undone = {}
    /\ applied = {}

Goto(r, next) ==
    /\ pc' = [pc EXCEPT ![r] = next]
    /\ UNCHANGED result

Return(r, res) ==
    /\ pc' = [pc EXCEPT ![r] = "done"]
    /\ result' = [result EXCEPT ![r] = res]

----------------------------------------------------------------------------

(* Hints and notifications look at the body before they read the row.      *)
Begin(r, a) ==
    /\ pc[r] = "idle"
    /\ ask' = [ask EXCEPT ![r] = a]
    /\ CASE a.op = "create" ->
              /\ state = "absent"
              /\ \A q \in Requests : ask[q].op # "create"
              /\ Goto(r, "insert")
         [] a.op = "delete" -> state # "absent" /\ Goto(r, "remove")
         [] a.op = "update" ->
              /\ state # "absent"
              /\ IF kind # "challenge" /\ IsBad(a.patch)
                 THEN Return(r, "invalid") ELSE Goto(r, "read")
    /\ UNCHANGED <<dvars, copy, hvars>>

(* New records are enabled, or visible; the res_id is new, so that a       *)
(* record is created by one request at most.                               *)
NewRow(k) == {c \in Row(k) : \A f \in Fields(k) \cap Switches : c[f] = "on"}

Create(r) ==
    /\ pc[r] = "insert"
    /\ row' \in NewRow(kind)
    /\ wanted' = row'
    /\ state' = "live"
    /\ applied' = applied \cup {r}
    /\ \E res \in {"ok", "error"} : Return(r, res)
    /\ UNCHANGED <<kind, ask, copy, since, undone>>

(* Slip: a field that the body does not name is set to its zero value. *)
SlipMerged(r) == [f \in Fields(kind) |->
                    IF f \in Names(r) THEN ask[r].patch[f]
                    ELSE IF f \in Switches THEN "off" ELSE copy[r][f]]

(* The copy with the fields of the body put in. *)
Merged(r) == [f \in Fields(kind) |->
                 IF f \in Names(r) THEN ask[r].patch[f] ELSE copy[r][f]]

(* SELECT ... AND is_deleted = 0.  A challenge is validated once merged.   *)
ReadRow(r) ==
    /\ pc[r] = "read"
    /\ IF state # "live"
       THEN Return(r, "not_found") /\ UNCHANGED copy
       ELSE IF IsBad(ask[r].patch)
       THEN Return(r, "invalid") /\ UNCHANGED copy
       ELSE /\ copy' = [copy EXCEPT ![r] = row]
            /\ Goto(r, "write")
    /\ since' = [since EXCEPT ![r] = {}]
    /\ UNCHANGED <<dvars, ask, wanted, undone, applied>>

(* Slip: the UPDATE leaves out AND is_deleted = 0. *)
SlipUpdatable == state # "absent"

(* UPDATE ... WHERE res_id = ? AND is_deleted = 0. *)
Updatable == state = "live"

(* Slip: the answer is given without the UPDATE.                           *)
SlipWriteRow(r) ==
    /\ pc[r] = "write"
    /\ Return(r, "ok")
    /\ UNCHANGED <<dvars, ask, copy, hvars>>

(* Whether it found the row is not asked: the answer is the same.  The     *)
(* answer of the statement may also be lost.                               *)
WriteRow(r) ==
    /\ pc[r] = "write"
    /\ IF Updatable
       THEN /\ row' = Merged(r)
            /\ applied' = applied \cup {r}
            /\ wanted' = [f \in Fields(kind) |->
                             IF f \in Names(r) THEN ask[r].patch[f] ELSE wanted[f]]
            /\ undone' = (undone \cup since[r]) \ Names(r)
            /\ since' = [q \in Requests |->
                            IF pc[q] = "write" THEN since[q] \cup Names(r) ELSE since[q]]
       ELSE UNCHANGED <<row, hvars>>
    /\ \E res \in {"ok", "error"} : Return(r, res)
    /\ UNCHANGED <<kind, state, ask, copy>>

(* A hint or notification says whether there was one; a challenge does not.*)
Delete(r) ==
    /\ pc[r] = "remove"
    /\ IF state = "live"
       THEN /\ state' = "deleted"
            /\ applied' = applied \cup {r}
            /\ \E res \in {"ok", "error"} : Return(r, res)
       ELSE /\ Return(r, IF kind = "challenge" THEN "ok" ELSE "not_found")
            /\ UNCHANGED <<state, applied>>
    /\ UNCHANGED <<kind, row, ask, copy, since, wanted, undone>>

(* Any statement can fail. *)
StatementFails(r) ==
    /\ pc[r] \in {"read", "write", "insert", "remove"}
    /\ Return(r, "error")
    /\ UNCHANGED <<dvars, ask, copy, hvars>>

Next ==
    \E r \in Requests :
        \/ \E a \in Asks(kind) \ [op: {"none"}] : Begin(r, a)
        \/ Create(r) \/ ReadRow(r) \/ WriteRow(r) \/ Delete(r)
        \/ StatementFails(r)

Spec == Init /\ [][Next]_vars

----------------------------------------------------------------------------

(* A field has the value that was last asked for, unless an update that    *)
(* does not name it read the row before that value was written and wrote   *)
(* it back afterwards.  In particular a hidden hint or a disabled          *)
(* challenge stays so until somebody says otherwise, but for that race.    *)
UpdatesHold ==
    state = "live" => \A f \in Fields(kind) \ undone : row[f] = wanted[f]

(* Without the exception: what the handlers do not guarantee.              *)
UpdatesHoldAlways ==
    state = "live" => \A f \in Fields(kind) : row[f] = wanted[f]

(* A success is in the row, or the record is gone by now; who is told      *)
(* "not found" or "invalid" has changed nothing.                           *)
AnswersAreTrue ==
    \A r \in Requests :
        /\ result[r] = "ok" => r \in applied \/ state = "deleted"
        /\ result[r] = "not_found" => r \notin applied /\ state = "deleted"
        /\ result[r] = "invalid" => r \notin applied

(* A deleted record neither comes back nor changes, also under an update   *)
(* that read it while it was there.                                        *)
DeletedIsFinal == [][state = "deleted" => UNCHANGED dvars]_vars

============================================================================
