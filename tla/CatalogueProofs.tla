-------------------------- MODULE CatalogueProofs --------------------------
(***************************************************************************)
(* Proofs about Catalogue, for every set of requests and texts and each of *)
(* the three kinds of records: what is answered is true, what is deleted   *)
(* stays deleted, and a field keeps the value that was last asked for but  *)
(* for the overlaps that undo it.                                          *)
(***************************************************************************)
EXTENDS Catalogue, TLAPS

----------------------------------------------------------------------------
(* The inductive invariant.                                                *)

Updates(k) == [op: {"update"}, patch: Patches(k)]

(* What the control state of a request says of its body.  In particular a  *)
(* bad body gets no further than the validation.                           *)
BodyFits(r) ==
    /\ pc[r] \in {"read", "write"} => ask[r] \in Updates(kind)
    /\ pc[r] = "write" => ~IsBad(ask[r].patch)

(* Of the record: an update or a deletion was asked for when there was     *)
(* one, and the creation of it is still to come or is over.                *)
RecordFits(r) ==
    /\ pc[r] = "idle" => ask[r].op = "none"
    /\ pc[r] = "insert" => ask[r].op = "create" /\ state = "absent"
    /\ pc[r] \in {"read", "write", "remove"} => state # "absent"

(* Of the answer: there is none before the end, and nothing is in the row  *)
(* of a request that has a statement to go.                                *)
AnswerFits(r) ==
    /\ pc[r] # "done" => result[r] = "none" /\ r \notin applied
    /\ result[r] = "ok" => r \in applied \/ state = "deleted"
    /\ result[r] = "not_found" => r \notin applied /\ state = "deleted"
    /\ result[r] = "invalid" => r \notin applied

OneCreator ==
    \A q, r \in Requests :
        ask[q].op = "create" /\ ask[r].op = "create" => q = r

Bookkeeping ==
    /\ OneCreator
    /\ \A r \in Requests : BodyFits(r) /\ RecordFits(r) /\ AnswerFits(r)

(* What an update has in memory is what was last asked for, but for the    *)
(* fields that others have set since, and those that were undone before.   *)
CopyHolds(r) ==
    pc[r] = "write" =>
        \A f \in Fields(kind) \ (undone \cup since[r]) : copy[r][f] = wanted[f]

Holding ==
    /\ state = "live" => \A f \in Fields(kind) \ undone : row[f] = wanted[f]
    /\ state = "live" => \A r \in Requests : CopyHolds(r)

----------------------------------------------------------------------------
(* Type correctness.                                                       *)

(* A body names some of the columns, each with a value of its column, bad  *)
(* texts aside.                                                            *)
LEMMA BodyFields ==
    ASSUME NEW k, NEW p \in Patches(k)
    PROVE  /\ DOMAIN p \subseteq Fields(k)
           /\ \A f \in DOMAIN p : p[f] = Bad \/ p[f] \in ValuesOf(f)
<1>1. PICK S \in SUBSET Fields(k) : p \in Bodies(S)
  BY DEF Patches
<1>2. p \in [S -> Texts \cup {Bad} \cup OnOff]
      /\ \A f \in S : p[f] \in ValuesOf(f) \cup (IF f \in Switches THEN {} ELSE {Bad})
  BY <1>1 DEF Bodies
<1>3. QED
  BY <1>2

(* A body that is not bad, put into a row, makes a row. *)
LEMMA MergedIsRow ==
    ASSUME NEW r, NEW old \in Row(kind),
           ask[r] \in Updates(kind), ~IsBad(ask[r].patch)
    PROVE  [f \in Fields(kind) |->
               IF f \in Names(r) THEN ask[r].patch[f] ELSE old[f]] \in Row(kind)
<1> DEFINE new == [f \in Fields(kind) |->
                      IF f \in Names(r) THEN ask[r].patch[f] ELSE old[f]]
<1>1. ask[r].patch \in Patches(kind)
  BY DEF Updates
<1>2. \A f \in Names(r) : ask[r].patch[f] \in ValuesOf(f)
  BY <1>1, BodyFields DEF Names, IsBad
<1>3. \A f \in Fields(kind) : old[f] \in ValuesOf(f)
  BY DEF Row
<1>4. \A f : ValuesOf(f) \subseteq Texts \cup OnOff
  BY DEF ValuesOf
<1>5. \A f \in Fields(kind) : new[f] \in ValuesOf(f)
  BY <1>2, <1>3
<1>6. new \in [Fields(kind) -> Texts \cup OnOff]
  BY <1>4, <1>5
<1>7. QED
  BY <1>5, <1>6 DEF Row

(* Every step keeps the types, given that no bad body is merged. *)
LEMMA StepTypeOK ==
    ASSUME TypeOK, Bookkeeping, Next
    PROVE  TypeOK'
<1> USE DEF TypeOK, Goto, Return, dvars, hvars
<1>1. PICK r \in Requests :
         \/ \E a \in Asks(kind) \ [op: {"none"}] : Begin(r, a)
         \/ Create(r) \/ ReadRow(r) \/ WriteRow(r) \/ Delete(r)
         \/ StatementFails(r)
  BY DEF Next
<1>2. ASSUME NEW a \in Asks(kind) \ [op: {"none"}], Begin(r, a)
      PROVE  TypeOK'
  <2>1. a.op \in {"create", "delete", "update"}
    BY DEF Asks
  <2>2. /\ pc' \in [Requests -> {"idle", "read", "write", "insert", "remove", "done"}]
        /\ result' \in [Requests -> {"none", "ok", "not_found", "invalid", "error"}]
    BY <1>2, <2>1 DEF Begin
  <2>3. QED
    BY <1>2, <2>2 DEF Begin
<1>3. CASE Create(r)
  <2>1. row' \in Row(kind)
    BY <1>3 DEF Create, NewRow
  <2>2. QED
    BY <1>3, <2>1 DEF Create
<1>4. CASE ReadRow(r)
  BY <1>4 DEF ReadRow
<1>5. CASE WriteRow(r)
  <2>1. CASE Updatable
    <3>1. ask[r] \in Updates(kind) /\ ~IsBad(ask[r].patch)
      BY <1>5 DEF WriteRow, Bookkeeping, BodyFits
    <3>2. Merged(r) \in Row(kind)
      BY <3>1, MergedIsRow DEF Merged
    <3>3. Names(r) \subseteq Fields(kind)
      BY <3>1, BodyFields DEF Updates, Names
    <3>4. wanted' = [f \in Fields(kind) |->
                        IF f \in Names(r) THEN ask[r].patch[f] ELSE wanted[f]]
      BY <1>5, <2>1 DEF WriteRow
    <3>5. wanted' \in Row(kind)
      BY <3>1, <3>4, MergedIsRow
    <3>6. since' \in [Requests -> SUBSET Fields(kind)]
      BY <1>5, <2>1, <3>3 DEF WriteRow
    <3>7. QED
      BY <1>5, <2>1, <3>2, <3>5, <3>6 DEF WriteRow
  <2>2. CASE ~Updatable
    BY <1>5, <2>2 DEF WriteRow
  <2>3. QED
    BY <2>1, <2>2
<1>6. CASE Delete(r)
  BY <1>6 DEF Delete
<1>7. CASE StatementFails(r)
  BY <1>7 DEF StatementFails
<1>8. QED
  BY <1>1, <1>2, <1>3, <1>4, <1>5, <1>6, <1>7

----------------------------------------------------------------------------
(* The books.                                                              *)

(* What one request does to the record is nothing that the books of        *)
(* another would contradict.                                               *)
LEMMA OthersKeepBooks ==
    ASSUME Bookkeeping, NEW r \in Requests, NEW s \in Requests \ {r},
           pc'[s] = pc[s], ask'[s] = ask[s], result'[s] = result[s],
           kind' = kind, applied' \in {applied, applied \cup {r}},
           \/ state' = state
           \/ state = "absent" /\ state' = "live" /\ pc[r] = "insert"
           \/ state = "live" /\ state' = "deleted"
    PROVE  BodyFits(s)' /\ RecordFits(s)' /\ AnswerFits(s)'
<1>1. pc[r] = "insert" => pc[s] # "insert"
  BY DEF Bookkeeping, RecordFits, OneCreator
<1>2. BodyFits(s)'
  BY DEF Bookkeeping, BodyFits
<1>3. RecordFits(s)'
  BY <1>1 DEF Bookkeeping, RecordFits
<1>4. AnswerFits(s)'
  BY DEF Bookkeeping, AnswerFits
<1>5. QED
  BY <1>2, <1>3, <1>4

(* The ways in which a request begins. *)
LEMMA Beginnings ==
    ASSUME TypeOK, NEW r \in Requests,
           NEW a \in Asks(kind) \ [op: {"none"}], Begin(r, a)
    PROVE  /\ pc[r] = "idle" /\ ask' = [ask EXCEPT ![r] = a]
           /\ UNCHANGED <<dvars, copy, hvars>>
           /\ \A s \in Requests \ {r} : pc'[s] = pc[s] /\ result'[s] = result[s]
           /\ \/ /\ a.op = "create" /\ state = "absent"
                 /\ \A q \in Requests : ask[q].op # "create"
                 /\ pc'[r] = "insert" /\ result' = result
              \/ /\ a.op = "delete" /\ state # "absent"
                 /\ pc'[r] = "remove" /\ result' = result
              \/ /\ a \in Updates(kind) /\ a.op = "update" /\ state # "absent"
                 /\ \/ pc'[r] = "read" /\ result' = result
                    \/ pc'[r] = "done" /\ result'[r] = "invalid"
<1>1. a.op \in {"create", "delete"} \/ (a.op = "update" /\ a \in Updates(kind))
  BY DEF Asks, Updates
<1>2. CASE a.op = "create"
  BY <1>2 DEF Begin, Goto, TypeOK
<1>3. CASE a.op = "delete"
  BY <1>3 DEF Begin, Goto, TypeOK
<1>4. CASE a.op = "update" /\ a \in Updates(kind)
  BY <1>4 DEF Begin, Goto, Return, TypeOK
<1>5. QED
  BY <1>1, <1>2, <1>3, <1>4

(* Each step keeps the books. *)
LEMMA StepBookkeeping ==
    ASSUME TypeOK, Bookkeeping, Next
    PROVE  Bookkeeping'
<1> USE DEF Goto, Return, dvars, hvars
<1>1. PICK r \in Requests :
         \/ \E a \in Asks(kind) \ [op: {"none"}] : Begin(r, a)
         \/ Create(r) \/ ReadRow(r) \/ WriteRow(r) \/ Delete(r)
         \/ StatementFails(r)
  BY DEF Next
<1>2. BodyFits(r) /\ RecordFits(r) /\ AnswerFits(r)
  BY DEF Bookkeeping
<1>3. \A s \in Requests \ {r} :
         pc'[s] = pc[s] /\ ask'[s] = ask[s] /\ result'[s] = result[s]
  <2>1. ASSUME NEW a \in Asks(kind) \ [op: {"none"}], Begin(r, a),
               NEW s \in Requests \ {r}
        PROVE  pc'[s] = pc[s] /\ ask'[s] = ask[s] /\ result'[s] = result[s]
    BY <2>1, Beginnings DEF TypeOK
  <2>2. QED
    BY <1>1, <2>1 DEF Create, ReadRow, WriteRow, Delete, StatementFails, TypeOK
<1>4. kind' = kind /\ applied' \in {applied, applied \cup {r}}
  BY <1>1 DEF Begin, Create, ReadRow, WriteRow, Delete, StatementFails
<1>5. \/ state' = state
      \/ state = "absent" /\ state' = "live" /\ pc[r] = "insert"
      \/ state = "live" /\ state' = "deleted"
  BY <1>1, <1>2
     DEF Begin, Create, ReadRow, WriteRow, Delete, StatementFails, RecordFits
<1>6. \A s \in Requests \ {r} : BodyFits(s)' /\ RecordFits(s)' /\ AnswerFits(s)'
  BY <1>3, <1>4, <1>5, OthersKeepBooks
<1>7. OneCreator' /\ BodyFits(r)' /\ RecordFits(r)' /\ AnswerFits(r)'
  <2>1. ASSUME NEW a \in Asks(kind) \ [op: {"none"}], Begin(r, a)
        PROVE  OneCreator' /\ BodyFits(r)' /\ RecordFits(r)' /\ AnswerFits(r)'
    <3>1. OneCreator'
      BY <2>1, Beginnings DEF Bookkeeping, OneCreator, TypeOK
    <3>2. BodyFits(r)' /\ RecordFits(r)'
      BY <2>1, Beginnings DEF BodyFits, RecordFits, TypeOK
    <3>3. AnswerFits(r)'
      BY <1>2, <2>1, Beginnings DEF AnswerFits
    <3>4. QED
      BY <3>1, <3>2, <3>3
  <2>2. ASSUME \/ Create(r) \/ ReadRow(r) \/ WriteRow(r) \/ Delete(r)
               \/ StatementFails(r)
        PROVE  OneCreator' /\ BodyFits(r)' /\ RecordFits(r)' /\ AnswerFits(r)'
    <3>1. OneCreator'
      BY <2>2 DEF Create, ReadRow, WriteRow, Delete, StatementFails,
                  Bookkeeping, OneCreator
    <3>2. CASE Create(r)
      BY <1>2, <3>1, <3>2 DEF Create, BodyFits, RecordFits, AnswerFits, TypeOK
    <3>3. CASE ReadRow(r)
      BY <1>2, <3>1, <3>3 DEF ReadRow, BodyFits, RecordFits, AnswerFits, TypeOK
    <3>4. CASE WriteRow(r)
      BY <1>2, <3>1, <3>4 DEF WriteRow, Updatable, BodyFits, RecordFits, AnswerFits, TypeOK
    <3>5. CASE Delete(r)
      BY <1>2, <3>1, <3>5 DEF Delete, BodyFits, RecordFits, AnswerFits, TypeOK
    <3>6. CASE StatementFails(r)
      BY <1>2, <3>1, <3>6 DEF StatementFails, BodyFits, RecordFits, AnswerFits, TypeOK
    <3>7. QED
      BY <2>2, <3>1, <3>2, <3>3, <3>4, <3>5, <3>6
  <2>3. QED
    BY <1>1, <2>1, <2>2
<1>8. QED
  BY <1>6, <1>7 DEF Bookkeeping

(* The invariant holds at the beginning. *)
LEMMA InitBookkeeping ==
    ASSUME Init
    PROVE  TypeOK /\ Bookkeeping
<1> USE DEF Init
<1>1. TypeOK
  BY DEF TypeOK, Asks
<1>2. Bookkeeping
  BY DEF Bookkeeping, OneCreator, BodyFits, RecordFits, AnswerFits
<1>3. QED
  BY <1>1, <1>2

(* The inductive invariant: types, and for each request what its control   *)
(* state and its answer say of its body and of the record.  The types      *)
(* alone are not inductive: that a row stays a row takes that no bad body  *)
(* gets as far as the UPDATE.                                              *)
THEOREM BooksKept == Spec => [](TypeOK /\ Bookkeeping)
<1>1. TypeOK /\ Bookkeeping /\ UNCHANGED vars => TypeOK' /\ Bookkeeping'
  BY DEF TypeOK, Bookkeeping, OneCreator, BodyFits, RecordFits, AnswerFits,
         vars, dvars, rvars, hvars
<1>2. TypeOK /\ Bookkeeping /\ [Next]_vars => TypeOK' /\ Bookkeeping'
  BY <1>1, StepTypeOK, StepBookkeeping
<1>3. QED
  BY <1>2, InitBookkeeping, PTL DEF Spec

(* Every variable keeps its type, for any number of requests. *)
THEOREM TypeCorrect == Spec => []TypeOK
BY BooksKept, PTL

(* A success is in the row unless the record is gone, and a refusal has    *)
(* changed nothing, however many requests interleave and whatever fails.   *)
THEOREM AnswersTrue == Spec => []AnswersAreTrue
<1>1. Bookkeeping => AnswersAreTrue
  BY DEF Bookkeeping, AnswerFits, AnswersAreTrue
<1>2. QED
  BY <1>1, BooksKept, PTL

(* No statement of any request changes a deleted record or revives it,     *)
(* also that of an update which read it before.                            *)
THEOREM DeletedStays == Spec => DeletedIsFinal
<1>1. TypeOK /\ Bookkeeping /\ [Next]_vars
         => [state = "deleted" => UNCHANGED dvars]_vars
  <2>1. SUFFICES ASSUME Bookkeeping, Next, state = "deleted"
                 PROVE  UNCHANGED dvars
    OBVIOUS
  <2>2. \A r \in Requests : pc[r] # "insert"
    BY <2>1 DEF Bookkeeping, RecordFits
  <2>3. QED
    BY <2>1, <2>2 DEF Next, Begin, Create, ReadRow, WriteRow, Updatable,
                      Delete, StatementFails, dvars
<1>2. QED
  BY <1>1, BooksKept, PTL DEF Spec, DeletedIsFinal

----------------------------------------------------------------------------
(* What was last asked for.                                                *)

(* While the record lives, each step keeps what the row and the copies in  *)
(* memory have to do with what was last asked for.                         *)
LEMMA StepHolding ==
    ASSUME TypeOK, Bookkeeping, Holding, Next
    PROVE  Holding'
<1> USE DEF Goto, Return, dvars, hvars
<1>1. PICK r \in Requests :
         \/ \E a \in Asks(kind) \ [op: {"none"}] : Begin(r, a)
         \/ Create(r) \/ ReadRow(r) \/ WriteRow(r) \/ Delete(r)
         \/ StatementFails(r)
  BY DEF Next
<1>2. ASSUME NEW a \in Asks(kind) \ [op: {"none"}], Begin(r, a)
      PROVE  Holding'
  <2>1. \A s \in Requests : pc'[s] = "write" => pc[s] = "write"
    BY <1>2, Beginnings
  <2>2. QED
    BY <1>2, <2>1, Beginnings DEF Holding, CopyHolds
<1>3. CASE Create(r)
  <2>1. state = "absent"
    BY <1>3 DEF Create, Bookkeeping, RecordFits
  <2>2. \A s \in Requests : pc'[s] # "write"
    BY <1>3, <2>1 DEF Create, Bookkeeping, RecordFits, TypeOK
  <2>3. QED
    BY <1>3, <2>2 DEF Create, Holding, CopyHolds
<1>4. CASE ReadRow(r)
  <2>1. state = "live" => CopyHolds(r)'
    BY <1>4 DEF ReadRow, Holding, CopyHolds, TypeOK
  <2>2. ASSUME state = "live", NEW s \in Requests \ {r}
        PROVE  CopyHolds(s)'
    BY <1>4, <2>2 DEF ReadRow, Holding, CopyHolds, TypeOK
  <2>3. QED
    BY <1>4, <2>1, <2>2 DEF ReadRow, Holding
<1>5. CASE WriteRow(r)
  <2>1. CASE state = "live"
    <3>1. /\ wanted' = [f \in Fields(kind) |->
                           IF f \in Names(r) THEN ask[r].patch[f] ELSE wanted[f]]
          /\ row' = [f \in Fields(kind) |->
                        IF f \in Names(r) THEN ask[r].patch[f] ELSE copy[r][f]]
          /\ undone' = (undone \cup since[r]) \ Names(r)
          /\ kind' = kind /\ copy' = copy
      BY <1>5, <2>1 DEF WriteRow, Updatable, Merged
    <3>2. CopyHolds(r) /\ pc[r] = "write"
      BY <1>5, <2>1 DEF WriteRow, Holding
    <3>3. \A f \in Fields(kind) \ undone' : row'[f] = wanted'[f]
      BY <3>1, <3>2 DEF CopyHolds
    <3>4. ASSUME NEW s \in Requests, pc'[s] = "write",
                 NEW f \in Fields(kind) \ (undone' \cup since'[s])
          PROVE  copy[s][f] = wanted'[f]
      <4>1. s # r /\ pc[s] = "write"
        BY <1>5, <3>4 DEF WriteRow, TypeOK
      <4>2. since'[s] = since[s] \cup Names(r)
        BY <1>5, <2>1, <4>1 DEF WriteRow, Updatable
      <4>3. f \notin Names(r) /\ f \notin undone /\ f \notin since[s]
        BY <3>1, <3>4, <4>2
      <4>4. CopyHolds(s)
        BY <2>1 DEF Holding
      <4>5. QED
        BY <3>1, <4>1, <4>3, <4>4 DEF CopyHolds
    <3>5. QED
      BY <3>1, <3>3, <3>4 DEF Holding, CopyHolds
  <2>2. CASE state # "live"
    BY <1>5, <2>2 DEF WriteRow, Holding
  <2>3. QED
    BY <2>1, <2>2
<1>6. CASE Delete(r)
  BY <1>6 DEF Delete, Holding, CopyHolds, TypeOK
<1>7. CASE StatementFails(r)
  BY <1>7 DEF StatementFails, Holding, CopyHolds, TypeOK
<1>8. QED
  BY <1>1, <1>2, <1>3, <1>4, <1>5, <1>6, <1>7

(* A field keeps the value last asked for, except where an update that had *)
(* read it before writes back what it had read.  The invariant that makes  *)
(* it inductive says the same of every copy in memory.                     *)
THEOREM UpdatesHeld == Spec => []UpdatesHold
<1>1. Init => Holding
  BY DEF Init, Holding, CopyHolds
<1>2. Holding /\ UNCHANGED vars => Holding'
  BY DEF Holding, CopyHolds, vars, dvars, rvars, hvars
<1>3. TypeOK /\ Bookkeeping /\ Holding /\ [Next]_vars => Holding'
  BY <1>2, StepHolding
<1>4. Holding => UpdatesHold
  BY DEF Holding, UpdatesHold
<1>5. QED
  BY <1>1, <1>3, <1>4, BooksKept, PTL DEF Spec

============================================================================
