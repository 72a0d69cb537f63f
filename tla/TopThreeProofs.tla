-------------------------- MODULE TopThreeProofs --------------------------
(***************************************************************************)
(* Proofs about TopThree, for every set of users, teams and readers, every *)
(* choice of failures, and a mode that changes however often: the cache    *)
(* shows nothing but records, an event is passed over for a cause only,    *)
(* and the records are a board of at most three solvers that grows at its  *)
(* end only.  What serialises the decisions is InnoDB's locks: the         *)
(* inductive invariant says what they protect.                             *)
(***************************************************************************)
EXTENDS TopThreeBoard, FiniteSetTheorems, SequenceTheorems, TLAPS

----------------------------------------------------------------------------
(* The inductive invariant.                                                *)

Published == {u \in Users : pc[u] # "idle"}

(* The handlers that are past their transaction. *)
Past == InCache \cup {"done"}

(* Finitely many, and as many places are taken as there are records. *)
Dense ==
    /\ IsFiniteSet(Published)
    /\ IsFiniteSet(rows)
    /\ Cardinality(rows) <= 3
    /\ \A row \in rows : row.rank \in 1 .. Cardinality(rows)
    /\ \A k \in 1 .. Cardinality(rows) : \E row \in rows : row.rank = k
    /\ \A a, b \in rows : a.rank = b.rank => a = b

(* Gap locks are held on an empty range only, by transactions that are     *)
(* about to insert.                                                        *)
GapLocksFit ==
    \A h \in gapLock : pc[h] = "insert" /\ rows = {}

(* A row lock is exclusive, of gap locks too. *)
RowLocksFit ==
    \A h \in rowLock : /\ pc[h] \in {"insert", "commit"}
                       /\ rowLock = {h} /\ gapLock = {}

(* What a transaction decided upon holds as long as its locks. *)
Protected(h) ==
    /\ h \in gapLock \cup rowLock
    /\ pc[h] = "commit" => h \in rowLock
    /\ current[h] = rows
    /\ Cardinality(rows) < 3
    /\ ~EntityIn(h, rows)

LocksProtect ==
    /\ GapLocksFit /\ RowLocksFit
    /\ \A h \in Users : pc[h] \in {"insert", "commit"} => Protected(h)

(* A record comes of a handler that is past its transaction, and so does   *)
(* every outcome.                                                          *)
OutcomesFit ==
    /\ \A row \in rows : pc[row.user] \in Past
    /\ \A h \in Users : pc[h] \notin Past => outcome[h] = "none"

(* What is in the cache, or on its way there, are records. *)
CachesFit ==
    /\ CachesShowRecords
    /\ \A h \in Users : fetched[h] \subseteq rows
    /\ \A r \in Readers : rfetched[r] \subseteq rows

IInv == TypeOK /\ Dense /\ LocksProtect /\ OutcomesFit /\ CachesFit

----------------------------------------------------------------------------
(* A record is added.                                                      *)

Records(h) == Commit(h) \/ CommitUnacknowledged(h)

(* The record that a handler commits is of a user who has none, takes the  *)
(* place behind the others, and is no team mate's.                         *)
LEMMA RecordIsNext ==
    ASSUME IInv, NEW h \in Users, Records(h)
    PROVE  /\ rowLock = {h} /\ gapLock = {} /\ pc[h] = "commit"
           /\ NewRow(h) \in Row /\ NewRow(h).rank = Cardinality(rows) + 1
           /\ rows' = rows \cup {NewRow(h)} /\ NewRow(h) \notin rows
           /\ IsFiniteSet(rows') /\ Cardinality(rows') = Cardinality(rows) + 1
           /\ Cardinality(rows) \in 0 .. 2
<1>1. pc[h] = "commit" /\ rows' = rows \cup {NewRow(h)}
  BY DEF Records, Commit, CommitUnacknowledged
<1>2. Protected(h) /\ rowLock = {h} /\ gapLock = {}
  BY <1>1 DEF IInv, LocksProtect, Protected, RowLocksFit
<1>3. IsFiniteSet(rows) /\ Cardinality(rows) \in 0 .. 2
  BY <1>2, FS_CardinalityType DEF IInv, Dense, Protected
<1>4. NewRow(h) \in Row /\ NewRow(h).rank = Cardinality(rows) + 1
  BY <1>2, <1>3 DEF NewRow, Row, TeamIDs, Event, IInv, TypeOK, Protected
<1>5. NewRow(h) \notin rows
  BY <1>3, <1>4 DEF IInv, Dense
<1>6. QED
  BY <1>1, <1>2, <1>3, <1>4, <1>5, FS_AddElement

----------------------------------------------------------------------------
(* Each part of the invariant is kept.                                     *)

LEMMA StepTypeOK ==
    ASSUME IInv, Next
    PROVE  TypeOK'
<1> USE DEF IInv, TypeOK, locks, readers
<1>1. ASSUME NEW h \in Users, Publish(h)
      PROVE  TypeOK'
  <2>1. Cardinality(Published) + 1 \in Nat
    BY FS_CardinalityType DEF Dense
  <2>2. ev' \in [Users -> Event]
    BY <1>1, <2>1 DEF Publish, Published, Event
  <2>3. QED
    BY <1>1, <2>2 DEF Publish, Goto, Running
<1>2. ASSUME NEW h \in Users, Records(h)
      PROVE  TypeOK'
  BY <1>2, RecordIsNext
     DEF Records, Commit, CommitUnacknowledged, Goto, Decide, Finish, Release,
         Running, InTx, InCache, Outcomes
<1>3. ASSUME NEW h \in Users, Handle(h), ~Commit(h)
      PROVE  TypeOK'
  <2> USE DEF Goto, Decide, Finish, Release, Running, InTx, InCache, Outcomes
  <2>1. CASE CheckCache(h)
    BY <2>1 DEF CheckCache
  <2>2. CASE ReadMode(h)
    BY <2>2 DEF ReadMode
  <2>3. CASE LockAndRead(h)
    BY <2>3 DEF LockAndRead
  <2>4. CASE Insert(h)
    BY <2>4 DEF Insert
  <2>5. CASE Deadlock(h)
    BY <2>5 DEF Deadlock
  <2>6. CASE Refresh(h)
    <3>1. PICK entry \in SUBSET Row : fetched' = [fetched EXCEPT ![h] = entry]
      BY <2>6 DEF Refresh
    <3>2. QED
      BY <2>6, <3>1 DEF Refresh
  <2>7. CASE StoreEntry(h)
    BY <2>7 DEF StoreEntry
  <2>8. CASE ClearMap(h)
    BY <2>8 DEF ClearMap, Absent
  <2>9. QED
    BY <1>3, <2>1, <2>2, <2>3, <2>4, <2>5, <2>6, <2>7, <2>8 DEF Handle
<1>4. ASSUME NEW h \in Users, StatementFails(h)
      PROVE  TypeOK'
  BY <1>4 DEF StatementFails, Release, Finish, Goto, Decide, Outcomes, Running
<1>5. CASE Crash
  BY <1>5 DEF Crash, Running, Absent, Outcomes
<1>6. ASSUME NEW r \in Readers, NEW v \in Views, ReadMiss(r, v)
      PROVE  TypeOK'
  BY <1>6 DEF ReadMiss
<1>7. ASSUME NEW r \in Readers, Finishes(r) \/ QueryFails(r)
      PROVE  TypeOK'
  BY <1>7 DEF Finishes, Query, StoreView, QueryFails
<1>8. CASE ExpireEntry \/ \E v \in Views : ExpireView(v)
  BY <1>8 DEF ExpireEntry, ExpireView, Absent
<1>9. CASE CompetitionChanges
  BY <1>9, ConstantsAssumption DEF CompetitionChanges, AnyMode
<1>10. QED
  BY <1>1, <1>2, <1>3, <1>4, <1>5, <1>6, <1>7, <1>8, <1>9 DEF Next, Records

(* Nothing but a commit adds records. *)
LEMMA OthersAddNone ==
    ASSUME Next, \A h \in Users : ~Records(h)
    PROVE  rows' = rows
  BY DEF Next, Records, Handle, Publish, CheckCache, ReadMode, LockAndRead,
         Insert, Deadlock, Refresh, StoreEntry, ClearMap, StatementFails, Crash,
         ReadMiss, Finishes, Query, StoreView, QueryFails, ExpireEntry,
         ExpireView, CompetitionChanges

LEMMA StepDense ==
    ASSUME IInv, Next
    PROVE  Dense'
<1>1. IsFiniteSet(Published')
  <2>1. ASSUME NEW h \in Users, Publish(h)
        PROVE  IsFiniteSet(Published')
    <3>1. Published' = Published \cup {h}
      BY <2>1 DEF Publish, Goto, Published, IInv, TypeOK
    <3>2. QED
      BY <3>1, FS_AddElement DEF IInv, Dense
  <2>2. CASE \A h \in Users : ~Publish(h)
    <3>1. Published' \subseteq Published
      BY <2>2 DEF Published, IInv, TypeOK, Running, InTx, InCache, Next, Handle,
             CheckCache, ReadMode, LockAndRead, Insert, Deadlock, Commit,
             Refresh, StoreEntry, ClearMap, StatementFails, CommitUnacknowledged,
             Crash, ReadMiss, Finishes, Query, StoreView, QueryFails,
             ExpireEntry, ExpireView, CompetitionChanges, Goto, Finish
    <3>2. QED
      BY <3>1, FS_Subset DEF IInv, Dense
  <2>3. QED
    BY <2>1, <2>2
<1>2. CASE \E h \in Users : Records(h)
  <2>1. PICK h \in Users : Records(h)
    BY <1>2
  <2> DEFINE n == Cardinality(rows)
  <2>2. /\ rows' = rows \cup {NewRow(h)} /\ NewRow(h).rank = n + 1
        /\ n \in 0 .. 2 /\ Cardinality(rows') = n + 1 /\ IsFiniteSet(rows')
    BY <2>1, RecordIsNext
  <2>3. \A row \in rows' : row.rank \in 1 .. n + 1
    BY <2>2 DEF IInv, Dense
  <2>4. \A k \in 1 .. n + 1 : \E row \in rows' : row.rank = k
    <3>1. \A k \in 1 .. n + 1 : k \in 1 .. n \/ k = n + 1
      BY <2>2
    <3>2. QED
      BY <2>2, <3>1 DEF IInv, Dense
  <2>5. \A a, b \in rows' : a.rank = b.rank => a = b
    BY <2>2 DEF IInv, Dense
  <2>6. QED
    <3>1. Cardinality(rows') = n + 1 /\ Cardinality(rows') <= 3
      BY <2>2
    <3>2. QED
      BY <1>1, <2>2, <2>3, <2>4, <2>5, <3>1 DEF Dense
<1>3. CASE \A h \in Users : ~Records(h)
  BY <1>1, <1>3, OthersAddNone DEF IInv, Dense
<1>4. QED
  BY <1>2, <1>3

LEMMA StepLocksProtect ==
    ASSUME IInv, Next
    PROVE  LocksProtect'
<1> USE DEF IInv, TypeOK, locks, readers, LocksProtect, GapLocksFit,
            RowLocksFit, Protected, EntityIn
<1>1. ASSUME NEW h \in Users, Publish(h)
      PROVE  LocksProtect'
  BY <1>1 DEF Publish, Goto
<1>2. ASSUME NEW h \in Users, Records(h)
      PROVE  LocksProtect'
  <2>1. rowLock' = {} /\ gapLock' = {}
    BY <1>2, RecordIsNext DEF Records, Commit, CommitUnacknowledged, Release
  <2>2. \A s \in Users : pc'[s] \notin {"insert", "commit"}
    BY <1>2, RecordIsNext DEF Records, Commit, CommitUnacknowledged, Goto, Finish
  <2>3. QED
    BY <2>1, <2>2
<1>3. ASSUME NEW h \in Users, Handle(h), ~Commit(h)
      PROVE  LocksProtect'
  <2> USE DEF Goto, Decide, Finish, Release
  <2>1. CASE CheckCache(h) \/ ReadMode(h) \/ Refresh(h) \/ StoreEntry(h) \/ ClearMap(h)
    BY <2>1 DEF CheckCache, ReadMode, Refresh, StoreEntry, ClearMap
  <2>2. CASE LockAndRead(h)
    BY <2>2, FS_CardinalityType DEF LockAndRead, Dense
  <2>3. CASE Insert(h)
    BY <2>3 DEF Insert
  <2>4. CASE Deadlock(h)
    BY <2>4 DEF Deadlock
  <2>5. QED
    BY <1>3, <2>1, <2>2, <2>3, <2>4 DEF Handle
<1>4. ASSUME NEW h \in Users, StatementFails(h)
      PROVE  LocksProtect'
  BY <1>4 DEF StatementFails, Release, Finish, Goto
<1>5. CASE Crash
  BY <1>5 DEF Crash, Running, InTx
<1>6. CASE \/ \E r \in Readers, v \in Views : ReadMiss(r, v)
           \/ \E r \in Readers : Finishes(r) \/ QueryFails(r)
           \/ ExpireEntry \/ \E v \in Views : ExpireView(v)
           \/ CompetitionChanges
  BY <1>6 DEF ReadMiss, Finishes, Query, StoreView, QueryFails, ExpireEntry,
              ExpireView, CompetitionChanges
<1>7. QED
  BY <1>1, <1>2, <1>3, <1>4, <1>5, <1>6 DEF Next, Records

(* No step takes a handler back before its transaction. *)
LEMMA PastStays ==
    ASSUME TypeOK, Next
    PROVE  \A u \in Users : pc[u] \in Past => pc'[u] \in Past
  BY DEF TypeOK, Past, Running, InTx, InCache, Next, Handle, Publish, CheckCache,
         ReadMode, LockAndRead, Insert, Deadlock, Commit, Refresh, StoreEntry,
         ClearMap, StatementFails, CommitUnacknowledged, Crash, ReadMiss,
         Finishes, Query, StoreView, QueryFails, ExpireEntry, ExpireView,
         CompetitionChanges, Goto, Finish

(* The decision that a step takes, if it takes one, is that of one handler. *)
LEMMA Decisions ==
    ASSUME TypeOK, Next
    PROVE  \/ outcome' = outcome
           \/ Crash
           \/ \E h \in Users :
                 /\ \/ CheckCache(h) \/ ReadMode(h) \/ LockAndRead(h)
                    \/ Deadlock(h) \/ Records(h) \/ StatementFails(h)
                 /\ pc'[h] \in Past
                 /\ \A u \in Users \ {h} : outcome'[u] = outcome[u]
  BY DEF TypeOK, Past, Running, InTx, InCache, Next, Handle, Publish, CheckCache,
         ReadMode, LockAndRead, Insert, Deadlock, Records, Commit, Refresh,
         StoreEntry, ClearMap, StatementFails, CommitUnacknowledged, ReadMiss,
         Finishes, Query, StoreView, QueryFails, ExpireEntry, ExpireView,
         CompetitionChanges, Goto, Finish, Decide

LEMMA StepOutcomesFit ==
    ASSUME IInv, Next
    PROVE  OutcomesFit'
<1>1. \A row \in rows' : pc'[row.user] \in Past
  <2>1. CASE \E h \in Users : Records(h)
    <3>1. PICK h \in Users : Records(h)
      BY <2>1
    <3>2. pc'[h] \in Past
      BY <3>1 DEF Records, Commit, CommitUnacknowledged, Goto, Finish, Past,
                  InCache, IInv, TypeOK
    <3>3. rows' = rows \cup {NewRow(h)} /\ NewRow(h).user = h
      BY <3>1, RecordIsNext DEF NewRow
    <3>4. \A row \in rows : row.user \in Users
      BY DEF IInv, TypeOK, Row
    <3>5. QED
      BY <3>2, <3>3, <3>4, PastStays DEF IInv, OutcomesFit
  <2>2. CASE \A h \in Users : ~Records(h)
    BY <2>2, OthersAddNone, PastStays DEF IInv, OutcomesFit, TypeOK, Row
  <2>3. QED
    BY <2>1, <2>2
<1>2. ASSUME NEW u \in Users, pc'[u] \notin Past
      PROVE  outcome'[u] = "none"
  <2>1. pc[u] \notin Past
    BY <1>2, PastStays DEF IInv
  <2>2. ~Crash \/ pc[u] \notin Running
    BY <1>2 DEF Crash, Past
  <2>3. outcome'[u] = outcome[u]
    BY <1>2, <2>2, Decisions DEF IInv, Crash, TypeOK
  <2>4. QED
    BY <2>1, <2>3 DEF IInv, OutcomesFit
<1>3. QED
  BY <1>1, <1>2 DEF OutcomesFit

LEMMA StepCachesFit ==
    ASSUME IInv, Next
    PROVE  CachesFit'
<1>1. rows \subseteq rows'
  BY OthersAddNone, RecordIsNext
<1> USE DEF IInv, TypeOK, CachesFit, CachesShowRecords, Absent
<1>2. ASSUME NEW h \in Users, Handle(h)
      PROVE  CachesFit'
  <2>1. CASE Refresh(h)
    BY <2>1 DEF Refresh, readers
  <2>2. CASE StoreEntry(h)
    BY <2>2 DEF StoreEntry, readers
  <2>3. CASE ClearMap(h)
    BY <2>3 DEF ClearMap, readers
  <2>4. CASE CheckCache(h) \/ ReadMode(h) \/ LockAndRead(h) \/ Insert(h)
             \/ Deadlock(h) \/ Commit(h)
    BY <1>1, <2>4 DEF CheckCache, ReadMode, LockAndRead, Insert, Deadlock, Commit, readers
  <2>5. QED
    BY <1>2, <2>1, <2>2, <2>3, <2>4 DEF Handle
<1>3. ASSUME NEW r \in Readers, Finishes(r)
      PROVE  CachesFit'
  BY <1>3 DEF Finishes, Query, StoreView
<1>4. CASE Crash
  BY <1>4 DEF Crash
<1>5. CASE ExpireEntry \/ \E v \in Views : ExpireView(v)
  BY <1>5 DEF ExpireEntry, ExpireView, readers
<1>6. CASE \/ \E h \in Users : Publish(h) \/ StatementFails(h) \/ CommitUnacknowledged(h)
           \/ \E r \in Readers, v \in Views : ReadMiss(r, v)
           \/ \E r \in Readers : QueryFails(r)
           \/ CompetitionChanges
  BY <1>1, <1>6 DEF Publish, StatementFails, CommitUnacknowledged, ReadMiss,
                    QueryFails, CompetitionChanges, readers
<1>7. QED
  BY <1>2, <1>3, <1>4, <1>5, <1>6 DEF Next

LEMMA InitIInv ==
    ASSUME Init
    PROVE  IInv
<1>1. TypeOK
  BY ConstantsAssumption
     DEF Init, TypeOK, AnyMode, Event, TeamIDs, Outcomes, Absent, Views
<1>2. Published = {} /\ rows = {}
  BY DEF Init, Published
<1>3. Dense
  BY <1>2, FS_EmptySet DEF Dense
<1>4. LocksProtect /\ OutcomesFit /\ CachesFit
  BY DEF Init, LocksProtect, GapLocksFit, RowLocksFit, OutcomesFit, CachesFit,
         CachesShowRecords, Absent
<1>5. QED
  BY <1>1, <1>3, <1>4 DEF IInv

LEMMA NextIInv ==
    ASSUME IInv, [Next]_vars
    PROVE  IInv'
<1>1. CASE Next
  BY <1>1, StepTypeOK, StepDense, StepLocksProtect, StepOutcomesFit, StepCachesFit
     DEF IInv
<1>2. CASE UNCHANGED vars
  BY <1>2 DEF vars, locks, readers, IInv, TypeOK, Dense, Published, LocksProtect,
              GapLocksFit, RowLocksFit, Protected, EntityIn, OutcomesFit,
              CachesFit, CachesShowRecords
<1>3. QED
  BY <1>1, <1>2

----------------------------------------------------------------------------
(* The theorems.                                                           *)

THEOREM Invariant == Spec => []IInv
<1>1. Init => IInv
  BY InitIInv
<1>2. IInv /\ [Next]_vars => IInv'
  BY NextIInv
<1>3. QED
  BY <1>1, <1>2, PTL DEF Spec

(* Every variable keeps its type, whoever runs concurrently, crashes       *)
(* included: a place is never beyond the third, and every count is of a    *)
(* finite set.                                                             *)
THEOREM TypeCorrect == Spec => []TypeOK
<1>1. IInv => TypeOK
  BY DEF IInv
<1>2. QED
  BY <1>1, Invariant, PTL

(* The cache shows no record that is not committed, in whatever order the  *)
(* refreshes, the readers and the expirations interleave.                  *)
THEOREM CachesTrue == Spec => []CachesShowRecords
<1>1. IInv => CachesShowRecords
  BY DEF IInv, CachesFit
<1>2. QED
  BY <1>1, Invariant, PTL

(* Three records fill three places, so that a full entry of the cache, old *)
(* as it may be, means that there are three records.                       *)
LEMMA FullIsThree ==
    ASSUME IInv, NEW entry \in chalCache, Full(entry)
    PROVE  Cardinality(rows) = 3
<1>1. PICK row \in rows : row.rank = 3
  BY DEF Full, Places, IInv, CachesFit, CachesShowRecords
<1>2. Cardinality(rows) \in Nat /\ Cardinality(rows) <= 3
  BY FS_CardinalityType DEF IInv, Dense
<1>3. QED
  BY <1>1, <1>2 DEF IInv, Dense

(* No event is passed over but for a cause: a handler that gives up has    *)
(* seen three records, or the record of a team mate, and one that reports  *)
(* success has a record.                                                   *)
THEOREM PassedOverForCauseOnly == Spec => []PassedOverForCause
<1>1. Init => PassedOverForCause
  BY DEF Init, PassedOverForCause
<1>2. ASSUME IInv, PassedOverForCause, Next
      PROVE  PassedOverForCause'
  <2>1. rows \subseteq rows' /\ (Cardinality(rows) = 3 => rows' = rows)
    BY <1>2, RecordIsNext, OthersAddNone
  <2>2. \A u \in Users : outcome[u] # "none" => ev'[u] = ev[u]
    BY <1>2 DEF IInv, OutcomesFit, TypeOK, Past, InCache, Next, Handle, Publish,
       CheckCache, ReadMode, LockAndRead, Insert, Deadlock, Commit, Refresh,
       StoreEntry, ClearMap, StatementFails, CommitUnacknowledged, Crash,
       ReadMiss, Finishes, Query, StoreView, QueryFails, ExpireEntry,
       ExpireView, CompetitionChanges
  <2> SUFFICES ASSUME NEW u \in Users
               PROVE  /\ outcome'[u] = "full" => Cardinality(rows') = 3
                      /\ outcome'[u] = "already" =>
                            \E row \in rows' : row.team = ev'[u].team /\ row.team # NoTeam
                      /\ outcome'[u] = "recorded" => \E row \in rows' : row.user = u
    BY DEF PassedOverForCause
  <2>3. CASE outcome'[u] \in {outcome[u], "none", "lost", "victim", "dropped"}
    BY <1>2, <2>1, <2>2, <2>3 DEF PassedOverForCause
  <2>4. CASE outcome'[u] # outcome[u] /\ ~Crash
    <3>1. CheckCache(u) \/ ReadMode(u) \/ LockAndRead(u) \/ Deadlock(u)
             \/ Records(u) \/ StatementFails(u)
      BY <1>2, <2>4, Decisions DEF IInv
    <3> USE DEF IInv, TypeOK, Finish, Decide
    <3>2. CASE CheckCache(u)
      BY <1>2, <2>1, <2>4, <3>2, FullIsThree DEF CheckCache
    <3>3. CASE ReadMode(u) \/ Deadlock(u) \/ StatementFails(u)
      BY <1>2, <2>3, <3>3 DEF ReadMode, Deadlock, StatementFails
    <3>4. CASE Records(u)
      <4>1. NewRow(u) \in rows' /\ NewRow(u).user = u
        BY <1>2, <3>4, RecordIsNext DEF NewRow
      <4>2. outcome'[u] \in {"recorded", "dropped"}
        BY <1>2, <3>4 DEF Records, Commit, CommitUnacknowledged
      <4>3. QED
        BY <4>1, <4>2
    <3>5. CASE LockAndRead(u)
      <4>1. pc[u] = "lock" /\ ev' = ev /\ rows' = rows
        BY <3>5 DEF LockAndRead
      <4>2. ~\E row \in rows : row.user = u
        BY <1>2, <4>1 DEF OutcomesFit, Past, InCache
      <4>3. \/ Cardinality(rows) >= 3 /\ outcome'[u] = "full"
            \/ EntityIn(u, rows) /\ outcome'[u] = "already"
        BY <1>2, <2>4, <3>5 DEF LockAndRead
      <4>4. CASE outcome'[u] = "full"
        <5>1. Cardinality(rows) \in Nat /\ Cardinality(rows) <= 3
          BY <1>2, FS_CardinalityType DEF Dense
        <5>2. QED
          BY <4>1, <4>3, <4>4, <5>1
      <4>5. CASE outcome'[u] = "already"
        BY <4>1, <4>2, <4>3, <4>5 DEF EntityIn
      <4>6. QED
        BY <4>3, <4>4, <4>5
    <3>6. QED
      BY <3>1, <3>2, <3>3, <3>4, <3>5
  <2>5. CASE Crash
    BY <1>2, <2>3, <2>5 DEF Crash, IInv, TypeOK
  <2>6. QED
    BY <2>3, <2>4, <2>5
<1>3. IInv /\ PassedOverForCause /\ UNCHANGED vars => PassedOverForCause'
  BY DEF PassedOverForCause, vars
<1>4. IInv /\ PassedOverForCause /\ [Next]_vars => PassedOverForCause'
  BY <1>2, <1>3
<1>5. QED
  BY <1>1, <1>4, Invariant, PTL DEF Spec

----------------------------------------------------------------------------
(* The records are a board.                                                *)

(* There is one record for each place that is taken. *)
LEMMA PlaceIsRecord ==
    ASSUME Dense, NEW k \in 1 .. Cardinality(rows)
    PROVE  Place(k) \in rows /\ Place(k).rank = k
<1>1. \E row \in rows : row.rank = k
  BY DEF Dense
<1>2. QED
  BY <1>1 DEF Place

(* The board has the records in the order of their places. *)
BoardShowsRecords ==
    /\ board \in Seq(Board!Solver)
    /\ Len(board) = Cardinality(rows)
    /\ \A row \in rows : /\ row.rank \in 1 .. Len(board)
                        /\ board[row.rank] = [user |-> row.user, team |-> row.team]
    /\ \A k \in 1 .. Len(board) : \E row \in rows : row.rank = k

LEMMA BoardIsSeq ==
    ASSUME IInv
    PROVE  BoardShowsRecords
<1> DEFINE n == Cardinality(rows)
<1>1. n \in Nat
  BY FS_CardinalityType DEF IInv, Dense
<1>2. \A k \in 1 .. n : Place(k) \in rows /\ Place(k).rank = k
  BY PlaceIsRecord DEF IInv
<1>3. \A k \in 1 .. n : [user |-> Place(k).user, team |-> Place(k).team] \in Board!Solver
  BY <1>2 DEF IInv, TypeOK, Row, TeamIDs, Board!Solver
<1>4. board \in Seq(Board!Solver) /\ Len(board) = n
  BY <1>1, <1>3 DEF board
<1>5. \A row \in rows : row.rank \in 1 .. n /\ Place(row.rank) = row
  BY <1>2 DEF IInv, Dense
<1>6. QED
  BY <1>2, <1>4, <1>5 DEF board, BoardShowsRecords

(* A commit awards a solver who is not on the board, and no team mate of   *)
(* one who is, the place behind the others.                                *)
LEMMA RecordIsAward ==
    ASSUME IInv, BoardShowsRecords, BoardShowsRecords', NEW h \in Users, Records(h)
    PROVE  Board!Next
<1> DEFINE new == NewRow(h)
           s   == [user |-> new.user, team |-> new.team]
           n   == Cardinality(rows)
<1>1. /\ pc[h] = "commit" /\ rows' = rows \cup {new} /\ new \in Row
      /\ new.rank = n + 1 /\ n \in 0 .. 2 /\ Cardinality(rows') = n + 1
  BY RecordIsNext
<1>2. s \in Board!Solver
  BY <1>1 DEF Row, TeamIDs, Board!Solver
<1>3. ~EntityIn(h, rows)
  BY <1>1 DEF IInv, LocksProtect, Protected
<1>4. \A row \in rows : row.user # h
  BY <1>1 DEF IInv, OutcomesFit, Past, InCache
<1>5. \A row \in rows : new.user # row.user /\ (new.team # NoTeam => new.team # row.team)
  BY <1>3, <1>4 DEF NewRow, EntityIn
<1>6. \A i \in 1 .. Len(board) : ~Board!Clash(s, board[i])
  <2> SUFFICES ASSUME NEW i \in 1 .. Len(board)
               PROVE  ~Board!Clash(s, board[i])
    OBVIOUS
  <2>1. PICK row \in rows : row.rank = i
    BY DEF BoardShowsRecords
  <2>2. board[i] = [user |-> row.user, team |-> row.team]
    BY <2>1 DEF BoardShowsRecords
  <2>3. QED
    BY <1>5, <2>2 DEF Board!Clash
<1>7. board' = Append(board, s)
  <2>1. board' \in Seq(Board!Solver) /\ Len(board') = n + 1
    BY <1>1 DEF BoardShowsRecords, Board!Solver
  <2>2. Append(board, s) \in Seq(Board!Solver) /\ Len(Append(board, s)) = n + 1
    BY <1>2 DEF BoardShowsRecords
  <2>3. \A i \in 1 .. n + 1 : board'[i] = Append(board, s)[i]
    <3>1. ASSUME NEW i \in 1 .. n
          PROVE  board'[i] = board[i]
      <4>1. PICK row \in rows : row.rank = i
        BY <1>1 DEF BoardShowsRecords
      <4>2. board[i] = [user |-> row.user, team |-> row.team]
        BY <4>1 DEF BoardShowsRecords
      <4>3. row \in rows'
        BY <1>1
      <4>4. board'[i] = [user |-> row.user, team |-> row.team]
        BY <4>1, <4>3 DEF BoardShowsRecords
      <4>5. QED
        BY <4>2, <4>4
    <3>2. board'[n + 1] = s
      BY <1>1 DEF BoardShowsRecords
    <3>3. QED
      <4>1. \A i \in 1 .. n : Append(board, s)[i] = board[i]
        BY <1>1, <1>2 DEF BoardShowsRecords
      <4>2. Append(board, s)[n + 1] = s
        BY <1>1, <1>2 DEF BoardShowsRecords
      <4>3. \A i \in 1 .. n + 1 : i \in 1 .. n \/ i = n + 1
        BY <1>1
      <4>4. QED
        BY <3>1, <3>2, <4>1, <4>2, <4>3
  <2>4. QED
    BY <2>1, <2>2, <2>3, SeqEqual
<1>8. QED
  BY <1>1, <1>2, <1>6, <1>7 DEF Board!Next, Board!Award, BoardShowsRecords

(* The records are a board of at most three that only grows at its end,    *)
(* and on which no user and no team stands twice, however many handlers    *)
(* run at once, whatever fails, and whenever the mode changes.             *)
THEOREM RecordsAreBoard == Spec => ImplementsBoard
<1>1. Init => Board!Init
  <2>1. ASSUME Init
        PROVE  Board!Init
    BY <2>1, FS_EmptySet DEF Init, board, Board!Init
  <2>2. QED
    BY <2>1
<1>2. IInv => BoardShowsRecords
  BY BoardIsSeq
<1>3. IInv /\ [Next]_vars => IInv'
  BY NextIInv
<1>4. IInv /\ BoardShowsRecords /\ BoardShowsRecords' /\ [Next]_vars => [Board!Next]_board
  <2>1. ASSUME IInv, BoardShowsRecords, BoardShowsRecords', [Next]_vars
        PROVE  Board!Next \/ board' = board
    <3>1. CASE \E h \in Users : Records(h)
      BY <2>1, <3>1, RecordIsAward
    <3>2. CASE \A h \in Users : ~Records(h)
      <4>1. rows' = rows
        BY <2>1, <3>2, OthersAddNone DEF vars
      <4>2. QED
        BY <4>1 DEF board, Place
    <3>3. QED
      BY <3>1, <3>2
  <2>2. QED
    BY <2>1
<1>5. QED
  BY <1>1, <1>2, <1>3, <1>4, Invariant, PTL DEF Spec, ImplementsBoard, Board!Spec

============================================================================
