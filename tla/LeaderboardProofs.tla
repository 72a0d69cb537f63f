------------------------- MODULE LeaderboardProofs -------------------------
(***************************************************************************)
(* Proofs about Leaderboard, for all sets of users, teams, challenges and  *)
(* readers, either mode, and whatever is solved, hidden, deleted or fails  *)
(* between the statements of a reader: what a cached board shows of an     *)
(* entry, what its total contains, and what the order of entries means.    *)
(***************************************************************************)
EXTENDS Leaderboard, FiniteSetTheorems, FunctionTheorems, TLAPS

----------------------------------------------------------------------------
(* Sums and extremes.                                                      *)

RowPoints(S)  == UNION {{row} \X (1 .. Points[row.chal]) : row \in S}
ChalPoints(C) == UNION {{c} \X (1 .. Points[c]) : c \in C}

LEMMA Single ==
    ASSUME NEW x, NEW n \in Nat
    PROVE  IsFiniteSet({x} \X (1 .. n))
<1>1. IsFiniteSet({x})
  BY FS_Singleton
<1>2. IsFiniteSet(1 .. n)
  BY FS_Interval
<1>3. QED
  BY <1>1, <1>2, FS_Product

LEMMA SumFinite ==
    ASSUME NEW S \in SUBSET Row, IsFiniteSet(S)
    PROVE  IsFiniteSet(RowPoints(S)) /\ Sum(S) \in Nat
<1> DEFINE f == [row \in S |-> {row} \X (1 .. Points[row.chal])]
           T == {{row} \X (1 .. Points[row.chal]) : row \in S}
<1>1. f \in Surjection(S, T)
  BY Fun_IsSurj
<1>2. IsFiniteSet(T)
  BY <1>1, FS_Surjection
<1>3. \A row \in S : Points[row.chal] \in Nat
  BY ConstantsAssumption DEF Row
<1>4. \A t \in T : IsFiniteSet(t)
  BY <1>3, Single
<1>5. IsFiniteSet(RowPoints(S))
  BY <1>2, <1>4, FS_UNION DEF RowPoints
<1>6. QED
  BY <1>5, FS_CardinalityType DEF RowPoints, Sum

LEMMA SumMonotone ==
    ASSUME NEW T \in SUBSET Row, IsFiniteSet(T), NEW S \in SUBSET T
    PROVE  Sum(S) \in Nat /\ Sum(S) <= Sum(T)
<1>1. RowPoints(S) \subseteq RowPoints(T)
  BY DEF RowPoints
<1>2. IsFiniteSet(S)
  BY FS_Subset
<1>3. QED
  BY <1>1, <1>2, SumFinite, FS_Subset DEF RowPoints, Sum

(* What a set of rows is about is worth no more than the rows. *)
LEMMA WorthOfRows ==
    ASSUME NEW S \in SUBSET Row, IsFiniteSet(S),
           NEW C \in SUBSET {row.chal : row \in S}
    PROVE  Worth(C) \in Nat /\ Worth(C) <= Sum(S)
<1> DEFINE D == {row.chal : row \in S}
           f == [p \in RowPoints(S) |-> <<p[1].chal, p[2]>>]
<1>1. f \in [RowPoints(S) -> ChalPoints(D)]
  BY DEF RowPoints, ChalPoints
<1>2. ASSUME NEW q \in ChalPoints(D)
      PROVE  \E p \in RowPoints(S) : f[p] = q
  <2>1. PICK c \in D : q \in {c} \X (1 .. Points[c])
    BY DEF ChalPoints
  <2>2. PICK row \in S : row.chal = c
    OBVIOUS
  <2>3. <<row, q[2]>> \in RowPoints(S)
    BY <2>1, <2>2 DEF RowPoints
  <2>4. f[<<row, q[2]>>] = q
    BY <2>1, <2>2, <2>3
  <2>5. QED
    BY <2>3, <2>4
<1>3. f \in Surjection(RowPoints(S), ChalPoints(D))
  BY <1>1, <1>2, Fun_IsSurj
<1>4. /\ IsFiniteSet(ChalPoints(D))
      /\ Cardinality(ChalPoints(D)) <= Cardinality(RowPoints(S))
  BY <1>3, SumFinite, FS_Surjection
<1>5. ChalPoints(C) \subseteq ChalPoints(D)
  BY DEF ChalPoints
<1>6. /\ IsFiniteSet(ChalPoints(C))
      /\ Cardinality(ChalPoints(C)) <= Cardinality(ChalPoints(D))
  BY <1>4, <1>5, FS_Subset
<1>7. /\ Cardinality(ChalPoints(C)) \in Nat
      /\ Cardinality(ChalPoints(D)) \in Nat
  BY <1>4, <1>6, FS_CardinalityType
<1>8. QED
  BY <1>4, <1>6, <1>7, SumFinite DEF RowPoints, ChalPoints, Sum, Worth

LEMMA WorthMonotone ==
    ASSUME NEW D \in SUBSET Challenges, NEW C \in SUBSET D
    PROVE  /\ Worth(C) \in Nat /\ Worth(D) \in Nat
           /\ Worth(C) <= Worth(D)
<1> DEFINE f == [c \in D |-> {c} \X (1 .. Points[c])]
           T == {{c} \X (1 .. Points[c]) : c \in D}
<1>1. f \in Surjection(D, T)
  BY Fun_IsSurj
<1>2. IsFiniteSet(D)
  BY ConstantsAssumption, FS_Subset
<1>3. IsFiniteSet(T)
  BY <1>1, <1>2, FS_Surjection
<1>4. \A c \in D : Points[c] \in Nat
  BY ConstantsAssumption
<1>5. \A t \in T : IsFiniteSet(t)
  BY <1>4, Single
<1>6. IsFiniteSet(ChalPoints(D))
  BY <1>3, <1>5, FS_UNION DEF ChalPoints
<1>7. ChalPoints(C) \subseteq ChalPoints(D)
  BY DEF ChalPoints
<1>8. QED
  BY <1>6, <1>7, FS_Subset, FS_CardinalityType DEF ChalPoints, Worth

LEMMA MinInside ==
    ASSUME NEW S \in SUBSET Nat, S # {}
    PROVE  Min(S) \in S
<1>1. PICK x \in S : \A y \in S : ~(<<y, x>> \in OpToRel(<, Nat))
  BY NatLessThanWellFounded, WFMin
<1>2. ASSUME NEW y \in S
      PROVE  x <= y
  <2>1. <<y, x>> \in Nat \X Nat /\ ~(<<y, x>> \in OpToRel(<, Nat))
    BY <1>1
  <2>2. ~(y < x)
    BY <2>1 DEF OpToRel
  <2>3. QED
    BY <2>2
<1>3. QED
  BY <1>2 DEF Min

LEMMA MaxInside ==
    ASSUME NEW n \in Nat, NEW S \in SUBSET (0 .. n), S # {}
    PROVE  Max(S) \in S
<1> DEFINE T == {n - x : x \in S}
<1>1. T \in SUBSET Nat /\ T # {}
  <2>1. \A x \in S : x \in 0 .. n
    OBVIOUS
  <2>2. \A x \in S : n - x \in Nat
    BY <2>1
  <2>3. QED
    BY <2>2
<1>2. PICK y \in T : \A z \in T : ~(<<z, y>> \in OpToRel(<, Nat))
  BY <1>1, NatLessThanWellFounded, WFMin
<1>3. PICK x \in S : y = n - x
  OBVIOUS
<1>4. ASSUME NEW z \in S
      PROVE  x >= z
  <2>1. n - z \in T /\ <<n - z, n - x>> \in Nat \X Nat
    BY <1>1, <1>3
  <2>2. ~(<<n - z, n - x>> \in OpToRel(<, Nat))
    BY <1>2, <1>3, <2>1
  <2>3. ~(n - z < n - x)
    BY <2>1, <2>2 DEF OpToRel
  <2>4. x \in 0 .. n /\ z \in 0 .. n
    OBVIOUS
  <2>5. QED
    BY <2>3, <2>4
<1>5. QED
  BY <1>4 DEF Max
----------------------------------------------------------------------------
(* The inductive invariant.                                                *)

Mine(e)        == {row \in rows : Entity(row) = e}
SolvedBy(S, e) == {row.chal : row \in {s \in S : Entity(s) = e}}
Alive(C)       == {c \in C : chals[c] # "deleted"}

(* Everybody who solves is an entity of the board. *)
RowsFit ==
    /\ IsFiniteSet(rows)
    /\ \A row \in rows : Entity(row) \in Entities

(* What a reader has read, before the statement p: of nobody more points   *)
(* than he has, and, once it has read them, of nobody fewer than the       *)
(* challenges are worth that it had read he has solved.                    *)
DraftFits(d, p) ==
    /\ d \in Draft
    /\ d.solves \subseteq rows
    /\ \A e \in Entities : d.scores[e] <= Sum(Mine(e))
    /\ p \in {"bloods", "records", "setmap", "store"} =>
           \A e \in Entities :
               d.scores[e] >= Worth(Alive(SolvedBy(d.solves, e)))

BoardFits(b) ==
    /\ IsBoard(b)
    /\ \A e \in DOMAIN b : /\ b[e].score <= Sum(Mine(e))
                           /\ b[e].score >= Worth(Alive(b[e].solved))
    /\ \A e, f \in DOMAIN b : b[e].rank < b[f].rank => b[e].score >= b[f].score

IInv ==
    /\ TypeOK
    /\ cache = [k \in Keys |-> cache[k]]
    /\ RowsFit
    /\ \A r \in Readers : DraftFits(draft[r], pc[r])
    /\ \A b \in cache["leaderboard"] : BoardFits(b)

----------------------------------------------------------------------------
(* What a board is made of.                                                *)

LEMMA SecondsFit ==
    ASSUME NEW S \in SUBSET Row, S # {}
    PROVE  Min({row.at : row \in S}) \in 1 .. MaxSeconds
<1>1. /\ {row.at : row \in S} \subseteq 1 .. MaxSeconds
      /\ {row.at : row \in S} # {}
  BY DEF Row
<1>2. {row.at : row \in S} \subseteq Nat
  BY <1>1, ConstantsAssumption
<1>3. QED
  BY <1>1, <1>2, MinInside

LEMMA EntriesFit ==
    ASSUME NEW d \in Draft, \A row \in d.solves : Entity(row) \in Entities,
           NEW e \in DOMAIN Entries(d)
    PROVE  /\ e \in Entities
           /\ Entries(d)[e] \in [score: Nat, solved: SUBSET Challenges,
                                 bloods: SUBSET Challenges,
                                 last: 0 .. MaxSeconds, rank: {0}]
           /\ Entries(d)[e].score = d.scores[e]
           /\ Entries(d)[e].solved \subseteq SolvedBy(d.solves, e)
<1> DEFINE mine     == {row \in d.solves : Entity(row) = e}
           solved   == {row.chal : row \in mine} \cap d.listed
           bloods   == {row.chal : row \in {s \in d.bloods : Entity(s) = e}}
           First(c) == Min({row.at : row \in {s \in mine : s.chal = c}})
           Firsts   == {First(c) : c \in solved} \cup {0}
<1>1. e \in Entities
  BY DEF Entries
<1>2. Entries(d)[e] = [score |-> d.scores[e], solved |-> solved,
                       bloods |-> bloods \cap solved,
                       last |-> Max(Firsts), rank |-> 0]
  BY DEF Entries
<1>3. d.solves \subseteq Row /\ d.listed \subseteq Challenges
      /\ d.scores \in [Entities -> Nat]
  BY DEF Draft
<1>4. ASSUME NEW c \in solved
      PROVE  First(c) \in 0 .. MaxSeconds
  <2>1. {s \in mine : s.chal = c} # {} /\ {s \in mine : s.chal = c} \subseteq Row
    BY <1>3
  <2>2. First(c) \in 1 .. MaxSeconds
    BY <2>1, SecondsFit
  <2>3. QED
    BY <2>2, ConstantsAssumption
<1>5. Firsts \subseteq 0 .. MaxSeconds /\ Firsts # {} /\ MaxSeconds \in Nat
  <2> HIDE DEF First, solved
  <2>1. 0 \in 0 .. MaxSeconds /\ MaxSeconds \in Nat
    BY ConstantsAssumption
  <2>2. QED
    BY <1>4, <2>1
<1>6. Max(Firsts) \in 0 .. MaxSeconds
  <2> HIDE DEF Firsts
  <2>1. QED
    BY <1>5, MaxInside
<1>7. solved \subseteq SolvedBy(d.solves, e)
  BY DEF SolvedBy
<1>8. QED
  <2> HIDE DEF Firsts, bloods, solved
  <2>1. solved \subseteq Challenges
    BY <1>3 DEF solved
  <2>2. d.scores[e] \in Nat
    BY <1>1, <1>3
  <2>3. QED
    BY <1>1, <1>2, <1>6, <1>7, <2>1, <2>2

LEMMA BoardsFit ==
    ASSUME NEW d \in Draft, \A row \in d.solves : Entity(row) \in Entities,
           NEW b \in Boards(Entries(d))
    PROVE  /\ IsBoard(b)
           /\ \A e \in DOMAIN b : /\ b[e].score = d.scores[e]
                                  /\ b[e].solved \subseteq SolvedBy(d.solves, e)
           /\ \A e, f \in DOMAIN b :
                 b[e].rank < b[f].rank => b[e].score >= b[f].score
<1> DEFINE E == DOMAIN Entries(d)
           x == Entries(d)
<1>1. PICK o \in [E -> 1 .. Cardinality(E)] :
          /\ \A e, f \in E : Ahead(x[e], x[f]) => o[e] < o[f]
          /\ b = [e \in E |-> [x[e] EXCEPT !.rank = o[e]]]
  BY DEF Boards
<1> HIDE DEF x, E
<1>2. \A e \in E : /\ e \in Entities
                   /\ x[e] \in [score: Nat, solved: SUBSET Challenges,
                                bloods: SUBSET Challenges,
                                last: 0 .. MaxSeconds, rank: {0}]
                   /\ x[e].score = d.scores[e]
                   /\ x[e].solved \subseteq SolvedBy(d.solves, e)
  BY EntriesFit DEF x, E
<1>3. \A e \in E : /\ b[e].score = x[e].score /\ b[e].solved = x[e].solved
                   /\ b[e].bloods = x[e].bloods /\ b[e].last = x[e].last
                   /\ b[e].rank = o[e]
  BY <1>1, <1>2
<1>4. 1 .. Cardinality(E) \subseteq 1 .. Cardinality(Entities)
  <2>1. IsFiniteSet(Entities) /\ E \subseteq Entities
    BY <1>2, ConstantsAssumption DEF Entities
  <2>2. /\ Cardinality(E) <= Cardinality(Entities)
        /\ Cardinality(E) \in Nat /\ Cardinality(Entities) \in Nat
    BY <2>1, FS_Subset, FS_CardinalityType
  <2>3. QED
    BY <2>2
<1>5. IsBoard(b)
  <2>1. DOMAIN b = E
    BY <1>1
  <2>2. ASSUME NEW e \in E
        PROVE  b[e] \in Entry
    <3>1. o[e] \in 1 .. Cardinality(Entities)
      BY <1>1, <1>4
    <3>2. b[e] = [x[e] EXCEPT !.rank = o[e]]
      BY <1>1
    <3>3. QED
      BY <1>2, <3>1, <3>2 DEF Entry
  <2>3. QED
    BY <1>2, <2>1, <2>2 DEF IsBoard
<1>6. ASSUME NEW e \in E, NEW f \in E, o[e] < o[f]
      PROVE  x[e].score >= x[f].score
  <2>1. ~(o[f] < o[e])
    BY <1>1, <1>4, <1>6
  <2>2. ~Ahead(x[f], x[e])
    BY <1>1, <2>1
  <2>3. x[e].score \in Nat /\ x[f].score \in Nat
    BY <1>2
  <2>4. QED
    BY <2>2, <2>3 DEF Ahead
<1>7. QED
  BY <1>1, <1>2, <1>3, <1>5, <1>6

----------------------------------------------------------------------------
(* Rows are never taken back and deletions are for good, so that what the  *)
(* readers and the boards know stays as true as it was.                    *)

Goes ==
    /\ rows \subseteq rows'
    /\ rows' \in SUBSET Row
    /\ \A c \in Challenges : chals[c] = "deleted" => chals'[c] = "deleted"

LEMMA KnowledgeStays ==
    ASSUME TypeOK, RowsFit, RowsFit', Goes
    PROVE  /\ \A d, p : DraftFits(d, p) => DraftFits(d, p)'
           /\ \A b : BoardFits(b) => BoardFits(b)'
<1>1. ASSUME NEW e
      PROVE  /\ Sum(Mine(e)) \in Nat /\ Sum(Mine(e)') \in Nat
             /\ Sum(Mine(e)) <= Sum(Mine(e)')
  <2>1. Mine(e) \subseteq Mine(e)' /\ Mine(e)' \subseteq Row
    BY DEF Mine, Goes
  <2>2. IsFiniteSet(Mine(e)')
    BY FS_Subset DEF RowsFit, Mine
  <2>3. QED
    BY <2>1, <2>2, SumMonotone
<1>2. ASSUME NEW C \in SUBSET Challenges
      PROVE  /\ Worth(Alive(C)) \in Nat /\ Worth(Alive(C)') \in Nat
             /\ Worth(Alive(C)') <= Worth(Alive(C))
  <2>1. Alive(C)' \subseteq Alive(C) /\ Alive(C) \subseteq Challenges
    BY DEF Goes, Alive
  <2>2. QED
    BY <2>1, WorthMonotone
<1>3. ASSUME NEW d, NEW p, DraftFits(d, p)
      PROVE  DraftFits(d, p)'
  <2>1. d \in Draft /\ d.solves \subseteq Row /\ d.scores \in [Entities -> Nat]
    BY <1>3 DEF DraftFits, Draft
  <2>2. ASSUME NEW e \in Entities
        PROVE  d.scores[e] <= Sum(Mine(e)')
    BY <1>1, <1>3, <2>1 DEF DraftFits
  <2>3. ASSUME NEW e \in Entities,
               p \in {"bloods", "records", "setmap", "store"}
        PROVE  d.scores[e] >= Worth(Alive(SolvedBy(d.solves, e))')
    <3>1. SolvedBy(d.solves, e) \in SUBSET Challenges
      BY <2>1 DEF SolvedBy, Row
    <3>2. d.scores[e] >= Worth(Alive(SolvedBy(d.solves, e)))
      BY <1>3, <2>3 DEF DraftFits
    <3>3. d.scores[e] \in Nat
      BY <2>1
    <3>4. QED
      BY <1>2, <3>1, <3>2, <3>3
  <2>4. QED
    BY <1>3, <2>1, <2>2, <2>3 DEF DraftFits, Goes
<1>4. ASSUME NEW b, BoardFits(b)
      PROVE  BoardFits(b)'
  <2>1. ASSUME NEW e \in DOMAIN b
        PROVE  /\ b[e].score <= Sum(Mine(e)')
               /\ b[e].score >= Worth(Alive(b[e].solved)')
    <3>1. b[e].score \in Nat /\ b[e].solved \in SUBSET Challenges
      BY <1>4 DEF BoardFits, IsBoard, Entry
    <3>2. b[e].score <= Sum(Mine(e)) /\ b[e].score >= Worth(Alive(b[e].solved))
      BY <1>4 DEF BoardFits
    <3>3. QED
      BY <1>1, <1>2, <3>1, <3>2
  <2>2. QED
    BY <1>4, <2>1 DEF BoardFits
<1>5. QED
  BY <1>3, <1>4

----------------------------------------------------------------------------
(* Every step keeps the invariant.  First the solves, the handlers and the *)
(* administrators, which leave the readers alone,                          *)

LEMMA InitFits == Init => IInv
<1> SUFFICES ASSUME Init PROVE IInv
  OBVIOUS
<1>1. IsFiniteSet({}) /\ Cardinality({}) = 0
  BY FS_EmptySet
<1>2. TypeOK
  BY <1>1, ConstantsAssumption
     DEF Init, TypeOK, Blank, Draft, ChallengeStates, Keys, Statements
<1>3. RowsFit
  BY <1>1 DEF Init, RowsFit
<1>4. \A e : Sum(Mine(e)) \in Nat
  <2>1. \A e : Mine(e) = {}
    BY DEF Init, Mine
  <2>2. {} \in SUBSET Row
    OBVIOUS
  <2>3. QED
    BY <1>1, <2>1, <2>2, SumFinite
<1>5. ASSUME NEW r \in Readers
      PROVE  DraftFits(draft[r], pc[r])
  BY <1>4 DEF Init, DraftFits, Blank, Draft
<1>6. QED
  BY <1>2, <1>3, <1>5 DEF IInv, Init, Keys

LEMMA QuietStep ==
    ASSUME IInv, TypeOK', RowsFit', Goes, UNCHANGED reading,
           \/ cache' = cache
           \/ \E k \in Keys : cache' = [cache EXCEPT ![k] = {}]
    PROVE  IInv'
<1>1. cache' = [k \in Keys |-> cache'[k]]
  BY DEF IInv
<1>2. cache'["leaderboard"] \subseteq cache["leaderboard"]
  BY DEF IInv, Keys
<1>3. \A r \in Readers : DraftFits(draft[r], pc[r])'
  BY KnowledgeStays DEF IInv, reading
<1>4. \A b \in cache'["leaderboard"] : BoardFits(b)'
  BY <1>2, KnowledgeStays DEF IInv
<1>5. QED
  BY <1>1, <1>3, <1>4 DEF IInv

(* A cache with an entry less. *)
LEMMA CacheShrinks ==
    ASSUME IInv, NEW k \in Keys
    PROVE  LET c == [cache EXCEPT ![k] = {}] IN
           /\ \A j \in Keys : Cardinality(c[j]) < 2
           /\ \A b \in c["leaderboard"] : IsBoard(b)
           /\ c["map"] \subseteq SUBSET Row
<1> DEFINE c == [cache EXCEPT ![k] = {}]
<1>1. \A j \in Keys : c[j] = IF j = k THEN {} ELSE cache[j]
  BY DEF IInv
<1>2. Cardinality({}) < 2
  BY FS_EmptySet
<1>3. QED
  BY <1>1, <1>2 DEF IInv, TypeOK, Keys

LEMMA SolveFits ==
    ASSUME IInv, NEW u \in Users, NEW c \in Challenges, Solve(u, c)
    PROVE  IInv'
<1>1. PICK t \in 1 .. MaxSeconds :
          LET row == [user |-> u, chal |-> c, at |-> t,
                      team |-> IF Mode = "team" THEN TeamOf[u] ELSE NoTeam]
          IN /\ rows' = rows \cup {row}
             /\ todo' = todo \cup ({"invalidate", "record"} \X {row})
  BY DEF Solve
<1> DEFINE row == [user |-> u, chal |-> c, at |-> t,
                   team |-> IF Mode = "team" THEN TeamOf[u] ELSE NoTeam]
<1>2. row \in Row /\ Entity(row) \in Entities
  BY ConstantsAssumption DEF Row, Entity, Entities
<1>3. RowsFit'
  BY <1>1, <1>2, FS_AddElement DEF IInv, RowsFit
<1>4. TypeOK'
  BY <1>1, <1>2 DEF Solve, IInv, TypeOK, reading, Duties
<1>5. Goes
  BY <1>1, <1>4 DEF Goes, Solve, TypeOK
<1>6. QED
  BY <1>3, <1>4, <1>5, QuietStep DEF Solve

LEMMA TroublesBounded ==
    ASSUME TypeOK, Trouble \/ UNCHANGED troubles
    PROVE  troubles' \in 0 .. MaxTroubles
  BY ConstantsAssumption DEF TypeOK, Trouble

LEMMA HandleFits ==
    ASSUME IInv, NEW row \in Row, Handle(row)
    PROVE  IInv'
<1>1. TypeOK'
  <2>1. CASE Invalidate(row)
    BY <2>1, CacheShrinks DEF Invalidate, IInv, TypeOK, reading, Keys
  <2>2. CASE ClearMap(row)
    BY <2>2, CacheShrinks DEF ClearMap, IInv, TypeOK, reading, Keys
  <2>3. CASE Record(row)
    <3>1. troubles' \in 0 .. MaxTroubles
      BY <2>3, TroublesBounded DEF Record, IInv
    <3>2. records' \in SUBSET Row /\ todo' \in SUBSET (Duties \X Row)
      BY <2>3 DEF Record, IInv, TypeOK, Duties
    <3>3. QED
      BY <2>3, <3>1, <3>2 DEF Record, IInv, TypeOK, reading
  <2>4. QED
    BY <2>1, <2>2, <2>3 DEF Handle
<1>2. rows' = rows /\ chals' = chals /\ UNCHANGED reading
      /\ (cache' = cache \/ \E k \in Keys : cache' = [cache EXCEPT ![k] = {}])
  BY DEF Handle, Invalidate, Record, ClearMap, Keys
<1>3. RowsFit' /\ Goes
  BY <1>1, <1>2 DEF IInv, RowsFit, Goes, TypeOK
<1>4. QED
  BY <1>1, <1>2, <1>3, QuietStep

LEMMA ChangeFits ==
    ASSUME IInv, NEW c \in Challenges, ChangeChallenge(c)
    PROVE  IInv'
<1>1. TypeOK'
  <2>1. troubles' \in 0 .. MaxTroubles
    BY TroublesBounded DEF ChangeChallenge, IInv
  <2>2. QED
    BY <2>1 DEF ChangeChallenge, IInv, TypeOK, reading
<1>2. RowsFit' /\ Goes
  BY DEF ChangeChallenge, IInv, RowsFit, Goes, TypeOK
<1>3. QED
  BY <1>1, <1>2, QuietStep DEF ChangeChallenge

LEMMA ExpireFits ==
    ASSUME IInv, NEW k \in Keys, Expire(k)
    PROVE  IInv'
<1>1. TypeOK'
  BY CacheShrinks DEF Expire, IInv, TypeOK, reading
<1>2. RowsFit' /\ Goes
  BY DEF Expire, IInv, RowsFit, Goes, TypeOK
<1>3. QED
  BY <1>1, <1>2, QuietStep DEF Expire

(* and then the readers, one statement after the other.                    *)

LEMMA ReaderStep ==
    ASSUME IInv, NEW r \in Readers, NEW d,
           NEW next \in Statements \cup {"idle"}, DraftFits(d, next),
           pc' = [pc EXCEPT ![r] = next], draft' = [draft EXCEPT ![r] = d],
           UNCHANGED <<rows, todo, records, chals>>,
           troubles' \in 0 .. MaxTroubles,
           \/ cache' = cache
           \/ \E m \in SUBSET Row : cache' = [cache EXCEPT !["map"] = {m}]
           \/ \E b : /\ BoardFits(b)
                     /\ cache' = [cache EXCEPT !["leaderboard"] = {b}]
    PROVE  IInv'
<1>1. cache' = [k \in Keys |-> cache'[k]]
  BY DEF IInv
<1>2. /\ \A k \in Keys : Cardinality(cache'[k]) < 2
      /\ cache'["map"] \subseteq SUBSET Row
      /\ \A b \in cache'["leaderboard"] : BoardFits(b)
  <2>1. ASSUME NEW x
        PROVE  Cardinality({x}) < 2
    <3>1. Cardinality({x}) = 1
      BY FS_Singleton
    <3>2. QED
      BY <3>1
  <2>2. CASE cache' = cache
    BY <2>2 DEF IInv, TypeOK
  <2>3. ASSUME NEW m \in SUBSET Row, cache' = [cache EXCEPT !["map"] = {m}]
        PROVE  /\ \A k \in Keys : Cardinality(cache'[k]) < 2
               /\ cache'["map"] \subseteq SUBSET Row
               /\ cache'["leaderboard"] = cache["leaderboard"]
    BY <2>1, <2>3 DEF IInv, TypeOK, Keys
  <2>4. ASSUME NEW b, cache' = [cache EXCEPT !["leaderboard"] = {b}]
        PROVE  /\ \A k \in Keys : Cardinality(cache'[k]) < 2
               /\ cache'["map"] = cache["map"]
               /\ cache'["leaderboard"] = {b}
    BY <2>1, <2>4 DEF IInv, TypeOK, Keys
  <2>5. /\ cache["map"] \subseteq SUBSET Row
        /\ \A b \in cache["leaderboard"] : BoardFits(b)
    BY DEF IInv, TypeOK
  <2>6. QED
    BY <2>2, <2>3, <2>4, <2>5
<1>3. \A s \in Readers : /\ pc'[s] = IF s = r THEN next ELSE pc[s]
                         /\ draft'[s] = IF s = r THEN d ELSE draft[s]
  BY DEF IInv, TypeOK
<1>4. TypeOK'
  BY <1>2, <1>3 DEF IInv, TypeOK, DraftFits, BoardFits
<1>5. RowsFit' /\ Goes
  BY <1>4 DEF IInv, RowsFit, Goes, TypeOK
<1>6. /\ \A dd, p : DraftFits(dd, p) => DraftFits(dd, p)'
      /\ \A b : BoardFits(b) => BoardFits(b)'
  BY <1>5, KnowledgeStays DEF IInv
<1>7. \A s \in Readers : DraftFits(draft'[s], pc'[s])
  BY <1>3 DEF IInv
<1>8. QED
  BY <1>1, <1>2, <1>4, <1>5, <1>6, <1>7 DEF IInv

LEMMA MineSums ==
    ASSUME TypeOK, RowsFit, NEW e, NEW S \in SUBSET Mine(e)
    PROVE  /\ Sum(S) \in Nat /\ Sum(Mine(e)) \in Nat
           /\ Sum(S) <= Sum(Mine(e))
<1>1. Mine(e) \in SUBSET Row /\ IsFiniteSet(Mine(e))
  BY FS_Subset DEF TypeOK, RowsFit, Mine
<1>2. QED
  BY <1>1, SumMonotone

LEMMA BlankFits ==
    ASSUME IInv, NEW p \in {"idle", "challenges"}
    PROVE  DraftFits(Blank, p)
<1>1. \A e : Sum(Mine(e)) \in Nat
  BY MineSums DEF IInv
<1>2. QED
  BY <1>1 DEF DraftFits, Blank, Draft

LEMMA ReadScoresFits ==
    ASSUME IInv, NEW r \in Readers, ReadScores(r)
    PROVE  IInv'
<1> DEFINE d == [draft[r] EXCEPT !.scores = [e \in Entities |-> Sum(Scoring(e))]]
<1>1. draft[r] \in Draft /\ draft[r].solves \subseteq rows
  BY DEF IInv, DraftFits
<1>2. ASSUME NEW e \in Entities
      PROVE  /\ Sum(Scoring(e)) \in Nat
             /\ Sum(Scoring(e)) <= Sum(Mine(e))
             /\ Sum(Scoring(e)) >= Worth(Alive(SolvedBy(draft[r].solves, e)))
  <2>1. Scoring(e) \in SUBSET Mine(e)
    BY DEF Scoring, Mine
  <2>2. Scoring(e) \in SUBSET Row /\ IsFiniteSet(Scoring(e))
    BY FS_Subset DEF IInv, TypeOK, RowsFit, Scoring
  <2>3. Alive(SolvedBy(draft[r].solves, e)) \subseteq
            {row.chal : row \in Scoring(e)}
    BY <1>1 DEF Alive, SolvedBy, Scoring
  <2>4. QED
    BY <2>1, <2>2, <2>3, MineSums, WorthOfRows DEF IInv
<1>3. /\ d \in Draft /\ d.solves = draft[r].solves
      /\ \A e \in Entities : d.scores[e] = Sum(Scoring(e))
  BY <1>1, <1>2 DEF Draft
<1>4. DraftFits(d, "bloods")
  BY <1>1, <1>2, <1>3 DEF DraftFits
<1>5. QED
  BY <1>4, ReaderStep DEF ReadScores, Reads, Statements, IInv, TypeOK

LEMMA ReaderFits ==
    ASSUME IInv, NEW r \in Readers, Miss(r) \/ Read(r) \/ ReadFails(r)
    PROVE  IInv'
<1> USE DEF Reads, Statements
<1>1. /\ draft[r] \in Draft /\ draft[r].solves \subseteq rows
      /\ DraftFits(draft[r], pc[r])
      /\ troubles \in 0 .. MaxTroubles
  BY DEF IInv, DraftFits, TypeOK
<1>2. CASE Miss(r)
  BY <1>1, <1>2, BlankFits, ReaderStep DEF Miss
<1>3. CASE ReadChallenges(r)
  <2> DEFINE d == [draft[r] EXCEPT
                      !.listed = {c \in Challenges : chals[c] = "listed"}]
  <2>1. DraftFits(d, "solves")
    BY <1>1 DEF DraftFits, Draft
  <2>2. QED
    BY <1>1, <1>3, <2>1, ReaderStep DEF ReadChallenges
<1>4. CASE ReadSolves(r)
  <2> DEFINE d == [draft[r] EXCEPT !.solves = rows]
  <2>1. DraftFits(d, "scores")
    BY <1>1 DEF DraftFits, Draft, IInv, TypeOK
  <2>2. QED
    BY <1>1, <1>4, <2>1, ReaderStep DEF ReadSolves
<1>5. CASE ReadScores(r)
  BY <1>5, ReadScoresFits
<1>6. CASE ReadMap(r)
  <2>1. pc[r] = "bloods"
    BY <1>6 DEF ReadMap
  <2>2. ASSUME NEW m \in SUBSET Row
        PROVE  DraftFits([draft[r] EXCEPT !.bloods = m], "store")
    BY <1>1, <2>1 DEF DraftFits, Draft
  <2>3. cache["map"] \subseteq SUBSET Row
    BY DEF IInv, TypeOK
  <2>4. DraftFits(draft[r], "records")
    BY <1>1, <2>1 DEF DraftFits
  <2>5. QED
    BY <1>1, <1>6, <2>2, <2>3, <2>4, ReaderStep DEF ReadMap
<1>7. CASE ReadRecords(r)
  <2> DEFINE d == [draft[r] EXCEPT !.bloods = records]
  <2>1. DraftFits(d, "setmap")
    BY <1>1, <1>7 DEF DraftFits, Draft, IInv, TypeOK, ReadRecords
  <2>2. QED
    BY <1>1, <1>7, <2>1, ReaderStep DEF ReadRecords
<1>8. CASE SetMap(r)
  <2>1. DraftFits(draft[r], "store") /\ draft[r].bloods \in SUBSET Row
    BY <1>1, <1>8 DEF DraftFits, Draft, SetMap
  <2>2. draft' = [draft EXCEPT ![r] = draft[r]]
    BY <1>8 DEF SetMap, IInv, TypeOK
  <2>3. QED
    BY <1>1, <1>8, <2>1, <2>2, ReaderStep DEF SetMap, Cached
<1>9. CASE Store(r)
  <2>1. PICK b \in Boards(Entries(draft[r])) :
            cache' = [cache EXCEPT !["leaderboard"] = {b}]
    BY <1>9 DEF Store, Cached
  <2>2. \A row \in draft[r].solves : Entity(row) \in Entities
    BY <1>1 DEF IInv, RowsFit
  <2>3. /\ IsBoard(b)
        /\ \A e \in DOMAIN b : /\ b[e].score = draft[r].scores[e]
                               /\ b[e].solved \subseteq
                                      SolvedBy(draft[r].solves, e)
        /\ \A e, f \in DOMAIN b :
              b[e].rank < b[f].rank => b[e].score >= b[f].score
    BY <1>1, <2>2, BoardsFit
  <2>4. ASSUME NEW e \in DOMAIN b
        PROVE  /\ b[e].score <= Sum(Mine(e))
               /\ b[e].score >= Worth(Alive(b[e].solved))
    <3> DEFINE D == Alive(SolvedBy(draft[r].solves, e))
    <3>1. e \in Entities /\ b[e].score \in Nat
      BY <2>3 DEF IsBoard, Entry
    <3>2. b[e].score <= Sum(Mine(e)) /\ b[e].score >= Worth(D)
      BY <1>1, <1>9, <2>3, <3>1 DEF Store, DraftFits
    <3>3. Alive(b[e].solved) \subseteq D /\ D \subseteq Challenges
      BY <1>1, <2>3 DEF Alive, SolvedBy, Draft, Row
    <3>4. /\ Worth(D) \in Nat /\ Worth(Alive(b[e].solved)) \in Nat
          /\ Worth(Alive(b[e].solved)) <= Worth(D)
      BY <3>3, WorthMonotone
    <3>5. QED
      BY <3>1, <3>2, <3>4
  <2>5. BoardFits(b)
    BY <2>3, <2>4 DEF BoardFits
  <2>6. QED
    BY <1>1, <1>9, <2>1, <2>5, BlankFits, ReaderStep DEF Store
<1>10. CASE ReadFails(r)
  <2>1. troubles' \in 0 .. MaxTroubles
    BY <1>10, TroublesBounded DEF ReadFails, IInv
  <2>2. CASE draft' = [draft EXCEPT ![r] = Blank]
             /\ pc' = [pc EXCEPT ![r] = "idle"]
    BY <1>10, <2>1, <2>2, BlankFits, ReaderStep DEF ReadFails
  <2>3. CASE /\ pc[r] = "records" /\ draft' = draft
             /\ pc' = [pc EXCEPT ![r] = "store"]
    <3>1. DraftFits(draft[r], "store")
      BY <1>1, <2>3 DEF DraftFits
    <3>2. draft' = [draft EXCEPT ![r] = draft[r]]
      BY <2>3 DEF IInv, TypeOK
    <3>3. QED
      BY <1>10, <2>1, <2>3, <3>1, <3>2, ReaderStep DEF ReadFails
  <2>4. QED
    BY <1>10, <2>2, <2>3 DEF ReadFails
<1>11. QED
  BY <1>2, <1>3, <1>4, <1>5, <1>6, <1>7, <1>8, <1>9, <1>10 DEF Read

----------------------------------------------------------------------------

THEOREM Invariant == Spec => []IInv
<1>1. IInv /\ [Next]_vars => IInv'
  <2>1. ASSUME IInv, UNCHANGED vars
        PROVE  IInv'
    <3>1. RowsFit' /\ Goes
      BY <2>1 DEF vars, IInv, RowsFit, Goes, TypeOK
    <3>2. TypeOK' /\ UNCHANGED reading /\ cache' = cache
      BY <2>1 DEF vars, reading, IInv, TypeOK
    <3>3. QED
      BY <2>1, <3>1, <3>2, QuietStep
  <2>2. QED
    BY <2>1, SolveFits, HandleFits, ChangeFits, ExpireFits, ReaderFits DEF Next
<1>2. QED
  BY <1>1, InitFits, PTL DEF Spec

(* Every variable keeps its type, and a cached board is a board. *)
THEOREM TypeCorrect == Spec => []TypeOK
<1>1. IInv => TypeOK
  BY DEF IInv
<1>2. QED
  BY <1>1, Invariant, PTL

(* The total that is shown next to solves was read after them: it contains *)
(* the points of each that was not deleted since, whatever happened in     *)
(* between and since.                                                      *)
THEOREM TotalsCoverSolves == Spec => []ScoresCoverSolves
<1>1. IInv => ScoresCoverSolves
  BY DEF IInv, BoardFits, ScoresCoverSolves, Alive
<1>2. QED
  BY <1>1, Invariant, PTL

(* Who is ahead on a cached board has earned what others are shown with.   *)
THEOREM OrderIsEarned == Spec => []RanksAreEarned
<1>1. ASSUME IInv, NEW b \in cache["leaderboard"], NEW e \in DOMAIN b,
             NEW f \in DOMAIN b, b[e].rank < b[f].rank
      PROVE  Sum(Mine(e)) >= Worth(Alive(b[f].solved))
  <2>1. BoardFits(b)
    BY <1>1 DEF IInv
  <2>2. /\ b[e].score \in Nat /\ b[f].score \in Nat
        /\ Alive(b[f].solved) \in SUBSET Challenges
    BY <2>1 DEF BoardFits, IsBoard, Entry, Alive
  <2>3. Sum(Mine(e)) \in Nat /\ Worth(Alive(b[f].solved)) \in Nat
    BY <1>1, <2>2, MineSums, WorthMonotone DEF IInv
  <2>4. /\ b[e].score <= Sum(Mine(e)) /\ b[e].score >= b[f].score
        /\ b[f].score >= Worth(Alive(b[f].solved))
    BY <1>1, <2>1 DEF BoardFits
  <2>5. QED
    BY <2>2, <2>3, <2>4
<1>2. IInv => RanksAreEarned
  BY <1>1 DEF RanksAreEarned, Mine, Alive
<1>3. QED
  BY <1>2, Invariant, PTL

============================================================================
