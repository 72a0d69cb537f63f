-------------------------- MODULE AnalyticsProofs --------------------------
(***************************************************************************)
(* Proofs about Analytics, for all sets of users, teams, challenges and    *)
(* readers, every view, and whatever is submitted, changed, deleted or     *)
(* fails between the statements of a reader: what is cached is a value of  *)
(* its view, the numbers of an overview fit together although they were    *)
(* read one after the other, and the views count the same submissions.     *)
(***************************************************************************)
EXTENDS Analytics, FiniteSetTheorems, FunctionTheorems, TLAPS

----------------------------------------------------------------------------
(* Totals, and the least of a set.                                         *)

Units(f) == UNION {{x} \X (1 .. f[x]) : x \in DOMAIN f}

LEMMA MinLeast ==
    ASSUME NEW S \in SUBSET Nat, S # {}
    PROVE  Min(S) \in S /\ \A y \in S : Min(S) <= y
<1>1. PICK x \in S : \A y \in S : ~(<<y, x>> \in OpToRel(<, Nat))
  BY NatLessThanWellFounded, WFMin
<1>2. ASSUME NEW y \in S
      PROVE  x <= y
  <2>1. <<y, x>> \in Nat \X Nat /\ ~(<<y, x>> \in OpToRel(<, Nat))
    BY <1>1
  <2>2. ~(y < x)
    BY <2>1 DEF OpToRel
  <2>3. QED
    BY <2>2
<1>3. QED
  BY <1>2 DEF Min

LEMMA TotalBounded ==
    ASSUME NEW D, IsFiniteSet(D), NEW n \in Nat, NEW f \in [D -> 0 .. n]
    PROVE  Total(f) \in Nat /\ Total(f) <= n * Cardinality(D)
<1>1. Units(f) \subseteq D \X (1 .. n)
  BY DEF Units
<1>2. IsFiniteSet(1 .. n) /\ Cardinality(1 .. n) = n
  <2>1. IsFiniteSet(1 .. n) /\ Cardinality(1 .. n) = IF 1 > n THEN 0 ELSE n - 1 + 1
    BY FS_Interval
  <2>2. QED
    BY <2>1
<1>3. /\ IsFiniteSet(D \X (1 .. n))
      /\ Cardinality(D \X (1 .. n)) = Cardinality(D) * n
  BY <1>2, FS_Product
<1>4. /\ IsFiniteSet(Units(f))
      /\ Cardinality(Units(f)) <= Cardinality(D \X (1 .. n))
  BY <1>1, <1>3, FS_Subset
<1>5. Cardinality(D) \in Nat /\ Cardinality(Units(f)) \in Nat
  BY <1>4, FS_CardinalityType
<1>6. Cardinality(D) * n = n * Cardinality(D)
  BY <1>5
<1>7. QED
  BY <1>3, <1>4, <1>5, <1>6 DEF Units, Total

LEMMA TotalType ==
    ASSUME NEW D, IsFiniteSet(D), NEW f \in [D -> Nat]
    PROVE  Total(f) \in Nat
<1> DEFINE g == [x \in D |-> {x} \X (1 .. f[x])]
           T == {{x} \X (1 .. f[x]) : x \in D}
<1>1. g \in Surjection(D, T)
  BY Fun_IsSurj
<1>2. IsFiniteSet(T)
  BY <1>1, FS_Surjection
<1>3. ASSUME NEW x \in D
      PROVE  IsFiniteSet({x} \X (1 .. f[x]))
  <2>1. IsFiniteSet({x})
    BY FS_Singleton
  <2>2. IsFiniteSet(1 .. f[x])
    BY FS_Interval
  <2>3. QED
    BY <2>1, <2>2, FS_Product
<1>4. \A t \in T : IsFiniteSet(t)
  BY <1>3
<1>5. IsFiniteSet(Units(f))
  BY <1>2, <1>4, FS_UNION DEF Units
<1>6. QED
  BY <1>5, FS_CardinalityType DEF Units, Total

(* The sizes of the parts of a set add up to its size. *)
LEMMA PartsAddUp ==
    ASSUME NEW S, IsFiniteSet(S), NEW g, NEW f, NEW D, f \in [D -> Nat],
           \A x \in S : g[x] \in D,
           \A k \in D : f[k] = Cardinality({x \in S : g[x] = k})
    PROVE  Total(f) = Cardinality(S)
<1> DEFINE Part(k) == {x \in S : g[x] = k}
           h == [k \in D |-> CHOOSE b : b \in Bijection(Part(k), 1 .. f[k])]
           F == [x \in S |-> <<g[x], h[g[x]][x]>>]
<1>1. ASSUME NEW k \in D
      PROVE  h[k] \in Bijection(Part(k), 1 .. f[k])
  <2>1. IsFiniteSet(Part(k))
    BY FS_Subset
  <2>2. ExistsBijection(1 .. f[k], Part(k))
    BY <2>1, FS_CardinalityType
  <2>3. ExistsBijection(Part(k), 1 .. f[k])
    BY <2>2, Fun_ExistsBijSymmetric
  <2>4. \E b : b \in Bijection(Part(k), 1 .. f[k])
    BY <2>3, Fun_ExistsBij
  <2>5. QED
    BY <2>4
<1>2. ASSUME NEW k \in D
      PROVE  /\ h[k] \in [Part(k) -> 1 .. f[k]]
             /\ \A a, b \in Part(k) : h[k][a] = h[k][b] => a = b
             /\ \A n \in 1 .. f[k] : \E a \in Part(k) : h[k][a] = n
  <2> HIDE DEF h, Part
  <2>1. h[k] \in Bijection(Part(k), 1 .. f[k])
    BY <1>1
  <2>2. QED
    BY <2>1 DEF Bijection, Injection, Surjection, IsInjective
<1> HIDE DEF h
<1>3. F \in [S -> Units(f)]
  <2>1. ASSUME NEW x \in S
        PROVE  F[x] \in Units(f)
    <3>1. g[x] \in D /\ x \in Part(g[x])
      OBVIOUS
    <3>2. h[g[x]] \in [Part(g[x]) -> 1 .. f[g[x]]]
      BY <1>2, <3>1
    <3>3. h[g[x]][x] \in 1 .. f[g[x]]
      BY <3>1, <3>2
    <3>4. QED
      BY <3>1, <3>3 DEF Units
  <2>2. QED
    BY <2>1
<1>4. ASSUME NEW a \in S, NEW b \in S, F[a] = F[b]
      PROVE  a = b
  <2>1. g[a] \in D /\ g[a] = g[b] /\ h[g[a]][a] = h[g[a]][b]
    BY <1>4
  <2>2. a \in Part(g[a]) /\ b \in Part(g[a])
    BY <2>1
  <2>3. QED
    BY <1>2, <2>1, <2>2
<1>5. ASSUME NEW u \in Units(f)
      PROVE  \E x \in S : F[x] = u
  <2>1. PICK k \in D : u \in {k} \X (1 .. f[k])
    BY DEF Units
  <2>2. PICK x \in Part(k) : h[k][x] = u[2]
    BY <1>2, <2>1
  <2>3. x \in S /\ F[x] = u
    BY <2>1, <2>2
  <2>4. QED
    BY <2>3
<1>6. F \in Bijection(S, Units(f))
  BY <1>3, <1>4, <1>5, Fun_IsBij
<1>7. ExistsBijection(S, Units(f))
  BY <1>6, Fun_ExistsBij
<1>8. QED
  BY <1>7, FS_Bijection DEF Units, Total

(* So the total of ones is a number of elements. *)
LEMMA TotalOfOnes ==
    ASSUME NEW S, IsFiniteSet(S), NEW f \in [S -> {1}]
    PROVE  Total(f) = Cardinality(S)
<1> DEFINE g == [x \in S |-> x]
<1>1. ASSUME NEW k \in S
      PROVE  f[k] = Cardinality({x \in S : g[x] = k})
  <2>1. {x \in S : g[x] = k} = {k}
    OBVIOUS
  <2>2. Cardinality({k}) = 1
    BY FS_Singleton
  <2>3. QED
    BY <2>1, <2>2
<1>2. f \in [S -> Nat] /\ \A x \in S : g[x] \in S
  OBVIOUS
<1>3. QED
  <2> HIDE DEF g
  <2>1. QED
    BY <1>1, <1>2, PartsAddUp

(* An image is no larger, a set that injects into another is no larger.    *)
LEMMA ImageSize ==
    ASSUME NEW S, IsFiniteSet(S), NEW g
    PROVE  /\ IsFiniteSet({g[x] : x \in S})
           /\ Cardinality({g[x] : x \in S}) <= Cardinality(S)
           /\ Cardinality({g[x] : x \in S}) \in Nat
<1> DEFINE F == [x \in S |-> g[x]]
<1>1. F \in Surjection(S, {g[x] : x \in S})
  BY Fun_IsSurj
<1>2. QED
  BY <1>1, FS_Surjection, FS_CardinalityType

----------------------------------------------------------------------------
(* The views count the same submissions.                                   *)

LEMMA PartsMakeAddUp ==
    ASSUME NEW S, IsFiniteSet(S), NEW F, NEW g,
           \A x \in S : g[x] \in DOMAIN F,
           \A k \in DOMAIN F :
               /\ F[k].solves = Cardinality({x \in Correct(S) : g[x] = k})
               /\ F[k].attempts = Cardinality({x \in S : g[x] = k})
    PROVE  AddUp(F, S)
<1> DEFINE D == DOMAIN F
           solves == [k \in D |-> F[k].solves]
           attempts == [k \in D |-> F[k].attempts]
<1>1. IsFiniteSet(Correct(S))
  BY FS_Subset DEF Correct
<1>2. ASSUME NEW T \in SUBSET S, NEW k
      PROVE  Cardinality({x \in T : g[x] = k}) \in Nat
  <2>1. {x \in T : g[x] = k} \in SUBSET S
    OBVIOUS
  <2>2. QED
    BY <2>1, FS_Subset, FS_CardinalityType
<1>3. solves \in [D -> Nat] /\ attempts \in [D -> Nat]
  <2>1. Correct(S) \in SUBSET S /\ S \in SUBSET S
    BY DEF Correct
  <2>2. ASSUME NEW k \in D
        PROVE  F[k].solves \in Nat /\ F[k].attempts \in Nat
    <3>1. /\ F[k].solves = Cardinality({x \in Correct(S) : g[x] = k})
          /\ F[k].attempts = Cardinality({x \in S : g[x] = k})
      OBVIOUS
    <3>2. Cardinality({x \in Correct(S) : g[x] = k}) \in Nat
      BY <1>2, <2>1
    <3>3. Cardinality({x \in S : g[x] = k}) \in Nat
      BY <1>2, <2>1
    <3>4. QED
      BY <3>1, <3>2, <3>3
  <2>3. QED
    BY <2>2
<1>4. Total(solves) = Cardinality(Correct(S))
  <2>1. /\ \A x \in Correct(S) : g[x] \in D
        /\ \A k \in D : solves[k] = Cardinality({x \in Correct(S) : g[x] = k})
    BY DEF Correct
  <2> HIDE DEF solves, D
  <2>2. QED
    BY <1>1, <1>3, <2>1, PartsAddUp
<1>5. Total(attempts) = Cardinality(S)
  <2>1. /\ \A x \in S : g[x] \in D
        /\ \A k \in D : attempts[k] = Cardinality({x \in S : g[x] = k})
    OBVIOUS
  <2> HIDE DEF attempts, D
  <2>2. QED
    BY <1>3, <2>1, PartsAddUp
<1>6. QED
  BY <1>4, <1>5 DEF AddUp

LEMMA FiguresAddUp ==
    ASSUME rows \in SUBSET Row, IsFiniteSet(rows),
           \A c \in Challenges : chals[c].copies = 1 /\ ~chals[c].deleted
    PROVE  /\ AddUp(CategoryFigures, rows)
           /\ AddUp(ChallengeFigures, rows)
           /\ AddUp(EntityFigures("individual"), rows)
           /\ AddUp(EntityFigures("team"), {row \in rows : row.team # NoTeam})
<1>1. AddUp(CategoryFigures, rows)
  <2> DEFINE g == [row \in rows |-> Category[row.chal]]
             F == CategoryFigures
             Of(k) == {row \in rows : row.chal \in {c \in Joined : Category[c] = k}}
             Weigh(S) == Total([row \in S |-> chals[row.chal].copies])
  <2>1. Joined = Challenges
    BY DEF Joined
  <2>2. DOMAIN F = {Category[c] : c \in Challenges}
    BY <2>1 DEF CategoryFigures
  <2>3. \A row \in rows : g[row] \in DOMAIN F
    BY <2>2 DEF Row
  <2>4. ASSUME NEW S \in SUBSET rows
        PROVE  Weigh(S) = Cardinality(S)
    <3>1. [row \in S |-> chals[row.chal].copies] \in [S -> {1}]
      BY DEF Row
    <3>2. IsFiniteSet(S)
      BY FS_Subset
    <3>3. QED
      BY <3>1, <3>2, TotalOfOnes
  <2>5. ASSUME NEW k \in DOMAIN F
        PROVE  /\ F[k].solves = Cardinality({x \in Correct(rows) : g[x] = k})
               /\ F[k].attempts = Cardinality({x \in rows : g[x] = k})
    <3>1. F[k].solves = Weigh(Correct(Of(k))) /\ F[k].attempts = Weigh(Of(k))
      BY DEF CategoryFigures
    <3>2. Of(k) = {x \in rows : g[x] = k}
      BY <2>1 DEF Row
    <3>3. Correct(Of(k)) = {x \in Correct(rows) : g[x] = k}
      BY <3>2 DEF Correct
    <3>4. Of(k) \in SUBSET rows /\ Correct(Of(k)) \in SUBSET rows
      BY DEF Correct
    <3> HIDE DEF Of, Weigh, F, g
    <3>5. QED
      BY <2>4, <3>1, <3>2, <3>3, <3>4
  <2> HIDE DEF g, F
  <2>6. QED
    BY <2>3, <2>5, PartsMakeAddUp DEF F
<1>2. AddUp(ChallengeFigures, rows)
  <2> DEFINE g == [row \in rows |-> row.chal]
             F == ChallengeFigures
  <2>1. \A row \in rows : g[row] \in DOMAIN F
    BY DEF ChallengeFigures
  <2>2. ASSUME NEW k \in DOMAIN F
        PROVE  /\ F[k].solves = Cardinality({x \in Correct(rows) : g[x] = k})
               /\ F[k].attempts = Cardinality({x \in rows : g[x] = k})
    <3>1. {row \in rows : row.chal = k} = {x \in rows : g[x] = k}
      OBVIOUS
    <3>2. Correct({row \in rows : row.chal = k}) =
              {x \in Correct(rows) : g[x] = k}
      BY DEF Correct
    <3>3. /\ F[k].solves = Cardinality(Correct({row \in rows : row.chal = k}))
          /\ F[k].attempts = Cardinality({row \in rows : row.chal = k})
      BY DEF ChallengeFigures
    <3>4. QED
      BY <3>1, <3>2, <3>3
  <2> HIDE DEF g, F
  <2>3. QED
    BY <2>1, <2>2, PartsMakeAddUp DEF F
<1>3. ASSUME NEW mode \in {"individual", "team"}
      PROVE  AddUp(EntityFigures(mode),
                   IF mode = "team" THEN {row \in rows : row.team # NoTeam}
                                    ELSE rows)
  <2> DEFINE S == IF mode = "team" THEN {row \in rows : row.team # NoTeam}
                                   ELSE rows
             g == [row \in rows |-> IF mode = "team" THEN row.team ELSE row.user]
             F == EntityFigures(mode)
  <2>1. IsFiniteSet(S) /\ S \subseteq rows
    BY FS_Subset
  <2>2. \A row \in S : g[row] \in DOMAIN F
    BY DEF EntityFigures, Entities, TeamsIn, UsersIn
  <2>3. ASSUME NEW k \in DOMAIN F
        PROVE  /\ F[k].solves = Cardinality({x \in Correct(S) : g[x] = k})
               /\ F[k].attempts = Cardinality({x \in S : g[x] = k})
    <3>1. mode = "team" => k # NoTeam
      BY DEF EntityFigures, Entities, TeamsIn
    <3>2. RowsOf(mode, k) = {x \in S : g[x] = k}
      BY <3>1 DEF RowsOf
    <3>3. Correct(RowsOf(mode, k)) = {x \in Correct(S) : g[x] = k}
      BY <3>2 DEF Correct
    <3>4. /\ F[k].solves = Cardinality(Correct(RowsOf(mode, k)))
          /\ F[k].attempts = Cardinality(RowsOf(mode, k))
      BY DEF EntityFigures
    <3>5. QED
      BY <3>2, <3>3, <3>4
  <2> HIDE DEF S, g, F
  <2>4. AddUp(F, S)
    BY <2>1, <2>2, <2>3, PartsMakeAddUp
  <2>5. QED
    BY <2>4 DEF F, S
<1>4. QED
  BY <1>1, <1>2, <1>3

----------------------------------------------------------------------------
(* The inductive invariant.                                                *)

Parts == {"mode", "count", "entities", "total", "correct", "solves",
          "listed", "figures", "left", "teams"}

OneRowEach(S) ==
    \A a, b \in S : a.user = b.user /\ a.chal = b.chal /\ a.correct = b.correct
                        => a = b

RowsFit ==
    /\ rows \in SUBSET Row
    /\ IsFiniteSet(rows) /\ Cardinality(rows) <= MaxRows
    /\ OneRowEach(rows)

(* What a reader has read when the statement at p is its next.  What was   *)
(* counted bounds what is counted later, for submissions are never removed.*)
OverviewFits(d, p) ==
    /\ d.count \in Nat
    /\ p <= 5 => d.solves = 0
    /\ p >= 4 => d.entities \in Nat
    /\ p = 4 => d.entities <= Cardinality(rows)
    /\ p >= 5 => /\ d.total \in 0 .. MaxRows /\ d.correct \in Nat
                 /\ d.entities <= d.total /\ d.correct <= d.total
                 /\ d.correct <= Cardinality(Correct(rows))
    /\ p >= 6 => /\ d.solves \in 0 .. MaxRows
                 /\ d.mode = "individual" /\ d.entities > 0
                        => d.correct <= d.solves

(* The teams of every category, or challenge, of the answer are counted or *)
(* still to be counted, and none is left when the answer is put together.  *)
TeamsCover(d, p, K) ==
    d.mode = "team" => /\ K \subseteq DOMAIN d.teams \cup d.left
                       /\ p = 5 => d.left = {}

CategoriesFits(d, p) ==
    p >= 4 =>
        /\ d.figures \in [DOMAIN d.figures ->
                             [challenges: Nat, solves: Counts,
                              attempts: Counts, unique: Counts]]
        /\ TeamsCover(d, p, DOMAIN d.figures)

UsersFits(d, p) ==
    p = 3 =>
        /\ d.figures \in [DOMAIN d.figures ->
                             [solves: Counts, attempts: Counts,
                              score: SUBSET Nat]]
        /\ \A e \in DOMAIN d.figures : Cardinality(d.figures[e].score) = 1

ChallengesFits(d, p) ==
    /\ p >= 3 => /\ d.listed \in [DOMAIN d.listed -> 1 .. 2]
                 /\ TeamsCover(d, p, DOMAIN d.listed)
    /\ p >= 4 => d.figures \in [DOMAIN d.figures ->
                                   [solves: Counts, attempts: Counts,
                                    unique: Counts]]

Fits(d, p) ==
    /\ DOMAIN d = Parts /\ d = [i \in Parts |-> d[i]]
    /\ d.mode \in Modes
    /\ p <= 1 => d = Blank
    /\ \A k \in DOMAIN d.teams : d.teams[k] \in Counts
    /\ view = "overview" => OverviewFits(d, p)
    /\ view = "categories" => CategoriesFits(d, p)
    /\ view = "users" => UsersFits(d, p)
    /\ view = "challenges" => ChallengesFits(d, p)

Agrees(x) ==
    /\ x.entities <= x.total
    /\ x.correct <= x.total
    /\ x.mode = "individual" /\ x.entities > 0 => x.correct <= x.solves

CacheFits ==
    /\ cache = {} \/ \E x \in cache : cache = {x}
    /\ \A x \in cache : IsValue(x) /\ (view = "overview" => Agrees(x))

IInv ==
    /\ view \in Views /\ comp \in Comp /\ chals \in [Challenges -> Chal]
    /\ RowsFit
    /\ due \subseteq Correct(rows)
    /\ CacheFits
    /\ pc \in [Readers -> 0 .. Len(Plan[view])]
    /\ DOMAIN draft = Readers /\ draft = [r \in Readers |-> draft[r]]
    /\ \A r \in Readers : Fits(draft[r], pc[r])
    /\ changes \in 0 .. MaxChanges
    /\ faults \in 0 .. MaxFaults
----------------------------------------------------------------------------
(* The plans: where each statement is, and what comes after it.            *)

LEMMA Plans ==
    /\ view = "overview" =>
           /\ Len(Plan[view]) = 7 /\ Plan[view][1] = "mode"
           /\ Plan[view][2] = "count" /\ Plan[view][3] = "entities"
           /\ Plan[view][4] = "totals" /\ Plan[view][5] = "solves"
           /\ Plan[view][6] = "average" /\ Plan[view][7] = "store"
    /\ view = "categories" =>
           /\ Len(Plan[view]) = 5 /\ Plan[view][1] = "mode"
           /\ Plan[view][2] = "entities" /\ Plan[view][3] = "figures"
           /\ Plan[view][4] = "teams" /\ Plan[view][5] = "store"
    /\ view = "users" =>
           /\ Len(Plan[view]) = 3 /\ Plan[view][1] = "mode"
           /\ Plan[view][2] = "figures" /\ Plan[view][3] = "store"
    /\ view = "challenges" =>
           /\ Len(Plan[view]) = 5 /\ Plan[view][1] = "mode"
           /\ Plan[view][2] = "count" /\ Plan[view][3] = "figures"
           /\ Plan[view][4] = "teams" /\ Plan[view][5] = "store"
BY DEF Plan

LEMMA AfterIs ==
    ASSUME NEW i \in Nat, NEW j \in i + 1 .. Len(Plan[view]), NEW d,
           Len(Plan[view]) \in Nat,
           ~Skipped(Plan[view][j], d),
           \A k \in i + 1 .. j - 1 : Skipped(Plan[view][k], d)
    PROVE  After(i, d) = j
<1> DEFINE S == {k \in i + 1 .. Len(Plan[view]) : ~Skipped(Plan[view][k], d)}
<1>1. S \in SUBSET Nat /\ j \in S
  OBVIOUS
<1>2. \A k \in S : j <= k
  OBVIOUS
<1> HIDE DEF S
<1>3. Min(S) \in S /\ \A k \in S : Min(S) <= k
  BY <1>1, MinLeast
<1>4. Min(S) \in Nat /\ j \in Nat /\ j <= Min(S) /\ Min(S) <= j
  BY <1>1, <1>2, <1>3
<1>5. Min(S) = j
  <2> HIDE DEF Min
  <2>1. QED
    BY <1>4
<1>6. QED
  BY <1>5 DEF After, S

LEMMA OneOn ==
    ASSUME NEW i \in Nat, Len(Plan[view]) \in Nat, i < Len(Plan[view]), NEW d,
           ~Skipped(Plan[view][i + 1], d)
    PROVE  After(i, d) = i + 1
BY AfterIs

LEMMA TwoOn ==
    ASSUME NEW i \in Nat, Len(Plan[view]) \in Nat, i + 1 < Len(Plan[view]),
           NEW d,
           Skipped(Plan[view][i + 1], d), ~Skipped(Plan[view][i + 2], d)
    PROVE  After(i, d) = i + 2
<1>1. \A k \in i + 1 .. (i + 2) - 1 : k = i + 1
  OBVIOUS
<1>2. QED
  BY <1>1, AfterIs

LEMMA NextStatement ==
    ASSUME view \in AllViews, NEW d
    PROVE  /\ After(1, d) = 2
           /\ view = "overview" =>
                  /\ After(2, d) = 3 /\ After(3, d) = 4
                  /\ After(4, d) = IF d.entities = 0 THEN 6 ELSE 5
                  /\ After(5, d) = 6 /\ After(6, d) = 7
           /\ view = "users" => After(2, d) = 3
           /\ view \in {"categories", "challenges"} =>
                  /\ After(2, d) = 3
                  /\ After(3, d) = IF d.mode = "team" /\ d.left # {} THEN 4
                                                                     ELSE 5
                  /\ After(4, d) = 5
<1>1. /\ Skipped("solves", d) <=> d.entities = 0
      /\ Skipped("teams", d) <=> ~(d.mode = "team" /\ d.left # {})
      /\ \A s \in {"mode", "count", "entities", "totals", "average",
                   "figures", "store"} : ~Skipped(s, d)
  BY DEF Skipped
<1>2. CASE view = "overview"
  <2>1. /\ Len(Plan[view]) = 7
        /\ Plan[view][2] = "count" /\ Plan[view][3] = "entities"
        /\ Plan[view][4] = "totals" /\ Plan[view][5] = "solves"
        /\ Plan[view][6] = "average" /\ Plan[view][7] = "store"
    BY <1>2, Plans
  <2>2. After(1, d) = 2 /\ After(2, d) = 3 /\ After(3, d) = 4
    <3>1. After(1, d) = 1 + 1
      BY <1>1, <2>1, OneOn
    <3>2. After(2, d) = 2 + 1
      BY <1>1, <2>1, OneOn
    <3>3. After(3, d) = 3 + 1
      BY <1>1, <2>1, OneOn
    <3>4. QED
      BY <3>1, <3>2, <3>3
  <2>3. After(4, d) = IF d.entities = 0 THEN 6 ELSE 5
    <3>1. d.entities = 0 => After(4, d) = 4 + 2
      BY <1>1, <2>1, TwoOn
    <3>2. d.entities # 0 => After(4, d) = 4 + 1
      BY <1>1, <2>1, OneOn
    <3>3. QED
      BY <3>1, <3>2
  <2>4. After(5, d) = 6 /\ After(6, d) = 7
    <3>1. After(5, d) = 5 + 1
      BY <1>1, <2>1, OneOn
    <3>2. After(6, d) = 6 + 1
      BY <1>1, <2>1, OneOn
    <3>3. QED
      BY <3>1, <3>2
  <2>5. QED
    BY <1>2, <2>2, <2>3, <2>4
<1>3. CASE view = "users"
  <2>1. /\ Len(Plan[view]) = 3
        /\ Plan[view][2] = "figures" /\ Plan[view][3] = "store"
    BY <1>3, Plans
  <2>2. After(1, d) = 1 + 1
    BY <1>1, <2>1, OneOn
  <2>3. After(2, d) = 2 + 1
    BY <1>1, <2>1, OneOn
  <2>4. QED
    BY <1>3, <2>2, <2>3
<1>4. CASE view \in {"categories", "challenges"}
  <2>1. /\ Len(Plan[view]) = 5
        /\ Plan[view][2] \in {"entities", "count"}
        /\ Plan[view][3] = "figures" /\ Plan[view][4] = "teams"
        /\ Plan[view][5] = "store"
    BY <1>4, Plans
  <2>2. After(1, d) = 1 + 1
    BY <1>1, <2>1, OneOn
  <2>3. After(2, d) = 2 + 1
    BY <1>1, <2>1, OneOn
  <2>4. After(3, d) = IF d.mode = "team" /\ d.left # {} THEN 4 ELSE 5
    <3>1. d.mode = "team" /\ d.left # {} => After(3, d) = 3 + 1
      BY <1>1, <2>1, OneOn
    <3>2. ~(d.mode = "team" /\ d.left # {}) => After(3, d) = 3 + 2
      BY <1>1, <2>1, TwoOn
    <3>3. QED
      BY <3>1, <3>2
  <2>5. After(4, d) = 4 + 1
    BY <1>1, <2>1, OneOn
  <2>6. QED
    BY <1>4, <2>2, <2>3, <2>4, <2>5
<1>5. QED
  BY <1>2, <1>3, <1>4 DEF AllViews

----------------------------------------------------------------------------
(* What the queries return.                                                *)

LEMMA Sizes ==
    ASSUME RowsFit, MaxRows \in Nat, NEW S \in SUBSET rows
    PROVE  /\ IsFiniteSet(S)
           /\ Cardinality(S) \in 0 .. MaxRows
           /\ IsFiniteSet(Correct(S))
           /\ Cardinality(Correct(S)) \in 0 .. MaxRows
           /\ Cardinality(Correct(S)) <= Cardinality(S)
           /\ Cardinality(UsersIn(S)) \in 0 .. MaxRows
           /\ Cardinality(UsersIn(S)) <= Cardinality(S)
           /\ Cardinality(TeamsIn(S)) \in 0 .. MaxRows
           /\ Cardinality(TeamsIn(S)) <= Cardinality(S)
<1>1. ASSUME NEW T \in SUBSET rows
      PROVE  /\ IsFiniteSet(T) /\ Cardinality(T) \in 0 .. MaxRows
  BY FS_Subset, FS_CardinalityType DEF RowsFit
<1>2. Correct(S) \in SUBSET rows /\ Correct(S) \subseteq S
  BY DEF Correct
<1>3. Cardinality(Correct(S)) <= Cardinality(S)
  BY <1>1, <1>2, FS_Subset
<1>4. /\ IsFiniteSet(UsersIn(S))
      /\ Cardinality(UsersIn(S)) <= Cardinality(S)
      /\ Cardinality(UsersIn(S)) \in Nat
  <2> DEFINE g == [row \in S |-> row.user]
  <2>1. UsersIn(S) = {g[x] : x \in S}
    BY DEF UsersIn
  <2>2. IsFiniteSet(S)
    BY <1>1
  <2> HIDE DEF g
  <2>3. QED
    BY <2>1, <2>2, ImageSize
<1>5. /\ Cardinality(TeamsIn(S)) <= Cardinality(S)
      /\ Cardinality(TeamsIn(S)) \in Nat
  <2> DEFINE g == [row \in S |-> row.team]
             T == {g[x] : x \in S}
  <2>1. TeamsIn(S) = T \ {NoTeam}
    BY DEF TeamsIn
  <2>2. IsFiniteSet(S)
    BY <1>1
  <2> HIDE DEF g
  <2>3. IsFiniteSet(T) /\ Cardinality(T) <= Cardinality(S) /\ Cardinality(T) \in Nat
    BY <2>2, ImageSize
  <2> HIDE DEF T
  <2>4. Cardinality(T \ {NoTeam}) <= Cardinality(T)
        /\ IsFiniteSet(T \ {NoTeam})
    BY <2>3, FS_Subset
  <2>5. Cardinality(T \ {NoTeam}) \in Nat
    BY <2>4, FS_CardinalityType
  <2>6. Cardinality(S) \in Nat
    BY <1>1
  <2>7. QED
    BY <2>1, <2>3, <2>4, <2>5, <2>6
<1>6. QED
  BY <1>1, <1>2, <1>3, <1>4, <1>5

(* Nobody solves a challenge twice, so that there are as many solves as    *)
(* correct rows when individuals are counted.                              *)
LEMMA SolvesCover ==
    ASSUME RowsFit, MaxRows \in Nat, NEW mode \in Modes
    PROVE  /\ Cardinality(Solves(mode)) \in 0 .. MaxRows
           /\ mode = "individual" =>
                  Cardinality(Correct(rows)) <= Cardinality(Solves(mode))
<1> DEFINE Who(row) == IF mode = "team" THEN row.team ELSE row.user
           g == [row \in Correct(rows) |-> <<Who(row), row.chal>>]
           T == {g[x] : x \in Correct(rows)}
<1>1. IsFiniteSet(Correct(rows)) /\ Cardinality(Correct(rows)) \in 0 .. MaxRows
  BY Sizes
<1>2. IsFiniteSet(T) /\ Cardinality(T) <= Cardinality(Correct(rows))
  <2> HIDE DEF g
  <2>1. QED
    BY <1>1, ImageSize
<1>3. Solves(mode) \subseteq T
  <2>1. ASSUME NEW s \in Solves(mode)
        PROVE  s \in T
    <3>1. PICK row \in Correct(RowsOf(mode, s[1])) : row.chal = s[2]
      BY DEF Solves
    <3>2. row \in Correct(rows) /\ Who(row) = s[1]
      BY DEF Correct, RowsOf
    <3>3. s = <<s[1], s[2]>>
      BY DEF Solves
    <3>4. g[row] = s
      BY <3>1, <3>2, <3>3
    <3>5. QED
      BY <3>2, <3>4
  <2>2. QED
    BY <2>1
<1>4. IsFiniteSet(Solves(mode)) /\ Cardinality(Solves(mode)) <= Cardinality(T)
  <2> HIDE DEF T
  <2>1. QED
    BY <1>2, <1>3, FS_Subset
<1>5. Cardinality(Solves(mode)) \in Nat /\ Cardinality(T) \in Nat
  <2> HIDE DEF T
  <2>1. QED
    BY <1>2, <1>4, FS_CardinalityType
<1>6. ASSUME mode = "individual"
      PROVE  Cardinality(Correct(rows)) <= Cardinality(Solves(mode))
  <2>1. ASSUME NEW row \in Correct(rows)
        PROVE  g[row] \in Solves(mode)
    <3>1. row \in rows /\ row \in Row /\ g[row] = <<row.user, row.chal>>
      BY <1>6 DEF Correct, RowsFit
    <3>2. row.user \in Entities(mode) /\ row.chal \in Challenges
      BY <1>6, <3>1 DEF Entities, UsersIn, Row
    <3>3. row \in Correct(RowsOf(mode, row.user))
      BY <1>6, <3>1 DEF Correct, RowsOf
    <3>4. QED
      BY <3>1, <3>2, <3>3 DEF Solves
  <2>2. ASSUME NEW a \in Correct(rows), NEW b \in Correct(rows), g[a] = g[b]
        PROVE  a = b
    <3>1. a \in rows /\ b \in rows /\ a.correct /\ b.correct
      BY DEF Correct
    <3>2. a.correct \in BOOLEAN /\ b.correct \in BOOLEAN
      BY <3>1 DEF RowsFit, Row
    <3>3. a.user = b.user /\ a.chal = b.chal
      BY <1>6, <2>2
    <3>4. a.correct = b.correct
      BY <3>1, <3>2
    <3>5. QED
      BY <3>1, <3>3, <3>4 DEF RowsFit, OneRowEach
  <2>3. g \in Injection(Correct(rows), Solves(mode))
    BY <2>1, <2>2, Fun_IsInj
  <2>4. QED
    BY <1>4, <2>3, FS_Injection
<1> HIDE DEF T
<1>7. Cardinality(Solves(mode)) \in 0 .. MaxRows
  BY <1>1, <1>2, <1>4, <1>5
<1>8. QED
  BY <1>6, <1>7

LEMMA FiguresFit ==
    ASSUME RowsFit, AnalyticsAssumption, chals \in [Challenges -> Chal],
           NEW mode \in Modes
    PROVE  /\ CategoryFigures \in [DOMAIN CategoryFigures ->
                  [challenges: Nat, solves: Counts, attempts: Counts,
                   unique: Counts]]
           /\ EntityFigures(mode) \in [DOMAIN EntityFigures(mode) ->
                  [solves: Counts, attempts: Counts, score: SUBSET Nat]]
           /\ ChallengeFigures \in [DOMAIN ChallengeFigures ->
                  [solves: Counts, attempts: Counts, unique: Counts]]
<1> USE DEF AnalyticsAssumption
<1>1. 0 .. MaxRows \subseteq Counts
  BY DEF Counts
<1>2. ASSUME NEW S \in SUBSET rows
      PROVE  Total([row \in S |-> chals[row.chal].copies]) \in Counts
  <2> DEFINE f == [row \in S |-> chals[row.chal].copies]
  <2>1. f \in [S -> 0 .. 2]
    BY DEF RowsFit, Row, Chal
  <2>2. IsFiniteSet(S) /\ Cardinality(S) \in 0 .. MaxRows
    BY Sizes
  <2> HIDE DEF f
  <2>3. Total(f) \in Nat /\ Total(f) <= 2 * Cardinality(S)
    BY <2>1, <2>2, TotalBounded
  <2>4. QED
    BY <2>2, <2>3 DEF Counts, f
<1>3. ASSUME NEW k \in DOMAIN CategoryFigures
      PROVE  CategoryFigures[k] \in
                 [challenges: Nat, solves: Counts, attempts: Counts,
                  unique: Counts]
  <2> DEFINE mine == {c \in Joined : Category[c] = k}
             S == {row \in rows : row.chal \in mine}
             Weigh(X) == Total([row \in X |-> chals[row.chal].copies])
  <2>1. CategoryFigures[k] =
            [challenges |-> Cardinality(mine), solves |-> Weigh(Correct(S)),
             attempts |-> Weigh(S), unique |-> Cardinality(UsersIn(Correct(S)))]
    BY DEF CategoryFigures
  <2>2. Cardinality(mine) \in Nat
    <3>1. mine \subseteq Challenges
      BY DEF Joined
    <3>2. QED
      BY <3>1, FS_Subset, FS_CardinalityType
  <2>3. S \in SUBSET rows /\ Correct(S) \in SUBSET rows
    BY DEF Correct
  <2> HIDE DEF S, mine
  <2>4. Weigh(S) \in Counts /\ Weigh(Correct(S)) \in Counts
    BY <1>2, <2>3
  <2>5. Cardinality(UsersIn(Correct(S))) \in Counts
    BY <1>1, <2>3, Sizes
  <2> HIDE DEF Weigh
  <2>6. QED
    BY <2>1, <2>2, <2>4, <2>5
<1>4. ASSUME NEW S \in SUBSET rows
      PROVE  Score(S) \in SUBSET Nat
  <2> DEFINE worth == {row \in S : ~chals[row.chal].deleted}
             f == [row \in Correct(worth) |-> Points[row.chal]]
  <2>1. Correct(worth) \in SUBSET rows
    BY DEF Correct
  <2>2. IsFiniteSet(Correct(worth))
    BY <2>1, Sizes
  <2>3. f \in [Correct(worth) -> Nat]
    BY <2>1 DEF RowsFit, Row
  <2> HIDE DEF worth, f
  <2>4. Total(f) \in Nat
    BY <2>2, <2>3, TotalType
  <2>5. QED
    BY <2>4 DEF Score, worth, f
<1>5. ASSUME NEW e \in DOMAIN EntityFigures(mode)
      PROVE  EntityFigures(mode)[e] \in
                 [solves: Counts, attempts: Counts, score: SUBSET Nat]
  <2> DEFINE S == RowsOf(mode, e)
  <2>1. EntityFigures(mode)[e] =
            [solves |-> Cardinality(Correct(S)), attempts |-> Cardinality(S),
             score |-> Score(S)]
    BY DEF EntityFigures
  <2>2. S \in SUBSET rows
    BY DEF RowsOf
  <2> HIDE DEF S
  <2>3. Cardinality(Correct(S)) \in Counts /\ Cardinality(S) \in Counts
    BY <1>1, <2>2, Sizes
  <2>4. Score(S) \in SUBSET Nat
    BY <1>4, <2>2
  <2>5. QED
    BY <2>1, <2>3, <2>4
<1>6. ASSUME NEW c \in DOMAIN ChallengeFigures
      PROVE  ChallengeFigures[c] \in
                 [solves: Counts, attempts: Counts, unique: Counts]
  <2> DEFINE S == {row \in rows : row.chal = c}
  <2>1. ChallengeFigures[c] =
            [solves |-> Cardinality(Correct(S)), attempts |-> Cardinality(S),
             unique |-> Cardinality(UsersIn(Correct(S)))]
    BY DEF ChallengeFigures
  <2>2. S \in SUBSET rows /\ Correct(S) \in SUBSET rows
    BY DEF Correct
  <2> HIDE DEF S
  <2>3. Cardinality(Correct(S)) \in Counts /\ Cardinality(S) \in Counts
    BY <1>1, <2>2, Sizes
  <2>4. Cardinality(UsersIn(Correct(S))) \in Counts
    BY <1>1, <2>2, Sizes
  <2>5. QED
    BY <2>1, <2>3, <2>4
<1>7. /\ CategoryFigures = [k \in DOMAIN CategoryFigures |-> CategoryFigures[k]]
      /\ EntityFigures(mode) =
             [e \in DOMAIN EntityFigures(mode) |-> EntityFigures(mode)[e]]
      /\ ChallengeFigures = [c \in DOMAIN ChallengeFigures |-> ChallengeFigures[c]]
  BY DEF CategoryFigures, EntityFigures, ChallengeFigures
<1>8. QED
  BY <1>3, <1>5, <1>6, <1>7

(* The score is a set of one number, unless somebody has no sum.           *)
LEMMA ScoreIsOne ==
    ASSUME NEW S, Score(S) # {}
    PROVE  Cardinality(Score(S)) = 1
BY FS_Singleton DEF Score

LEMMA ListedFits ==
    ASSUME chals \in [Challenges -> Chal]
    PROVE  Listed \in [DOMAIN Listed -> 1 .. 2]
BY DEF Listed, Joined, Chal

LEMMA AssignmentsFit ==
    ASSUME AnalyticsAssumption, chals \in [Challenges -> Chal]
    PROVE  Assignments \in Nat
<1> DEFINE f == [c \in Challenges |-> chals[c].copies]
<1>1. f \in [Challenges -> Nat] /\ IsFiniteSet(Challenges)
  BY DEF Chal, AnalyticsAssumption
<1> HIDE DEF f
<1>2. Total(f) \in Nat
  BY <1>1, TotalType
<1>3. QED
  BY <1>2 DEF Assignments, f

LEMMA SolvedByFits ==
    ASSUME RowsFit, AnalyticsAssumption, NEW k
    PROVE  SolvedBy(k) \in Counts
<1> DEFINE S == {row \in Correct(rows) :
        IF view = "categories" THEN row.chal \in Joined /\ Category[row.chal] = k
                               ELSE row.chal = k}
<1>1. S \in SUBSET rows
  BY DEF Correct
<1> HIDE DEF S
<1>2. Cardinality(TeamsIn(S)) \in 0 .. MaxRows
  BY <1>1, Sizes DEF AnalyticsAssumption
<1>3. QED
  BY <1>2 DEF SolvedBy, S, Counts, AnalyticsAssumption

----------------------------------------------------------------------------
(* The steps of a reader.                                                  *)

LEMMA AtIs ==
    ASSUME IInv, AnalyticsAssumption, NEW r \in Readers
    PROVE  /\ view \in AllViews
           /\ pc[r] \in Nat
           /\ At(r, "mode") <=> pc[r] = 1
           /\ At(r, "count") <=> pc[r] = 2 /\ view \in {"overview", "challenges"}
           /\ At(r, "entities") <=> \/ pc[r] = 3 /\ view = "overview"
                                    \/ pc[r] = 2 /\ view = "categories"
           /\ At(r, "totals") <=> pc[r] = 4 /\ view = "overview"
           /\ At(r, "solves") <=> pc[r] = 5 /\ view = "overview"
           /\ At(r, "average") <=> pc[r] = 6 /\ view = "overview"
           /\ At(r, "figures") <=> \/ pc[r] = 2 /\ view = "users"
                                   \/ pc[r] = 3 /\ view \in {"categories", "challenges"}
           /\ At(r, "teams") <=> pc[r] = 4 /\ view \in {"categories", "challenges"}
           /\ At(r, "store") <=> \/ pc[r] = 7 /\ view = "overview"
                                 \/ pc[r] = 3 /\ view = "users"
                                 \/ pc[r] = 5 /\ view \in {"categories", "challenges"}
<1>1. view \in AllViews /\ pc[r] \in 0 .. Len(Plan[view])
  BY DEF IInv, AnalyticsAssumption
<1>2. CASE view = "overview"
  <2>1. pc[r] \in 0 .. 7
    BY <1>1, <1>2, Plans
  <2>2. /\ At(r, "mode") <=> pc[r] = 1
        /\ At(r, "count") <=> pc[r] = 2
        /\ At(r, "entities") <=> pc[r] = 3
    BY <1>2, <2>1, Plans DEF At
  <2>3. /\ At(r, "totals") <=> pc[r] = 4
        /\ At(r, "solves") <=> pc[r] = 5
        /\ At(r, "average") <=> pc[r] = 6
    BY <1>2, <2>1, Plans DEF At
  <2>4. /\ ~At(r, "figures") /\ ~At(r, "teams")
        /\ At(r, "store") <=> pc[r] = 7
    BY <1>2, <2>1, Plans DEF At
  <2>5. QED
    BY <1>1, <1>2, <2>2, <2>3, <2>4
<1>3. CASE view = "categories"
  <2>1. pc[r] \in 0 .. 5
    BY <1>1, <1>3, Plans
  <2>2. QED
    BY <1>1, <1>3, <2>1, Plans DEF At
<1>4. CASE view = "users"
  <2>1. pc[r] \in 0 .. 3
    BY <1>1, <1>4, Plans
  <2>2. QED
    BY <1>1, <1>4, <2>1, Plans DEF At
<1>5. CASE view = "challenges"
  <2>1. pc[r] \in 0 .. 5
    BY <1>1, <1>5, Plans
  <2>2. QED
    BY <1>1, <1>5, <2>1, Plans DEF At
<1>6. QED
  BY <1>1, <1>2, <1>3, <1>4, <1>5 DEF AllViews

(* A step that only touches what one reader has read. *)
LEMMA DraftStep ==
    ASSUME IInv, NEW r \in Readers, NEW d, NEW p \in 0 .. Len(Plan[view]),
           Fits(d, p),
           draft' = [draft EXCEPT ![r] = d], pc' = [pc EXCEPT ![r] = p],
           UNCHANGED <<view, dbvars, due, changes>>,
           faults' \in 0 .. MaxFaults, CacheFits'
    PROVE  IInv'
<1> USE DEF IInv, dbvars
<1>1. RowsFit'
  BY DEF RowsFit, OneRowEach
<1>2. /\ view' \in Views /\ comp' \in Comp /\ chals' \in [Challenges -> Chal]
      /\ due' \subseteq Correct(rows)'
      /\ pc' \in [Readers -> 0 .. Len(Plan[view])']
  BY DEF Correct, Plan
<1>3. DOMAIN draft' = Readers /\ draft' = [q \in Readers |-> draft'[q]]
  OBVIOUS
<1>4. ASSUME NEW q \in Readers
      PROVE  Fits(draft[q], pc[q])'
  <2>1. Fits(draft'[q], pc'[q])
    <3>1. CASE q = r
      BY <3>1
    <3>2. CASE q # r
      BY <3>2
    <3>3. QED
      BY <3>1, <3>2
  <2>2. QED
    BY <2>1 DEF Fits, OverviewFits, CategoriesFits, UsersFits, ChallengesFits,
                TeamsCover, Correct, Counts, Blank
<1>5. changes' \in 0 .. MaxChanges
  OBVIOUS
<1>6. QED
  BY <1>1, <1>2, <1>3, <1>4, <1>5

LEMMA CacheStays ==
    ASSUME CacheFits, UNCHANGED <<view, cache>>
    PROVE  CacheFits'
BY DEF CacheFits, IsValue, Overview, Agrees, Counts, Modes

LEMMA ReadsStep ==
    ASSUME IInv, NEW r \in Readers, NEW d, NEW p \in 0 .. Len(Plan[view]),
           Reads(r, d), faults' \in 0 .. MaxFaults,
           p = IF At(r, "teams") /\ d.left # {} THEN pc[r] ELSE After(pc[r], d),
           Fits(d, p)
    PROVE  IInv'
<1>1. draft' = [draft EXCEPT ![r] = d]
  BY DEF Reads
<1>2. pc' = [pc EXCEPT ![r] = p]
  BY DEF Reads
<1>3. CacheFits' /\ UNCHANGED <<view, dbvars, due, changes>>
  BY CacheStays DEF Reads, IInv
<1> HIDE DEF Reads
<1>4. QED
  BY <1>1, <1>2, <1>3, DraftStep

LEMMA BlankFits ==
    Fits(Blank, 0) /\ Fits(Blank, 1)
BY DEF Fits, Blank, Parts, Modes, OverviewFits, CategoriesFits, UsersFits,
       ChallengesFits

LEMMA FailsStep ==
    ASSUME IInv, AnalyticsAssumption, NEW r \in Readers, Fails(r),
           faults' \in 0 .. MaxFaults
    PROVE  IInv'
<1>1. 0 \in 0 .. Len(Plan[view])
  BY Plans DEF IInv, AnalyticsAssumption, AllViews
<1>2. /\ draft' = [draft EXCEPT ![r] = Blank] /\ pc' = [pc EXCEPT ![r] = 0]
      /\ UNCHANGED <<view, dbvars, due, changes, cache>>
  BY DEF Fails, Leave
<1>3. CacheFits'
  BY <1>2, CacheStays DEF IInv
<1>4. QED
  BY <1>1, <1>2, <1>3, BlankFits, DraftStep

(* Each statement, answered, takes its reader to where its draft fits.     *)
LEMMA ReadModeStep ==
    ASSUME IInv, AnalyticsAssumption, NEW r \in Readers, ReadMode(r)
    PROVE  IInv'
<1>1. CASE comp.deleted /\ Fails(r) /\ UNCHANGED faults
  BY <1>1, FailsStep DEF IInv
<1>2. CASE ~comp.deleted /\ Answers(r, [draft[r] EXCEPT !.mode = comp.mode])
  <2> DEFINE d == [draft[r] EXCEPT !.mode = comp.mode]
  <2>1. pc[r] = 1 /\ view \in AllViews /\ ~At(r, "teams") /\ 2 \in 0 .. Len(Plan[view])
    BY AtIs, Plans DEF ReadMode, AllViews
  <2>2. draft[r] = Blank /\ comp.mode \in Modes
    BY <2>1 DEF IInv, Fits, Comp
  <2>3. /\ DOMAIN d = Parts /\ d = [i \in Parts |-> d[i]]
        /\ d.mode \in Modes /\ d.teams = <<>> /\ d.solves = 0 /\ d.count = 0
    BY <2>2 DEF Blank, Parts
  <2>4. After(pc[r], d) = 2
    BY <2>1, NextStatement
  <2>5. Reads(r, d) /\ faults' \in 0 .. MaxFaults
    BY <1>2 DEF Answers, IInv
  <2> HIDE DEF d
  <2>6. Fits(d, 2)
    BY <2>3 DEF Fits, OverviewFits, CategoriesFits, UsersFits, ChallengesFits
  <2>7. QED
    BY <2>1, <2>4, <2>5, <2>6, ReadsStep
<1>3. QED
  BY <1>1, <1>2 DEF ReadMode

LEMMA ReadCountStep ==
    ASSUME IInv, AnalyticsAssumption, NEW r \in Readers, ReadCount(r)
    PROVE  IInv'
<1> DEFINE d == IF view = "overview"
                THEN [draft[r] EXCEPT !.count = Assignments]
                ELSE [draft[r] EXCEPT !.listed = Listed, !.left = DOMAIN Listed]
<1>1. /\ pc[r] = 2 /\ view \in {"overview", "challenges"} /\ view \in AllViews
      /\ ~At(r, "teams") /\ 3 \in 0 .. Len(Plan[view])
  BY AtIs, Plans DEF ReadCount
<1>2. Fits(draft[r], 2) /\ chals \in [Challenges -> Chal]
  BY <1>1 DEF IInv
<1>3. After(pc[r], d) = 3
  <2> HIDE DEF d
  <2>1. QED
    BY <1>1, NextStatement
<1>4. Reads(r, d) /\ faults' \in 0 .. MaxFaults
  BY DEF ReadCount, Answers, IInv
<1>5. Fits(d, 3)
  <2>1. /\ DOMAIN draft[r] = Parts /\ draft[r] = [i \in Parts |-> draft[r][i]]
        /\ draft[r].mode \in Modes
        /\ \A k \in DOMAIN draft[r].teams : draft[r].teams[k] \in Counts
    BY <1>2 DEF Fits
  <2>2. CASE view = "overview"
    <3>1. /\ DOMAIN d = Parts /\ d = [i \in Parts |-> d[i]]
          /\ d.mode = draft[r].mode /\ d.teams = draft[r].teams
          /\ d.count = Assignments /\ d.solves = draft[r].solves
      BY <2>1, <2>2 DEF Parts
    <3>2. Assignments \in Nat /\ draft[r].solves = 0
      BY <1>2, <2>2, AssignmentsFit DEF Fits, OverviewFits
    <3> HIDE DEF d
    <3>3. QED
      BY <2>1, <2>2, <3>1, <3>2 DEF Fits, OverviewFits
  <2>3. CASE view = "challenges"
    <3>1. /\ DOMAIN d = Parts /\ d = [i \in Parts |-> d[i]]
          /\ d.mode = draft[r].mode /\ d.teams = draft[r].teams
          /\ d.listed = Listed /\ d.left = DOMAIN Listed
      BY <2>1, <2>3 DEF Parts
    <3>2. Listed \in [DOMAIN Listed -> 1 .. 2]
      BY <1>2, ListedFits
    <3> HIDE DEF d
    <3>3. QED
      BY <2>1, <2>3, <3>1, <3>2 DEF Fits, ChallengesFits, TeamsCover
  <2>4. QED
    BY <1>1, <2>2, <2>3
<1> HIDE DEF d
<1>6. QED
  BY <1>1, <1>3, <1>4, <1>5, ReadsStep

LEMMA ReadEntitiesStep ==
    ASSUME IInv, AnalyticsAssumption, NEW r \in Readers, ReadEntities(r)
    PROVE  IInv'
<1> DEFINE n == Cardinality(Entities(draft[r].mode))
           d == [draft[r] EXCEPT !.entities = n]
           p == pc[r] + 1
<1>1. /\ \/ pc[r] = 3 /\ view = "overview"
         \/ pc[r] = 2 /\ view = "categories"
      /\ view \in AllViews /\ ~At(r, "teams") /\ p \in 0 .. Len(Plan[view])
  <2>1. /\ \/ pc[r] = 3 /\ view = "overview"
           \/ pc[r] = 2 /\ view = "categories"
        /\ view \in AllViews /\ ~At(r, "teams")
    BY AtIs DEF ReadEntities
  <2>2. /\ view = "overview" => Len(Plan[view]) = 7
        /\ view = "categories" => Len(Plan[view]) = 5
    BY Plans
  <2>3. Len(Plan[view]) \in {5, 7} /\ p \in {3, 4}
    BY <2>1, <2>2
  <2> HIDE DEF p
  <2>4. p \in 0 .. Len(Plan[view])
    <3>1. \A l \in {5, 7}, q \in {3, 4} : q \in 0 .. l
      OBVIOUS
    <3>2. QED
      BY <2>3, <3>1
  <2>5. QED
    BY <2>1, <2>4
<1>2. Fits(draft[r], pc[r])
  BY DEF IInv
<1>3. After(pc[r], d) = p
  <2> HIDE DEF d
  <2>1. QED
    BY <1>1, NextStatement
<1>4. Reads(r, d) /\ faults' \in 0 .. MaxFaults
  BY DEF ReadEntities, Answers, IInv
<1>5. n \in Nat /\ n <= Cardinality(rows)
  BY Sizes DEF Entities, IInv, AnalyticsAssumption
<1>6. Fits(d, p)
  <2>1. /\ DOMAIN draft[r] = Parts /\ draft[r] = [i \in Parts |-> draft[r][i]]
        /\ draft[r].mode \in Modes
        /\ \A k \in DOMAIN draft[r].teams : draft[r].teams[k] \in Counts
        /\ view = "overview" => draft[r].count \in Nat /\ draft[r].solves = 0
    <3>1. view = "overview" => draft[r].count \in Nat /\ draft[r].solves = 0
      BY <1>1, <1>2 DEF Fits, OverviewFits
    <3>2. QED
      BY <1>2, <3>1 DEF Fits
  <2> HIDE DEF n
  <2>2. /\ DOMAIN d = Parts /\ d = [i \in Parts |-> d[i]]
        /\ d.mode = draft[r].mode /\ d.teams = draft[r].teams
        /\ d.count = draft[r].count /\ d.solves = draft[r].solves
        /\ d.entities = n
    BY <2>1 DEF Parts
  <2> HIDE DEF d
  <2>3. CASE view = "overview" /\ p = 4
    BY <1>5, <2>1, <2>2, <2>3 DEF Fits, OverviewFits
  <2>4. CASE view = "categories" /\ p = 3
    BY <2>1, <2>2, <2>4 DEF Fits, CategoriesFits
  <2>5. QED
    BY <1>1, <2>3, <2>4
<1> HIDE DEF d, p
<1>7. QED
  BY <1>1, <1>3, <1>4, <1>6, ReadsStep

LEMMA ReadTotalsStep ==
    ASSUME IInv, AnalyticsAssumption, NEW r \in Readers, ReadTotals(r)
    PROVE  IInv'
<1> DEFINE n == Cardinality(rows)
           m == Cardinality(Correct(rows))
           d == [draft[r] EXCEPT !.total = n, !.correct = m]
           p == IF d.entities = 0 THEN 6 ELSE 5
<1>1. /\ pc[r] = 4 /\ view = "overview"
      /\ view \in AllViews /\ ~At(r, "teams")
      /\ 5 \in 0 .. Len(Plan[view]) /\ 6 \in 0 .. Len(Plan[view])
  <2>1. pc[r] = 4 /\ view = "overview" /\ view \in AllViews /\ ~At(r, "teams")
    BY AtIs DEF ReadTotals
  <2>2. Len(Plan[view]) = 7
    BY <2>1, Plans
  <2>3. QED
    BY <2>1, <2>2
<1>2. Fits(draft[r], 4)
  BY <1>1 DEF IInv
<1>3. After(pc[r], d) = p
  <2> HIDE DEF d
  <2>1. QED
    BY <1>1, NextStatement
<1>4. Reads(r, d) /\ faults' \in 0 .. MaxFaults
  BY DEF ReadTotals, Answers, IInv
<1>5. n \in 0 .. MaxRows /\ m \in Nat /\ m <= n
  BY Sizes DEF IInv, AnalyticsAssumption
<1>6. Fits(d, p)
  <2>1. /\ DOMAIN draft[r] = Parts /\ draft[r] = [i \in Parts |-> draft[r][i]]
        /\ draft[r].mode \in Modes
        /\ \A k \in DOMAIN draft[r].teams : draft[r].teams[k] \in Counts
        /\ draft[r].count \in Nat /\ draft[r].solves = 0
        /\ draft[r].entities \in Nat /\ draft[r].entities <= n
    BY <1>1, <1>2 DEF Fits, OverviewFits
  <2> HIDE DEF n, m
  <2>2. /\ DOMAIN d = Parts /\ d = [i \in Parts |-> d[i]]
        /\ d.mode = draft[r].mode /\ d.teams = draft[r].teams
        /\ d.count = draft[r].count /\ d.solves = draft[r].solves
        /\ d.entities = draft[r].entities
        /\ d.total = n /\ d.correct = m
    BY <2>1 DEF Parts
  <2> HIDE DEF d
  <2>3. OverviewFits(d, p)
    <3>1. d.correct <= Cardinality(Correct(rows))
      BY <1>5, <2>2 DEF m
    <3>2. MaxRows \in Nat
      BY DEF AnalyticsAssumption
    <3>3. QED
      BY <1>5, <2>1, <2>2, <3>1, <3>2 DEF OverviewFits
  <2>4. /\ \A k \in DOMAIN d.teams : d.teams[k] \in Counts
        /\ d.mode \in Modes /\ ~(p <= 1)
    BY <2>1, <2>2
  <2>5. QED
    BY <1>1, <2>2, <2>3, <2>4 DEF Fits
<1> HIDE DEF d
<1>7. QED
  BY <1>1, <1>3, <1>4, <1>6, ReadsStep

LEMMA ReadSolvesStep ==
    ASSUME IInv, AnalyticsAssumption, NEW r \in Readers, ReadSolves(r)
    PROVE  IInv'
<1>1. /\ pc[r] = 5 /\ view = "overview"
      /\ view \in AllViews /\ ~At(r, "teams") /\ 6 \in 0 .. Len(Plan[view])
  BY AtIs, Plans DEF ReadSolves
<1>2. Fits(draft[r], 5) /\ MaxRows \in Nat
  BY <1>1 DEF IInv, AnalyticsAssumption
<1>3. ASSUME NEW n \in 0 .. MaxRows,
             draft[r].mode = "individual" /\ n # 0 => draft[r].correct <= n,
             Reads(r, Fallback(draft[r], n)), faults' \in 0 .. MaxFaults
      PROVE  IInv'
  <2> DEFINE d == Fallback(draft[r], n)
  <2>1. /\ DOMAIN draft[r] = Parts /\ draft[r] = [i \in Parts |-> draft[r][i]]
        /\ draft[r].mode \in Modes
        /\ \A k \in DOMAIN draft[r].teams : draft[r].teams[k] \in Counts
        /\ OverviewFits(draft[r], 5)
    BY <1>1, <1>2 DEF Fits
  <2>2. /\ DOMAIN d = Parts /\ d = [i \in Parts |-> d[i]]
        /\ d.mode = draft[r].mode /\ d.teams = draft[r].teams
        /\ d.count = draft[r].count /\ d.entities = draft[r].entities
        /\ d.total = draft[r].total /\ d.correct = draft[r].correct
        /\ d.solves = IF n = 0 THEN draft[r].correct ELSE n
    BY <2>1 DEF Parts, Fallback
  <2> HIDE DEF d
  <2>3. OverviewFits(d, 6)
    BY <1>2, <1>3, <2>1, <2>2 DEF OverviewFits
  <2>4. Fits(d, 6)
    <3>1. /\ \A k \in DOMAIN d.teams : d.teams[k] \in Counts
          /\ d.mode \in Modes
      BY <2>1, <2>2
    <3>2. QED
      BY <1>1, <2>2, <2>3, <3>1 DEF Fits
  <2>5. After(pc[r], d) = 6
    BY <1>1, NextStatement
  <2>6. Reads(r, d)
    BY <1>3 DEF d
  <2>7. QED
    BY <1>1, <1>3, <2>4, <2>5, <2>6, ReadsStep
<1>4. CASE Answers(r, Fallback(draft[r], Cardinality(Solves(draft[r].mode))))
  <2> DEFINE n == Cardinality(Solves(draft[r].mode))
  <2>1. draft[r].mode \in Modes /\ RowsFit
    BY <1>2 DEF Fits, IInv
  <2>2. /\ n \in 0 .. MaxRows
        /\ draft[r].mode = "individual" => Cardinality(Correct(rows)) <= n
    BY <1>2, <2>1, SolvesCover
  <2>3. /\ draft[r].correct \in Nat
        /\ draft[r].correct <= Cardinality(Correct(rows))
    BY <1>1, <1>2 DEF Fits, OverviewFits
  <2>4. Cardinality(Correct(rows)) \in Nat
    BY <1>2, <2>1, Sizes
  <2>5. Reads(r, Fallback(draft[r], n)) /\ faults' \in 0 .. MaxFaults
    BY <1>4 DEF Answers, IInv
  <2> HIDE DEF n
  <2>6. QED
    BY <1>3, <2>2, <2>3, <2>4, <2>5
<1>5. CASE Fault /\ Reads(r, Fallback(draft[r], 0))
  <2>1. faults' \in 0 .. MaxFaults
    BY <1>5 DEF Fault, IInv, AnalyticsAssumption
  <2>2. QED
    BY <1>2, <1>3, <1>5, <2>1
<1>6. QED
  BY <1>4, <1>5 DEF ReadSolves

LEMMA ReadAverageStep ==
    ASSUME IInv, AnalyticsAssumption, NEW r \in Readers, ReadAverage(r)
    PROVE  IInv'
<1>1. /\ pc[r] = 6 /\ view = "overview"
      /\ view \in AllViews /\ ~At(r, "teams") /\ 7 \in 0 .. Len(Plan[view])
  BY AtIs, Plans DEF ReadAverage
<1>2. Fits(draft[r], 6)
  BY <1>1 DEF IInv
<1>3. Fits(draft[r], 7)
  BY <1>1, <1>2 DEF Fits, OverviewFits
<1>4. After(pc[r], draft[r]) = 7
  BY <1>1, NextStatement
<1>5. Reads(r, draft[r]) /\ faults' \in 0 .. MaxFaults
  BY DEF ReadAverage, Answers, IInv
<1>6. QED
  BY <1>1, <1>3, <1>4, <1>5, ReadsStep

LEMMA ReadFiguresStep ==
    ASSUME IInv, AnalyticsAssumption, NEW r \in Readers, ReadFigures(r)
    PROVE  IInv'
<1> DEFINE F == Figures(draft[r].mode)
           d == [draft[r] EXCEPT
                    !.figures = F,
                    !.left = IF view = "categories" THEN DOMAIN F ELSE @]
<1>1. CASE Unscannable(F) /\ Fails(r) /\ UNCHANGED faults
  <2>1. faults' \in 0 .. MaxFaults
    BY <1>1 DEF IInv
  <2>2. QED
    BY <1>1, <2>1, FailsStep
<1>2. CASE ~Unscannable(F) /\ Answers(r, d)
  <2>1. /\ \/ pc[r] = 2 /\ view = "users"
           \/ pc[r] = 3 /\ view \in {"categories", "challenges"}
        /\ view \in AllViews /\ ~At(r, "teams")
    BY AtIs DEF ReadFigures
  <2>2. Fits(draft[r], pc[r]) /\ RowsFit /\ chals \in [Challenges -> Chal]
    BY DEF IInv
  <2>3. /\ DOMAIN draft[r] = Parts /\ draft[r] = [i \in Parts |-> draft[r][i]]
        /\ draft[r].mode \in Modes
        /\ \A k \in DOMAIN draft[r].teams : draft[r].teams[k] \in Counts
    BY <2>2 DEF Fits
  <2>4. /\ view = "categories" => F = CategoryFigures
        /\ view = "users" => F = EntityFigures(draft[r].mode)
        /\ view = "challenges" => F = ChallengeFigures
    BY DEF Figures
  <2>5. /\ view = "categories" =>
               F \in [DOMAIN F -> [challenges: Nat, solves: Counts,
                                   attempts: Counts, unique: Counts]]
        /\ view = "users" =>
               F \in [DOMAIN F -> [solves: Counts, attempts: Counts,
                                   score: SUBSET Nat]]
        /\ view = "challenges" =>
               F \in [DOMAIN F -> [solves: Counts, attempts: Counts,
                                   unique: Counts]]
    <3> HIDE DEF F
    <3>1. QED
      BY <2>2, <2>3, <2>4, FiguresFit
  <2>6. view = "users" => \A e \in DOMAIN F : Cardinality(F[e].score) = 1
    <3>1. ASSUME view = "users", NEW e \in DOMAIN F
          PROVE  Cardinality(F[e].score) = 1
      <4>1. F[e].score = Score(RowsOf(draft[r].mode, e))
        BY <2>4, <3>1 DEF EntityFigures
      <4>2. F[e].score # {}
        BY <1>2, <3>1 DEF Unscannable
      <4> HIDE DEF F
      <4>3. QED
        BY <4>1, <4>2, ScoreIsOne
    <3>2. QED
      BY <3>1
  <2>7. Reads(r, d) /\ faults' \in 0 .. MaxFaults
    BY <1>2 DEF Answers, IInv
  <2> HIDE DEF F
  <2>8. /\ DOMAIN d = Parts /\ d = [i \in Parts |-> d[i]]
        /\ d.mode = draft[r].mode /\ d.teams = draft[r].teams
        /\ d.listed = draft[r].listed /\ d.figures = F
        /\ d.left = IF view = "categories" THEN DOMAIN F ELSE draft[r].left
    BY <2>3 DEF Parts
  <2> HIDE DEF d
  <2>9. d.mode \in Modes /\ \A k \in DOMAIN d.teams : d.teams[k] \in Counts
    BY <2>3, <2>8
  <2>10. CASE view = "users"
    <3>1. pc[r] = 2 /\ After(pc[r], d) = 3 /\ 3 \in 0 .. Len(Plan[view])
      BY <2>1, <2>10, NextStatement, Plans
    <3>2. UsersFits(d, 3)
      BY <2>5, <2>6, <2>8, <2>10 DEF UsersFits
    <3>3. Fits(d, 3)
      BY <2>8, <2>9, <2>10, <3>2 DEF Fits
    <3>4. QED
      BY <2>1, <2>7, <3>1, <3>3, ReadsStep
  <2>11. CASE view \in {"categories", "challenges"}
    <3> DEFINE p == IF d.mode = "team" /\ d.left # {} THEN 4 ELSE 5
    <3>1. pc[r] = 3 /\ After(pc[r], d) = p
      BY <2>1, <2>11, NextStatement
    <3>2. Len(Plan[view]) = 5
      BY <2>11, Plans
    <3>3. p \in 0 .. Len(Plan[view]) /\ p \in {4, 5}
          /\ (d.mode = "team" /\ p = 5 => d.left = {})
      BY <3>2
    <3> HIDE DEF p
    <3>4. view = "categories" => CategoriesFits(d, p)
      BY <2>5, <2>8, <3>3 DEF CategoriesFits, TeamsCover
    <3>5. ASSUME view = "challenges"
          PROVE  ChallengesFits(d, p)
      <4>1. ChallengesFits(draft[r], 3)
        BY <2>2, <3>1, <3>5 DEF Fits
      <4>2. /\ draft[r].listed \in [DOMAIN draft[r].listed -> 1 .. 2]
            /\ TeamsCover(draft[r], 3, DOMAIN draft[r].listed)
        BY <4>1 DEF ChallengesFits
      <4>3. d.left = draft[r].left
        BY <2>8, <3>5
      <4>4. TeamsCover(d, p, DOMAIN d.listed)
        BY <2>8, <3>3, <4>2, <4>3 DEF TeamsCover
      <4>5. d.listed \in [DOMAIN d.listed -> 1 .. 2]
        BY <2>8, <4>2
      <4>6. d.figures \in [DOMAIN d.figures ->
                               [solves: Counts, attempts: Counts,
                                unique: Counts]]
        BY <2>5, <2>8, <3>5
      <4>7. QED
        BY <4>4, <4>5, <4>6 DEF ChallengesFits
    <3>6. Fits(d, p)
      BY <2>8, <2>9, <2>11, <3>3, <3>4, <3>5 DEF Fits
    <3>7. QED
      BY <2>1, <2>7, <3>1, <3>3, <3>6, ReadsStep
  <2>12. QED
    BY <2>1, <2>10, <2>11
<1>3. QED
  BY <1>1, <1>2 DEF ReadFigures

LEMMA ReadTeamsStep ==
    ASSUME IInv, AnalyticsAssumption, NEW r \in Readers, ReadTeams(r)
    PROVE  IInv'
<1>1. /\ pc[r] = 4 /\ view \in {"categories", "challenges"}
      /\ view \in AllViews /\ At(r, "teams")
  BY AtIs DEF ReadTeams
<1>2. Fits(draft[r], 4)
  BY <1>1 DEF IInv
<1>3. /\ DOMAIN draft[r] = Parts /\ draft[r] = [i \in Parts |-> draft[r][i]]
      /\ draft[r].mode \in Modes
      /\ \A j \in DOMAIN draft[r].teams : draft[r].teams[j] \in Counts
  BY <1>2 DEF Fits
<1>4. PICK k \in draft[r].left, n \in Counts :
          /\ faults' \in 0 .. MaxFaults
          /\ Reads(r, [draft[r] EXCEPT
                          !.left = @ \ {k},
                          !.teams = [j \in DOMAIN @ \cup {k} |->
                                        IF j = k THEN n ELSE @[j]]])
  <2>1. ASSUME NEW k \in draft[r].left
        PROVE  SolvedBy(k) \in Counts /\ 0 \in Counts
    BY SolvedByFits DEF IInv, Counts, AnalyticsAssumption
  <2>2. faults \in 0 .. MaxFaults
    BY DEF IInv
  <2>3. Fault => faults' \in 0 .. MaxFaults
    BY <2>2 DEF Fault, AnalyticsAssumption
  <2>4. QED
    BY <2>1, <2>2, <2>3 DEF ReadTeams, Answers
<1> DEFINE teams == [j \in DOMAIN draft[r].teams \cup {k} |->
                        IF j = k THEN n ELSE draft[r].teams[j]]
           d == [draft[r] EXCEPT !.left = @ \ {k},
                                 !.teams = [j \in DOMAIN @ \cup {k} |->
                                               IF j = k THEN n ELSE @[j]]]
           p == IF d.left # {} THEN 4 ELSE 5
<1>5. /\ DOMAIN d = Parts /\ d = [i \in Parts |-> d[i]]
      /\ d.mode = draft[r].mode /\ d.teams = teams
      /\ d.listed = draft[r].listed /\ d.figures = draft[r].figures
      /\ d.left = draft[r].left \ {k}
  BY <1>3 DEF Parts
<1>6. Reads(r, d) /\ faults' \in 0 .. MaxFaults
  BY <1>4
<1>7. /\ \A j \in DOMAIN teams : teams[j] \in Counts
      /\ DOMAIN teams = DOMAIN draft[r].teams \cup {k}
  BY <1>3
<1> HIDE DEF d, teams
<1>8. p \in 0 .. Len(Plan[view]) /\ p \in {4, 5} /\ (p = 5 => d.left = {})
  <2>1. Len(Plan[view]) = 5
    BY <1>1, Plans
  <2>2. QED
    BY <2>1
<1>9. p = IF At(r, "teams") /\ d.left # {} THEN pc[r] ELSE After(pc[r], d)
  BY <1>1, NextStatement
<1> HIDE DEF p
<1>10. ASSUME NEW K, TeamsCover(draft[r], 4, K)
       PROVE  TeamsCover(d, p, K)
  BY <1>5, <1>7, <1>8, <1>10 DEF TeamsCover
<1>11. view = "categories" => CategoriesFits(d, p)
  <2>1. view = "categories" => CategoriesFits(draft[r], 4)
    BY <1>2 DEF Fits
  <2>2. QED
    BY <1>5, <1>8, <1>10, <2>1 DEF CategoriesFits
<1>12. view = "challenges" => ChallengesFits(d, p)
  <2>1. view = "challenges" => ChallengesFits(draft[r], 4)
    BY <1>2 DEF Fits
  <2>2. QED
    BY <1>5, <1>8, <1>10, <2>1 DEF ChallengesFits
<1>13. d.mode \in Modes /\ \A j \in DOMAIN d.teams : d.teams[j] \in Counts
  BY <1>3, <1>5, <1>7
<1>14. Fits(d, p)
  BY <1>1, <1>5, <1>8, <1>11, <1>12, <1>13 DEF Fits
<1>15. QED
  BY <1>6, <1>8, <1>9, <1>14, ReadsStep

(* What fits can be put together to a value of the view. *)
LEMMA ValueFits ==
    ASSUME IInv, AnalyticsAssumption, NEW r \in Readers, At(r, "store")
    PROVE  /\ IsValue(Value(draft[r]))
           /\ view = "overview" => Agrees(Value(draft[r]))
<1> DEFINE d == draft[r]
<1>1. /\ \/ pc[r] = 7 /\ view = "overview"
         \/ pc[r] = 3 /\ view = "users"
         \/ pc[r] = 5 /\ view \in {"categories", "challenges"}
      /\ view \in AllViews
  BY AtIs
<1>2. Fits(d, pc[r]) /\ MaxRows \in Nat
  BY DEF IInv, AnalyticsAssumption
<1>3. /\ d.mode \in Modes
      /\ \A k \in DOMAIN d.teams : d.teams[k] \in Counts
  BY <1>2 DEF Fits
<1> HIDE DEF d
<1>4. CASE view = "overview"
  <2>1. OverviewFits(d, 7)
    BY <1>1, <1>2, <1>4 DEF Fits
  <2>2. Value(d) = [mode |-> d.mode, challenges |-> d.count,
                    entities |-> d.entities, total |-> d.total,
                    correct |-> d.correct, solves |-> d.solves]
    BY <1>4 DEF Value
  <2>3. /\ d.count \in Nat /\ d.entities \in Counts /\ d.total \in Counts
        /\ d.correct \in Counts /\ d.solves \in Counts
    BY <1>2, <2>1 DEF OverviewFits, Counts
  <2>4. Value(d) \in Overview
    BY <1>3, <2>2, <2>3 DEF Overview
  <2>5. Agrees(Value(d))
    BY <2>1, <2>2 DEF OverviewFits, Agrees
  <2>6. QED
    BY <1>4, <2>4, <2>5 DEF IsValue, d
<1>5. CASE view = "users"
  <2>1. UsersFits(d, 3) /\ Value(d) = d.figures
    BY <1>1, <1>2, <1>5 DEF Fits, Value
  <2>2. QED
    BY <1>5, <2>1 DEF UsersFits, IsValue, d
<1>6. CASE view = "categories"
  <2> DEFINE F == d.figures
             V == [k \in DOMAIN F |-> [F[k] EXCEPT !.unique = Unique(d, k)]]
  <2>1. /\ F \in [DOMAIN F -> [challenges: Nat, solves: Counts,
                               attempts: Counts, unique: Counts]]
        /\ d.mode = "team" => DOMAIN F \subseteq DOMAIN d.teams
    <3>1. CategoriesFits(d, 5)
      BY <1>1, <1>2, <1>6 DEF Fits
    <3>2. TeamsCover(d, 5, DOMAIN d.figures)
      BY <3>1 DEF CategoriesFits
    <3>3. QED
      BY <3>1, <3>2 DEF CategoriesFits, TeamsCover
  <2>2. Value(d) = V
    BY <1>6 DEF Value
  <2>3. ASSUME NEW k \in DOMAIN F
        PROVE  V[k] \in [challenges: Nat, solves: Counts,
                         attempts: Counts, unique: Counts]
    <3>1. Unique(d, k) \in Counts
      BY <1>3, <2>1, <2>3 DEF Unique
    <3>2. QED
      BY <2>1, <3>1
  <2>4. V \in [DOMAIN V -> [challenges: Nat, solves: Counts,
                            attempts: Counts, unique: Counts]]
    BY <2>3
  <2> HIDE DEF V
  <2>5. QED
    BY <1>6, <2>2, <2>4 DEF IsValue, d
<1>7. CASE view = "challenges"
  <2> DEFINE Known(c) == c \in DOMAIN d.figures
             V == [c \in DOMAIN d.listed |->
                      [copies   |-> d.listed[c],
                       solves   |-> IF Known(c) THEN d.figures[c].solves ELSE 0,
                       attempts |-> IF Known(c) THEN d.figures[c].attempts ELSE 0,
                       unique   |-> Unique(d, c)]]
  <2>1. /\ d.figures \in [DOMAIN d.figures ->
                             [solves: Counts, attempts: Counts, unique: Counts]]
        /\ d.listed \in [DOMAIN d.listed -> 1 .. 2]
        /\ d.mode = "team" => DOMAIN d.listed \subseteq DOMAIN d.teams
    <3>1. ChallengesFits(d, 5)
      BY <1>1, <1>2, <1>7 DEF Fits
    <3>2. TeamsCover(d, 5, DOMAIN d.listed)
      BY <3>1 DEF ChallengesFits
    <3>3. QED
      BY <3>1, <3>2 DEF ChallengesFits, TeamsCover
  <2>2. Value(d) = V
    BY <1>7 DEF Value
  <2>3. ASSUME NEW c \in DOMAIN d.listed
        PROVE  V[c] \in [copies: 1 .. 2, solves: Counts,
                         attempts: Counts, unique: Counts]
    <3>1. 0 \in Counts
      BY <1>2 DEF Counts
    <3>2. Unique(d, c) \in Counts
      BY <1>3, <2>1, <2>3, <3>1 DEF Unique
    <3>3. QED
      BY <2>1, <3>1, <3>2
  <2>4. V \in [DOMAIN V -> [copies: 1 .. 2, solves: Counts,
                            attempts: Counts, unique: Counts]]
    BY <2>3
  <2> HIDE DEF V
  <2>5. QED
    BY <1>7, <2>2, <2>4 DEF IsValue, d
<1>8. QED
  BY <1>1, <1>4, <1>5, <1>6, <1>7 DEF AllViews

LEMMA StoreStep ==
    ASSUME IInv, AnalyticsAssumption, NEW r \in Readers, Store(r)
    PROVE  IInv'
<1>1. /\ IsValue(Value(draft[r]))
      /\ view = "overview" => Agrees(Value(draft[r]))
  BY ValueFits DEF Store
<1>2. cache' = {Value(draft[r])} /\ view' = view
  BY DEF Store
<1>3. CacheFits'
  BY <1>1, <1>2 DEF CacheFits, IsValue, Overview, Agrees, Counts, Modes
<1>4. 0 \in 0 .. Len(Plan[view])
  BY Plans DEF IInv, AnalyticsAssumption, AllViews
<1>5. /\ draft' = [draft EXCEPT ![r] = Blank] /\ pc' = [pc EXCEPT ![r] = 0]
      /\ UNCHANGED <<view, dbvars, due, changes, faults>>
  BY DEF Store, Leave
<1>6. faults' \in 0 .. MaxFaults
  BY <1>5 DEF IInv
<1>7. QED
  BY <1>3, <1>4, <1>5, <1>6, BlankFits, DraftStep

LEMMA MissStep ==
    ASSUME IInv, AnalyticsAssumption, NEW r \in Readers, Miss(r)
    PROVE  IInv'
<1>1. 1 \in 0 .. Len(Plan[view])
  BY Plans DEF IInv, AnalyticsAssumption, AllViews
<1>2. draft[r] = Blank
  BY DEF Miss, IInv, Fits
<1>3. draft' = [draft EXCEPT ![r] = Blank]
  BY <1>2 DEF Miss, IInv
<1>4. /\ pc' = [pc EXCEPT ![r] = 1]
      /\ UNCHANGED <<view, dbvars, due, changes, cache, faults>>
  BY DEF Miss
<1>5. CacheFits' /\ faults' \in 0 .. MaxFaults
  BY <1>4, CacheStays DEF IInv
<1>6. QED
  BY <1>1, <1>3, <1>4, <1>5, BlankFits, DraftStep

LEMMA StatementFailsStep ==
    ASSUME IInv, AnalyticsAssumption, NEW r \in Readers, StatementFails(r)
    PROVE  IInv'
<1>1. Fails(r) /\ faults' \in 0 .. MaxFaults
  BY DEF StatementFails, Fault, IInv, AnalyticsAssumption
<1>2. QED
  BY <1>1, FailsStep

----------------------------------------------------------------------------
(* The steps of everybody else: what readers have read still fits, for     *)
(* submissions only become more.                                           *)

LEMMA WorldStep ==
    ASSUME IInv, AnalyticsAssumption, UNCHANGED <<view, pc, draft>>,
           RowsFit', rows \subseteq rows',
           comp' \in Comp, chals' \in [Challenges -> Chal],
           due' \subseteq Correct(rows'), CacheFits',
           changes' \in 0 .. MaxChanges, faults' \in 0 .. MaxFaults
    PROVE  IInv'
<1>1. /\ Cardinality(rows) <= Cardinality(rows')
      /\ Cardinality(Correct(rows)) <= Cardinality(Correct(rows'))
      /\ Cardinality(rows) \in Nat /\ Cardinality(rows') \in Nat
      /\ Cardinality(Correct(rows)) \in Nat
      /\ Cardinality(Correct(rows')) \in Nat
  <2>1. IsFiniteSet(rows) /\ IsFiniteSet(rows')
    BY DEF IInv, RowsFit
  <2>2. Correct(rows) \subseteq Correct(rows') /\ Correct(rows') \subseteq rows'
        /\ Correct(rows) \subseteq rows
    BY DEF Correct
  <2>3. IsFiniteSet(Correct(rows)) /\ IsFiniteSet(Correct(rows'))
    BY <2>1, <2>2, FS_Subset
  <2>4. QED
    BY <2>1, <2>2, <2>3, FS_Subset, FS_CardinalityType
<1>2. ASSUME NEW q \in Readers
      PROVE  Fits(draft[q], pc[q])'
  <2>1. Fits(draft[q], pc[q]) /\ pc[q] \in Nat
    BY AtIs DEF IInv
  <2>2. view = "overview" => OverviewFits(draft[q], pc[q])'
    <3>1. view = "overview" => OverviewFits(draft[q], pc[q])
      BY <2>1 DEF Fits
    <3>2. (Correct(rows))' = Correct(rows')
      BY DEF Correct
    <3>3. QED
      BY <1>1, <2>1, <3>1, <3>2 DEF OverviewFits
  <2>3. QED
    BY <2>1, <2>2 DEF Fits, CategoriesFits, UsersFits, ChallengesFits,
                      TeamsCover, Counts, Blank, Modes
<1>3. (Correct(rows))' = Correct(rows')
  BY DEF Correct
<1>4. view' \in Views /\ pc' \in [Readers -> 0 .. Len(Plan[view])']
  BY DEF IInv, Plan
<1>5. QED
  BY <1>2, <1>3, <1>4 DEF IInv

LEMMA CacheEmpties ==
    ASSUME CacheFits, cache' \in {{}, cache}, UNCHANGED view
    PROVE  CacheFits'
BY DEF CacheFits, IsValue, Overview, Agrees, Counts, Modes

LEMMA SubmitStep ==
    ASSUME IInv, AnalyticsAssumption, NEW u \in Users, NEW c \in Challenges,
           NEW ok \in BOOLEAN, Submit(u, c, ok)
    PROVE  IInv'
<1> DEFINE row == [user |-> u, chal |-> c, correct |-> ok,
                   team |-> IF comp.mode = "team" THEN TeamOf[u] ELSE NoTeam]
<1>1. row \in Row
  BY DEF Row, AnalyticsAssumption
<1>2. /\ Cardinality(rows) < MaxRows /\ rows' = rows \cup {row}
      /\ \A old \in rows : <<old.user, old.chal, old.correct>> # <<u, c, ok>>
      /\ due' = IF ok THEN due \cup {row} ELSE due
      /\ UNCHANGED <<view, comp, chals, cache, pc, draft, changes, faults>>
  BY DEF Submit
<1>3. OneRowEach(rows')
  BY <1>2 DEF OneRowEach, IInv, RowsFit
<1>4. row.correct = ok
  OBVIOUS
<1> HIDE DEF row
<1>5. RowsFit'
  <2>1. row \notin rows
    BY <1>2 DEF row
  <2>2. IsFiniteSet(rows') /\ Cardinality(rows') = Cardinality(rows) + 1
    BY <1>2, <2>1, FS_AddElement DEF IInv, RowsFit
  <2>3. Cardinality(rows) \in Nat /\ MaxRows \in Nat
    BY FS_CardinalityType DEF IInv, RowsFit, AnalyticsAssumption
  <2>4. rows' \in SUBSET Row
    BY <1>1, <1>2 DEF IInv, RowsFit
  <2>5. QED
    BY <1>2, <1>3, <2>2, <2>3, <2>4 DEF RowsFit, OneRowEach
<1>6. due' \subseteq Correct(rows')
  BY <1>2, <1>4 DEF IInv, Correct
<1>7. CacheFits'
  BY <1>2, CacheStays DEF IInv
<1>8. QED
  BY <1>2, <1>5, <1>6, <1>7, WorldStep DEF IInv

LEMMA OthersStep ==
    ASSUME IInv, AnalyticsAssumption,
           \/ \E row \in Row : Invalidate(row)
           \/ ChangeCompetition
           \/ \E c \in Challenges : ChangeChallenge(c)
           \/ Expire
    PROVE  IInv'
<1>1. RowsFit' /\ rows' = rows
  BY DEF Invalidate, ChangeCompetition, ChangeChallenge, Expire, Change,
         dbvars, IInv, RowsFit, OneRowEach
<1>2. UNCHANGED <<view, pc, draft, faults>> /\ cache' \in {{}, cache}
      /\ due' \subseteq due
  BY DEF Invalidate, ChangeCompetition, ChangeChallenge, Expire, Change
<1>3. CacheFits'
  BY <1>2, CacheEmpties DEF IInv
<1>4. changes' \in 0 .. MaxChanges
  BY DEF Invalidate, ChangeCompetition, ChangeChallenge, Expire, Change,
         IInv, AnalyticsAssumption
<1>5. comp' \in Comp /\ chals' \in [Challenges -> Chal]
  <2>1. CASE ChangeCompetition
    <3>1. comp \in Comp /\ chals \in [Challenges -> Chal]
      BY DEF IInv
    <3>2. /\ \A m \in Modes : [comp EXCEPT !.mode = m] \in Comp
          /\ [comp EXCEPT !.deleted = TRUE] \in Comp
      BY <3>1 DEF Comp
    <3>3. \A c \in Challenges : [chals[c] EXCEPT !.copies = 0] \in Chal
      BY <3>1 DEF Chal
    <3>4. QED
      <4>1. CASE (\E m \in Modes : comp' = [comp EXCEPT !.mode = m]) /\ UNCHANGED chals
        BY <3>1, <3>2, <4>1
      <4>2. CASE /\ comp' \in {comp, [comp EXCEPT !.deleted = TRUE]}
                 /\ chals' = [c \in Challenges |-> [chals[c] EXCEPT !.copies = 0]]
        BY <3>1, <3>2, <3>3, <4>2
      <4>3. QED
        BY <2>1, <4>1, <4>2 DEF ChangeCompetition
  <2>2. CASE \E c \in Challenges : ChangeChallenge(c)
    <3>1. PICK c \in Challenges : ChangeChallenge(c)
      BY <2>2
    <3>2. chals[c] \in Chal /\ chals \in [Challenges -> Chal] /\ comp \in Comp
      BY DEF IInv
    <3>3. /\ chals[c].copies < 2 => [chals[c] EXCEPT !.copies = @ + 1] \in Chal
          /\ [chals[c] EXCEPT !.copies = 0] \in Chal
          /\ [chals[c] EXCEPT !.enabled = ~@] \in Chal
          /\ [chals[c] EXCEPT !.deleted = TRUE] \in Chal
      <4>1. /\ chals[c] = [copies |-> chals[c].copies,
                            enabled |-> chals[c].enabled,
                            deleted |-> chals[c].deleted]
            /\ chals[c].copies \in 0 .. 2
            /\ chals[c].enabled \in BOOLEAN /\ chals[c].deleted \in BOOLEAN
        BY <3>2 DEF Chal
      <4>2. chals[c].copies < 2 => chals[c].copies + 1 \in 0 .. 2
        BY <4>1
      <4>3. chals[c].copies < 2 => [chals[c] EXCEPT !.copies = @ + 1] \in Chal
        BY <3>2, <4>2 DEF Chal
      <4>4. [chals[c] EXCEPT !.copies = 0] \in Chal
        BY <3>2 DEF Chal
      <4>5. [chals[c] EXCEPT !.enabled = ~@] \in Chal
        BY <3>2 DEF Chal
      <4>6. [chals[c] EXCEPT !.deleted = TRUE] \in Chal
        BY <3>2 DEF Chal
      <4>7. QED
        BY <4>3, <4>4, <4>5, <4>6
    <3>4. QED
      BY <3>1, <3>2, <3>3 DEF ChangeChallenge
  <2>3. CASE (\E row \in Row : Invalidate(row)) \/ Expire
    BY <2>3 DEF Invalidate, Expire, dbvars, IInv
  <2>4. QED
    BY <2>1, <2>2, <2>3
<1>6. QED
  BY <1>1, <1>2, <1>3, <1>4, <1>5, WorldStep DEF IInv

----------------------------------------------------------------------------
(* The invariant, and what follows from it.                                *)

LEMMA Start ==
    ASSUME Init, AnalyticsAssumption
    PROVE  IInv
<1> USE DEF Init
<1>1. RowsFit
  BY FS_EmptySet DEF RowsFit, OneRowEach, AnalyticsAssumption
<1>2. view \in Views /\ comp \in Comp /\ chals \in [Challenges -> Chal]
  BY DEF Chal
<1>3. pc \in [Readers -> 0 .. Len(Plan[view])]
  BY Plans DEF AnalyticsAssumption, AllViews
<1>4. \A r \in Readers : Fits(draft[r], pc[r])
  BY BlankFits
<1>5. /\ due \subseteq Correct(rows) /\ CacheFits
      /\ DOMAIN draft = Readers /\ draft = [r \in Readers |-> draft[r]]
      /\ changes \in 0 .. MaxChanges /\ faults \in 0 .. MaxFaults
  BY DEF CacheFits, AnalyticsAssumption
<1>6. QED
  BY <1>1, <1>2, <1>3, <1>4, <1>5 DEF IInv

LEMMA Step ==
    ASSUME IInv, AnalyticsAssumption, Next
    PROVE  IInv'
<1>1. ASSUME NEW r \in Readers, Miss(r) \/ Read(r) \/ StatementFails(r)
      PROVE  IInv'
  BY <1>1, MissStep, StatementFailsStep, ReadModeStep, ReadCountStep,
     ReadEntitiesStep, ReadTotalsStep, ReadSolvesStep, ReadAverageStep,
     ReadFiguresStep, ReadTeamsStep, StoreStep DEF Read
<1>2. QED
  BY <1>1, SubmitStep, OthersStep DEF Next

LEMMA Stutter ==
    ASSUME IInv, AnalyticsAssumption, UNCHANGED vars
    PROVE  IInv'
<1>1. RowsFit'
  BY DEF vars, dbvars, IInv, RowsFit, OneRowEach
<1>2. CacheFits'
  BY CacheStays DEF vars, dbvars, IInv
<1>3. UNCHANGED <<view, dbvars, due, pc, draft, changes, faults>>
  BY DEF vars
<1>4. due' \subseteq Correct(rows')
  BY <1>3 DEF dbvars, IInv
<1>5. QED
  BY <1>1, <1>2, <1>3, <1>4, WorldStep DEF dbvars, IInv

(* What every reader has read so far fits its view and the submissions.    *)
THEOREM Invariant ==
    Spec => []IInv
<1>1. Init => IInv
  BY Start, AnalyticsAssumption
<1>2. IInv /\ [Next]_vars => IInv'
  BY Step, Stutter, AnalyticsAssumption
<1>3. QED
  BY <1>1, <1>2, PTL DEF Spec

(* The variables keep their types, and whatever a reader caches is a value *)
(* of its view with all its figures, although its statements were answered *)
(* in different states and some of them failed.                            *)
THEOREM TypeCorrect ==
    Spec => []TypeOK
<1>1. IInv => TypeOK
  <2> SUFFICES ASSUME IInv PROVE TypeOK
    OBVIOUS
  <2>1. Cardinality(cache) < 2
    <3>1. CASE cache = {}
      BY <3>1, FS_EmptySet
    <3>2. CASE \E x \in cache : cache = {x}
      BY <3>2, FS_Singleton
    <3>3. QED
      BY <3>1, <3>2 DEF IInv, CacheFits
  <2>2. \A r \in Readers : draft[r].mode \in Modes
    BY DEF IInv, Fits
  <2>3. QED
    BY <2>1, <2>2 DEF IInv, RowsFit, CacheFits, TypeOK
<1>2. QED
  BY <1>1, Invariant, PTL

(* An overview's numbers fit together, whatever is submitted between the   *)
(* statements that count them, in competitions of any size.                *)
THEOREM OverviewsAddUp ==
    Spec => []OverviewAddsUp
<1>1. IInv => OverviewAddsUp
  BY DEF IInv, CacheFits, Agrees, OverviewAddsUp
<1>2. QED
  BY <1>1, Invariant, PTL

(* The sums over categories, challenges, users and teams are those of the  *)
(* submissions themselves, however many there are.                         *)
THEOREM ViewsAgree ==
    Spec => []FiguresAgree
<1>1. IInv => FiguresAgree
  BY FiguresAddUp DEF IInv, RowsFit, FiguresAgree
<1>2. QED
  BY <1>1, Invariant, PTL

============================================================================
