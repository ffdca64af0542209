-------------------------- MODULE RoutingProofs --------------------------
(***************************************************************************)
(* What the router promises of every preview, for every catalog and every  *)
(* request; and that no run starts on a blocked account, for every catalog,*)
(* every set of answers and updates and every thresholds.                  *)
(*                                                                         *)
(* A preview rests on the recommended model being good for the request;    *)
(* every route from there stays below it, and the ladder's first candidate *)
(* is a least member of a set of ranks, then of positions.  These lemmas   *)
(* ask of the catalog that its rows are well formed and their ids differ,  *)
(* which the type invariant gives in every state.                          *)
(*                                                                         *)
(* The check of a start compares two states of the account and knows       *)
(* nothing of the router's rules; the router knows nothing of the start.   *)
(* What joins them is that a preview is sealed with the state it was made  *)
(* in, and that no preview is made when the account is blocked: a state no *)
(* worse than the sealed one is not blocked either.                        *)
(***************************************************************************)
EXTENDS Routing, WellFoundedInduction, TLAPS

------------------------------------------------------------------------------
(* The router. *)

\* A set of naturals that is not empty has a least member.
LEMMA LeastOf ==
  ASSUME NEW S \in SUBSET Nat, S # {}
  PROVE  Min(S) \in S /\ \A n \in S : Min(S) <= n
<1>1. IsWellFoundedOn(OpToRel(<, Nat), Nat)
  BY NatLessThanWellFounded
<1>2. PICK s \in S : \A n \in S : <<n, s>> \notin OpToRel(<, Nat)
  BY <1>1, WFMin
<1>3. \A n \in S : s <= n
  <2>1. ASSUME NEW n \in S, n < s PROVE FALSE
    BY <2>1, <1>2 DEF OpToRel
  <2> QED
    BY <2>1
<1> QED
  BY <1>3 DEF Min

\* A set of naturals below some bound that is not empty has a greatest member.
LEMMA GreatestOf ==
  ASSUME NEW b \in Nat, NEW S \in SUBSET (0..b), S # {}
  PROVE  Max(S) \in S /\ \A n \in S : n <= Max(S)
<1> DEFINE T == {b - n : n \in S}
<1>1. T \in SUBSET Nat /\ T # {}
  <2>1. \A n \in S : n \in 0..b
    OBVIOUS
  <2>2. \A n \in 0..b : b - n \in Nat
    OBVIOUS
  <2> QED
    BY <2>1, <2>2
<1>2. Min(T) \in T /\ \A t \in T : Min(T) <= t
  BY <1>1, LeastOf
<1>3. PICK s \in S : Min(T) = b - s
  BY <1>2
<1>4. \A n \in S : n <= s
  <2> SUFFICES ASSUME NEW n \in S PROVE n <= s
    OBVIOUS
  <2>1. b - n \in T
    OBVIOUS
  <2>2. Min(T) <= b - n
    BY <2>1, <1>2
  <2>3. n \in 0..b /\ s \in 0..b
    OBVIOUS
  <2> HIDE DEF T
  <2> QED
    BY <2>2, <2>3, <1>3
<1> QED
  BY <1>4 DEF Max

\* A row of the catalog with its manual status, and a catalog of such rows.
Row ==
  [id : Id, family : Family, efforts : Seq(Stage \cup {NoStage}), status : ModelStatus]
Sound(catalog) ==
  /\ catalog \in Seq(Row)
  /\ \A n, k \in DOMAIN catalog : catalog[n].id = catalog[k].id => n = k

\* What a preview of model m may be when top is recommended.
Within(m, top, route, r) ==
  /\ Grade(m) <= Grade(top) /\ Usable(m)
  /\ Grade(m) >= MinGrade(r.class)
  /\ route.effort \in ToSet(m.efforts)
  /\ route.effort <= r.effort
  /\ route.effort >= MinimumStage(r.class, r.files, m)

\* The recommended model is good for the request.
Good(top, r) ==
  /\ top \in Row /\ r \in Asking
  /\ Known(top) /\ Grade(top) >= MinGrade(r.class)
  /\ r.effort \in ToSet(top.efforts)
  /\ r.effort >= MinimumStage(r.class, r.files, top)

\* The grade of a model of a known family.
LEMMA GradeType ==
  ASSUME NEW m, Known(m)
  PROVE  Grade(m) \in 0..6
<1>1. PICK g \in DOMAIN Grades : Grades[g] = m.family
  BY DEF Known, ToSet
<1>2. DOMAIN Grades = 1..7 /\ Len(Grades) = 7
  BY DEF Grades
<1>3. \E h \in 1..Len(Grades) : Grades[h] = m.family
  BY <1>1, <1>2
<1>4. (CHOOSE h \in 1..Len(Grades) : Grades[h] = m.family) \in 1..7
  BY <1>2, <1>3
<1> QED
  BY <1>4 DEF Grade

\* The rank of a model of a known family.
LEMMA RankType ==
  ASSUME NEW class \in Class, NEW m, Known(m)
  PROVE  FamilyRank(class, m) \in Nat
<1> DEFINE first == TaskFamilies[class + 1]
<1>1. DOMAIN first \subseteq 1..2
  BY DEF TaskFamilies, Class
<1>2. CASE m.family \in ToSet(first)
  <2>1. \E i \in DOMAIN first : first[i] = m.family
    BY <1>2 DEF ToSet
  <2>2. (CHOOSE i \in DOMAIN first : first[i] = m.family) \in DOMAIN first
    BY <2>1
  <2> QED
    BY <1>1, <1>2, <2>2 DEF FamilyRank
<1>3. CASE m.family \notin ToSet(first)
  <2>1. Len(Grades) = 7
    BY DEF Grades
  <2>2. FamilyRank(class, m) = 2 * 7 - Grade(m)
    BY <1>3, <2>1 DEF FamilyRank
  <2> QED
    BY <2>2, GradeType
<1> QED
  BY <1>2, <1>3

\* What the minimum tables say.
LEMMA MinimumTables ==
  ASSUME NEW class \in Class
  PROVE  MinGrade(class) \in 0..5 /\ MinEffort(class) \in 1..4
BY DEF MinGrade, MinEffort, Class

\* Where a model's ordinary efforts are, and what they are.
LEMMA OrdinaryType ==
  ASSUME NEW m \in Row
  PROVE  /\ m.efforts \in Seq(Stage \cup {NoStage})
         /\ Ordinary(m) \subseteq 1..Len(m.efforts)
         /\ Ordinary(m) \in SUBSET Nat
         /\ \A k \in Ordinary(m) :
              m.efforts[k] \in 0..4 /\ m.efforts[k] \in ToSet(m.efforts)
<1>1. m.efforts \in Seq(Stage \cup {NoStage})
  BY DEF Row
<1>2. DOMAIN m.efforts = 1..Len(m.efforts) /\ Len(m.efforts) \in Nat
  BY <1>1
<1>3. Ordinary(m) \subseteq DOMAIN m.efforts
  BY DEF Ordinary
<1>4. \A k \in Ordinary(m) : m.efforts[k] \in 0..4
  BY DEF Ordinary, Ultra
<1>5. \A k \in Ordinary(m) : m.efforts[k] \in ToSet(m.efforts)
  BY <1>3 DEF ToSet
<1> QED
  BY <1>1, <1>2, <1>3, <1>4, <1>5

\* The least effort a model may work at is no Ultra and no unknown one.
LEMMA MinimumType ==
  ASSUME NEW m \in Row, NEW class \in Class, NEW files
  PROVE  MinimumStage(class, files, m) \in 0..4
<1>1. CASE class = 5 /\ m.family = "5.5" /\ Ordinary(m) # {}
  <2> DEFINE E == {m.efforts[k] : k \in Ordinary(m)}
  <2>1. E \in SUBSET (0..4) /\ E # {}
    BY <1>1, OrdinaryType
  <2> HIDE DEF E
  <2>2. Max(E) \in E
    BY <2>1, GreatestOf
  <2>3. MinimumStage(class, files, m) = Max(E)
    BY <1>1 DEF MinimumStage, E
  <2> QED
    BY <2>1, <2>2, <2>3
<1>2. CASE ~(class = 5 /\ m.family = "5.5" /\ Ordinary(m) # {})
  <2>1. MinimumStage(class, files, m) \in {3, MinEffort(class)}
    BY <1>2 DEF MinimumStage
  <2> QED
    BY <2>1, MinimumTables
<1> QED
  BY <1>1, <1>2

\* An effort is selected when an ordinary one fits, and it is one that fits.
LEMMA Selected ==
  ASSUME NEW m \in Row, NEW minimum, NEW ceiling
  PROVE  LET e == SelectEffort(m, minimum, ceiling)
             fit == {k \in Ordinary(m) :
                       minimum <= m.efforts[k] /\ m.efforts[k] <= ceiling}
         IN  /\ fit = {} => e = NoStage
             /\ fit # {} =>
                  /\ e \in 0..4 /\ e \in ToSet(m.efforts)
                  /\ minimum <= e /\ e <= ceiling /\ e # NoStage
<1> DEFINE e == SelectEffort(m, minimum, ceiling)
           fit == {k \in Ordinary(m) :
                     minimum <= m.efforts[k] /\ m.efforts[k] <= ceiling}
<1>1. fit = {} => e = NoStage
  BY DEF SelectEffort
<1>2. ASSUME fit # {}
      PROVE  /\ e \in 0..4 /\ e \in ToSet(m.efforts)
             /\ minimum <= e /\ e <= ceiling /\ e # NoStage
  <2>1. fit \in SUBSET Nat
    BY OrdinaryType
  <2>2. Min(fit) \in fit
    BY <1>2, <2>1, LeastOf
  <2>3. e = m.efforts[Min(fit)]
    BY <1>2 DEF SelectEffort
  <2>4. Min(fit) \in Ordinary(m) /\ minimum <= e /\ e <= ceiling
    BY <2>2, <2>3
  <2>5. e \in 0..4 /\ e \in ToSet(m.efforts)
    BY <2>3, <2>4, OrdinaryType
  <2> QED
    BY <2>4, <2>5 DEF NoStage
<1> QED
  BY <1>1, <1>2

\* The foremost of some models of the ladder is one of them, and before the others.
LEMMA ForemostIsFirst ==
  ASSUME NEW catalog, NEW class \in Class, NEW models \in SUBSET Nat, models # {},
         \A n \in models : Known(catalog[n])
  PROVE  LET f == Foremost(catalog, class, models)
             Rank(n) == FamilyRank(class, catalog[n])
         IN  /\ f \in models
             /\ \A n \in models :
                  \/ Rank(f) < Rank(n)
                  \/ Rank(f) = Rank(n) /\ f <= n
<1> DEFINE Rank(n) == FamilyRank(class, catalog[n])
           ranks == {Rank(n) : n \in models}
           nearest == {n \in models : Rank(n) = Min(ranks)}
           f == Foremost(catalog, class, models)
<1>1. \A n \in models : Rank(n) \in Nat
  BY RankType
<1>2. f = Min(nearest)
  BY DEF Foremost
<1> HIDE DEF Rank, f
<1>3. ranks \in SUBSET Nat /\ ranks # {}
  BY <1>1
<1>4. Min(ranks) \in ranks /\ \A i \in ranks : Min(ranks) <= i
  BY <1>3, LeastOf
<1>5. nearest \in SUBSET Nat /\ nearest # {}
  BY <1>4
<1>6. f \in nearest /\ \A n \in nearest : f <= n
  BY <1>2, <1>5, LeastOf
<1>7. ASSUME NEW n \in models
      PROVE  \/ Rank(f) < Rank(n)
             \/ Rank(f) = Rank(n) /\ f <= n
  <2>1. Rank(f) = Min(ranks) /\ Min(ranks) <= Rank(n)
    BY <1>4, <1>6
  <2>2. CASE Rank(n) = Min(ranks)
    BY <2>1, <2>2, <1>6
  <2>3. CASE Rank(n) # Min(ranks)
    <3>1. Rank(f) \in Nat /\ Rank(n) \in Nat
      BY <1>1, <1>6
    <3> QED
      BY <2>1, <2>3, <3>1
  <2> QED
    BY <2>2, <2>3
<1> QED
  BY <1>6, <1>7 DEF Rank, f

\* A hold is no preview, and a preview says its model and effort.
LEMMA HoldOrPreview ==
  ASSUME NEW m, NEW stage
  PROVE  /\ Hold.status # "PREVIEW"
         /\ Preview(m, stage).status = "PREVIEW"
         /\ Preview(m, stage).model = m.id
         /\ Preview(m, stage).effort = stage
BY DEF Hold, Preview

\* An effort of the request that some recommended model has is no unknown one.
LEMMA GoodEffort ==
  ASSUME NEW top, NEW r, Good(top, r)
  PROVE  /\ r.effort \in Stage /\ r.class \in Class
         /\ MinimumStage(r.class, r.files, top) \in 0..4
         /\ Grade(top) \in 0..6 /\ MinGrade(r.class) \in 0..5
<1>1. r.class \in Class /\ r.effort \in Stage \cup {NoStage}
  BY DEF Good, Asking
<1>2. MinimumStage(r.class, r.files, top) \in 0..4
  BY <1>1, MinimumType DEF Good
<1>3. r.effort \in Stage
  BY <1>1, <1>2 DEF Good, Stage, NoStage, Ultra
<1> QED
  BY <1>1, <1>2, <1>3, GradeType, MinimumTables DEF Good

\* The recommended model at the recommended or a lesser effort.
LEMMA AsIsWithin ==
  ASSUME NEW top, NEW r, Good(top, r), RouteAsIs(top, r).status = "PREVIEW"
  PROVE  /\ RouteAsIs(top, r).model = top.id
         /\ RouteAsIs(top, r).effort \in Stage
         /\ Within(top, top, RouteAsIs(top, r), r)
<1> DEFINE minimum == MinimumStage(r.class, r.files, top)
           effort == IF Automatic(r) THEN SelectEffort(top, minimum, r.effort)
                     ELSE r.effort
<1>1. Usable(top) /\ effort # NoStage /\ RouteAsIs(top, r) = Preview(top, effort)
  BY HoldOrPreview DEF RouteAsIs
<1>2. RouteAsIs(top, r).model = top.id /\ RouteAsIs(top, r).effort = effort
  BY <1>1, HoldOrPreview
<1>3. r.effort \in 0..5 /\ minimum \in 0..4 /\ Grade(top) \in 0..6
  BY GoodEffort DEF Stage, Ultra
<1>4. /\ effort \in 0..5 /\ effort \in ToSet(top.efforts)
      /\ effort <= r.effort /\ minimum <= effort
  <2>1. CASE Automatic(r)
    <3>1. effort = SelectEffort(top, minimum, r.effort)
      BY <2>1
    <3>2. top \in Row
      BY DEF Good
    <3> HIDE DEF effort, minimum
    <3> QED
      BY <1>1, <3>1, <3>2, Selected
  <2>2. CASE ~Automatic(r)
    BY <1>3, <2>2 DEF Good
  <2> QED
    BY <2>1, <2>2
<1>5. effort \in Stage
  BY <1>4 DEF Stage, Ultra
<1> HIDE DEF effort
<1> QED
  BY <1>1, <1>2, <1>3, <1>4, <1>5 DEF Within, Good

\* Ultra, or the last of the model's other efforts.
LEMMA UltraWithin ==
  ASSUME NEW top, NEW account, NEW r, Good(top, r), IsUltra(top, r),
         RouteUltra(top, account, r).status = "PREVIEW"
  PROVE  /\ RouteUltra(top, account, r).model = top.id
         /\ RouteUltra(top, account, r).effort \in Stage
         /\ Within(top, top, RouteUltra(top, account, r), r)
<1> DEFINE minimum == MinimumStage(r.class, r.files, top)
           last == top.efforts[Max(Ordinary(top))]
           route == RouteUltra(top, account, r)
<1>1. r.effort = 5 /\ minimum \in 0..4 /\ Grade(top) \in 0..6
  BY GoodEffort DEF IsUltra, Ultra
<1>2. CASE UltraGranted(top, account, r)
  <2>1. route = Preview(top, 5) /\ Usable(top)
    BY <1>2 DEF RouteUltra, UltraGranted, Ultra
  <2>2. route.model = top.id /\ route.effort = 5
    BY <2>1, HoldOrPreview
  <2>3. 5 \in Stage /\ 5 \in ToSet(top.efforts)
    BY <1>1 DEF Stage, Ultra, Good
  <2> QED
    BY <1>1, <2>1, <2>2, <2>3 DEF Within, Good
<1>3. CASE ~UltraGranted(top, account, r)
  <2>1. /\ Usable(top) /\ Ordinary(top) # {} /\ last >= minimum
        /\ route = Preview(top, last)
    BY <1>3, HoldOrPreview DEF RouteUltra
  <2>2. route.model = top.id /\ route.effort = last
    BY <2>1, HoldOrPreview
  <2>3. top \in Row
    BY DEF Good
  <2>4. /\ Len(top.efforts) \in Nat
        /\ Ordinary(top) \in SUBSET (0..Len(top.efforts))
    BY <2>3, OrdinaryType
  <2>5. Max(Ordinary(top)) \in Ordinary(top)
    BY <2>1, <2>4, GreatestOf
  <2>6. last \in 0..4 /\ last \in ToSet(top.efforts)
    BY <2>3, <2>5, OrdinaryType
  <2>7. last \in Stage
    BY <2>6 DEF Stage, Ultra
  <2> HIDE DEF last
  <2> QED
    BY <1>1, <2>1, <2>2, <2>6, <2>7 DEF Within, Good
<1> QED
  BY <1>2, <1>3

\* An effort can be selected when the model has one that is enough and no Ultra.
LEMMA SelectsIfAny ==
  ASSUME NEW m \in Row, NEW minimum \in 0..4, NEW ceiling
  PROVE  SelectEffort(m, minimum, ceiling) # NoStage <=>
           \E e \in ToSet(m.efforts) : minimum <= e /\ e <= ceiling /\ e # Ultra
<1> DEFINE fit == {k \in Ordinary(m) :
                     minimum <= m.efforts[k] /\ m.efforts[k] <= ceiling}
<1>1. SelectEffort(m, minimum, ceiling) # NoStage <=> fit # {}
  BY Selected
<1>2. ASSUME NEW k \in fit
      PROVE  \E e \in ToSet(m.efforts) : minimum <= e /\ e <= ceiling /\ e # Ultra
  <2>1. m.efforts[k] \in 0..4 /\ m.efforts[k] \in ToSet(m.efforts)
    BY OrdinaryType
  <2> QED
    BY <2>1 DEF Ultra
<1>3. ASSUME NEW e \in ToSet(m.efforts), minimum <= e, e <= ceiling, e # Ultra
      PROVE  fit # {}
  <2>1. PICK k \in DOMAIN m.efforts : m.efforts[k] = e
    BY DEF ToSet
  <2>2. m.efforts \in Seq(Stage \cup {NoStage})
    BY DEF Row
  <2>3. e \in Stage \cup {NoStage}
    BY <2>1, <2>2
  <2>4. e \in 0..4
    BY <1>3, <2>3 DEF Stage, NoStage, Ultra
  <2>5. k \in Ordinary(m)
    BY <2>1, <2>4 DEF Ordinary, Ultra
  <2> QED
    BY <1>3, <2>1, <2>5
<1> HIDE DEF fit
<1> QED
  BY <1>1, <1>2, <1>3

\* The candidates: the models of that status that are lower, near enough and good
\* for the task at an effort within the recommended one.
LEMMA CandidateIs ==
  ASSUME NEW catalog, Sound(catalog), NEW top, NEW r, Good(top, r), NEW status,
         NEW n \in DOMAIN catalog
  PROVE  n \in Candidates(catalog, top, r, status) <=>
           /\ Known(catalog[n])
           /\ MinGrade(r.class) <= Grade(catalog[n]) /\ Grade(catalog[n]) < Grade(top)
           /\ r.readOnly \/ Grade(top) - Grade(catalog[n]) <= 2
           /\ catalog[n].status = status
           /\ \E e \in ToSet(catalog[n].efforts) :
                /\ MinimumStage(r.class, r.files, catalog[n]) <= e
                /\ e <= r.effort /\ e # Ultra
<1> DEFINE m == catalog[n]
<1>1. m \in Row
  BY DEF Sound
<1>2. r.class \in Class /\ Grade(top) \in 0..6
  BY GoodEffort
<1>3. MinimumStage(r.class, r.files, m) \in 0..4
  BY <1>1, <1>2, MinimumType
<1>4. SelectEffort(m, MinimumStage(r.class, r.files, m), r.effort) # NoStage <=>
        \E e \in ToSet(m.efforts) :
          MinimumStage(r.class, r.files, m) <= e /\ e <= r.effort /\ e # Ultra
  BY <1>1, <1>3, SelectsIfAny
<1>5. Known(m) => Grade(m) \in 0..6
  BY GradeType
<1>6. n \in Ladder(catalog, r.class, Grade(top)) <=>
        Known(m) /\ MinGrade(r.class) <= Grade(m) /\ Grade(m) <= Grade(top)
  BY DEF Ladder
<1>7. n \in Candidates(catalog, top, r, status) <=>
        /\ n \in Ladder(catalog, r.class, Grade(top))
        /\ Grade(m) < Grade(top)
        /\ r.readOnly \/ Grade(top) - Grade(m) <= 2
        /\ m.status = status
        /\ SelectEffort(m, MinimumStage(r.class, r.files, m), r.effort) # NoStage
  BY DEF Candidates
<1> HIDE DEF m
<1>8. Known(m) /\ Grade(m) < Grade(top) => Grade(m) <= Grade(top)
  BY <1>2, <1>5
<1>9. n \in Candidates(catalog, top, r, status) <=>
           /\ Known(m)
           /\ MinGrade(r.class) <= Grade(m) /\ Grade(m) < Grade(top)
           /\ r.readOnly \/ Grade(top) - Grade(m) <= 2
           /\ m.status = status
           /\ \E e \in ToSet(m.efforts) :
                MinimumStage(r.class, r.files, m) <= e /\ e <= r.effort /\ e # Ultra
  BY <1>4, <1>6, <1>7, <1>8
<1> QED
  BY <1>9 DEF m

\* A lower model that is a candidate may be previewed.
LEMMA LoweredWithin ==
  ASSUME NEW catalog, Sound(catalog), NEW top, NEW r, Good(top, r),
         NEW status \in {"AVAILABLE", "LIMITED"},
         NEW n \in Candidates(catalog, top, r, status)
  PROVE  /\ n \in DOMAIN catalog
         /\ Lowered(catalog[n], r).status = "PREVIEW"
         /\ Lowered(catalog[n], r).model = catalog[n].id
         /\ Lowered(catalog[n], r).effort \in Stage
         /\ Within(catalog[n], top, Lowered(catalog[n], r), r)
<1> DEFINE m == catalog[n]
           minimum == MinimumStage(r.class, r.files, m)
           effort == SelectEffort(m, minimum, r.effort)
<1>1. n \in DOMAIN catalog
  BY DEF Candidates, Ladder
<1>2. m \in Row
  BY <1>1 DEF Sound
<1>3. /\ Known(m) /\ MinGrade(r.class) <= Grade(m) /\ Grade(m) < Grade(top)
      /\ m.status = status
  BY <1>1, CandidateIs
<1>4. effort # NoStage
  BY DEF Candidates
<1>5. Lowered(m, r).status = "PREVIEW" /\ Lowered(m, r).model = m.id
      /\ Lowered(m, r).effort = effort
  BY HoldOrPreview DEF Lowered
<1>6. Grade(top) \in 0..6 /\ Grade(m) \in 0..6 /\ MinGrade(r.class) \in 0..5
  BY <1>3, GoodEffort, GradeType
<1>7. minimum \in 0..4
  BY <1>2, GoodEffort, MinimumType
<1> HIDE DEF minimum, m
<1>8. /\ effort \in 0..4 /\ effort \in ToSet(m.efforts)
      /\ minimum <= effort /\ effort <= r.effort
  BY <1>2, <1>4, Selected
<1>9. effort \in Stage
  BY <1>8 DEF Stage, Ultra
<1>10. Usable(m)
  BY <1>3 DEF Usable
<1> HIDE DEF effort
<1>11. Within(m, top, Lowered(m, r), r)
  BY <1>3, <1>5, <1>6, <1>7, <1>8, <1>10 DEF Within, minimum
<1> QED
  BY <1>1, <1>5, <1>9, <1>11 DEF m

\* The one of some models that comes before the others in the ladder.
First(catalog, class, models, f) ==
  /\ f \in models
  /\ \A n \in models :
       \/ FamilyRank(class, catalog[f]) < FamilyRank(class, catalog[n])
       \/ /\ FamilyRank(class, catalog[f]) = FamilyRank(class, catalog[n])
          /\ f <= n

\* What a request that may be downgraded comes to.
LEMMA DownIs ==
  ASSUME NEW catalog, Sound(catalog), NEW top, NEW r, Good(top, r)
  PROVE  LET available == Candidates(catalog, top, r, "AVAILABLE")
             limited == Candidates(catalog, top, r, "LIMITED")
             route == RouteDown(catalog, top, r)
         IN  \/ \E n \in available :
                  route = Lowered(catalog[n], r) /\ First(catalog, r.class, available, n)
             \/ /\ available = {}
                /\ \E n \in limited :
                     route = Lowered(catalog[n], r) /\ First(catalog, r.class, limited, n)
             \/ available = {} /\ limited = {} /\ route = RouteAsIs(top, r)
<1> DEFINE available == Candidates(catalog, top, r, "AVAILABLE")
           limited == Candidates(catalog, top, r, "LIMITED")
           route == RouteDown(catalog, top, r)
<1>1. ASSUME NEW status, Candidates(catalog, top, r, status) # {}
      PROVE  LET models == Candidates(catalog, top, r, status)
             IN  First(catalog, r.class, models, Foremost(catalog, r.class, models))
  <2> DEFINE models == Candidates(catalog, top, r, status)
  <2>1. models \subseteq DOMAIN catalog
    BY DEF Candidates, Ladder
  <2>2. DOMAIN catalog \in SUBSET Nat
    BY DEF Sound
  <2>3. \A n \in models : Known(catalog[n])
    BY DEF Candidates, Ladder
  <2>4. r.class \in Class
    BY GoodEffort
  <2>5. models \in SUBSET Nat /\ models # {}
    BY <1>1, <2>1, <2>2
  <2> HIDE DEF models
  <2> QED
    BY <2>3, <2>4, <2>5, ForemostIsFirst DEF First, models
<1>2. CASE available # {}
  <2>1. route = Lowered(catalog[Foremost(catalog, r.class, available)], r)
    BY <1>2 DEF RouteDown
  <2>2. First(catalog, r.class, available, Foremost(catalog, r.class, available))
    BY <1>1, <1>2
  <2> QED
    BY <2>1, <2>2 DEF First
<1>3. CASE available = {} /\ limited # {}
  <2>1. route = Lowered(catalog[Foremost(catalog, r.class, limited)], r)
    BY <1>3 DEF RouteDown
  <2>2. First(catalog, r.class, limited, Foremost(catalog, r.class, limited))
    BY <1>1, <1>3
  <2> QED
    BY <1>3, <2>1, <2>2 DEF First
<1>4. CASE available = {} /\ limited = {}
  BY <1>4 DEF RouteDown
<1> QED
  BY <1>2, <1>3, <1>4

\* A request that is previewed recommends a model the catalog has, which is good for
\* it; what becomes of it then is one of three routes.
LEMMA PreviewRests ==
  ASSUME NEW catalog, Sound(catalog), NEW account, NEW r \in Asking,
         Route(catalog, account, r).status = "PREVIEW"
  PROVE  \E k \in DOMAIN catalog :
           /\ catalog[k].id = r.model /\ Good(catalog[k], r)
           /\ ~Refused(catalog[k], account, r)
           /\ \/ /\ IsUltra(catalog[k], r)
                 /\ Route(catalog, account, r) = RouteUltra(catalog[k], account, r)
              \/ /\ ~IsUltra(catalog[k], r) /\ Automatic(r)
                 /\ Route(catalog, account, r) = RouteDown(catalog, catalog[k], r)
              \/ /\ ~IsUltra(catalog[k], r) /\ ~Automatic(r)
                 /\ Route(catalog, account, r) = RouteAsIs(catalog[k], r)
<1> DEFINE found == Recommended(catalog, r)
           k == Min(found)
           top == catalog[k]
<1>1. found # {} /\ ~Refused(top, account, r)
  BY HoldOrPreview DEF Route
<1>2. DOMAIN catalog \in SUBSET Nat
  BY DEF Sound
<1>3. found \in SUBSET Nat
  BY <1>2 DEF Recommended
<1>4. k \in found
  BY <1>1, <1>3, LeastOf
<1>5. k \in DOMAIN catalog /\ top.id = r.model
  BY <1>4 DEF Recommended
<1>6. top \in Row
  BY <1>5 DEF Sound
<1>7. Good(top, r)
  <2>1. Known(top) /\ r.effort \in ToSet(top.efforts)
    BY <1>1 DEF Refused
  <2>2. ~(Grade(top) < MinGrade(r.class))
        /\ ~(r.effort < MinimumStage(r.class, r.files, top))
    BY <1>1 DEF Refused
  <2>3. r.class \in Class /\ r.effort \in Stage \cup {NoStage}
    BY DEF Asking
  <2>4. /\ Grade(top) \in 0..6 /\ MinGrade(r.class) \in 0..5
        /\ MinimumStage(r.class, r.files, top) \in 0..4
    BY <1>6, <2>1, <2>3, GradeType, MinimumTables, MinimumType
  <2>5. r.effort \in Int
    BY <2>3 DEF Stage, NoStage, Ultra
  <2> QED
    BY <1>6, <2>1, <2>2, <2>4, <2>5 DEF Good
<1>8. Route(catalog, account, r) =
        IF IsUltra(top, r) THEN RouteUltra(top, account, r)
        ELSE IF Automatic(r) THEN RouteDown(catalog, top, r)
        ELSE RouteAsIs(top, r)
  BY <1>1 DEF Route
<1> HIDE DEF k
<1> QED
  BY <1>1, <1>5, <1>7, <1>8

\* Whatever the route, a preview is of a model of the catalog, within the
\* recommendation.
LEMMA PreviewIsWithin ==
  ASSUME NEW catalog, Sound(catalog), NEW account, NEW r \in Asking,
         Route(catalog, account, r).status = "PREVIEW"
  PROVE  LET route == Route(catalog, account, r)
         IN  /\ route.effort \in Stage
             /\ \E k \in DOMAIN catalog, n \in DOMAIN catalog :
                  /\ catalog[k].id = r.model /\ route.model = catalog[n].id
                  /\ Within(catalog[n], catalog[k], route, r)
<1> DEFINE route == Route(catalog, account, r)
<1>1. PICK k \in DOMAIN catalog :
        /\ catalog[k].id = r.model /\ Good(catalog[k], r)
        /\ \/ /\ IsUltra(catalog[k], r)
              /\ route = RouteUltra(catalog[k], account, r)
           \/ route = RouteDown(catalog, catalog[k], r)
           \/ route = RouteAsIs(catalog[k], r)
  BY PreviewRests
<1> HIDE DEF route
<1> SUFFICES /\ route.effort \in Stage
             /\ \E n \in DOMAIN catalog :
                  route.model = catalog[n].id /\ Within(catalog[n], catalog[k], route, r)
  BY <1>1 DEF route
<1>2. route.status = "PREVIEW"
  BY DEF route
<1>3. CASE IsUltra(catalog[k], r) /\ route = RouteUltra(catalog[k], account, r)
  BY <1>1, <1>2, <1>3, UltraWithin
<1>4. CASE route = RouteAsIs(catalog[k], r)
  BY <1>1, <1>2, <1>4, AsIsWithin
<1>5. CASE route = RouteDown(catalog, catalog[k], r)
  <2>1. CASE route = RouteAsIs(catalog[k], r)
    BY <1>4, <2>1
  <2>2. ASSUME NEW status \in {"AVAILABLE", "LIMITED"},
               NEW n \in Candidates(catalog, catalog[k], r, status),
               route = Lowered(catalog[n], r)
        PROVE  /\ route.effort \in Stage
               /\ \E i \in DOMAIN catalog :
                    route.model = catalog[i].id
                    /\ Within(catalog[i], catalog[k], route, r)
    BY <1>1, <2>2, LoweredWithin
  <2>3. \/ \E n \in Candidates(catalog, catalog[k], r, "AVAILABLE") :
             route = Lowered(catalog[n], r)
        \/ \E n \in Candidates(catalog, catalog[k], r, "LIMITED") :
             route = Lowered(catalog[n], r)
        \/ route = RouteAsIs(catalog[k], r)
    BY <1>1, <1>5, DownIs
  <2> QED
    BY <2>1, <2>2, <2>3
<1> QED
  BY <1>1, <1>3, <1>4, <1>5

\* A lower model the request may go to, and the order in which they are preferred.
Suits(m, top, r) ==
  /\ Known(m)
  /\ MinGrade(r.class) <= Grade(m) /\ Grade(m) < Grade(top)
  /\ r.readOnly \/ Grade(top) - Grade(m) <= 2
  /\ Usable(m)
  /\ \E e \in ToSet(m.efforts) :
       MinimumStage(r.class, r.files, m) <= e /\ e <= r.effort /\ e # Ultra
Preferred(catalog, r, n, k) ==
  LET m == catalog[n]
      o == catalog[k]
  IN  \/ m.status = "AVAILABLE" /\ o.status = "LIMITED"
      \/ /\ m.status = o.status
         /\ FamilyRank(r.class, m) < FamilyRank(r.class, o)
      \/ /\ m.status = o.status
         /\ FamilyRank(r.class, m) = FamilyRank(r.class, o)
         /\ n < k

\* Work that may be downgraded goes to the suitable model preferred to all others,
\* and to the recommended one when there is none.
LEMMA DownIsBest ==
  ASSUME NEW catalog, Sound(catalog), NEW top, NEW r, Good(top, r),
         RouteDown(catalog, top, r).status = "PREVIEW"
  PROVE  LET fit == {n \in DOMAIN catalog : Suits(catalog[n], top, r)}
             route == RouteDown(catalog, top, r)
         IN  IF fit # {}
               THEN \E n \in fit :
                      /\ catalog[n].id = route.model
                      /\ \A k \in fit \ {n} : Preferred(catalog, r, n, k)
               ELSE route.model = top.id
<1> DEFINE fit == {n \in DOMAIN catalog : Suits(catalog[n], top, r)}
           route == RouteDown(catalog, top, r)
           available == Candidates(catalog, top, r, "AVAILABLE")
           limited == Candidates(catalog, top, r, "LIMITED")
<1>1. \A status : Candidates(catalog, top, r, status) \subseteq DOMAIN catalog
  BY DEF Candidates, Ladder
<1>2. \A n \in DOMAIN catalog : n \in fit <=> n \in available \/ n \in limited
  <2> SUFFICES ASSUME NEW n \in DOMAIN catalog
               PROVE  Suits(catalog[n], top, r) <=> n \in available \/ n \in limited
    OBVIOUS
  <2> QED
    BY CandidateIs DEF Suits, Usable
<1>3. fit = available \cup limited
  BY <1>1, <1>2
<1>4. /\ \A n \in available : catalog[n].status = "AVAILABLE"
      /\ \A n \in limited : catalog[n].status = "LIMITED"
  BY DEF Candidates
<1>5. DOMAIN catalog \in SUBSET Nat
  BY DEF Sound
<1>6. fit \in SUBSET Nat
  BY <1>5
<1>7. ASSUME NEW status \in {"AVAILABLE", "LIMITED"},
             NEW n \in Candidates(catalog, top, r, status),
             route = Lowered(catalog[n], r)
      PROVE  catalog[n].id = route.model
  BY <1>7, LoweredWithin
<1>8. ASSUME NEW models, models \subseteq fit, NEW n, First(catalog, r.class, models, n),
             NEW k \in models \ {n}, catalog[n].status = catalog[k].status
      PROVE  Preferred(catalog, r, n, k)
  <2>1. n \in Nat /\ k \in Nat
    BY <1>6, <1>8 DEF First
  <2>2. n <= k => n < k
    BY <2>1
  <2> QED
    BY <1>8, <2>2 DEF First, Preferred
<1> HIDE DEF fit, available, limited, route
<1>9. CASE \E n \in available :
            route = Lowered(catalog[n], r) /\ First(catalog, r.class, available, n)
  <2>1. PICK n \in available :
          route = Lowered(catalog[n], r) /\ First(catalog, r.class, available, n)
    BY <1>9
  <2>2. catalog[n].id = route.model
    BY <1>7, <2>1 DEF available
  <2>3. ASSUME NEW k \in fit \ {n} PROVE Preferred(catalog, r, n, k)
    <3>1. CASE k \in available
      BY <1>3, <1>4, <1>8, <2>1, <3>1
    <3>2. CASE k \in limited
      BY <1>4, <3>2 DEF Preferred
    <3> QED
      BY <1>3, <3>1, <3>2
  <2>4. n \in fit
    BY <1>3
  <2> QED
    BY <2>2, <2>3, <2>4 DEF fit, route
<1>10. CASE /\ available = {}
            /\ \E n \in limited :
                 route = Lowered(catalog[n], r) /\ First(catalog, r.class, limited, n)
  <2>1. PICK n \in limited :
          route = Lowered(catalog[n], r) /\ First(catalog, r.class, limited, n)
    BY <1>10
  <2>2. catalog[n].id = route.model
    BY <1>7, <2>1 DEF limited
  <2>3. fit = limited
    BY <1>3, <1>10
  <2>4. ASSUME NEW k \in fit \ {n} PROVE Preferred(catalog, r, n, k)
    BY <1>4, <1>8, <2>1, <2>3
  <2>5. n \in fit
    BY <2>3
  <2> QED
    BY <2>2, <2>4, <2>5 DEF fit, route
<1>11. CASE available = {} /\ limited = {} /\ route = RouteAsIs(top, r)
  <2>1. fit = {}
    BY <1>3, <1>11
  <2>2. route.model = top.id
    BY <1>11, AsIsWithin DEF route
  <2> QED
    BY <2>1, <2>2 DEF fit, route
<1>12. \/ \E n \in available :
            route = Lowered(catalog[n], r) /\ First(catalog, r.class, available, n)
       \/ /\ available = {}
          /\ \E n \in limited :
               route = Lowered(catalog[n], r) /\ First(catalog, r.class, limited, n)
       \/ available = {} /\ limited = {} /\ route = RouteAsIs(top, r)
  BY DownIs DEF available, limited, route
<1> QED
  BY <1>9, <1>10, <1>11, <1>12

\* A route is a hold or a preview.
LEMMA RouteIsOne ==
  ASSUME NEW catalog, NEW account, NEW r
  PROVE  \/ Route(catalog, account, r) = Hold
         \/ \E m, stage : Route(catalog, account, r) = Preview(m, stage)
<1> DEFINE One(route) == route = Hold \/ \E m, stage : route = Preview(m, stage)
<1>1. \A m : One(RouteAsIs(m, r))
  BY DEF RouteAsIs
<1>2. \A m : One(RouteUltra(m, account, r))
  BY DEF RouteUltra
<1>3. \A m : One(Lowered(m, r))
  BY DEF Lowered
<1>4. One(Hold)
  OBVIOUS
<1> HIDE DEF One
<1>5. \A m : One(RouteDown(catalog, m, r))
  BY <1>1, <1>3 DEF RouteDown
<1>6. One(Route(catalog, account, r))
  BY <1>1, <1>2, <1>4, <1>5 DEF Route
<1> QED
  BY <1>6 DEF One

\* Over a sound catalog it is a hold, or a preview of a listed model at some stage.
LEMMA RouteType ==
  ASSUME NEW catalog, Sound(catalog), NEW account, NEW r \in Asking
  PROVE  Route(catalog, account, r) \in
           {Hold} \cup [status : {"PREVIEW"}, model : Id, effort : Stage]
<1> DEFINE route == Route(catalog, account, r)
<1>1. CASE route = Hold
  BY <1>1
<1>2. CASE \E m, stage : route = Preview(m, stage)
  <2>1. PICK m, stage : route = Preview(m, stage)
    BY <1>2
  <2>2. route.status = "PREVIEW" /\ route.model = m.id /\ route.effort = stage
    BY <2>1, HoldOrPreview
  <2>3. stage \in Stage /\ \E n \in DOMAIN catalog : m.id = catalog[n].id
    BY <2>2, PreviewIsWithin
  <2>4. \A n \in DOMAIN catalog : catalog[n] \in Row
    BY DEF Sound
  <2>5. \A o \in Row : o.id \in Id
    BY DEF Row
  <2>6. m.id \in Id
    BY <2>3, <2>4, <2>5
  <2>7. Preview(m, stage) \in [status : {"PREVIEW"}, model : Id, effort : Stage]
    BY <2>3, <2>6 DEF Preview
  <2> QED
    BY <2>1, <2>7
<1> QED
  BY <1>1, <1>2, RouteIsOne

------------------------------------------------------------------------------
(* The requests' states. *)

\* The catalog a request is routed over is sound whenever the state is well typed.
LEMMA CatalogIsSound ==
  ASSUME RoutingAssumption, TypeOK
  PROVE  Sound(Catalog)
<1>1. listed \in Seq(ModelRow)
      /\ \A n, k \in DOMAIN listed : listed[n].id = listed[k].id => n = k
  <2>1. CASE listed \in Catalogs
    BY <2>1 DEF RoutingAssumption
  <2>2. CASE listed = <<>>
    BY <2>2
  <2> QED
    BY <2>1, <2>2 DEF TypeOK
<1>2. DOMAIN listed = 1..Len(listed) /\ Len(listed) \in Nat
  BY <1>1
<1>3. ASSUME NEW n \in 1..Len(listed)
      PROVE  /\ Catalog[n].id = listed[n].id
             /\ Catalog[n] \in Row
  <2>1. listed[n] \in ModelRow
    BY <1>1, <1>2
  <2>2. /\ listed[n].id \in Id /\ listed[n].family \in Family
        /\ listed[n].efforts \in Seq(Stage \cup {NoStage})
    BY <2>1 DEF ModelRow
  <2>3. Status(listed[n].id) \in ModelStatus
    <3>1. manual[listed[n].id] \in ModelStatus \cup {"none"}
      BY <2>2 DEF TypeOK
    <3> QED
      BY <3>1 DEF Status, ModelStatus
  <2>4. Catalog[n] =
          [id |-> listed[n].id, family |-> listed[n].family,
           efforts |-> listed[n].efforts, status |-> Status(listed[n].id)]
    BY DEF Catalog
  <2> QED
    BY <2>2, <2>3, <2>4 DEF Row
<1>4. DOMAIN Catalog = 1..Len(listed)
  BY DEF Catalog
<1>5. Catalog \in [1..Len(listed) -> Row]
  <2>1. Catalog = [n \in 1..Len(listed) |-> Catalog[n]]
    BY DEF Catalog
  <2> QED
    BY <1>3, <2>1
<1>6. Catalog \in Seq(Row)
  BY <1>2, <1>5
<1> QED
  BY <1>1, <1>2, <1>3, <1>4, <1>6 DEF Sound

\* A model of the catalog is found by its id.
LEMMA ModelOfId ==
  ASSUME Sound(Catalog), NEW n \in DOMAIN Catalog
  PROVE  ModelOf(Catalog[n].id) = Catalog[n]
<1>1. DOMAIN Catalog = 1..Len(Catalog)
  BY DEF Sound
<1>2. \E k \in 1..Len(Catalog) : Catalog[k].id = Catalog[n].id
  BY <1>1
<1> DEFINE k == CHOOSE k \in 1..Len(Catalog) : Catalog[k].id = Catalog[n].id
<1>3. k \in 1..Len(Catalog) /\ Catalog[k].id = Catalog[n].id
  BY <1>2
<1>4. ModelOf(Catalog[n].id) = Catalog[k]
  BY DEF ModelOf
<1> HIDE DEF k
<1>5. k = n
  BY <1>1, <1>3 DEF Sound
<1> QED
  BY <1>4, <1>5

\* The account is always in one of the five states.
LEMMA AccountType == Account \in AccountState
BY DEF Account, AccountState

\* A merged row has the shape of an answered one.
LEMMA MergedType ==
  ASSUME RoutingAssumption, TypeOK, NEW update \in Update
  PROVE  Merged(update) \in Limits
<1> DEFINE old == IF limits = Unknown
                    THEN [status |-> "AVAILABLE", used |-> Absent, other |-> Absent,
                          spend |-> FALSE, reached |-> FALSE]
                    ELSE limits
           used == IF update.used = Absent THEN old.used ELSE update.used
           spend == IF update.spend = "null" THEN old.spend ELSE update.spend = "true"
           reached == old.reached \/ update.reached
<1>1. old \in Limits
  BY DEF TypeOK, Limits, Percent
<1>2. update.used \in Percent /\ update.reached \in BOOLEAN
  BY DEF RoutingAssumption
<1>3. Merged(update) = [old EXCEPT !.used = used, !.spend = spend, !.reached = reached]
  BY DEF Merged
<1> HIDE DEF old
<1>4. used \in Percent /\ spend \in BOOLEAN /\ reached \in BOOLEAN
  BY <1>1, <1>2 DEF Limits
<1> HIDE DEF used, spend, reached
<1> QED
  BY <1>1, <1>3, <1>4 DEF Limits

\* What is stored of a connect, a setting, an update or a plan is of its type.
LEMMA TypeStep ==
  ASSUME RoutingAssumption, TypeOK, [Next]_vars
  PROVE  TypeOK'
<1>1. CASE UpdateLimits
  <2>1. PICK update \in Update : limits' = Merged(update)
    BY <1>1 DEF UpdateLimits
  <2>2. limits' \in Limits
    BY <2>1, MergedType
  <2> QED
    BY <1>1, <2>2 DEF UpdateLimits, TypeOK
<1>2. CASE ForgetLimits
  BY <1>2 DEF ForgetLimits, TypeOK
<1>3. CASE SetThresholds
  BY <1>3 DEF SetThresholds, TypeOK
<1>4. CASE SaveCatalog
  BY <1>4 DEF SaveCatalog, TypeOK
<1>5. ASSUME Fetched PROVE limits' \in {Unknown} \cup Limits
  BY <1>5 DEF Fetched, RoutingAssumption
<1>6. CASE FetchLimits
  BY <1>5, <1>6 DEF FetchLimits, TypeOK
<1>7. CASE SetModelStatus
  <2>1. PICK n \in 1..Len(listed), status \in Choosable :
          manual' = [manual EXCEPT ![listed[n].id] = status]
    BY <1>7 DEF SetModelStatus
  <2>2. status \in ModelStatus
    BY DEF RoutingAssumption
  <2>3. manual' \in [Id -> ModelStatus \cup {"none"}]
    BY <2>1, <2>2 DEF TypeOK
  <2> QED
    BY <1>7, <2>3 DEF SetModelStatus, TypeOK
<1>8. CASE SealPlan
  <2>1. PICK r \in Sealable, held \in BOOLEAN :
          plan' = [state |-> "sealed", request |-> r, account |-> Account,
                   route |-> IF held \/ ~r.readOnly THEN Hold
                             ELSE Route(Catalog, Account, r)]
    BY <1>8 DEF SealPlan
  <2> DEFINE route == IF held \/ ~r.readOnly THEN Hold ELSE Route(Catalog, Account, r)
  <2>2. r \in Asking
    BY DEF RoutingAssumption
  <2>3. route \in {Hold} \cup [status : {"PREVIEW"}, model : Id, effort : Stage]
    BY <2>2, CatalogIsSound, RouteType
  <2> HIDE DEF route
  <2>4. plan' = [state |-> "sealed", request |-> r, account |-> Account, route |-> route]
    BY <2>1 DEF route
  <2>5. plan' \in Plan
    BY <2>3, <2>4, AccountType DEF Plan
  <2> QED
    BY <1>8, <2>5 DEF SealPlan, TypeOK
<1>9. CASE ExpirePlan
  BY <1>9 DEF ExpirePlan, TypeOK, Plan
<1>10. CASE LoadPlan
  BY <1>10 DEF LoadPlan, TypeOK, Starting
<1>11. CASE ConnectLists
  BY <1>11 DEF ConnectLists, TypeOK, Starting
<1>12. CASE ConnectFetches
  <2>1. starting \in [at : {"listed", "fetched"}, models : Catalogs]
    BY <1>12 DEF ConnectFetches, TypeOK, NotStarting, Starting
  <2>2. starting' \in [at : {"listed", "fetched"}, models : Catalogs]
    BY <1>12, <2>1 DEF ConnectFetches
  <2> QED
    BY <1>5, <1>12, <2>2 DEF ConnectFetches, TypeOK, Starting
<1>13. CASE Claim
  BY <1>13 DEF Claim, TypeOK, Plan
<1>14. CASE RefuseStart
  BY <1>14 DEF RefuseStart, TypeOK
<1>15. CASE UNCHANGED vars
  BY <1>15 DEF vars, TypeOK
<1> QED
  BY <1>1, <1>2, <1>3, <1>4, <1>6, <1>7, <1>8, <1>9, <1>10, <1>11, <1>12, <1>13,
     <1>14, <1>15 DEF Next

\* A well-typed state's previews are within their recommendations.
LEMMA TypedIsWithin ==
  ASSUME RoutingAssumption, TypeOK
  PROVE  WithinRecommendation
<1> SUFFICES ASSUME NEW r \in Asked, Route(Catalog, Account, r).status = "PREVIEW"
             PROVE  LET route == Route(Catalog, Account, r)
                        m == ModelOf(route.model)
                    IN  Within(m, ModelOf(r.model), route, r)
  BY DEF WithinRecommendation, Within
<1>1. r \in Asking
  BY DEF Asked, RoutingAssumption
<1>2. Sound(Catalog)
  BY CatalogIsSound
<1>3. PICK k \in DOMAIN Catalog, n \in DOMAIN Catalog :
        /\ Catalog[k].id = r.model /\ Route(Catalog, Account, r).model = Catalog[n].id
        /\ Within(Catalog[n], Catalog[k], Route(Catalog, Account, r), r)
  BY <1>1, <1>2, PreviewIsWithin
<1> QED
  BY <1>2, <1>3, ModelOfId

\* And they are the best of their candidates.
LEMMA TypedIsBest ==
  ASSUME RoutingAssumption, TypeOK
  PROVE  RouteIsBest
<1> DEFINE fit(r) == {n \in DOMAIN Catalog : Suits(Catalog[n], ModelOf(r.model), r)}
           lowers(r) == /\ r.low /\ (r.readOnly \/ r.tests)
                        /\ ~IsUltra(ModelOf(r.model), r)
<1> SUFFICES ASSUME NEW r \in Asked, Route(Catalog, Account, r).status = "PREVIEW"
             PROVE  IF lowers(r) /\ fit(r) # {}
                      THEN \E n \in fit(r) :
                             /\ Catalog[n].id = Route(Catalog, Account, r).model
                             /\ \A k \in fit(r) \ {n} : Preferred(Catalog, r, n, k)
                      ELSE Route(Catalog, Account, r).model = r.model
  BY DEF RouteIsBest, Suits, Preferred
<1>1. r \in Asking
  BY DEF Asked, RoutingAssumption
<1>2. Sound(Catalog)
  BY CatalogIsSound
<1> DEFINE route == Route(Catalog, Account, r)
<1>3. PICK k \in DOMAIN Catalog :
        /\ Catalog[k].id = r.model /\ Good(Catalog[k], r)
        /\ \/ /\ IsUltra(Catalog[k], r)
              /\ route = RouteUltra(Catalog[k], Account, r)
           \/ /\ ~IsUltra(Catalog[k], r) /\ Automatic(r)
              /\ route = RouteDown(Catalog, Catalog[k], r)
           \/ /\ ~IsUltra(Catalog[k], r) /\ ~Automatic(r)
              /\ route = RouteAsIs(Catalog[k], r)
  BY <1>1, <1>2, PreviewRests
<1>4. ModelOf(r.model) = Catalog[k]
  BY <1>2, <1>3, ModelOfId
<1>5. lowers(r) <=> Automatic(r) /\ ~IsUltra(Catalog[k], r)
  BY <1>4 DEF Automatic
<1>6. fit(r) = {n \in DOMAIN Catalog : Suits(Catalog[n], Catalog[k], r)}
  BY <1>4
<1> HIDE DEF fit, lowers
<1>7. CASE IsUltra(Catalog[k], r) /\ route = RouteUltra(Catalog[k], Account, r)
  BY <1>3, <1>5, <1>7, UltraWithin
<1>8. CASE /\ ~IsUltra(Catalog[k], r) /\ Automatic(r)
           /\ route = RouteDown(Catalog, Catalog[k], r)
  BY <1>2, <1>3, <1>5, <1>6, <1>8, DownIsBest
<1>9. CASE ~Automatic(r) /\ route = RouteAsIs(Catalog[k], r)
  BY <1>3, <1>5, <1>9, AsIsWithin
<1> QED
  BY <1>3, <1>7, <1>8, <1>9

\* The rate limits, the catalog, the statuses, the plan and the start stay of their
\* types (save_rate_limits, save_model_catalog, create_route_plan, start_run).
THEOREM RoutingIsTyped == Spec => []TypeOK
<1>1. Init => TypeOK
  BY DEF Init, TypeOK, Plan
<1>2. TypeOK /\ [Next]_vars => TypeOK'
  BY TypeStep, RoutingAssumption
<1> QED
  BY <1>1, <1>2, PTL DEF Spec

\* In every reachable state, whatever is listed and whichever models the user has
\* taken out, every preview is within its recommendation (route_preview).
THEOREM PreviewsAreWithin == Spec => []WithinRecommendation
<1>1. TypeOK => WithinRecommendation
  BY TypedIsWithin, RoutingAssumption
<1> QED
  BY <1>1, RoutingIsTyped, PTL

\* And every preview of work that may be downgraded is the best there is.
THEOREM PreviewsAreBest == Spec => []RouteIsBest
<1>1. TypeOK => RouteIsBest
  BY TypedIsBest, RoutingAssumption
<1> QED
  BY <1>1, RoutingIsTyped, PTL

------------------------------------------------------------------------------
(* The start of a run. *)

\* What the router allows in a state of the account.
Allowed(account, r) == account # "BLOCKED" /\ (account = "CRITICAL" => r.class < 3)

\* A sealed plan says the state it was made in, and is no preview of what that
\* state forbids.
SealedIsAllowed ==
  plan.state = "sealed" =>
    /\ plan.account \in AccountState
    /\ plan.request \in Sealable
    /\ plan.route.status = "PREVIEW" => Allowed(plan.account, plan.request)

\* A previewed request was not refused for the state of the account.
LEMMA PreviewIsAllowed ==
  ASSUME NEW catalog, NEW account, NEW r, r.class \in Class,
         Route(catalog, account, r).status = "PREVIEW"
  PROVE  Allowed(account, r)
<1>1. \E top : ~Refused(top, account, r)
  BY HoldOrPreview DEF Route
<1>2. account # "BLOCKED" /\ ~(account = "CRITICAL" /\ r.class >= 3)
  BY <1>1 DEF Refused
<1> QED
  BY <1>2 DEF Allowed, Class

\* A state of the account that is no worse than one that allows a request allows it.
LEMMA NoWorseIsAllowed ==
  ASSUME NEW planned \in AccountState, NEW now \in AccountState, NEW r,
         Allowed(planned, r), ~Worsened(planned, now)
  PROVE  Allowed(now, r)
<1>1. DOMAIN Severity = {"NORMAL", "CONSERVE", "CRITICAL", "BLOCKED"}
  BY DEF Severity
<1>2. CASE planned = "UNKNOWN"
  BY <1>2 DEF Worsened, Allowed, AccountState
<1>3. CASE now = "UNKNOWN"
  BY <1>3 DEF Allowed
<1>4. CASE planned # "UNKNOWN" /\ now # "UNKNOWN"
  <2>1. {planned, now} \subseteq DOMAIN Severity
    BY <1>1, <1>4 DEF AccountState
  <2>2. ~(Severity[now] > Severity[planned])
    BY <2>1 DEF Worsened
  <2> QED
    BY <1>4, <2>2 DEF Severity, Allowed, AccountState
<1> QED
  BY <1>2, <1>3, <1>4

\* Only sealing makes a sealed plan, and it routes the request over the data then.
LEMMA SealedIsAllowedStep ==
  ASSUME RoutingAssumption, SealedIsAllowed, [Next]_vars
  PROVE  SealedIsAllowed'
<1> USE DEF SealedIsAllowed
<1>1. CASE SealPlan
  <2>1. PICK r \in Sealable, held \in BOOLEAN :
          plan' = [state |-> "sealed", request |-> r, account |-> Account,
                   route |-> IF held \/ ~r.readOnly THEN Hold
                             ELSE Route(Catalog, Account, r)]
    BY <1>1 DEF SealPlan
  <2>2. r.class \in Class
    BY DEF RoutingAssumption, Asking
  <2>3. plan'.request = r /\ plan'.account = Account
    BY <2>1
  <2>4. ASSUME plan'.route.status = "PREVIEW" PROVE Allowed(Account, r)
    <3>1. plan'.route = Hold \/ plan'.route = Route(Catalog, Account, r)
      BY <2>1
    <3>2. Route(Catalog, Account, r).status = "PREVIEW"
      BY <2>4, <3>1 DEF Hold
    <3> QED
      BY <2>2, <3>2, PreviewIsAllowed
  <2> QED
    BY <2>3, <2>4, AccountType
<1>2. CASE ExpirePlan
  BY <1>2 DEF ExpirePlan, Expired
<1>3. CASE Claim
  BY <1>3 DEF Claim, Claimed
<1>4. CASE UNCHANGED plan
  BY <1>4
<1> QED
  BY <1>1, <1>2, <1>3, <1>4
     DEF Next, vars, UpdateLimits, ForgetLimits, SetThresholds, SaveCatalog,
         FetchLimits, SetModelStatus, LoadPlan, ConnectLists, ConnectFetches, RefuseStart

\* A claimed plan was sealed before, and is claimed while the account allows it.
LEMMA ClaimIsAllowed ==
  ASSUME SealedIsAllowed, [Next]_vars, plan.state = "sealed", plan'.state = "claimed"
  PROVE  Account # "BLOCKED" /\ (Account = "CRITICAL" => plan.request.class < 3)
<1>1. Claim
  BY DEF Next, vars, UpdateLimits, ForgetLimits, SetThresholds, SaveCatalog,
         FetchLimits, SetModelStatus, LoadPlan, ConnectLists, ConnectFetches,
         RefuseStart, SealPlan, ExpirePlan, Expired, NoPlan
<1>2. plan.route.status = "PREVIEW" /\ ~Worsened(plan.account, Account)
  BY <1>1 DEF Claim, Valid
<1>3. Allowed(plan.account, plan.request) /\ plan.account \in AccountState
  BY <1>2 DEF SealedIsAllowed
<1>4. Allowed(Account, plan.request)
  BY <1>2, <1>3, AccountType, NoWorseIsAllowed
<1> QED
  BY <1>4 DEF Allowed

\* Every reachable sealed plan is one the router allows in its state of the account.
THEOREM SealedIsAllowedInv == Spec => []SealedIsAllowed
<1>1. Init => SealedIsAllowed
  BY DEF Init, SealedIsAllowed, NoPlan
<1>2. SealedIsAllowed /\ [Next]_vars => SealedIsAllowed'
  BY SealedIsAllowedStep, RoutingAssumption
<1> QED
  BY <1>1, <1>2, PTL DEF Spec

\* No run starts while the account is BLOCKED, and none of class T3 or more while it
\* is CRITICAL (start_run, _validate_route_plan and route_preview together).
THEOREM BlockedNeverStartsThm == Spec => BlockedNeverStarts
<1>1. SealedIsAllowed /\ [Next]_vars =>
        [plan.state = "sealed" /\ plan'.state = "claimed" =>
           /\ Account # "BLOCKED"
           /\ Account = "CRITICAL" => plan.request.class < 3]_vars
  BY ClaimIsAllowed
<1> QED
  BY <1>1, SealedIsAllowedInv, PTL DEF Spec, BlockedNeverStarts
=============================================================================
