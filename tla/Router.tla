----------------------------- MODULE Router -----------------------------
(***************************************************************************)
(* route_preview of app/router.py: which model and effort a request is     *)
(* routed to, given the catalog and the state of the account.              *)
(*                                                                         *)
(* A model is a record of its id, family, advertised efforts (in the order *)
(* of model/list) and manual status; an effort literal is represented by   *)
(* its semantic stage, 0 (low) to 5 (ultra), NoStage when it has none.  A  *)
(* task class Tn is n.  The wording of reasons and warnings is left out.   *)
(* Blanks around the effort of a request are kept apart (padded): the code *)
(* strips them when it takes the stage, not when it looks for Ultra.       *)
(***************************************************************************)
EXTENDS Integers, Sequences, SequencesExt

Grades == <<"spark", "mini", "luna", "5.4", "terra", "5.5", "sol">>
ModelStatus == {"AVAILABLE", "LIMITED", "DEPLETED", "UNKNOWN", "DISABLED"}
AccountState == {"NORMAL", "CONSERVE", "CRITICAL", "BLOCKED", "UNKNOWN"}
Class == 0..5
NoStage == -1
Ultra == 5
Stage == 0..Ultra

\* The family is read off the names of a model, and may be none of these.
Known(m) == m.family \in ToSet(Grades)
Grade(m) == (CHOOSE g \in 1..Len(Grades) : Grades[g] = m.family) - 1

TaskFamilies ==
  <<  <<"spark">>, <<"spark", "mini">>, <<"mini", "luna">>,
      <<"5.4", "terra">>, <<"terra", "5.4">>, <<"sol", "5.5">>  >>
MinGrade(class) == <<0, 0, 1, 3, 3, 5>>[class + 1]
MinEffort(class) == <<1, 2, 2, 2, 3, 4>>[class + 1]
FileLimit == [class \in 1..3 |-> <<2, 5, 10>>[class]]

Hold == [status |-> "HOLD"]
Preview(m, stage) == [status |-> "PREVIEW", model |-> m.id, effort |-> stage]
Usable(m) == m.status \in {"AVAILABLE", "LIMITED"}

\* Where in a model's list the efforts other than Ultra are.
Ordinary(m) == {k \in DOMAIN m.efforts : m.efforts[k] \in 0..(Ultra - 1)}

\* A 5.5 model asked to do a T5 task does it at the highest effort it has.
MinimumStage(class, files, m) ==
  IF class = 5 /\ m.family = "5.5" /\ Ordinary(m) # {}
    THEN Max({m.efforts[k] : k \in Ordinary(m)})
    ELSE IF class = 3 /\ files >= 4 THEN 3 ELSE MinEffort(class)

\* Mutant: the first effort that meets the minimum, whatever the ceiling.
SelectAnyEffort(m, minimum, ceiling) ==
  LET fit == {k \in Ordinary(m) : minimum <= m.efforts[k]}
  IN  IF fit = {} THEN NoStage ELSE m.efforts[Min(fit)]

\* The first effort, as listed, between the minimum and the ceiling.
SelectEffort(m, minimum, ceiling) ==
  LET fit == {k \in Ordinary(m) : minimum <= m.efforts[k] /\ m.efforts[k] <= ceiling}
  IN  IF fit = {} THEN NoStage ELSE m.efforts[Min(fit)]

\* The families of the class come first, then the others from the highest down.
FamilyRank(class, m) ==
  LET first == TaskFamilies[class + 1]
  IN  IF m.family \in ToSet(first)
        THEN CHOOSE i \in DOMAIN first : first[i] = m.family
        ELSE 2 * Len(Grades) - Grade(m)

\* Where in the catalog the models that may be considered are.
Ladder(catalog, class, maximum) ==
  {n \in DOMAIN catalog :
     /\ Known(catalog[n])
     /\ MinGrade(class) <= Grade(catalog[n]) /\ Grade(catalog[n]) <= maximum}

\* The one of these that the ladder has first: the order of model/list within a
\* family.
Foremost(catalog, class, models) ==
  LET rank == Min({FamilyRank(class, catalog[n]) : n \in models})
  IN  Min({n \in models : FamilyRank(class, catalog[n]) = rank})

\* What a request is refused for before any choice is made; m is the recommended
\* model.
Refused(m, account, r) ==
  \/ ~Known(m)
  \/ account = "BLOCKED"
  \/ account = "CRITICAL" /\ r.class >= 3
  \/ r.class \in DOMAIN FileLimit /\ r.files > FileLimit[r.class]
  \/ Grade(m) < MinGrade(r.class)
  \/ r.effort \notin ToSet(m.efforts)
  \/ r.effort < MinimumStage(r.class, r.files, m)

\* r.audit: a parallel audit of three axes at least, explicitly approved.
UltraGranted(m, account, r) ==
  r.readOnly /\ r.audit /\ account \notin {"CONSERVE", "CRITICAL"} /\ Usable(m)

\* The recommendation is Ultra, for a family that has it.  Blanks around the word
\* are no matter to its stage, but a padded one is not taken for Ultra here.
IsUltra(m, r) ==
  r.effort = Ultra /\ ~r.padded /\ m.family \in {"sol", "terra", "luna"}

\* Ultra if it is granted, else the last other effort listed.
RouteUltra(m, account, r) ==
  LET last == m.efforts[Max(Ordinary(m))]
  IN  IF UltraGranted(m, account, r) THEN Preview(m, Ultra)
      ELSE IF /\ Usable(m) /\ Ordinary(m) # {}
              /\ last >= MinimumStage(r.class, r.files, m)
        THEN Preview(m, last)
        ELSE Hold

\* _downgrade_policy: only low-risk work, and writing only with tests.
Automatic(r) == r.low /\ (r.readOnly \/ r.tests)

\* Lower models of that status that the request may go to; writing work moves two
\* grades at most.
Candidates(catalog, m, r, status) ==
  {n \in Ladder(catalog, r.class, Grade(m)) :
     /\ Grade(catalog[n]) < Grade(m)
     /\ r.readOnly \/ Grade(m) - Grade(catalog[n]) <= 2
     /\ catalog[n].status = status
     /\ SelectEffort(catalog[n], MinimumStage(r.class, r.files, catalog[n]), r.effort)
          # NoStage}

\* The model recommended, at the recommended effort; at the least sufficient one
\* when the work may be downgraded.
RouteAsIs(m, r) ==
  LET effort == IF Automatic(r)
                  THEN SelectEffort(m, MinimumStage(r.class, r.files, m), r.effort)
                  ELSE r.effort
  IN  IF Usable(m) /\ effort # NoStage THEN Preview(m, effort) ELSE Hold

\* A lower model, at the least effort that is enough.
Lowered(n, r) ==
  Preview(n, SelectEffort(n, MinimumStage(r.class, r.files, n), r.effort))

\* Mutant: lower models are taken as they come, LIMITED or not.
RouteDownMixed(catalog, m, r) ==
  LET usable == UNION {Candidates(catalog, m, r, status) :
                         status \in {"AVAILABLE", "LIMITED"}}
  IN  IF usable = {} THEN RouteAsIs(m, r)
      ELSE Lowered(catalog[Foremost(catalog, r.class, usable)], r)

\* An AVAILABLE lower model, else a LIMITED one, else the recommended one.
RouteDown(catalog, m, r) ==
  LET available == Candidates(catalog, m, r, "AVAILABLE")
      limited == Candidates(catalog, m, r, "LIMITED")
  IN  IF available # {} THEN Lowered(catalog[Foremost(catalog, r.class, available)], r)
      ELSE IF limited # {} THEN Lowered(catalog[Foremost(catalog, r.class, limited)], r)
      ELSE RouteAsIs(m, r)

\* Where the catalog has the recommended model.
Recommended(catalog, r) == {n \in DOMAIN catalog : catalog[n].id = r.model}

Route(catalog, account, r) ==
  LET found == Recommended(catalog, r)
      m == catalog[Min(found)]
  IN  IF found = {} \/ Refused(m, account, r) THEN Hold
      ELSE IF IsUltra(m, r) THEN RouteUltra(m, account, r)
      ELSE IF Automatic(r) THEN RouteDown(catalog, m, r)
      ELSE RouteAsIs(m, r)
=============================================================================
