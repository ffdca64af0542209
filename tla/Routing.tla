----------------------------- MODULE Routing -----------------------------
(***************************************************************************)
(* What a route plan is made from and checked against: the account's rate  *)
(* limits (app/storage.py account_snapshots), the usage thresholds, the    *)
(* model catalog and the manual model statuses, with the requests that     *)
(* change them, and a plan from create_route_plan to its claim by          *)
(* start_run (app/gateway.py).                                             *)
(*                                                                         *)
(* start_run loads the plan, then awaits connect, which stores a new       *)
(* catalog and then new limits; every other request may come in between.   *)
(* After connect it checks the plan and claims it without suspending.      *)
(***************************************************************************)
EXTENDS Router, FiniteSets

CONSTANTS
  Catalogs,    \* what model/list may answer: sequences of visible models with efforts,
               \* each listed once (its id is the key of its row)
  Answer,      \* what account/rateLimits/read may answer
  Update,      \* what account/rateLimits/updated may bring
  Choosable,   \* statuses a user may give a model
  Thresholds,  \* settings [conserve, critical, blocked] a user may choose
  Sealable,    \* requests a plan may be made of
  Request      \* requests a preview may be asked of

Absent == -1   \* a window that is not reported
DefaultThresholds == [conserve |-> 70, critical |-> 90, blocked |-> 100]

Percent == {Absent} \cup 0..100
Limits ==
  [status : {"AVAILABLE"}, used : Percent, other : Percent,
   spend : BOOLEAN, reached : BOOLEAN]

Id == UNION {{c[i].id : i \in 1..Len(c)} : c \in Catalogs}
Family == ToSet(Grades) \cup {"none"}
ModelRow == [id : Id, family : Family, efforts : Seq(Stage \cup {NoStage})]
Asking ==
  [class : Class, low : BOOLEAN, readOnly : BOOLEAN, files : Nat, tests : BOOLEAN,
   model : STRING, effort : Stage \cup {NoStage}, padded : BOOLEAN, audit : BOOLEAN]

ASSUME RoutingAssumption ==
  /\ \A c \in Catalogs :
       /\ c \in Seq(ModelRow)
       /\ \A n, k \in DOMAIN c : c[n].id = c[k].id => n = k
  /\ Answer \subseteq Limits
  /\ Update \subseteq
       [used : Percent, spend : {"null", "true", "false"}, reached : BOOLEAN]
  /\ Choosable \subseteq ModelStatus
  /\ Sealable \subseteq Asking /\ Request \subseteq Asking
  /\ \A r \in Sealable : ~r.padded   \* the decision of a plan is stripped
  /\ \A t \in Thresholds :
       /\ 0 <= t.conserve /\ t.conserve < t.critical
       /\ t.critical < t.blocked /\ t.blocked <= 100

VARIABLES
  limits,      \* the rate_limits row
  thresholds,
  listed,      \* the model_catalog rows, in order
  manual,      \* model_manual_status, which outlives the catalog
  plan,        \* the plan; what it says is kept until it is claimed or expires
  starting     \* the start_run coroutine of the plan

vars == <<limits, thresholds, listed, manual, plan, starting>>

Unknown == [status |-> "UNKNOWN"]
NoPlan == [state |-> "none"]
Expired == [state |-> "expired"]
Claimed == [state |-> "claimed"]
Plan ==
  {NoPlan, Expired, Claimed}
    \cup [state : {"sealed"}, request : Sealable, account : AccountState,
          route : {Hold} \cup [status : {"PREVIEW"}, model : Id, effort : Stage]]
NotStarting == [at |-> "none"]
Starting == [at : {"connecting"}] \cup [at : {"listed", "fetched"}, models : Catalogs]

TypeOK ==
  /\ limits \in {Unknown} \cup Limits
  /\ thresholds \in {DefaultThresholds} \cup Thresholds
  /\ listed \in Catalogs \cup {<<>>}
  /\ manual \in [Id -> ModelStatus \cup {"none"}]
  /\ plan \in Plan
  /\ starting \in {NotStarting} \cup Starting

Init ==
  /\ limits = Unknown
  /\ thresholds = DefaultThresholds
  /\ listed = <<>>
  /\ manual = [i \in Id |-> "none"]
  /\ plan = NoPlan
  /\ starting = NotStarting

\* router_models: the rows with their manual status, AVAILABLE by default.
Status(i) == IF manual[i] = "none" THEN "AVAILABLE" ELSE manual[i]
Catalog ==
  [n \in 1..Len(listed) |->
    [id |-> listed[n].id, family |-> listed[n].family, efforts |-> listed[n].efforts,
     status |-> Status(listed[n].id)]]

------------------------------------------------------------------------------
(* The account. *)

\* account_state_details_from_snapshot: the fullest window of all counts.
Account ==
  IF limits = Unknown THEN "UNKNOWN"
  ELSE LET windows == {limits.used, limits.other} \ {Absent}
           Reaches(level) == \E w \in windows : w >= level
       IN  CASE limits.spend \/ limits.reached -> "BLOCKED"
             [] windows = {}                   -> "UNKNOWN"
             [] Reaches(thresholds.blocked)    -> "BLOCKED"
             [] Reaches(thresholds.critical)   -> "CRITICAL"
             [] Reaches(thresholds.conserve)   -> "CONSERVE"
             [] OTHER                          -> "NORMAL"

\* merge_rate_limits: what the update leaves null stays, and so do the limits by id.
Merged(update) ==
  LET old == IF limits = Unknown
               THEN [status |-> "AVAILABLE", used |-> Absent, other |-> Absent,
                     spend |-> FALSE, reached |-> FALSE]
               ELSE limits
  IN  [old EXCEPT !.used = IF update.used = Absent THEN @ ELSE update.used,
                  !.spend = IF update.spend = "null" THEN @ ELSE update.spend = "true",
                  !.reached = @ \/ update.reached]

\* account/rateLimits/updated.
UpdateLimits ==
  /\ \E update \in Update : limits' = Merged(update)
  /\ UNCHANGED <<thresholds, listed, manual, plan, starting>>

\* An update, or an answer to account/rateLimits/read, that cannot be used.
ForgetLimits ==
  /\ limits' = Unknown
  /\ UNCHANGED <<thresholds, listed, manual, plan, starting>>

\* save_rate_limits: a full answer replaces the row.
Fetched == limits' \in {Unknown} \cup Answer

SetThresholds ==
  /\ thresholds' \in Thresholds
  /\ UNCHANGED <<limits, listed, manual, plan, starting>>

\* A connect that is not part of a start: the catalog, then the account.
SaveCatalog ==
  /\ listed' \in Catalogs
  /\ UNCHANGED <<limits, thresholds, manual, plan, starting>>

FetchLimits ==
  /\ listed # <<>> /\ Fetched
  /\ UNCHANGED <<thresholds, listed, manual, plan, starting>>

SetModelStatus ==
  /\ \E n \in 1..Len(listed), status \in Choosable :
       manual' = [manual EXCEPT ![listed[n].id] = status]
  /\ UNCHANGED <<limits, thresholds, listed, plan, starting>>

------------------------------------------------------------------------------
(* A route plan. *)

\* create_route_plan: the request is routed over the data stored now and sealed.
\* Its scope, evidence or text may be a reason to hold it anyway, and writing is.
SealPlan ==
  /\ plan = NoPlan
  /\ \E r \in Sealable, held \in BOOLEAN :
       plan' = [state |-> "sealed", request |-> r, account |-> Account,
                route |-> IF held \/ ~r.readOnly THEN Hold ELSE Route(Catalog, Account, r)]
  /\ UNCHANGED <<limits, thresholds, listed, manual, starting>>

ExpirePlan ==
  /\ plan.state = "sealed"
  /\ plan' = Expired
  /\ UNCHANGED <<limits, thresholds, listed, manual, starting>>

\* start_run up to its connect.
LoadPlan ==
  /\ plan # NoPlan /\ starting = NotStarting
  /\ starting' = [at |-> "connecting"]
  /\ UNCHANGED <<limits, thresholds, listed, manual, plan>>

\* The client's models are stored and the account is asked for; the coroutine keeps
\* the list it got.
ConnectLists ==
  /\ starting.at = "connecting"
  /\ \E models \in Catalogs :
       /\ listed' = models
       /\ starting' = [at |-> "listed", models |-> models]
  /\ UNCHANGED <<limits, thresholds, manual, plan>>

ConnectFetches ==
  /\ starting.at = "listed"
  /\ Fetched
  /\ starting' = [starting EXCEPT !.at = "fetched"]
  /\ UNCHANGED <<thresholds, listed, manual, plan>>

Severity == [NORMAL |-> 0, CONSERVE |-> 1, CRITICAL |-> 2, BLOCKED |-> 3]

\* Mutant: a plan made without knowing the account is good in any state of it.
WorsenedIfKnown(planned, now) ==
  \/ now = "UNKNOWN" /\ planned # "UNKNOWN"
  \/ /\ {planned, now} \subseteq DOMAIN Severity
     /\ Severity[now] > Severity[planned]

Worsened(planned, now) ==
  \/ now = "UNKNOWN" /\ planned # "UNKNOWN"
  \/ planned = "UNKNOWN" /\ now \in {"CRITICAL", "BLOCKED"}
  \/ /\ {planned, now} \subseteq DOMAIN Severity
     /\ Severity[now] > Severity[planned]

\* _validate_route_plan and validate_selection: the rows stored now for the model's
\* status, the list of this coroutine's connect for its efforts.
Valid ==
  /\ plan.state = "sealed"
  /\ plan.route.status = "PREVIEW" /\ plan.request.readOnly
  /\ ~Worsened(plan.account, Account)
  /\ \E n \in 1..Len(Catalog) :
       /\ Catalog[n].id = plan.route.model
       /\ Catalog[n].status \notin {"DEPLETED", "UNKNOWN", "DISABLED"}
  /\ plan.route.effort # Ultra
  /\ \E n \in 1..Len(starting.models) :
       /\ starting.models[n].id = plan.route.model
       /\ plan.route.effort \in ToSet(starting.models[n].efforts)

\* The plan is claimed and thread/start sent.
Claim ==
  /\ starting.at = "fetched" /\ Valid
  /\ plan' = Claimed
  /\ starting' = NotStarting
  /\ UNCHANGED <<limits, thresholds, listed, manual>>

\* Connecting fails, or the plan is refused.
RefuseStart ==
  /\ starting # NotStarting
  /\ starting.at = "fetched" => ~Valid
  /\ starting' = NotStarting
  /\ UNCHANGED <<limits, thresholds, listed, manual, plan>>

------------------------------------------------------------------------------
Next ==
  \/ UpdateLimits \/ ForgetLimits \/ SetThresholds
  \/ SaveCatalog \/ FetchLimits \/ SetModelStatus
  \/ SealPlan \/ ExpirePlan
  \/ LoadPlan \/ ConnectLists \/ ConnectFetches \/ Claim \/ RefuseStart

Spec == Init /\ [][Next]_vars

------------------------------------------------------------------------------
(* Properties.  The first two are about every preview that could be asked for;  *)
(* a plan plays no part in it, so it is enough to ask where there is none.      *)

Asked == IF plan = NoPlan THEN Request ELSE {}

ModelOf(id) == Catalog[CHOOSE n \in 1..Len(Catalog) : Catalog[n].id = id]

\* A preview stays under the recommendation's ceiling, meets the minimum of the task
\* class for the model it picks, and picks a model the user has not taken out.
WithinRecommendation ==
  \A r \in Asked :
    LET route == Route(Catalog, Account, r)
    IN  route.status = "PREVIEW" =>
          LET m == ModelOf(route.model)
          IN  /\ Grade(m) <= Grade(ModelOf(r.model)) /\ Usable(m)
              /\ Grade(m) >= MinGrade(r.class)
              /\ route.effort \in ToSet(m.efforts)
              /\ route.effort <= r.effort
              /\ route.effort >= MinimumStage(r.class, r.files, m)

\* Work that may be downgraded is, to the one candidate preferable to all others:
\* AVAILABLE before LIMITED, then the order of the families, then that of the list;
\* other work keeps the recommended model.
RouteIsBest ==
  \A r \in Asked :
    LET route == Route(Catalog, Account, r)
        Fits(m) ==
          /\ Known(m)
          /\ MinGrade(r.class) <= Grade(m) /\ Grade(m) < Grade(ModelOf(r.model))
          /\ r.readOnly \/ Grade(ModelOf(r.model)) - Grade(m) <= 2
          /\ Usable(m)
          /\ \E e \in ToSet(m.efforts) :
               MinimumStage(r.class, r.files, m) <= e /\ e <= r.effort /\ e # Ultra
        Before(n, k) ==
          LET m == Catalog[n]
              o == Catalog[k]
          IN  \/ m.status = "AVAILABLE" /\ o.status = "LIMITED"
              \/ /\ m.status = o.status
                 /\ FamilyRank(r.class, m) < FamilyRank(r.class, o)
              \/ /\ m.status = o.status
                 /\ FamilyRank(r.class, m) = FamilyRank(r.class, o)
                 /\ n < k
        fit == {n \in DOMAIN Catalog : Fits(Catalog[n])}
    IN  route.status = "PREVIEW" =>
          IF /\ r.low /\ (r.readOnly \/ r.tests)
             /\ ~IsUltra(ModelOf(r.model), r) /\ fit # {}
            THEN \E n \in fit :
                   /\ Catalog[n].id = route.model
                   /\ \A k \in fit \ {n} : Before(n, k)
            ELSE route.model = r.model

\* README: Ultra is previewed only for a Read Only audit of three axes with an
\* explicit approval.  The code asks for it only where IsUltra.
UltraIsAudited ==
  \A r \in Asked :
    LET route == Route(Catalog, Account, r)
    IN  route.status = "PREVIEW" /\ route.effort = Ultra => r.readOnly /\ r.audit

\* No run starts while the account is BLOCKED, and none of class T3 or more while it
\* is CRITICAL, though the plan was made in another state of it and the account
\* changed between the checks of its start.
BlockedNeverStarts ==
  [][plan.state = "sealed" /\ plan'.state = "claimed" =>
       /\ Account # "BLOCKED"
       /\ Account = "CRITICAL" => plan.request.class < 3]_vars
=============================================================================
