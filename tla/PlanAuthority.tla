----------------------------- MODULE PlanAuthority -----------------------------
(***************************************************************************)
(* GateRun implements OneUseAuthority with its route plans: start_run      *)
(* issues and claims the use of a plan in one insert, and the turn it asks *)
(* the app-server for is the process the use starts.                       *)
(***************************************************************************)
EXTENDS GateRun

\* The app-server began the turn of this call.
Begun(c) == turn[c] \in {"running", "ended", "gone"}

\* The calls whose turn was begun for a plan.
Executions(p) == {c \in Call : plan[c] = p /\ Begun(c)}

\* The phase of a plan.  A plan that was executed without a claim, or twice, has
\* a phase no authority knows.
PlanPhase(p) ==
  IF use[p].status = "none" /\ Executions(p) = {} THEN "unissued"
  ELSE IF use[p].status # "none" /\ Executions(p) = {} THEN "claimed"
  ELSE IF use[p].status # "none" /\ \A c, d \in Executions(p) : c = d THEN "launched"
  ELSE "forged"

planPhase == [p \in Plan |-> PlanPhase(p)]

UseAuthority == INSTANCE OneUseAuthority WITH Grant <- Plan, phase <- planPhase

\* A route plan is a one-use authority: a use that was claimed is never given back,
\* not even by a failed start or a restart, the app-server begins a turn for a
\* claimed plan only, and one turn in all, even when the request for it had timed
\* out and the start had been recorded as failed before the turn began.
PlanIsOneUse == UseAuthority!Spec
=============================================================================
