------------------------ MODULE CanaryOneShotProofs ------------------------
(***************************************************************************)
(* Safety of the one-shot Canary for any number of permits, windows,       *)
(* claims and identities, any lifetime and any length of time; and that    *)
(* CanaryOneShot implements OneUseAuthority over its permits and over its  *)
(* windows: every step is a step of the abstract authority or a stutter.   *)
(***************************************************************************)
EXTENDS CanaryAuthority, TLAPS

\* The inductive invariant.
IInv ==
  /\ TypeOK
  /\ StatusMatchesTask
  /\ CountersMatchTask
  /\ ClaimsHoldSpentPairs
  /\ RowsMatchOwners

-----------------------------------------------------------------------------
(* Types. *)

\* Sweeping, disarming, issuing and marking keep a function of capability rows.
LEMMA RowTypes ==
  ASSUME NEW S, NEW cap \in [S -> Capability], NEW x \in S,
         NEW s \in CapabilityStatus, NEW ttl \in Nat,
         TypeOK, ConstantAssumption
  PROVE  /\ Swept(cap) \in [S -> Capability]
         /\ Disarmed(cap) \in [S -> Capability]
         /\ Issued(cap, x, s, ttl) \in [S -> Capability]
         /\ Marked(cap, x, s) \in [S -> Capability]
<1>1. /\ now + ttl \in Nat
      /\ SealedBinding \in Binding \cup {None}
  BY DEF TypeOK, ConstantAssumption, SealedBinding
<1>2. Swept(cap) \in [S -> Capability]
  BY DEF Swept, Overdue, Capability, CapabilityStatus
<1>3. Disarmed(cap) \in [S -> Capability]
  BY DEF Disarmed, Capability, CapabilityStatus
<1>4. Issued(cap, x, s, ttl) \in [S -> Capability]
  BY <1>1, <1>2 DEF Issued, Capability
<1>5. Marked(cap, x, s) \in [S -> Capability]
  BY DEF Marked, Capability
<1> QED
  BY <1>2, <1>3, <1>4, <1>5

LEMMA TypeInit == ConstantAssumption /\ Init => TypeOK
<1> SUFFICES ASSUME ConstantAssumption, Init PROVE TypeOK
  OBVIOUS
<1>1. Unissued \in Capability
  BY DEF Unissued, Capability, CapabilityStatus
<1>2. /\ permit \in [Permit -> Capability]
      /\ window \in [Window -> Capability]
  BY <1>1 DEF Init
<1>3. claim \in [Claim -> ClaimRow]
  BY DEF Init, ClaimRow, ClaimStatus
<1>4. run \in [Binding -> RunRow]
  BY DEF Init, RunRow, RunStatus
<1> QED
  BY <1>2, <1>3, <1>4 DEF Init, TypeOK, TaskState

\* Writing one field of a claim or of a run row keeps the tables typed.
LEMMA FieldTypes ==
  ASSUME TypeOK, NEW c \in Claim
  PROVE  /\ \A s \in ClaimStatus : [claim EXCEPT ![c].status = s] \in [Claim -> ClaimRow]
         /\ [claim EXCEPT ![c].spawn_attempted = 1] \in [Claim -> ClaimRow]
         /\ [claim EXCEPT ![c].spawn_count = 1] \in [Claim -> ClaimRow]
         /\ \A b \in Binding, s \in RunStatus :
              /\ [run EXCEPT ![b].status = s] \in [Binding -> RunRow]
              /\ [run EXCEPT ![b] = [status |-> s, owner |-> c]] \in [Binding -> RunRow]
<1>0. claim \in [Claim -> ClaimRow] /\ claim[c] \in ClaimRow
  BY DEF TypeOK
<1>1. \A s \in ClaimStatus : [claim EXCEPT ![c].status = s] \in [Claim -> ClaimRow]
  <2>1. \A s \in ClaimStatus : [claim[c] EXCEPT !.status = s] \in ClaimRow
    BY <1>0 DEF ClaimRow
  <2> QED
    BY <1>0, <2>1
<1>2. [claim EXCEPT ![c].spawn_attempted = 1] \in [Claim -> ClaimRow]
  <2>1. [claim[c] EXCEPT !.spawn_attempted = 1] \in ClaimRow
    BY <1>0 DEF ClaimRow
  <2> QED
    BY <1>0, <2>1
<1>3. [claim EXCEPT ![c].spawn_count = 1] \in [Claim -> ClaimRow]
  <2>1. [claim[c] EXCEPT !.spawn_count = 1] \in ClaimRow
    BY <1>0 DEF ClaimRow
  <2> QED
    BY <1>0, <2>1
<1>4. \A b \in Binding, s \in RunStatus : [run EXCEPT ![b].status = s] \in [Binding -> RunRow]
  BY DEF TypeOK, RunRow
<1>5. \A b \in Binding, s \in RunStatus :
        [run EXCEPT ![b] = [status |-> s, owner |-> c]] \in [Binding -> RunRow]
  BY DEF TypeOK, RunRow
<1> QED
  BY <1>1, <1>2, <1>3, <1>4, <1>5

\* A coroutine that is at work has a claim row with a sealed identity.
LEMMA WorkingClaim ==
  ASSUME TypeOK, StatusMatchesTask, ClaimsHoldSpentPairs, NEW c \in Claim,
         task[c] \in Suspended \cup Holding
  PROVE  claim[c].status \in {"CLAIMED", "RUNNING"} /\ claim[c].binding \in Binding
BY DEF TypeOK, StatusMatchesTask, ClaimsHoldSpentPairs, Holding

\* The INSERT of a claim.
LEMMA OpenClaimTypes ==
  ASSUME TypeOK, NEW p \in Permit, NEW w \in Window, NEW c \in Claim,
         OpenClaim(p, w, c)
  PROVE  claim' \in [Claim -> ClaimRow] /\ task' \in [Claim -> TaskState]
<1>1. [status |-> "CLAIMED", permit |-> p, window |-> w, binding |-> SealedBinding,
       spawn_attempted |-> 0, spawn_count |-> 0] \in ClaimRow
  BY DEF TypeOK, ClaimRow, ClaimStatus, SealedBinding
<1> QED
  BY <1>1 DEF OpenClaim, TypeOK, TaskState, Holding

\* A claim is closed without a run of its own; PASSED needs the identity's run.
Closes(c) ==
  /\ task[c] \in {"claimed", "begun"}
  /\ \E s \in Settled :
       /\ s = "PASSED" => run[claim[c].binding].status = "PASSED"
       /\ claim' = [claim EXCEPT ![c].status = s]
  /\ task' = [task EXCEPT ![c] = "done"]
  /\ ReleaseLock(c)
  /\ UNCHANGED <<permit, window, run, process, env, now, refused>>

LEMMA Closings ==
  ASSUME NEW c \in Claim, NEW result \in Settled,
         RejectClaim(c) \/ ReuseResult(c) \/ RefuseRunner(c, result)
  PROVE  Closes(c)
<1>1. CASE RejectClaim(c)
  BY <1>1 DEF RejectClaim, Closes, Settled
<1>2. CASE ReuseResult(c)
  BY <1>2 DEF ReuseResult, CloseBegun, Closes, Settled
<1>3. CASE RefuseRunner(c, result)
  BY <1>3 DEF RefuseRunner, CloseBegun, Closes
<1> QED
  BY <1>1, <1>2, <1>3

\* No step leaves the types.
LEMMA TypeStep ==
  ASSUME ConstantAssumption, TypeOK, StatusMatchesTask, ClaimsHoldSpentPairs,
         [Next]_vars
  PROVE  TypeOK'
<1> USE DEF env, process
<1>a. /\ {"NONE", "CLAIMED", "RUNNING", "ERROR", "PASSED"} \subseteq ClaimStatus
      /\ "ERROR" \in Settled
      /\ Settled \subseteq RunStatus
      /\ RunStatus \subseteq ClaimStatus
      /\ "RUNNING" \in RunStatus
  BY DEF ClaimStatus, RunStatus, Settled
<1>b. {"ARMED", "EXPIRED", "CONSUMED", "ABORTED"} \subseteq CapabilityStatus
  BY DEF CapabilityStatus
<1>c. /\ permit \in [Permit -> Capability] /\ window \in [Window -> Capability]
      /\ PermitTTL \in Nat /\ WindowTTL \in Nat
  BY DEF TypeOK, ConstantAssumption
<1>1. ASSUME NEW p \in Permit, IssuePermit(p) PROVE TypeOK'
  BY <1>1, <1>b, <1>c, RowTypes DEF IssuePermit, TypeOK
<1>2. ASSUME NEW p \in Permit, RefuseArm(p) PROVE TypeOK'
  BY <1>2 DEF RefuseArm, TypeOK
<1>3. ASSUME NEW p \in Permit, NEW w \in Window, ArmWindow(p, w) PROVE TypeOK'
  BY <1>3, <1>b, <1>c, RowTypes DEF ArmWindow, TypeOK
<1>4. ASSUME NEW p \in Permit, NEW w \in Window, ConsumePair(p, w) PROVE TypeOK'
  BY <1>4, <1>b, <1>c, RowTypes DEF ConsumePair, TypeOK
<1>5. ASSUME NEW p \in Permit, NEW w \in Window, RefusePair(p, w) PROVE TypeOK'
  BY <1>5 DEF RefusePair, TypeOK
<1>6. ASSUME NEW p \in Permit, NEW w \in Window, RefuseClaim(p, w) PROVE TypeOK'
  <2>1. /\ Marked(permit, p, "EXPIRED") \in [Permit -> Capability]
        /\ Marked(permit, p, "CONSUMED") \in [Permit -> Capability]
        /\ Marked(window, w, "EXPIRED") \in [Window -> Capability]
        /\ Marked(window, w, "CONSUMED") \in [Window -> Capability]
    BY <1>b, <1>c, RowTypes
  <2>2. permit' \in [Permit -> Capability] /\ window' \in [Window -> Capability]
    BY <2>1, <1>6, <1>c DEF RefuseClaim
  <2>3. refused' \in [permits: SUBSET Permit, windows: SUBSET Window]
    BY <1>6 DEF RefuseClaim, TypeOK
  <2> QED
    BY <2>2, <2>3, <1>6 DEF RefuseClaim, TypeOK
<1>7. ASSUME NEW p \in Permit, NEW w \in Window, NEW c \in Claim,
             ClaimOneShot(p, w, c)
      PROVE  TypeOK'
  <2>1. claim' \in [Claim -> ClaimRow] /\ task' \in [Claim -> TaskState]
    BY <1>7, OpenClaimTypes DEF ClaimOneShot
  <2>2. permit' \in [Permit -> Capability] /\ window' \in [Window -> Capability]
    BY <1>7, <1>b, <1>c, RowTypes DEF ClaimOneShot
  <2> QED
    BY <2>1, <2>2, <1>7 DEF ClaimOneShot, TypeOK
<1>8. CASE StartHandoff \/ FailHandoff
  BY <1>8 DEF StartHandoff, FailHandoff, TypeOK
<1>9. ASSUME NEW p \in Permit, AbortHandoff(p) PROVE TypeOK'
  BY <1>9, <1>b, <1>c, RowTypes DEF AbortHandoff, TypeOK
<1>10. ASSUME NEW p \in Permit, NEW w \in Window, BlockHandoff(p, w) PROVE TypeOK'
  BY <1>10, <1>b, <1>c, RowTypes DEF BlockHandoff, TypeOK
<1>11. ASSUME NEW p \in Permit, NEW w \in Window, NEW c \in Claim,
              CompleteHandoff(p, w, c)
       PROVE  TypeOK'
  <2>1. claim' \in [Claim -> ClaimRow] /\ task' \in [Claim -> TaskState]
    BY <1>11, OpenClaimTypes DEF CompleteHandoff
  <2>2. permit' \in [Permit -> Capability] /\ window' \in [Window -> Capability]
    BY <1>11, <1>b, <1>c, RowTypes DEF CompleteHandoff
  <2> QED
    BY <2>1, <2>2, <1>11 DEF CompleteHandoff, TypeOK
<1>12. ASSUME NEW c \in Claim, Closes(c) PROVE TypeOK'
  <2>1. PICK s \in ClaimStatus : claim' = [claim EXCEPT ![c].status = s]
    BY <1>12, <1>a DEF Closes
  <2>2. claim' \in [Claim -> ClaimRow]
    BY <2>1, FieldTypes
  <2> QED
    BY <2>2, <1>12 DEF Closes, ReleaseLock, TypeOK, TaskState
<1>13. ASSUME NEW c \in Claim, BeginClaim(c) \/ BeginRun(c) PROVE TypeOK'
  <2>1. CASE BeginClaim(c)
    <3>1. claim' \in [Claim -> ClaimRow]
      BY <2>1, <1>a, FieldTypes DEF BeginClaim, ClaimStatus
    <3> QED
      BY <3>1, <2>1 DEF BeginClaim, TypeOK, TaskState, Holding
  <2>2. CASE BeginRun(c)
    <3>1. run' \in [Binding -> RunRow]
      BY <2>2, <1>a, FieldTypes, WorkingClaim DEF BeginRun, Holding
    <3> QED
      BY <3>1, <2>2 DEF BeginRun, TypeOK, TaskState, Suspended
  <2> QED
    BY <1>13, <2>1, <2>2
<1>14. ASSUME NEW c \in Claim, ReserveSpawn(c) PROVE TypeOK'
  <2>1. claim' \in [Claim -> ClaimRow]
    BY <1>14, FieldTypes DEF ReserveSpawn
  <2> QED
    BY <2>1, <1>14 DEF ReserveSpawn, TypeOK, TaskState, Suspended
<1>15. ASSUME NEW c \in Claim, CreateProcess(c) PROVE TypeOK'
  BY <1>15 DEF CreateProcess, TypeOK, TaskState, Suspended
<1>16. ASSUME NEW c \in Claim, MarkSpawned(c) PROVE TypeOK'
  <2>1. claim' \in [Claim -> ClaimRow]
    BY <1>16, FieldTypes DEF MarkSpawned
  <2> QED
    BY <2>1, <1>16 DEF MarkSpawned, TypeOK, TaskState, Suspended
<1>17. ASSUME NEW c \in Claim, NEW result \in Settled,
              task[c] \in Suspended, Record(c, result),
              supervisor' \in [Claim -> {"none", "alive", "exited"}]
       PROVE  TypeOK'
  <2>1. run' \in [Binding -> RunRow]
    BY <1>17, <1>a, FieldTypes, WorkingClaim DEF Record, TypeOK
  <2> QED
    BY <2>1, <1>17 DEF Record, TypeOK, TaskState, Holding
<1>18. ASSUME NEW c \in Claim, NEW result \in Settled,
              \/ FailBeforeSpawn(c, result) \/ FinishRun(c, result)
              \/ FailMark(c) \/ TerminateRun(c) \/ CancelRun(c)
       PROVE  TypeOK'
  <2>1. supervisor' \in [Claim -> {"none", "alive", "exited"}]
    BY <1>18 DEF FailBeforeSpawn, FinishRun, FailMark, TerminateRun, CancelRun, TypeOK
  <2>2. Record(c, result) \/ Record(c, "ERROR")
    BY <1>18 DEF FailBeforeSpawn, FinishRun, FailMark, TerminateRun, CancelRun
  <2>3. task[c] \in Suspended
    BY <1>18 DEF FailBeforeSpawn, FinishRun, FailMark, TerminateRun, CancelRun, Suspended
  <2> QED
    BY <2>1, <2>2, <2>3, <1>17, <1>a
<1>19. ASSUME NEW c \in Claim, CloseClaim(c) PROVE TypeOK'
  <2>1. claim[c].binding \in Binding
    BY <1>19, WorkingClaim DEF CloseClaim, Holding
  <2>2. run[claim[c].binding].status \in ClaimStatus
    BY <2>1, <1>a DEF TypeOK, RunRow
  <2>3. claim' \in [Claim -> ClaimRow]
    BY <2>2, <1>19, <1>a, FieldTypes DEF CloseClaim
  <2> QED
    BY <2>3, <1>19 DEF CloseClaim, ReleaseLock, TypeOK, TaskState
<1>20. ASSUME NEW c \in Claim, SupervisorExits(c) PROVE TypeOK'
  BY <1>20 DEF SupervisorExits, TypeOK
<1>21. CASE ChangeEnvironment \/ ProofAges \/ Tick
  <2>1. CASE ChangeEnvironment
    BY <2>1 DEF ChangeEnvironment, TypeOK
  <2>2. CASE ProofAges
    BY <2>2 DEF ProofAges, TypeOK
  <2>3. CASE Tick
    BY <2>3 DEF Tick, TypeOK
  <2> QED
    BY <2>1, <2>2, <2>3, <1>21
<1>22. CASE Restart
  <2>1. RecoveredClaims \in [Claim -> ClaimRow]
    BY <1>a DEF RecoveredClaims, TypeOK, ClaimRow
  <2>2. RecoveredRuns \in [Binding -> RunRow]
    BY <1>a DEF RecoveredRuns, TypeOK, RunRow
  <2>3. /\ Disarmed(permit) \in [Permit -> Capability]
        /\ Disarmed(window) \in [Window -> Capability]
    BY <1>b, <1>c DEF Disarmed, Capability
  <2> QED
    BY <2>1, <2>2, <2>3, <1>22 DEF Restart, TypeOK, TaskState
<1>23. CASE UNCHANGED vars
  BY <1>23 DEF vars, TypeOK
<1> QED
  BY <1>1, <1>2, <1>3, <1>4, <1>5, <1>6, <1>7, <1>8, <1>9, <1>10, <1>11, <1>12,
     <1>13, <1>14, <1>15, <1>16, <1>18, <1>19, <1>20, <1>21, <1>22, <1>23, <1>a,
     Closings DEF Next, Browser, Handoff, Advance, Environment

-----------------------------------------------------------------------------
(* What a step can do to the claims.  Most actions leave them alone; the rest  *)
(* fall into a few classes, so that an invariant about claims is checked once  *)
(* per class.                                                                  *)

Spent == {"EXPIRED", "CONSUMED", "ABORTED"}

\* A spent row stays as it is, and either no row becomes armed or only one is.
LegalRows(S, old, new) ==
  /\ \A x \in S : old[x].status \in Spent => new[x] = old[x]
  /\ \/ \A x \in S : new[x].status = "ARMED" => old[x].status = "ARMED"
     \/ \E x \in S : \A y \in S : new[y].status = "ARMED" => y = x

RowsLegal == LegalRows(Permit, permit, permit') /\ LegalRows(Window, window, window')

\* Claims, runs and coroutines are left alone; a supervisor may exit.
Quiet ==
  /\ UNCHANGED <<claim, run, task, spawns>>
  /\ \A c \in Claim : supervisor'[c] = "alive" => supervisor[c] = "alive"

\* A claim is inserted on a pair that was unspent and is now spent.
Opens(p, w, c) ==
  /\ OpenClaim(p, w, c)
  /\ SealedBinding \in Binding
  /\ permit[p].status # "CONSUMED" /\ permit'[p].status = "CONSUMED"
  /\ window[w].status # "CONSUMED" /\ window'[w].status = "CONSUMED"
  /\ UNCHANGED <<run, supervisor, spawns>>

\* The run of a claim is recorded; PASSED needs an exited supervisor.
Records(c, result) ==
  /\ task[c] \in Suspended
  /\ Record(c, result)
  /\ result \in Settled
  /\ result = "PASSED" => supervisor'[c] = "exited"
  /\ \A d \in Claim : supervisor'[d] = "alive" => supervisor[d] = "alive"

\* Issuing is legal, and writes the status it says.
LEMMA IssuedRows ==
  ASSUME NEW S, NEW cap \in [S -> Capability], NEW x \in S, NEW s, NEW ttl,
         Issuable(cap, x)
  PROVE  LegalRows(S, cap, Issued(cap, x, s, ttl)) /\ Issued(cap, x, s, ttl)[x].status = s
<1>1. Swept(cap) = [y \in S |-> IF Overdue(cap, y)
                               THEN [cap[y] EXCEPT !.status = "EXPIRED"] ELSE cap[y]]
  BY DEF Swept
<1>2. cap[x].status = "NONE" /\ \A y \in S : Swept(cap)[y].status # "ARMED"
  BY <1>1 DEF Issuable, NoneArmed
<1>3. Issued(cap, x, s, ttl)[x].status = s
  BY <1>1 DEF Issued
<1>4. \A y \in S : y # x => Issued(cap, x, s, ttl)[y] = Swept(cap)[y]
  BY <1>1 DEF Issued
<1>5. \A y \in S : cap[y].status \in Spent => Swept(cap)[y] = cap[y]
  BY <1>1 DEF Overdue, Spent
<1> QED
  BY <1>2, <1>3, <1>4, <1>5 DEF LegalRows, Spent

\* So is marking a row that is not spent.
LEMMA MarkedRows ==
  ASSUME NEW S, NEW cap \in [S -> Capability], NEW x \in S, NEW s,
         cap[x].status \notin Spent, s # "ARMED"
  PROVE  LegalRows(S, cap, Marked(cap, x, s)) /\ Marked(cap, x, s)[x].status = s
BY DEF LegalRows, Marked, Spent, Capability

StepClass ==
  \/ Quiet
  \/ \E p \in Permit, w \in Window, c \in Claim : Opens(p, w, c)
  \/ \E c \in Claim :
       \/ Closes(c) \/ BeginClaim(c) \/ BeginRun(c)
       \/ ReserveSpawn(c) \/ CreateProcess(c) \/ MarkSpawned(c)
       \/ CloseClaim(c)
       \/ \E result \in Settled : Records(c, result)
  \/ Restart

\* Every step spends only what it may, and is of one of the classes.
LEMMA StepClasses ==
  ASSUME ConstantAssumption, TypeOK, [Next]_vars
  PROVE  RowsLegal /\ StepClass
<1> USE DEF env, process
<1>a. permit \in [Permit -> Capability] /\ window \in [Window -> Capability]
  BY DEF TypeOK
<1>b. /\ SealedBinding # None => SealedBinding \in Binding
      /\ "ERROR" \in Settled
      /\ "ARMED" \notin Spent
  BY DEF TypeOK, SealedBinding, Settled, Spent
<1>c. /\ UNCHANGED permit => LegalRows(Permit, permit, permit')
      /\ UNCHANGED window => LegalRows(Window, window, window')
  BY DEF LegalRows
<1>d. \A p \in Permit, s \in CapabilityStatus :
        /\ Issuable(permit, p) => /\ LegalRows(Permit, permit, Issued(permit, p, s, PermitTTL))
                                  /\ Issued(permit, p, s, PermitTTL)[p].status = s
        /\ permit[p].status = "ARMED" /\ s # "ARMED" =>
             /\ LegalRows(Permit, permit, Marked(permit, p, s))
             /\ Marked(permit, p, s)[p].status = s
  BY <1>a, <1>b, IssuedRows, MarkedRows
<1>e. \A w \in Window, s \in CapabilityStatus :
        /\ Issuable(window, w) => /\ LegalRows(Window, window, Issued(window, w, s, WindowTTL))
                                  /\ Issued(window, w, s, WindowTTL)[w].status = s
        /\ window[w].status = "ARMED" /\ s # "ARMED" =>
             /\ LegalRows(Window, window, Marked(window, w, s))
             /\ Marked(window, w, s)[w].status = s
  BY <1>a, <1>b, IssuedRows, MarkedRows
<1>f. {"ARMED", "EXPIRED", "CONSUMED", "ABORTED"} \subseteq CapabilityStatus
  BY DEF CapabilityStatus
<1>1. ASSUME NEW p \in Permit, IssuePermit(p) \/ RefuseArm(p) \/ AbortHandoff(p)
      PROVE  RowsLegal /\ StepClass
  <2>1. RowsLegal
    BY <1>1, <1>c, <1>d, <1>f DEF IssuePermit, RefuseArm, AbortHandoff, RowsLegal
  <2>2. Quiet
    BY <1>1 DEF IssuePermit, RefuseArm, AbortHandoff, Quiet
  <2> QED
    BY <2>1, <2>2 DEF StepClass
<1>2. ASSUME NEW p \in Permit, NEW w \in Window,
             \/ ArmWindow(p, w) \/ ConsumePair(p, w) \/ RefusePair(p, w)
             \/ RefuseClaim(p, w) \/ BlockHandoff(p, w)
      PROVE  RowsLegal /\ StepClass
  <2>1. Quiet
    BY <1>2 DEF ArmWindow, ConsumePair, RefusePair, RefuseClaim, BlockHandoff, Quiet
  <2>2. CASE ArmWindow(p, w) \/ BlockHandoff(p, w)
    BY <2>2, <2>1, <1>c, <1>d, <1>e, <1>f DEF ArmWindow, BlockHandoff, RowsLegal, StepClass
  <2>3. CASE ConsumePair(p, w) \/ RefusePair(p, w)
    BY <2>3, <2>1, <1>c, <1>d, <1>e, <1>f DEF ConsumePair, RefusePair, Usable, RowsLegal,
       StepClass
  <2>4. CASE RefuseClaim(p, w)
    BY <2>4, <2>1, <1>c, <1>d, <1>e, <1>f DEF RefuseClaim, RowsLegal, StepClass
  <2> QED
    BY <1>2, <2>2, <2>3, <2>4
<1>3. ASSUME NEW p \in Permit, NEW w \in Window, NEW c \in Claim,
             ClaimOneShot(p, w, c)
      PROVE  RowsLegal /\ StepClass
  <2>1. RowsLegal
    BY <1>3, <1>d, <1>e, <1>f DEF ClaimOneShot, Usable, RowsLegal
  <2>2. Opens(p, w, c)
    BY <1>3, <1>b, <1>d, <1>e, <1>f DEF ClaimOneShot, Usable, Opens
  <2> QED
    BY <2>1, <2>2 DEF StepClass
<1>4. ASSUME NEW p \in Permit, NEW w \in Window, NEW c \in Claim,
             CompleteHandoff(p, w, c)
      PROVE  RowsLegal /\ StepClass
  <2>1. RowsLegal
    BY <1>4, <1>d, <1>e, <1>f DEF CompleteHandoff, RowsLegal
  <2>2. permit[p].status = "NONE" /\ window[w].status = "NONE"
    BY <1>4 DEF CompleteHandoff, Issuable
  <2>3. Opens(p, w, c)
    BY <1>4, <2>2, <1>b, <1>d, <1>e, <1>f DEF CompleteHandoff, Opens
  <2> QED
    BY <2>1, <2>3 DEF StepClass
<1>5. CASE StartHandoff \/ FailHandoff \/ ChangeEnvironment \/ ProofAges \/ Tick
  BY <1>5, <1>c DEF StartHandoff, FailHandoff, ChangeEnvironment, ProofAges, Tick,
     RowsLegal, Quiet, StepClass
<1>6. ASSUME NEW c \in Claim, SupervisorExits(c) PROVE RowsLegal /\ StepClass
  BY <1>6, <1>c DEF SupervisorExits, RowsLegal, Quiet, StepClass, TypeOK
<1>7. ASSUME NEW c \in Claim,
             \/ Closes(c) \/ BeginClaim(c) \/ BeginRun(c)
             \/ ReserveSpawn(c) \/ CreateProcess(c) \/ MarkSpawned(c)
             \/ CloseClaim(c)
      PROVE  RowsLegal /\ StepClass
  <2>1. UNCHANGED <<permit, window>>
    BY <1>7 DEF Closes, BeginClaim, BeginRun, ReserveSpawn, CreateProcess,
       MarkSpawned, CloseClaim
  <2>2. RowsLegal
    BY <2>1, <1>c DEF RowsLegal
  <2> QED
    BY <2>2, <1>7 DEF StepClass
<1>8. ASSUME NEW c \in Claim, NEW result \in Settled,
             \/ FailBeforeSpawn(c, result) \/ FinishRun(c, result)
             \/ FailMark(c) \/ TerminateRun(c) \/ CancelRun(c)
      PROVE  RowsLegal /\ StepClass
  <2>1. RowsLegal
    BY <1>8, <1>c DEF FailBeforeSpawn, FinishRun, FailMark, TerminateRun, CancelRun, Record,
       RowsLegal
  <2>2. CASE FailBeforeSpawn(c, result) \/ FinishRun(c, result)
    <3>1. Records(c, result)
      BY <2>2 DEF FailBeforeSpawn, FinishRun, Records, Suspended, TypeOK
    <3> QED
      BY <2>1, <3>1 DEF StepClass
  <2>3. CASE FailMark(c) \/ TerminateRun(c) \/ CancelRun(c)
    <3>1. Records(c, "ERROR")
      BY <2>3 DEF FailMark, TerminateRun, CancelRun, Records, Suspended, TypeOK, Settled
    <3> QED
      BY <2>1, <3>1, <1>b DEF StepClass
  <2> QED
    BY <1>8, <2>2, <2>3
<1>9. CASE Restart
  <2>1. LegalRows(Permit, permit, Disarmed(permit)) /\ LegalRows(Window, window, Disarmed(window))
    BY <1>a DEF LegalRows, Disarmed, Spent, Capability
  <2> QED
    BY <2>1, <1>9 DEF Restart, RowsLegal, StepClass
<1>10. CASE UNCHANGED vars
  BY <1>10, <1>c DEF vars, RowsLegal, Quiet, StepClass
<1>11. CASE Browser
  BY <1>11, <1>1, <1>2, <1>3 DEF Browser
<1>12. CASE Handoff
  BY <1>12, <1>1, <1>2, <1>4, <1>5 DEF Handoff
<1>13. ASSUME NEW c \in Claim, Advance(c) PROVE RowsLegal /\ StepClass
  BY <1>13, <1>7, <1>8, <1>b, Closings DEF Advance
<1>14. CASE Environment
  BY <1>14, <1>5, <1>6, <1>9 DEF Environment
<1> QED
  BY <1>10, <1>11, <1>12, <1>13, <1>14 DEF Next

-----------------------------------------------------------------------------
(* The parts of the inductive invariant, one after the other. *)

\* The coroutine's position and the claim's status move together.
LEMMA StatusStep ==
  ASSUME TypeOK, IInv, StepClass
  PROVE  StatusMatchesTask'
<1> USE DEF IInv, StatusMatchesTask, TypeOK, Suspended, Holding, Settled
<1>1. CASE Quiet
  BY <1>1 DEF Quiet
<1>2. ASSUME NEW p \in Permit, NEW w \in Window, NEW c \in Claim, Opens(p, w, c)
      PROVE  StatusMatchesTask'
  BY <1>2 DEF Opens, OpenClaim
<1>3. ASSUME NEW c \in Claim, Closes(c) PROVE StatusMatchesTask'
  BY <1>3 DEF Closes, ClaimRow
<1>4. ASSUME NEW c \in Claim, BeginClaim(c) \/ BeginRun(c) PROVE StatusMatchesTask'
  BY <1>4 DEF BeginClaim, BeginRun, ClaimRow
<1>5. ASSUME NEW c \in Claim, ReserveSpawn(c) PROVE StatusMatchesTask'
  BY <1>5 DEF ReserveSpawn, ClaimRow
<1>6. ASSUME NEW c \in Claim, CreateProcess(c) PROVE StatusMatchesTask'
  BY <1>6 DEF CreateProcess
<1>7. ASSUME NEW c \in Claim, MarkSpawned(c) PROVE StatusMatchesTask'
  BY <1>7 DEF MarkSpawned, ClaimRow
<1>8. ASSUME NEW c \in Claim, CloseClaim(c) PROVE StatusMatchesTask'
  <2>1. claim[c].status = "RUNNING" /\ claim[c].binding \in Binding
    BY <1>8 DEF CloseClaim, ClaimsHoldSpentPairs
  <2> DEFINE row == run[claim[c].binding]
  <2>2. row.owner = c => row.status \in Settled
    <3>1. row.status \in RunStatus
      BY <2>1 DEF RunRow
    <3>2. row.owner = c => row.status # "NONE"
      BY <2>1, ConstantAssumption DEF ConstantAssumption, RowsMatchOwners
    <3>3. row.owner = c => row.status # "RUNNING"
      BY <1>8, <2>1 DEF CloseClaim, RowsMatchOwners
    <3> QED
      BY <3>1, <3>2, <3>3 DEF RunStatus
  <2>3. PICK s \in Settled : claim' = [claim EXCEPT ![c].status = s]
    BY <1>8, <2>2 DEF CloseClaim
  <2>4. task' = [task EXCEPT ![c] = "done"]
    BY <1>8 DEF CloseClaim
  <2> HIDE DEF row
  <2> QED
    BY <2>1, <2>3, <2>4 DEF ClaimRow
<1>9. ASSUME NEW c \in Claim, NEW result \in Settled, Records(c, result)
      PROVE  StatusMatchesTask'
  BY <1>9 DEF Records, Record
<1>10. CASE Restart
  BY <1>10 DEF Restart, RecoveredClaims, ClaimRow
<1> QED
  BY <1>1, <1>2, <1>3, <1>4, <1>5, <1>6, <1>7, <1>8, <1>9, <1>10 DEF StepClass

\* The durable counters stay around the truth.
LEMMA CountersStep ==
  ASSUME TypeOK, TypeOK', IInv, StepClass
  PROVE  CountersMatchTask'
<1> USE DEF IInv, CountersMatchTask, TypeOK
<1>1. CASE Quiet
  BY <1>1 DEF Quiet
<1>2. ASSUME NEW p \in Permit, NEW w \in Window, NEW c \in Claim, Opens(p, w, c)
      PROVE  CountersMatchTask'
  BY <1>2 DEF Opens, OpenClaim, StatusMatchesTask, ClaimRow
<1>3. ASSUME NEW c \in Claim, Closes(c) PROVE CountersMatchTask'
  BY <1>3 DEF Closes, process, ClaimRow
<1>4. ASSUME NEW c \in Claim, BeginClaim(c) \/ BeginRun(c) PROVE CountersMatchTask'
  BY <1>4 DEF BeginClaim, BeginRun, process, ClaimRow
<1>5. ASSUME NEW c \in Claim, ReserveSpawn(c) PROVE CountersMatchTask'
  BY <1>5 DEF ReserveSpawn, process, ClaimRow
<1>6. ASSUME NEW c \in Claim, CreateProcess(c) PROVE CountersMatchTask'
  BY <1>6 DEF CreateProcess, ClaimRow
<1>7. ASSUME NEW c \in Claim, MarkSpawned(c) PROVE CountersMatchTask'
  BY <1>7 DEF MarkSpawned, process, ClaimRow
<1>8. ASSUME NEW c \in Claim, CloseClaim(c) PROVE CountersMatchTask'
  BY <1>8 DEF CloseClaim, process, ClaimRow
<1>9. ASSUME NEW c \in Claim, NEW result \in Settled, Records(c, result)
      PROVE  CountersMatchTask'
  BY <1>9 DEF Records, Record
<1>10. CASE Restart
  BY <1>10 DEF Restart, RecoveredClaims, process, ClaimRow
<1> QED
  BY <1>1, <1>2, <1>3, <1>4, <1>5, <1>6, <1>7, <1>8, <1>9, <1>10 DEF StepClass

\* Claims keep the pair they were opened on, and a new one takes a fresh pair.
LEMMA PairsStep ==
  ASSUME TypeOK, IInv, RowsLegal, StepClass, StatusMatchesTask'
  PROVE  ClaimsHoldSpentPairs'
<1> USE DEF IInv
<1>b. /\ \A p \in Permit : permit[p].status = "CONSUMED" => permit'[p] = permit[p]
      /\ \A w \in Window : window[w].status = "CONSUMED" => window'[w] = window[w]
  BY DEF RowsLegal, LegalRows, Spent
<1>a. ASSUME \A c \in Claim :
               /\ claim'[c].status = "NONE" <=> claim[c].status = "NONE"
               /\ claim'[c].permit = claim[c].permit
               /\ claim'[c].window = claim[c].window
               /\ claim'[c].binding = claim[c].binding
      PROVE  ClaimsHoldSpentPairs'
  BY <1>a, <1>b DEF ClaimsHoldSpentPairs
<1>1. CASE Quiet
  BY <1>1, <1>a DEF Quiet
<1>2. ASSUME NEW p \in Permit, NEW w \in Window, NEW c \in Claim, Opens(p, w, c)
      PROVE  ClaimsHoldSpentPairs'
  BY <1>2, <1>b DEF Opens, OpenClaim, ClaimsHoldSpentPairs, TypeOK
<1>3. ASSUME NEW c \in Claim, Closes(c) \/ BeginClaim(c)
      PROVE  ClaimsHoldSpentPairs'
  <2>1. claim[c].status # "NONE"
    BY <1>3 DEF Closes, BeginClaim, StatusMatchesTask
  <2>2. \E s \in ClaimStatus \ {"NONE"} : claim' = [claim EXCEPT ![c].status = s]
    BY <1>3 DEF Closes, BeginClaim, ClaimStatus, Settled
  <2> QED
    BY <2>1, <2>2, <1>a DEF TypeOK, ClaimRow
<1>4. ASSUME NEW c \in Claim, ReserveSpawn(c) \/ MarkSpawned(c)
      PROVE  ClaimsHoldSpentPairs'
  BY <1>4, <1>a DEF ReserveSpawn, MarkSpawned, TypeOK, ClaimRow
<1>5. ASSUME NEW c \in Claim, CreateProcess(c) \/ BeginRun(c)
      PROVE  ClaimsHoldSpentPairs'
  BY <1>5, <1>a DEF CreateProcess, BeginRun
<1>6. ASSUME NEW c \in Claim, CloseClaim(c) PROVE ClaimsHoldSpentPairs'
  <2>1. claim[c].status # "NONE" /\ claim'[c].status # "NONE"
    BY <1>6 DEF CloseClaim, StatusMatchesTask, Settled, TypeOK
  <2>2. \E s : claim' = [claim EXCEPT ![c].status = s]
    BY <1>6 DEF CloseClaim
  <2> QED
    BY <2>1, <2>2, <1>a DEF TypeOK, ClaimRow
<1>7. ASSUME NEW c \in Claim, NEW result \in Settled, Records(c, result)
      PROVE  ClaimsHoldSpentPairs'
  BY <1>7, <1>a DEF Records, Record
<1>8. CASE Restart
  BY <1>8, <1>a DEF Restart, RecoveredClaims, TypeOK, ClaimRow
<1> QED
  BY <1>1, <1>2, <1>3, <1>4, <1>5, <1>6, <1>7, <1>8 DEF StepClass

\* A run row follows the claim that took it over last.
LEMMA RowsStep ==
  ASSUME TypeOK, IInv, StepClass
  PROVE  RowsMatchOwners'
<1> USE DEF IInv, RowsMatchOwners, TypeOK
<1>1. CASE Quiet
  BY <1>1 DEF Quiet
<1>2. ASSUME NEW p \in Permit, NEW w \in Window, NEW c \in Claim, Opens(p, w, c)
      PROVE  RowsMatchOwners'
  BY <1>2 DEF Opens, OpenClaim, StatusMatchesTask, Suspended
<1>3. ASSUME NEW c \in Claim, Closes(c) \/ BeginClaim(c) PROVE RowsMatchOwners'
  <2>1. PICK s \in Settled \cup {"RUNNING"} : claim' = [claim EXCEPT ![c].status = s]
    BY <1>3 DEF Closes, BeginClaim
  <2>2. task[c] \notin Suspended /\ task' = [task EXCEPT ![c] = task'[c]]
    BY <1>3 DEF Closes, BeginClaim, Suspended
  <2>3. task'[c] \in {"done", "begun"} /\ UNCHANGED <<run, supervisor>>
    BY <1>3 DEF Closes, BeginClaim, process
  <2> QED
    BY <1>3, <2>1, <2>2, <2>3 DEF Closes, BeginClaim, Settled, ClaimRow, Suspended
<1>4. ASSUME NEW c \in Claim, BeginRun(c) PROVE RowsMatchOwners'
  <2>1. claim[c].status # "NONE"
    BY <1>4 DEF BeginRun, StatusMatchesTask
  <2> QED
    BY <1>4, <2>1 DEF BeginRun, process, ClaimRow, Suspended
<1>5. ASSUME NEW c \in Claim, ReserveSpawn(c) PROVE RowsMatchOwners'
  BY <1>5 DEF ReserveSpawn, process, ClaimRow, Suspended
<1>6. ASSUME NEW c \in Claim, CreateProcess(c) PROVE RowsMatchOwners'
  BY <1>6 DEF CreateProcess, ClaimRow, Suspended
<1>7. ASSUME NEW c \in Claim, MarkSpawned(c) PROVE RowsMatchOwners'
  BY <1>7 DEF MarkSpawned, process, ClaimRow, Suspended
<1>8. ASSUME NEW c \in Claim, CloseClaim(c) PROVE RowsMatchOwners'
  BY <1>8 DEF CloseClaim, process, ClaimRow, Suspended, StatusMatchesTask,
     ClaimsHoldSpentPairs, Settled
<1>9. ASSUME NEW c \in Claim, NEW result \in Settled, Records(c, result)
      PROVE  RowsMatchOwners'
  <2> DEFINE b == claim[c].binding
  <2>1. /\ claim' = claim
        /\ task[c] \in Suspended
        /\ task' = [task EXCEPT ![c] = "recorded"]
        /\ result = "PASSED" => supervisor'[c] = "exited"
        /\ \A d \in Claim : supervisor'[d] = "alive" => supervisor[d] = "alive"
        /\ result \in Settled
    BY <1>9 DEF Records, Record
  <2>2. CASE run[b].status = "RUNNING" /\ run[b].owner = c
    <3>1. run' = [run EXCEPT ![b].status = result] /\ b \in Binding
      BY <2>2, <2>1, <1>9 DEF Records, Record, StatusMatchesTask, ClaimsHoldSpentPairs
    <3>2. \A a \in Binding : a # b => run'[a] = run[a] /\ run[a].owner # c
      BY <3>1, <2>1, ConstantAssumption DEF RunRow, ConstantAssumption
    <3>3. run'[b].status = result /\ run'[b].owner = c
      BY <3>1, <2>2 DEF RunRow
    <3>4. "NONE" \notin Settled /\ "RUNNING" \notin Settled
      BY DEF Settled
    <3> QED
      BY <3>2, <3>3, <3>4, <2>1, <2>2
  <2>3. CASE ~(run[b].status = "RUNNING" /\ run[b].owner = c)
    <3>1. run' = run
      BY <2>3, <1>9 DEF Records, Record
    <3>2. \A a \in Binding : run[a].status \in {"RUNNING", "PASSED"} => run[a].owner # c
      BY <2>1, <2>3 DEF Suspended
    <3> QED
      BY <3>1, <3>2, <2>1
  <2> QED
    BY <2>2, <2>3
<1>10. CASE Restart
  BY <1>10 DEF Restart, RecoveredClaims, RecoveredRuns, process, ClaimRow, RunRow, Suspended
<1> QED
  BY <1>1, <1>2, <1>3, <1>4, <1>5, <1>6, <1>7, <1>8, <1>9, <1>10 DEF StepClass

LEMMA IInvInit == ConstantAssumption /\ Init => IInv
<1> SUFFICES ASSUME ConstantAssumption, Init PROVE IInv
  OBVIOUS
<1>1. TypeOK
  BY TypeInit
<1>2. StatusMatchesTask
  BY DEF Init, StatusMatchesTask, Suspended
<1>3. CountersMatchTask
  BY DEF Init, CountersMatchTask
<1>4. ClaimsHoldSpentPairs
  BY DEF Init, ClaimsHoldSpentPairs
<1>5. RowsMatchOwners
  BY DEF Init, RowsMatchOwners
<1> QED
  BY <1>1, <1>2, <1>3, <1>4, <1>5 DEF IInv

LEMMA IInvStep == ConstantAssumption /\ IInv /\ [Next]_vars => IInv'
<1> SUFFICES ASSUME ConstantAssumption, IInv, [Next]_vars PROVE IInv'
  OBVIOUS
<1>1. TypeOK /\ StatusMatchesTask /\ ClaimsHoldSpentPairs
  BY DEF IInv
<1>2. TypeOK'
  BY <1>1, TypeStep
<1>3. RowsLegal /\ StepClass
  BY <1>1, StepClasses
<1> QED
  BY <1>1, <1>2, <1>3, StatusStep, CountersStep, PairsStep, RowsStep DEF IInv

\* The invariant that all the safety theorems rest on.
THEOREM InductiveInvariant == Spec => []IInv
BY ConstantAssumption, IInvInit, IInvStep, PTL DEF Spec

-----------------------------------------------------------------------------
(* Safety. *)

\* The model is well typed: rows, coroutines, processes and the lock only hold
\* what the code can store.
THEOREM TypeCorrect == Spec => []TypeOK
<1>1. IInv => TypeOK
  BY DEF IInv
<1> QED
  BY <1>1, InductiveInvariant, PTL

\* However many permits, windows and claims there are, a pair starts at most
\* one process.
THEOREM AtMostOneProcess == Spec => []OneProcessPerCapability
<1>1. IInv => OneProcessPerCapability
  <2> SUFFICES ASSUME IInv PROVE OneProcessPerCapability
    OBVIOUS
  <2>1. \A c \in Claim : spawns[c] <= 1
    BY DEF IInv, CountersMatchTask, TypeOK, ClaimRow
  <2>2. ASSUME NEW c \in Claim, spawns[c] > 0 PROVE claim[c].status # "NONE"
    BY <2>2 DEF IInv, CountersMatchTask, StatusMatchesTask, TypeOK, ClaimRow
  <2> QED
    BY <2>1, <2>2 DEF IInv, ClaimsHoldSpentPairs, OneProcessPerCapability
<1> QED
  BY <1>1, InductiveInvariant, PTL

\* The durable counters bracket the number of processes.
THEOREM CountersBracketSpawns == Spec => []SpawnAccounting
<1>1. IInv => SpawnAccounting
  BY DEF IInv, CountersMatchTask, SpawnAccounting
<1> QED
  BY <1>1, InductiveInvariant, PTL

\* A claim is open exactly while a coroutine works for it.
THEOREM OpenClaimsAreServed == Spec => []OpenClaimHasTask
<1>1. IInv => OpenClaimHasTask
  BY DEF IInv, StatusMatchesTask, OpenClaimHasTask, TypeOK, TaskState, Suspended,
     Holding, Settled
<1> QED
  BY <1>1, InductiveInvariant, PTL

\* A RUNNING row names the claim that executes.
THEOREM RunningRowsAreOwned == Spec => []RunningRowHasOwner
<1>1. IInv => RunningRowHasOwner
  BY DEF IInv, StatusMatchesTask, RowsMatchOwners, RunningRowHasOwner
<1> QED
  BY <1>1, InductiveInvariant, PTL

\* A claim is PASSED only while its identity's run is PASSED, and no process of
\* a PASSED claim is alive.
THEOREM PassedIsProven == Spec => []PassedClaimIsProven
<1>1. Init => PassedClaimIsProven
  BY DEF Init, PassedClaimIsProven
<1>2. ASSUME ConstantAssumption, IInv, PassedClaimIsProven, [Next]_vars
      PROVE  PassedClaimIsProven'
  <2> USE DEF PassedClaimIsProven
  <2>a. TypeOK /\ StatusMatchesTask /\ CountersMatchTask /\ ClaimsHoldSpentPairs
        /\ RowsMatchOwners
    BY <1>2 DEF IInv
  <2>b. StepClass
    BY <1>2, <2>a, StepClasses
  <2>1. CASE Quiet
    BY <1>2, <2>1 DEF Quiet
  <2>2. ASSUME NEW p \in Permit, NEW w \in Window, NEW c \in Claim, Opens(p, w, c)
        PROVE  PassedClaimIsProven'
    BY <1>2, <2>2, <2>a DEF Opens, OpenClaim, TypeOK
  <2>3. ASSUME NEW c \in Claim, Closes(c) PROVE PassedClaimIsProven'
    <3>1. supervisor[c] # "alive"
      BY <2>3, <2>a DEF Closes, CountersMatchTask, TypeOK, ClaimRow
    <3> QED
      BY <1>2, <2>3, <3>1, <2>a DEF Closes, process, TypeOK, ClaimRow
  <2>4. ASSUME NEW c \in Claim, BeginClaim(c) PROVE PassedClaimIsProven'
    BY <1>2, <2>4, <2>a DEF BeginClaim, process, TypeOK, ClaimRow
  <2>5. ASSUME NEW c \in Claim, BeginRun(c) PROVE PassedClaimIsProven'
    BY <1>2, <2>5, <2>a DEF BeginRun, process, TypeOK, ClaimRow
  <2>6. ASSUME NEW c \in Claim, ReserveSpawn(c) \/ MarkSpawned(c)
        PROVE  PassedClaimIsProven'
    <3>1. UNCHANGED <<run, supervisor>>
      BY <2>6 DEF ReserveSpawn, MarkSpawned, process
    <3>2. \A d \in Claim : /\ claim'[d].status = claim[d].status
                           /\ claim'[d].binding = claim[d].binding
      <4>1. CASE ReserveSpawn(c)
        BY <4>1, <2>a DEF ReserveSpawn, TypeOK, ClaimRow
      <4>2. CASE MarkSpawned(c)
        BY <4>2, <2>a DEF MarkSpawned, TypeOK, ClaimRow
      <4> QED
        BY <2>6, <4>1, <4>2
    <3> QED
      BY <1>2, <3>1, <3>2
  <2>7. ASSUME NEW c \in Claim, CreateProcess(c) PROVE PassedClaimIsProven'
    <3>1. claim[c].status = "RUNNING"
      BY <2>7, <2>a DEF CreateProcess, StatusMatchesTask, Suspended
    <3> QED
      BY <1>2, <2>7, <3>1, <2>a DEF CreateProcess, TypeOK
  <2>8. ASSUME NEW c \in Claim, CloseClaim(c) PROVE PassedClaimIsProven'
    <3>1. claim[c].binding \in Binding
      BY <2>8, <2>a, WorkingClaim DEF CloseClaim, Holding
    <3>2. /\ run[claim[c].binding].owner = c
          /\ run[claim[c].binding].status = "PASSED"
          => supervisor[c] # "alive"
      BY <3>1, <2>a DEF RowsMatchOwners
    <3> QED
      BY <1>2, <2>8, <3>2, <2>a DEF CloseClaim, process, TypeOK, ClaimRow
  <2>9. ASSUME NEW c \in Claim, NEW result \in Settled, Records(c, result)
        PROVE  PassedClaimIsProven'
    <3>1. \A b \in Binding \cup {None} : run[b].status = "PASSED" => run'[b] = run[b]
      BY <2>9, <2>a DEF Records, Record, TypeOK
    <3> QED
      BY <1>2, <2>9, <3>1, <2>a DEF Records, Record, TypeOK, ClaimRow
  <2>10. CASE Restart
    <3>1. \A c \in Claim : claim[c].status = "PASSED" => claim[c].binding \in Binding
      BY <2>a DEF ClaimsHoldSpentPairs
    <3> QED
      BY <1>2, <2>10, <3>1, <2>a DEF Restart, RecoveredClaims, RecoveredRuns, process,
         TypeOK, ClaimRow
  <2> QED
    BY <2>b, <2>1, <2>2, <2>3, <2>4, <2>5, <2>6, <2>7, <2>8, <2>9, <2>10 DEF StepClass
<1> QED
  BY <1>1, <1>2, ConstantAssumption, InductiveInvariant, PTL DEF Spec

\* Only one permit and one window can be unspent at a time.
THEOREM OneArmed == Spec => []SingleArmed
<1>1. Init => SingleArmed
  BY DEF Init, SingleArmed, Unissued
<1>2. ASSUME ConstantAssumption, TypeOK, SingleArmed, [Next]_vars PROVE SingleArmed'
  <2>1. RowsLegal
    BY <1>2, StepClasses
  <2> QED
    BY <1>2, <2>1 DEF RowsLegal, LegalRows, SingleArmed
<1> QED
  BY <1>1, <1>2, ConstantAssumption, TypeCorrect, PTL DEF Spec

\* No begin, finish or recovery rewrites a PASSED run.
THEOREM PassedRunsStay == Spec => PassedRunIsFinal
<1>1. ASSUME ConstantAssumption, TypeOK, [Next]_vars
      PROVE  \A b \in Binding : run[b].status = "PASSED" => run'[b] = run[b]
  <2>1. CASE Quiet \/ Restart
    BY <1>1, <2>1 DEF Quiet, Restart, RecoveredRuns, TypeOK
  <2>2. ASSUME NEW p \in Permit, NEW w \in Window, NEW c \in Claim, Opens(p, w, c)
        PROVE  UNCHANGED run
    BY <2>2 DEF Opens
  <2>3. ASSUME NEW c \in Claim,
               \/ Closes(c) \/ BeginClaim(c) \/ ReserveSpawn(c)
               \/ CreateProcess(c) \/ MarkSpawned(c) \/ CloseClaim(c)
        PROVE  UNCHANGED run
    BY <2>3 DEF Closes, BeginClaim, ReserveSpawn, CreateProcess, MarkSpawned, CloseClaim
  <2>4. ASSUME NEW c \in Claim, BeginRun(c)
        PROVE  \A b \in Binding : run[b].status = "PASSED" => run'[b] = run[b]
    BY <1>1, <2>4 DEF BeginRun, TypeOK
  <2>5. ASSUME NEW c \in Claim, NEW result \in Settled, Records(c, result)
        PROVE  \A b \in Binding : run[b].status = "PASSED" => run'[b] = run[b]
    BY <1>1, <2>5 DEF Records, Record, TypeOK
  <2> QED
    BY <1>1, <2>1, <2>2, <2>3, <2>4, <2>5, StepClasses DEF StepClass
<1> QED
  BY <1>1, ConstantAssumption, TypeCorrect, PTL DEF Spec, PassedRunIsFinal

\* Spent capabilities and closed claims are never written again.
THEOREM TerminalRowsStay == Spec => TerminalRowsAreFinal
<1> DEFINE Final ==
      /\ \A p \in Permit :
           permit[p].status \in {"EXPIRED", "CONSUMED", "ABORTED"} => permit'[p] = permit[p]
      /\ \A w \in Window :
           window[w].status \in {"EXPIRED", "CONSUMED"} => window'[w] = window[w]
      /\ \A c \in Claim : claim[c].status \in Settled => claim'[c] = claim[c]
<1>1. ASSUME ConstantAssumption, IInv, [Next]_vars PROVE Final
  <2>a. TypeOK /\ StatusMatchesTask
    BY <1>1 DEF IInv
  <2>b. RowsLegal /\ StepClass
    BY <1>1, <2>a, StepClasses
  <2>c. \A c \in Claim : task[c] \in Suspended \cup Holding => claim[c].status \notin Settled
    BY <2>a DEF StatusMatchesTask, Settled, Holding
  <2>1. /\ \A p \in Permit :
             permit[p].status \in {"EXPIRED", "CONSUMED", "ABORTED"} => permit'[p] = permit[p]
        /\ \A w \in Window :
             window[w].status \in {"EXPIRED", "CONSUMED"} => window'[w] = window[w]
    BY <2>b DEF RowsLegal, LegalRows, Spent
  <2>2. \A c \in Claim : claim[c].status \in Settled => claim'[c] = claim[c]
    <3>1. CASE Quiet
      BY <3>1 DEF Quiet
    <3>2. ASSUME NEW p \in Permit, NEW w \in Window, NEW c \in Claim, Opens(p, w, c)
          PROVE  \A d \in Claim : claim[d].status \in Settled => claim'[d] = claim[d]
      BY <3>2, <2>a DEF Opens, OpenClaim, TypeOK, Settled
    <3>3. ASSUME NEW c \in Claim,
                 \/ Closes(c) \/ BeginClaim(c) \/ ReserveSpawn(c)
                 \/ MarkSpawned(c) \/ CloseClaim(c)
          PROVE  \A d \in Claim : claim[d].status \in Settled => claim'[d] = claim[d]
      <4>1. task[c] \in Suspended \cup Holding
        BY <3>3 DEF Closes, BeginClaim, ReserveSpawn, MarkSpawned,
           CloseClaim, Suspended, Holding
      <4>2. \A d \in Claim : d # c => claim'[d] = claim[d]
        BY <3>3, <2>a DEF Closes, BeginClaim, ReserveSpawn, MarkSpawned,
           CloseClaim, TypeOK
      <4> QED
        BY <4>1, <4>2, <2>c
    <3>4. ASSUME NEW c \in Claim,
                 \/ BeginRun(c) \/ CreateProcess(c)
                 \/ \E result \in Settled : Records(c, result)
          PROVE  UNCHANGED claim
      BY <3>4 DEF BeginRun, CreateProcess, Records, Record
    <3>5. CASE Restart
      BY <3>5, <2>a DEF Restart, RecoveredClaims, TypeOK, Settled
    <3> QED
      BY <2>b, <3>1, <3>2, <3>3, <3>4, <3>5 DEF StepClass
  <2> QED
    BY <2>1, <2>2
<1> QED
  BY <1>1, ConstantAssumption, InductiveInvariant, PTL DEF Spec, TerminalRowsAreFinal

-----------------------------------------------------------------------------
(* The refinement of OneUseAuthority. *)

\* How a table of capabilities can change in one step.
TableStep(S, old, new) ==
  \/ new = old
  \/ \E x \in S, s \in {"ARMED", "CONSUMED", "ABORTED"}, ttl \in {PermitTTL, WindowTTL} :
       Issuable(old, x) /\ new = Issued(old, x, s, ttl)
  \/ \E x \in S, s \in {"EXPIRED", "CONSUMED"} :
       old[x].status = "ARMED" /\ new = Marked(old, x, s)
  \/ new = Disarmed(old)

\* The status of every row after row x is issued.
LEMMA IssuedStatuses ==
  ASSUME NEW S, NEW cap \in [S -> Capability], NEW x \in S, NEW s, NEW ttl,
         Issuable(cap, x)
  PROVE  /\ cap[x].status = "NONE"
         /\ Issued(cap, x, s, ttl)[x].status = s
         /\ \A y \in S : y # x => Issued(cap, x, s, ttl)[y].status =
              IF cap[y].status = "ARMED" THEN "EXPIRED" ELSE cap[y].status
<1>1. Swept(cap) = [y \in S |-> IF Overdue(cap, y)
                               THEN [cap[y] EXCEPT !.status = "EXPIRED"] ELSE cap[y]]
  BY DEF Swept
<1>2. cap[x].status = "NONE" /\ \A y \in S : Swept(cap)[y].status # "ARMED"
  BY <1>1 DEF Issuable, NoneArmed
<1>3. Issued(cap, x, s, ttl)[x].status = s
  BY <1>1 DEF Issued
<1>4. \A y \in S : y # x => Issued(cap, x, s, ttl)[y] = Swept(cap)[y]
  BY <1>1 DEF Issued
<1>5. \A y \in S : Swept(cap)[y].status =
        IF cap[y].status = "ARMED" THEN "EXPIRED" ELSE cap[y].status
  BY <1>1, <1>2 DEF Overdue, Capability
<1> QED
  BY <1>2, <1>3, <1>4, <1>5

\* The status of every row after x is marked, or all rows are disarmed.
LEMMA RowStatuses ==
  ASSUME NEW S, NEW cap \in [S -> Capability], NEW x \in S, NEW s
  PROVE  /\ \A y \in S : Marked(cap, x, s)[y].status = IF y = x THEN s ELSE cap[y].status
         /\ \A y \in S : Disarmed(cap)[y].status =
              IF cap[y].status = "ARMED" THEN "EXPIRED" ELSE cap[y].status
<1>1. \A y \in S : Marked(cap, x, s)[y].status = IF y = x THEN s ELSE cap[y].status
  BY DEF Marked, Capability
<1>2. \A y \in S : Disarmed(cap)[y].status =
        IF cap[y].status = "ARMED" THEN "EXPIRED" ELSE cap[y].status
  BY DEF Disarmed, Capability
<1> QED
  BY <1>1, <1>2

\* Every step changes each of the two tables in one of those ways.
LEMMA TableSteps ==
  ASSUME [Next]_vars
  PROVE  TableStep(Permit, permit, permit') /\ TableStep(Window, window, window')
<1> USE DEF TableStep
<1>1. CASE Browser
  BY <1>1 DEF Browser, IssuePermit, RefuseArm, ArmWindow, ConsumePair, RefusePair,
     RefuseClaim, ClaimOneShot, Usable
<1>2. CASE Handoff
  BY <1>2 DEF Handoff, StartHandoff, FailHandoff, AbortHandoff, BlockHandoff, CompleteHandoff
<1>3. ASSUME NEW c \in Claim, Advance(c) PROVE UNCHANGED <<permit, window>>
  BY <1>3 DEF Advance, RejectClaim, BeginClaim, CloseBegun, ReuseResult, RefuseRunner,
     BeginRun, ReserveSpawn, CreateProcess, MarkSpawned, FailBeforeSpawn, FinishRun, FailMark, TerminateRun, CancelRun, Record,
     CloseClaim
<1>4. CASE Environment
  BY <1>4 DEF Environment, SupervisorExits, ChangeEnvironment, ProofAges, Tick, Restart
<1>5. CASE UNCHANGED vars
  BY <1>5 DEF vars
<1> QED
  BY <1>1, <1>2, <1>3, <1>4, <1>5 DEF Next

-----------------------------------------------------------------------------
(* Permits. *)

\* The phase of a permit, read off its row and the claim that holds it.
LEMMA PermitPhases ==
  ASSUME ConstantAssumption, IInv, NEW p \in Permit
  PROVE  /\ permitPhase[p] = "unissued" <=> permit[p].status = "NONE"
         /\ permitPhase[p] = "held" <=> permit[p].status = "ARMED"
         /\ permit[p].status # "CONSUMED" => PermitClaims(p) = {}
         /\ \A c \in Claim : claim[c].permit = p =>
              permitPhase[p] = IF spawns[c] > 0 THEN "launched" ELSE "claimed"
<1> USE DEF IInv
<1>1. \A c \in Claim : claim[c].permit = p =>
        claim[c].status # "NONE" /\ permit[p].status = "CONSUMED"
  BY DEF ClaimsHoldSpentPairs, ConstantAssumption
<1>2. permit[p].status # "CONSUMED" => PermitClaims(p) = {}
  BY <1>1 DEF PermitClaims
<1>3. \A c \in Claim : claim[c].permit = p => PermitClaims(p) = {c}
  BY <1>1 DEF PermitClaims, ClaimsHoldSpentPairs
<1>4. permitPhase[p] = PhaseOf(permit[p].status, PermitClaims(p))
  BY DEF permitPhase
<1>5. \A c \in Claim : claim[c].permit = p =>
        permitPhase[p] = IF spawns[c] > 0 THEN "launched" ELSE "claimed"
  BY <1>1, <1>3, <1>4 DEF PhaseOf
<1>6. /\ permitPhase[p] = "unissued" <=> permit[p].status = "NONE"
      /\ permitPhase[p] = "held" <=> permit[p].status = "ARMED"
  BY <1>4 DEF PhaseOf
<1> QED
  BY <1>2, <1>5, <1>6

\* A step that keeps every claim's permit and starts no process issues a grant,
\* voids grants, or is a stuttering step of the authority.
LEMMA PermitTableStep ==
  ASSUME ConstantAssumption, IInv, TableStep(Permit, permit, permit'),
         UNCHANGED spawns, \A c \in Claim : claim'[c].permit = claim[c].permit
  PROVE  [PermitAuthority!Next]_permitPhase
<1>1. \A p \in Permit : PermitClaims(p)' = PermitClaims(p)
  BY DEF PermitClaims
<1>2. /\ DOMAIN permitPhase = Permit
      /\ permitPhase' = [p \in Permit |-> PhaseOf(permit'[p].status, PermitClaims(p))]
  BY <1>1 DEF permitPhase, PhaseOf
<1>3. \A p \in Permit :
        /\ permitPhase[p] = PhaseOf(permit[p].status, PermitClaims(p))
        /\ permitPhase[p] = "unissued" <=> permit[p].status = "NONE"
        /\ permitPhase[p] = "held" <=> permit[p].status = "ARMED"
        /\ permit[p].status # "CONSUMED" => PermitClaims(p) = {}
  BY PermitPhases DEF permitPhase
<1>4. permit \in [Permit -> Capability]
  BY DEF IInv, TypeOK
<1>5. CASE permit' = permit
  <2>1. permitPhase' = permitPhase
    BY <1>5, <1>2 DEF permitPhase
  <2> QED
    BY <2>1
<1>6. ASSUME NEW x \in Permit, NEW s \in {"ARMED", "CONSUMED", "ABORTED"},
             NEW ttl \in {PermitTTL, WindowTTL},
             Issuable(permit, x), permit' = Issued(permit, x, s, ttl)
      PROVE  PermitAuthority!Next
  <2> DEFINE to == IF s = "ARMED" THEN "held" ELSE "void"
  <2>1. /\ permit[x].status = "NONE"
        /\ permit'[x].status = s
        /\ \A y \in Permit : y # x => permit'[y].status =
             IF permit[y].status = "ARMED" THEN "EXPIRED" ELSE permit[y].status
    BY <1>4, <1>6, IssuedStatuses
  <2>2. permitPhase' = [y \in Permit |-> IF y = x THEN to
                        ELSE IF permitPhase[y] = "held" THEN "void" ELSE permitPhase[y]]
    BY <2>1, <1>2, <1>3 DEF PhaseOf
  <2>3. PermitAuthority!Issue(x, to)
    BY <2>1, <2>2, <1>3 DEF PermitAuthority!Issue
  <2> QED
    BY <2>3 DEF PermitAuthority!Next
<1>7. ASSUME NEW x \in Permit, NEW s \in {"EXPIRED", "CONSUMED"},
             permit[x].status = "ARMED", permit' = Marked(permit, x, s)
      PROVE  PermitAuthority!Next
  <2>1. \A y \in Permit : permit'[y].status = IF y = x THEN s ELSE permit[y].status
    BY <1>4, <1>7, RowStatuses
  <2>2. permitPhase' = [y \in Permit |-> IF y \in {x} THEN "void" ELSE permitPhase[y]]
    BY <2>1, <1>2, <1>3, <1>7 DEF PhaseOf
  <2>3. PermitAuthority!Void({x})
    BY <2>2, <1>3, <1>7 DEF PermitAuthority!Void
  <2> QED
    BY <2>3 DEF PermitAuthority!Next
<1>8. CASE permit' = Disarmed(permit)
  <2> DEFINE Held == {y \in Permit : permit[y].status = "ARMED"}
  <2>1. \A y \in Permit : permit'[y].status =
          IF permit[y].status = "ARMED" THEN "EXPIRED" ELSE permit[y].status
    BY <1>4, <1>8 DEF Disarmed, Capability
  <2>2. permitPhase' = [y \in Permit |-> IF y \in Held THEN "void" ELSE permitPhase[y]]
    BY <2>1, <1>2, <1>3 DEF PhaseOf
  <2>3. PermitAuthority!Void(Held)
    BY <2>2, <1>3 DEF PermitAuthority!Void
  <2> QED
    BY <2>3 DEF PermitAuthority!Next
<1> QED
  BY <1>5, <1>6, <1>7, <1>8 DEF TableStep

\* A claim takes a grant that is held, or one issued in the same step.
LEMMA PermitOpens ==
  ASSUME ConstantAssumption, IInv,
         NEW p \in Permit, NEW w \in Window, NEW c \in Claim, Opens(p, w, c),
         TableStep(Permit, permit, permit')
  PROVE  PermitAuthority!Next
<1>1. /\ claim[c].status = "NONE" /\ task[c] = "none" /\ spawns[c] = 0
      /\ claim' \in [Claim -> ClaimRow]
      /\ claim'[c].permit = p
      /\ \A d \in Claim : d # c => claim'[d] = claim[d]
      /\ spawns' = spawns
      /\ permit[p].status # "CONSUMED" /\ permit'[p].status = "CONSUMED"
  <2>1. claim' \in [Claim -> ClaimRow]
    BY OpenClaimTypes DEF IInv, Opens
  <2> QED
    BY <2>1 DEF IInv, TypeOK, ClaimRow, Opens, OpenClaim, StatusMatchesTask, CountersMatchTask
<1>2. PermitClaims(p)' = {c}
  BY <1>1, PermitPhases DEF PermitClaims
<1>3. \A q \in Permit : q # p => PermitClaims(q)' = PermitClaims(q)
  BY <1>1, ConstantAssumption DEF PermitClaims, IInv, ClaimsHoldSpentPairs, ConstantAssumption
<1>4. permitPhase' = [q \in Permit |-> IF q = p THEN "claimed"
                                      ELSE PhaseOf(permit'[q].status, PermitClaims(q))]
  BY <1>1, <1>2, <1>3 DEF permitPhase, PhaseOf
<1>5. \A q \in Permit :
        /\ permitPhase[q] = PhaseOf(permit[q].status, PermitClaims(q))
        /\ permitPhase[q] = "unissued" <=> permit[q].status = "NONE"
        /\ permitPhase[q] = "held" <=> permit[q].status = "ARMED"
        /\ permit[q].status # "CONSUMED" => PermitClaims(q) = {}
  BY PermitPhases DEF permitPhase
<1>6. permit \in [Permit -> Capability]
  BY DEF IInv, TypeOK
<1>7. CASE permit' = permit \/ permit' = Disarmed(permit)
  BY <1>1, <1>6, <1>7 DEF Disarmed, Capability
<1>8. ASSUME NEW x \in Permit, NEW s \in {"ARMED", "CONSUMED", "ABORTED"},
             NEW ttl \in {PermitTTL, WindowTTL},
             Issuable(permit, x), permit' = Issued(permit, x, s, ttl)
      PROVE  PermitAuthority!Next
  <2>1. /\ permit[x].status = "NONE"
        /\ permit'[x].status = s
        /\ \A y \in Permit : y # x => permit'[y].status =
             IF permit[y].status = "ARMED" THEN "EXPIRED" ELSE permit[y].status
    BY <1>6, <1>8, IssuedStatuses
  <2>2. x = p
    BY <2>1, <1>1
  <2>3. permitPhase' = [y \in Permit |-> IF y = p THEN "claimed"
                        ELSE IF permitPhase[y] = "held" THEN "void" ELSE permitPhase[y]]
    BY <2>1, <2>2, <1>4, <1>5 DEF PhaseOf
  <2>4. PermitAuthority!Issue(p, "claimed")
    BY <2>1, <2>2, <2>3, <1>5 DEF PermitAuthority!Issue
  <2> QED
    BY <2>4 DEF PermitAuthority!Next
<1>9. ASSUME NEW x \in Permit, NEW s \in {"EXPIRED", "CONSUMED"},
             permit[x].status = "ARMED", permit' = Marked(permit, x, s)
      PROVE  PermitAuthority!Next
  <2>1. \A y \in Permit : permit'[y].status = IF y = x THEN s ELSE permit[y].status
    BY <1>6, <1>9, RowStatuses
  <2>2. x = p
    BY <2>1, <1>1
  <2>3. permitPhase' = [permitPhase EXCEPT ![p] = "claimed"]
    BY <2>1, <2>2, <1>4, <1>5 DEF permitPhase
  <2>4. PermitAuthority!ClaimGrant(p)
    BY <2>2, <2>3, <1>5, <1>9 DEF PermitAuthority!ClaimGrant
  <2> QED
    BY <2>4 DEF PermitAuthority!Next
<1> QED
  BY <1>7, <1>8, <1>9 DEF TableStep

\* The process of a claim launches the claim's grant.
LEMMA PermitLaunch ==
  ASSUME ConstantAssumption, IInv, NEW c \in Claim, CreateProcess(c)
  PROVE  PermitAuthority!Next
<1> DEFINE p == claim[c].permit
<1>1. /\ p \in Permit /\ spawns[c] = 0 /\ spawns'[c] = 1
      /\ claim' = claim /\ permit' = permit
      /\ \A d \in Claim : d # c => spawns'[d] = spawns[d] /\ claim[d].permit # p
  BY ConstantAssumption DEF IInv, CreateProcess, StatusMatchesTask, CountersMatchTask,
     ClaimsHoldSpentPairs, TypeOK, Suspended, ConstantAssumption
<1>2. permitPhase[p] = "claimed" /\ PermitClaims(p) = {c}
  BY <1>1, PermitPhases DEF PermitClaims
<1>3. \A q \in Permit : PermitClaims(q)' = PermitClaims(q)
  BY <1>1 DEF PermitClaims
<1>4. permit[p].status = "CONSUMED"
  BY <1>1 DEF IInv, ClaimsHoldSpentPairs, ConstantAssumption, CreateProcess, StatusMatchesTask
<1>5. permitPhase'[p] = "launched"
  BY <1>1, <1>2, <1>3, <1>4 DEF permitPhase, PhaseOf
<1>6. \A q \in Permit : q # p => permitPhase'[q] = permitPhase[q]
  BY <1>1, <1>3 DEF permitPhase, PhaseOf, PermitClaims
<1>7. permitPhase' = [permitPhase EXCEPT ![p] = "launched"]
  BY <1>5, <1>6 DEF permitPhase
<1>8. PermitAuthority!Launch(p)
  BY <1>2, <1>7 DEF PermitAuthority!Launch
<1> QED
  BY <1>1, <1>8 DEF PermitAuthority!Next

\* Every step of the Canary is a step of the permit authority or a stutter.
LEMMA PermitStep ==
  ASSUME ConstantAssumption, IInv, [Next]_vars
  PROVE  [PermitAuthority!Next]_permitPhase
<1>1. TypeOK /\ claim \in [Claim -> ClaimRow]
  BY DEF IInv, TypeOK
<1>2. StepClass /\ TableStep(Permit, permit, permit')
  BY <1>1, StepClasses, TableSteps
<1>3. CASE Quiet
  BY <1>2, <1>3, PermitTableStep DEF Quiet
<1>4. ASSUME NEW p \in Permit, NEW w \in Window, NEW c \in Claim, Opens(p, w, c)
      PROVE  PermitAuthority!Next
  BY <1>2, <1>4, PermitOpens
<1>5. ASSUME NEW c \in Claim, Closes(c) \/ BeginClaim(c) \/ BeginRun(c)
      PROVE  [PermitAuthority!Next]_permitPhase
  BY <1>1, <1>2, <1>5, PermitTableStep DEF Closes, BeginClaim, BeginRun, process, ClaimRow
<1>6. ASSUME NEW c \in Claim, ReserveSpawn(c) \/ MarkSpawned(c) \/ CloseClaim(c)
      PROVE  [PermitAuthority!Next]_permitPhase
  BY <1>1, <1>2, <1>6, PermitTableStep DEF ReserveSpawn, MarkSpawned, CloseClaim, process, ClaimRow
<1>7. ASSUME NEW c \in Claim, CreateProcess(c) PROVE PermitAuthority!Next
  BY <1>7, PermitLaunch
<1>8. ASSUME NEW c \in Claim, NEW result \in Settled, Records(c, result)
      PROVE  [PermitAuthority!Next]_permitPhase
  BY <1>2, <1>8, PermitTableStep DEF Records, Record
<1>9. CASE Restart
  BY <1>1, <1>2, <1>9, PermitTableStep DEF Restart, RecoveredClaims, process, ClaimRow
<1> QED
  BY <1>2, <1>3, <1>4, <1>5, <1>6, <1>7, <1>8, <1>9 DEF StepClass

\* Permits are one-use authorities: what was refused, expired, aborted or
\* blocked starts nothing, and what was claimed starts one process.
THEOREM PermitRefinement == Spec => PermitIsOneUse
<1>1. ConstantAssumption /\ Init => PermitAuthority!Init
  <2> SUFFICES ASSUME ConstantAssumption, Init
               PROVE  permitPhase = [p \in Permit |-> "unissued"]
    BY DEF PermitAuthority!Init
  <2> QED
    BY DEF Init, Unissued, permitPhase, PhaseOf
<1>2. ConstantAssumption /\ IInv /\ [Next]_vars => [PermitAuthority!Next]_permitPhase
  BY PermitStep
<1> QED
  BY <1>1, <1>2, ConstantAssumption, InductiveInvariant, PTL
     DEF Spec, PermitIsOneUse, PermitAuthority!Spec

-----------------------------------------------------------------------------
(* Windows. *)

\* The phase of a window, read off its row and the claim that holds it.
LEMMA WindowPhases ==
  ASSUME ConstantAssumption, IInv, NEW w \in Window
  PROVE  /\ windowPhase[w] = "unissued" <=> window[w].status = "NONE"
         /\ windowPhase[w] = "held" <=> window[w].status = "ARMED"
         /\ window[w].status # "CONSUMED" => WindowClaims(w) = {}
         /\ \A c \in Claim : claim[c].window = w =>
              windowPhase[w] = IF spawns[c] > 0 THEN "launched" ELSE "claimed"
<1> USE DEF IInv
<1>1. \A c \in Claim : claim[c].window = w =>
        claim[c].status # "NONE" /\ window[w].status = "CONSUMED"
  BY DEF ClaimsHoldSpentPairs, ConstantAssumption
<1>2. window[w].status # "CONSUMED" => WindowClaims(w) = {}
  BY <1>1 DEF WindowClaims
<1>3. \A c \in Claim : claim[c].window = w => WindowClaims(w) = {c}
  BY <1>1 DEF WindowClaims, ClaimsHoldSpentPairs
<1>4. windowPhase[w] = PhaseOf(window[w].status, WindowClaims(w))
  BY DEF windowPhase
<1>5. \A c \in Claim : claim[c].window = w =>
        windowPhase[w] = IF spawns[c] > 0 THEN "launched" ELSE "claimed"
  BY <1>1, <1>3, <1>4 DEF PhaseOf
<1>6. /\ windowPhase[w] = "unissued" <=> window[w].status = "NONE"
      /\ windowPhase[w] = "held" <=> window[w].status = "ARMED"
  BY <1>4 DEF PhaseOf
<1> QED
  BY <1>2, <1>5, <1>6

\* A step that keeps every claim's window and starts no process issues a grant,
\* voids grants, or is a stuttering step of the authority.
LEMMA WindowTableStep ==
  ASSUME ConstantAssumption, IInv, TableStep(Window, window, window'),
         UNCHANGED spawns, \A c \in Claim : claim'[c].window = claim[c].window
  PROVE  [WindowAuthority!Next]_windowPhase
<1>1. \A w \in Window : WindowClaims(w)' = WindowClaims(w)
  BY DEF WindowClaims
<1>2. /\ DOMAIN windowPhase = Window
      /\ windowPhase' = [w \in Window |-> PhaseOf(window'[w].status, WindowClaims(w))]
  BY <1>1 DEF windowPhase, PhaseOf
<1>3. \A w \in Window :
        /\ windowPhase[w] = PhaseOf(window[w].status, WindowClaims(w))
        /\ windowPhase[w] = "unissued" <=> window[w].status = "NONE"
        /\ windowPhase[w] = "held" <=> window[w].status = "ARMED"
        /\ window[w].status # "CONSUMED" => WindowClaims(w) = {}
  BY WindowPhases DEF windowPhase
<1>4. window \in [Window -> Capability]
  BY DEF IInv, TypeOK
<1>5. CASE window' = window
  <2>1. windowPhase' = windowPhase
    BY <1>5, <1>2 DEF windowPhase
  <2> QED
    BY <2>1
<1>6. ASSUME NEW x \in Window, NEW s \in {"ARMED", "CONSUMED", "ABORTED"},
             NEW ttl \in {PermitTTL, WindowTTL},
             Issuable(window, x), window' = Issued(window, x, s, ttl)
      PROVE  WindowAuthority!Next
  <2> DEFINE to == IF s = "ARMED" THEN "held" ELSE "void"
  <2>1. /\ window[x].status = "NONE"
        /\ window'[x].status = s
        /\ \A y \in Window : y # x => window'[y].status =
             IF window[y].status = "ARMED" THEN "EXPIRED" ELSE window[y].status
    BY <1>4, <1>6, IssuedStatuses
  <2>2. windowPhase' = [y \in Window |-> IF y = x THEN to
                        ELSE IF windowPhase[y] = "held" THEN "void" ELSE windowPhase[y]]
    BY <2>1, <1>2, <1>3 DEF PhaseOf
  <2>3. WindowAuthority!Issue(x, to)
    BY <2>1, <2>2, <1>3 DEF WindowAuthority!Issue
  <2> QED
    BY <2>3 DEF WindowAuthority!Next
<1>7. ASSUME NEW x \in Window, NEW s \in {"EXPIRED", "CONSUMED"},
             window[x].status = "ARMED", window' = Marked(window, x, s)
      PROVE  WindowAuthority!Next
  <2>1. \A y \in Window : window'[y].status = IF y = x THEN s ELSE window[y].status
    BY <1>4, <1>7, RowStatuses
  <2>2. windowPhase' = [y \in Window |-> IF y \in {x} THEN "void" ELSE windowPhase[y]]
    BY <2>1, <1>2, <1>3, <1>7 DEF PhaseOf
  <2>3. WindowAuthority!Void({x})
    BY <2>2, <1>3, <1>7 DEF WindowAuthority!Void
  <2> QED
    BY <2>3 DEF WindowAuthority!Next
<1>8. CASE window' = Disarmed(window)
  <2> DEFINE Held == {y \in Window : window[y].status = "ARMED"}
  <2>1. \A y \in Window : window'[y].status =
          IF window[y].status = "ARMED" THEN "EXPIRED" ELSE window[y].status
    BY <1>4, <1>8 DEF Disarmed, Capability
  <2>2. windowPhase' = [y \in Window |-> IF y \in Held THEN "void" ELSE windowPhase[y]]
    BY <2>1, <1>2, <1>3 DEF PhaseOf
  <2>3. WindowAuthority!Void(Held)
    BY <2>2, <1>3 DEF WindowAuthority!Void
  <2> QED
    BY <2>3 DEF WindowAuthority!Next
<1> QED
  BY <1>5, <1>6, <1>7, <1>8 DEF TableStep

\* A claim takes a grant that is held, or one issued in the same step.
LEMMA WindowOpens ==
  ASSUME ConstantAssumption, IInv,
         NEW p \in Permit, NEW w \in Window, NEW c \in Claim, Opens(p, w, c),
         TableStep(Window, window, window')
  PROVE  WindowAuthority!Next
<1>1. /\ claim[c].status = "NONE" /\ task[c] = "none" /\ spawns[c] = 0
      /\ claim' \in [Claim -> ClaimRow]
      /\ claim'[c].window = w
      /\ \A d \in Claim : d # c => claim'[d] = claim[d]
      /\ spawns' = spawns
      /\ window[w].status # "CONSUMED" /\ window'[w].status = "CONSUMED"
  <2>1. claim' \in [Claim -> ClaimRow]
    BY OpenClaimTypes DEF IInv, Opens
  <2> QED
    BY <2>1 DEF IInv, TypeOK, ClaimRow, Opens, OpenClaim, StatusMatchesTask, CountersMatchTask
<1>2. WindowClaims(w)' = {c}
  BY <1>1, WindowPhases DEF WindowClaims
<1>3. \A q \in Window : q # w => WindowClaims(q)' = WindowClaims(q)
  BY <1>1, ConstantAssumption DEF WindowClaims, IInv, ClaimsHoldSpentPairs, ConstantAssumption
<1>4. windowPhase' = [q \in Window |-> IF q = w THEN "claimed"
                                      ELSE PhaseOf(window'[q].status, WindowClaims(q))]
  BY <1>1, <1>2, <1>3 DEF windowPhase, PhaseOf
<1>5. \A q \in Window :
        /\ windowPhase[q] = PhaseOf(window[q].status, WindowClaims(q))
        /\ windowPhase[q] = "unissued" <=> window[q].status = "NONE"
        /\ windowPhase[q] = "held" <=> window[q].status = "ARMED"
        /\ window[q].status # "CONSUMED" => WindowClaims(q) = {}
  BY WindowPhases DEF windowPhase
<1>6. window \in [Window -> Capability]
  BY DEF IInv, TypeOK
<1>7. CASE window' = window \/ window' = Disarmed(window)
  BY <1>1, <1>6, <1>7 DEF Disarmed, Capability
<1>8. ASSUME NEW x \in Window, NEW s \in {"ARMED", "CONSUMED", "ABORTED"},
             NEW ttl \in {PermitTTL, WindowTTL},
             Issuable(window, x), window' = Issued(window, x, s, ttl)
      PROVE  WindowAuthority!Next
  <2>1. /\ window[x].status = "NONE"
        /\ window'[x].status = s
        /\ \A y \in Window : y # x => window'[y].status =
             IF window[y].status = "ARMED" THEN "EXPIRED" ELSE window[y].status
    BY <1>6, <1>8, IssuedStatuses
  <2>2. x = w
    BY <2>1, <1>1
  <2>3. windowPhase' = [y \in Window |-> IF y = w THEN "claimed"
                        ELSE IF windowPhase[y] = "held" THEN "void" ELSE windowPhase[y]]
    BY <2>1, <2>2, <1>4, <1>5 DEF PhaseOf
  <2>4. WindowAuthority!Issue(w, "claimed")
    BY <2>1, <2>2, <2>3, <1>5 DEF WindowAuthority!Issue
  <2> QED
    BY <2>4 DEF WindowAuthority!Next
<1>9. ASSUME NEW x \in Window, NEW s \in {"EXPIRED", "CONSUMED"},
             window[x].status = "ARMED", window' = Marked(window, x, s)
      PROVE  WindowAuthority!Next
  <2>1. \A y \in Window : window'[y].status = IF y = x THEN s ELSE window[y].status
    BY <1>6, <1>9, RowStatuses
  <2>2. x = w
    BY <2>1, <1>1
  <2>3. windowPhase' = [windowPhase EXCEPT ![w] = "claimed"]
    BY <2>1, <2>2, <1>4, <1>5 DEF windowPhase
  <2>4. WindowAuthority!ClaimGrant(w)
    BY <2>2, <2>3, <1>5, <1>9 DEF WindowAuthority!ClaimGrant
  <2> QED
    BY <2>4 DEF WindowAuthority!Next
<1> QED
  BY <1>7, <1>8, <1>9 DEF TableStep

\* The process of a claim launches the claim's grant.
LEMMA WindowLaunch ==
  ASSUME ConstantAssumption, IInv, NEW c \in Claim, CreateProcess(c)
  PROVE  WindowAuthority!Next
<1> DEFINE w == claim[c].window
<1>1. /\ w \in Window /\ spawns[c] = 0 /\ spawns'[c] = 1
      /\ claim' = claim /\ window' = window
      /\ \A d \in Claim : d # c => spawns'[d] = spawns[d] /\ claim[d].window # w
  BY ConstantAssumption DEF IInv, CreateProcess, StatusMatchesTask, CountersMatchTask,
     ClaimsHoldSpentPairs, TypeOK, Suspended, ConstantAssumption
<1>2. windowPhase[w] = "claimed" /\ WindowClaims(w) = {c}
  BY <1>1, WindowPhases DEF WindowClaims
<1>3. \A q \in Window : WindowClaims(q)' = WindowClaims(q)
  BY <1>1 DEF WindowClaims
<1>4. window[w].status = "CONSUMED"
  BY <1>1 DEF IInv, ClaimsHoldSpentPairs, ConstantAssumption, CreateProcess, StatusMatchesTask
<1>5. windowPhase'[w] = "launched"
  BY <1>1, <1>2, <1>3, <1>4 DEF windowPhase, PhaseOf
<1>6. \A q \in Window : q # w => windowPhase'[q] = windowPhase[q]
  BY <1>1, <1>3 DEF windowPhase, PhaseOf, WindowClaims
<1>7. windowPhase' = [windowPhase EXCEPT ![w] = "launched"]
  BY <1>5, <1>6 DEF windowPhase
<1>8. WindowAuthority!Launch(w)
  BY <1>2, <1>7 DEF WindowAuthority!Launch
<1> QED
  BY <1>1, <1>8 DEF WindowAuthority!Next

\* Every step of the Canary is a step of the window authority or a stutter.
LEMMA WindowStep ==
  ASSUME ConstantAssumption, IInv, [Next]_vars
  PROVE  [WindowAuthority!Next]_windowPhase
<1>1. TypeOK /\ claim \in [Claim -> ClaimRow]
  BY DEF IInv, TypeOK
<1>2. StepClass /\ TableStep(Window, window, window')
  BY <1>1, StepClasses, TableSteps
<1>3. CASE Quiet
  BY <1>2, <1>3, WindowTableStep DEF Quiet
<1>4. ASSUME NEW p \in Permit, NEW w \in Window, NEW c \in Claim, Opens(p, w, c)
      PROVE  WindowAuthority!Next
  BY <1>2, <1>4, WindowOpens
<1>5. ASSUME NEW c \in Claim, Closes(c) \/ BeginClaim(c) \/ BeginRun(c)
      PROVE  [WindowAuthority!Next]_windowPhase
  BY <1>1, <1>2, <1>5, WindowTableStep DEF Closes, BeginClaim, BeginRun, process, ClaimRow
<1>6. ASSUME NEW c \in Claim, ReserveSpawn(c) \/ MarkSpawned(c) \/ CloseClaim(c)
      PROVE  [WindowAuthority!Next]_windowPhase
  BY <1>1, <1>2, <1>6, WindowTableStep DEF ReserveSpawn, MarkSpawned, CloseClaim, process, ClaimRow
<1>7. ASSUME NEW c \in Claim, CreateProcess(c) PROVE WindowAuthority!Next
  BY <1>7, WindowLaunch
<1>8. ASSUME NEW c \in Claim, NEW result \in Settled, Records(c, result)
      PROVE  [WindowAuthority!Next]_windowPhase
  BY <1>2, <1>8, WindowTableStep DEF Records, Record
<1>9. CASE Restart
  BY <1>1, <1>2, <1>9, WindowTableStep DEF Restart, RecoveredClaims, process, ClaimRow
<1> QED
  BY <1>2, <1>3, <1>4, <1>5, <1>6, <1>7, <1>8, <1>9 DEF StepClass

\* Canary windows are one-use authorities too: what was refused, expired, aborted or
\* blocked starts nothing, and what was claimed starts one process.
THEOREM WindowRefinement == Spec => WindowIsOneUse
<1>1. ConstantAssumption /\ Init => WindowAuthority!Init
  <2> SUFFICES ASSUME ConstantAssumption, Init
               PROVE  windowPhase = [w \in Window |-> "unissued"]
    BY DEF WindowAuthority!Init
  <2> QED
    BY DEF Init, Unissued, windowPhase, PhaseOf
<1>2. ConstantAssumption /\ IInv /\ [Next]_vars => [WindowAuthority!Next]_windowPhase
  BY WindowStep
<1> QED
  BY <1>1, <1>2, ConstantAssumption, InductiveInvariant, PTL
     DEF Spec, WindowIsOneUse, WindowAuthority!Spec
=============================================================================
