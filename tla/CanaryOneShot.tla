---------------------------- MODULE CanaryOneShot ----------------------------
(***************************************************************************)
(* The sealed one-shot Offline Canary: how an Execution Permit and a       *)
(* Canary window (two 120 s, one-use capabilities in SQLite) become one    *)
(* execution claim, and how the claim becomes at most one supervisor       *)
(* process.                                                                *)
(*                                                                         *)
(* The server is one asyncio event loop.  A handler runs without           *)
(* interruption from one real suspension point to the next, so an action   *)
(* is the code between two of them, except where the code commits two      *)
(* SQLite transactions in one stretch: there the stretch is split in two   *)
(* actions, with LoopFree keeping other handlers out, because a crash can  *)
(* fall between the commits.                                               *)
(***************************************************************************)
EXTENDS Naturals

CONSTANTS
  Permit, Window, Claim,  \* identifiers SQLite rows are created with
  Binding,                \* sealed identities: contract, runtime, isolation, repro
  None,                   \* the absent value
  PermitTTL, WindowTTL,   \* lifetimes of capabilities, in clock ticks
  MaxTime                 \* bound on the clock

ASSUME ConstantAssumption ==
  /\ PermitTTL \in Nat \ {0}
  /\ WindowTTL \in Nat \ {0}
  /\ MaxTime \in Nat
  /\ None \notin Permit \cup Window \cup Claim \cup Binding
  /\ {"idle", "probing"} \cap Claim = {}

VARIABLES
  permit,       \* codex_canary_execution_permits
  window,       \* codex_process_canary_windows
  claim,        \* codex_canary_execution_claims
  run,          \* codex_process_canary_runs, one row per sealed identity
  task,         \* where the request coroutine of a claim is
  supervisor,   \* the operating-system process started for a claim
  spawns,       \* history: processes ever created for a claim
  oneShotLock,  \* _one_shot_lock of the permit gate
  attested,     \* the identity the stored proofs attest (300 s left)
  sealed,       \* and it is the latest contract with 330 s left
  now,          \* the clock
  refused       \* history: capabilities refused with execution_binding_changed

vars == <<permit, window, claim, run, task, supervisor, spawns, oneShotLock,
          attested, sealed, now, refused>>

env == <<attested, sealed>>
process == <<supervisor, spawns>>

CapabilityStatus == {"NONE", "ARMED", "EXPIRED", "CONSUMED", "ABORTED"}
Capability == [status: CapabilityStatus, binding: Binding \cup {None},
               expires_at: Nat]
Unissued == [status |-> "NONE", binding |-> None, expires_at |-> 0]

Settled == {"PASSED", "POLICY_VIOLATION", "ERROR"}
ClaimStatus == {"NONE", "CLAIMED", "RUNNING"} \cup Settled
RunStatus == {"NONE", "RUNNING"} \cup Settled

ClaimRow == [status: ClaimStatus, permit: Permit \cup {None},
             window: Window \cup {None}, binding: Binding \cup {None},
             spawn_attempted: {0, 1}, spawn_count: {0, 1}]
RunRow == [status: RunStatus, owner: Claim \cup {None}]

\* Suspended at an await; holding the loop between two commits; over.
Suspended == {"executor", "spawning", "created", "collecting"}
Holding == {"claimed", "begun", "recorded"}
TaskState == {"none", "done", "lost"} \cup Suspended \cup Holding

-----------------------------------------------------------------------------
(* What the handlers read and write. *)

\* SealedOfflineCodexProcessCanary._binding
SealedBinding == IF sealed THEN attested ELSE None

\* _codex_canary_claim_binding_is_current
IsCurrent(b) == attested = b

\* No coroutine is between two commits of one uninterrupted stretch.
LoopFree == \A c \in Claim : task[c] \notin Holding

Overdue(cap, x) == cap[x].status = "ARMED" /\ cap[x].expires_at <= now

\* Mutant: the lookup by nonce forgets the status of the row.
UsableAnyStatus(cap, x) == now < cap[x].expires_at

Usable(cap, x) == cap[x].status = "ARMED" /\ now < cap[x].expires_at

\* The UPDATE every issue starts with: overdue rows become EXPIRED.
Swept(cap) ==
  [x \in DOMAIN cap |->
     IF Overdue(cap, x) THEN [cap[x] EXCEPT !.status = "EXPIRED"] ELSE cap[x]]

NoneArmed(cap) == \A x \in DOMAIN cap : cap[x].status # "ARMED"

Issuable(cap, x) == cap[x].status = "NONE" /\ NoneArmed(Swept(cap))

\* Row x inserted with a given status and lifetime, after the sweep.
Issued(cap, x, s, ttl) ==
  [Swept(cap) EXCEPT ![x] = [status |-> s, binding |-> SealedBinding,
                             expires_at |-> now + ttl]]

Marked(cap, x, s) == [cap EXCEPT ![x].status = s]

\* Every recover_armed_* of the lifespan hook.
Disarmed(cap) ==
  [x \in DOMAIN cap |->
     IF cap[x].status = "ARMED" THEN [cap[x] EXCEPT !.status = "EXPIRED"]
     ELSE cap[x]]

Init ==
  /\ permit = [p \in Permit |-> Unissued]
  /\ window = [w \in Window |-> Unissued]
  /\ claim = [c \in Claim |->
                [status |-> "NONE", permit |-> None, window |-> None, binding |-> None,
                 spawn_attempted |-> 0, spawn_count |-> 0]]
  /\ run = [b \in Binding |-> [status |-> "NONE", owner |-> None]]
  /\ task = [c \in Claim |-> "none"]
  /\ supervisor = [c \in Claim |-> "none"]
  /\ spawns = [c \in Claim |-> 0]
  /\ oneShotLock = "idle"
  /\ attested = None
  /\ sealed = FALSE
  /\ now = 0
  /\ refused = [permits |-> {}, windows |-> {}]

-----------------------------------------------------------------------------
(* Permit and window, handled from the browser. *)

\* POST .../permit
IssuePermit(p) ==
  /\ LoopFree
  /\ SealedBinding # None
  /\ Issuable(permit, p)
  /\ permit' = Issued(permit, p, "ARMED", PermitTTL)
  /\ UNCHANGED <<window, claim, run, task, process, oneShotLock, env, now, refused>>

\* POST .../arm: the permit is validated, not consumed, and opens one window.
ArmWindow(p, w) ==
  /\ LoopFree
  /\ SealedBinding # None
  /\ Usable(permit, p)
  /\ permit[p].binding = SealedBinding
  /\ Issuable(window, w)
  /\ window' = Issued(window, w, "ARMED", WindowTTL)
  /\ UNCHANGED <<permit, claim, run, task, process, oneShotLock, env, now, refused>>

\* POST .../arm under another identity: the UPDATE to CONSUMED is followed by
\* a raise inside the connection's context manager, which rolls it back.
RefuseArm(p) ==
  /\ LoopFree
  /\ SealedBinding # None
  /\ Usable(permit, p)
  /\ permit[p].binding # SealedBinding
  /\ refused' = [refused EXCEPT !.permits = @ \cup {p}]
  /\ UNCHANGED <<permit, window, claim, run, task, process, oneShotLock, env, now>>

\* The disabled ordinary endpoint, and the one-shot endpoint when the identity
\* can no longer be sealed: the pair is consumed and the request blocked.
ConsumePair(p, w) ==
  /\ LoopFree
  /\ Usable(permit, p)
  /\ Usable(window, w)
  /\ permit[p].binding = window[w].binding
  /\ permit' = Marked(permit, p, "CONSUMED")
  /\ window' = Marked(window, w, "CONSUMED")
  /\ UNCHANGED <<claim, run, task, process, oneShotLock, env, now, refused>>

\* The same transaction for a pair armed under different identities: both
\* UPDATEs are rolled back by the raise.
RefusePair(p, w) ==
  /\ LoopFree
  /\ Usable(permit, p)
  /\ Usable(window, w)
  /\ permit[p].binding # window[w].binding
  /\ refused' = [permits |-> refused.permits \cup {p},
                 windows |-> refused.windows \cup {w}]
  /\ UNCHANGED <<permit, window, claim, run, task, process, oneShotLock, env, now>>

-----------------------------------------------------------------------------
(* The claim. *)

\* The INSERT of a CLAIMED row, and the coroutine that continues with it.
OpenClaim(p, w, c) ==
  /\ claim[c].status = "NONE"
  /\ claim' = [claim EXCEPT ![c] =
                 [status |-> "CLAIMED", permit |-> p, window |-> w,
                  binding |-> SealedBinding, spawn_attempted |-> 0,
                  spawn_count |-> 0]]
  /\ task' = [task EXCEPT ![c] = "claimed"]

\* What claim_codex_canary_one_shot_execution compares inside its transaction.
ClaimMatches(p, w) ==
  /\ permit[p].binding = SealedBinding
  /\ window[w].binding = SealedBinding
  /\ IsCurrent(SealedBinding)

\* Mutant: the other way round.
ClaimKeepsPermit(p, w, c) ==
  /\ LoopFree
  /\ SealedBinding # None
  /\ Usable(permit, p)
  /\ Usable(window, w)
  /\ ClaimMatches(p, w)
  /\ window' = Marked(window, w, "CONSUMED")
  /\ OpenClaim(p, w, c)
  /\ UNCHANGED <<permit, run, process, oneShotLock, env, now, refused>>

\* claim_codex_canary_one_shot_execution, success.
ClaimOneShot(p, w, c) ==
  /\ LoopFree
  /\ SealedBinding # None
  /\ Usable(permit, p)
  /\ Usable(window, w)
  /\ ClaimMatches(p, w)
  /\ permit' = Marked(permit, p, "CONSUMED")
  /\ window' = Marked(window, w, "CONSUMED")
  /\ OpenClaim(p, w, c)
  /\ UNCHANGED <<run, process, oneShotLock, env, now, refused>>

\* The refusals of the claim transaction commit before they raise.
RefuseClaim(p, w) ==
  /\ LoopFree
  /\ SealedBinding # None
  /\ permit[p].status = "ARMED"
  /\ window[w].status = "ARMED"
  /\ \/ /\ Overdue(permit, p)
        /\ permit' = Marked(permit, p, "EXPIRED")
        /\ UNCHANGED <<window, refused>>
     \/ /\ ~Overdue(permit, p)
        /\ Overdue(window, w)
        /\ window' = Marked(window, w, "EXPIRED")
        /\ UNCHANGED <<permit, refused>>
     \/ /\ Usable(permit, p)
        /\ Usable(window, w)
        /\ ~ClaimMatches(p, w)
        /\ permit' = Marked(permit, p, "CONSUMED")
        /\ window' = Marked(window, w, "CONSUMED")
        /\ refused' = [permits |-> refused.permits \cup {p},
                       windows |-> refused.windows \cup {w}]
  /\ UNCHANGED <<claim, run, task, process, oneShotLock, env, now>>

-----------------------------------------------------------------------------
(* execute_one_shot: the whole handoff in one request. *)

\* The single-flight lock is taken, then isolation is refreshed (an await).
StartHandoff ==
  /\ LoopFree
  /\ oneShotLock = "idle"
  /\ oneShotLock' = "probing"
  /\ UNCHANGED <<permit, window, claim, run, task, process, env, now, refused>>

\* The refresh fails, the identity is not sealed, or a permit is already armed.
FailHandoff ==
  /\ LoopFree
  /\ oneShotLock = "probing"
  /\ oneShotLock' = "idle"
  /\ UNCHANGED <<permit, window, claim, run, task, process, env, now, refused>>

\* The arm is refused, by a window left armed by someone else or by a proof that
\* has just aged below its limit: the permit is ABORTED.
AbortHandoff(p) ==
  /\ LoopFree
  /\ oneShotLock = "probing"
  /\ SealedBinding # None
  /\ Issuable(permit, p)
  /\ permit' = Issued(permit, p, "ABORTED", PermitTTL)
  /\ oneShotLock' = "idle"
  /\ UNCHANGED <<window, claim, run, task, process, env, now, refused>>

\* Issue, arm and claim, with no suspension between them.
CompleteHandoff(p, w, c) ==
  /\ LoopFree
  /\ oneShotLock = "probing"
  /\ SealedBinding # None
  /\ Issuable(permit, p)
  /\ Issuable(window, w)
  /\ permit' = Issued(permit, p, "CONSUMED", PermitTTL)
  /\ window' = Issued(window, w, "CONSUMED", WindowTTL)
  /\ OpenClaim(p, w, c)
  /\ oneShotLock' = c
  /\ UNCHANGED <<run, process, env, now, refused>>

\* The proof ages after the arm: the pair is spent and nothing is claimed.
BlockHandoff(p, w) ==
  /\ LoopFree
  /\ oneShotLock = "probing"
  /\ SealedBinding # None
  /\ Issuable(permit, p)
  /\ Issuable(window, w)
  /\ permit' = Issued(permit, p, "CONSUMED", PermitTTL)
  /\ window' = Issued(window, w, "CONSUMED", WindowTTL)
  /\ oneShotLock' = "idle"
  /\ UNCHANGED <<claim, run, task, process, env, now, refused>>

\* Mutant: no finally block.
KeepLock(c) == oneShotLock' = oneShotLock

\* The finally block of the request that claim c belongs to.
ReleaseLock(c) == oneShotLock' = IF oneShotLock = c THEN "idle" ELSE oneShotLock

-----------------------------------------------------------------------------
(* run_one_shot_execution_claim and the executor. *)

\* Mutant: the recheck raises without closing the claim.
AbandonClaim(c) ==
  /\ task[c] = "claimed"
  /\ SealedBinding # claim[c].binding
  /\ task' = [task EXCEPT ![c] = "done"]
  /\ ReleaseLock(c)
  /\ UNCHANGED <<permit, window, claim, run, process, env, now, refused>>

\* The identity moved between the claim's commit and its recheck.
RejectClaim(c) ==
  /\ task[c] = "claimed"
  /\ SealedBinding # claim[c].binding
  /\ claim' = [claim EXCEPT ![c].status = "ERROR"]
  /\ task' = [task EXCEPT ![c] = "done"]
  /\ ReleaseLock(c)
  /\ UNCHANGED <<permit, window, run, process, env, now, refused>>

\* begin_codex_canary_execution_claim: a commit of its own before the run row is
\* looked at.
BeginClaim(c) ==
  /\ task[c] = "claimed"
  /\ SealedBinding = claim[c].binding
  /\ claim' = [claim EXCEPT ![c].status = "RUNNING"]
  /\ task' = [task EXCEPT ![c] = "begun"]
  /\ UNCHANGED <<permit, window, run, process, oneShotLock, env, now, refused>>

\* The claim c that has just begun is closed without a run of its own.
CloseBegun(c, status) ==
  /\ claim' = [claim EXCEPT ![c].status = status]
  /\ task' = [task EXCEPT ![c] = "done"]
  /\ ReleaseLock(c)
  /\ UNCHANGED <<permit, window, run, process, env, now, refused>>

\* An earlier PASSED run of the same identity answers the claim.
ReuseResult(c) ==
  /\ task[c] = "begun"
  /\ run[claim[c].binding].status = "PASSED"
  /\ CloseBegun(c, "PASSED")

\* The runner cannot be built, is not the claimed one or has no executor.
RefuseRunner(c, result) ==
  /\ task[c] = "begun"
  /\ run[claim[c].binding].status # "PASSED"
  /\ result # "PASSED"
  /\ CloseBegun(c, result)

\* Mutant: the upsert of the run row without its check for PASSED.
BeginOverPassed(c) ==
  /\ task[c] = "begun"
  /\ run' = [run EXCEPT ![claim[c].binding] = [status |-> "RUNNING", owner |-> c]]
  /\ task' = [task EXCEPT ![c] = "executor"]
  /\ UNCHANGED <<permit, window, claim, process, oneShotLock, env, now, refused>>

\* _run_once up to its await: begin_codex_process_canary takes the run row of the
\* identity over, whoever held it.
BeginRun(c) ==
  /\ task[c] = "begun"
  /\ run[claim[c].binding].status # "PASSED"
  /\ run' = [run EXCEPT ![claim[c].binding] = [status |-> "RUNNING", owner |-> c]]
  /\ task' = [task EXCEPT ![c] = "executor"]
  /\ UNCHANGED <<permit, window, claim, process, oneShotLock, env, now, refused>>

\* _running_codex_canary_claim_for_executor
Runnable(c) ==
  /\ claim[c].status = "RUNNING"
  /\ claim[c].spawn_count = 0
  /\ IsCurrent(claim[c].binding)

\* Mutant: the reservation already counts the process.
ReserveAndCount(c) ==
  /\ LoopFree
  /\ task[c] = "executor"
  /\ Runnable(c)
  /\ claim[c].spawn_attempted = 0
  /\ claim' = [claim EXCEPT ![c].spawn_attempted = 1, ![c].spawn_count = 1]
  /\ task' = [task EXCEPT ![c] = "spawning"]
  /\ UNCHANGED <<permit, window, run, process, oneShotLock, env, now, refused>>

\* The executor is built, revalidates the claim and reserves its only spawn.
ReserveSpawn(c) ==
  /\ LoopFree
  /\ task[c] = "executor"
  /\ Runnable(c)
  /\ claim[c].spawn_attempted = 0
  /\ claim' = [claim EXCEPT ![c].spawn_attempted = 1]
  /\ task' = [task EXCEPT ![c] = "spawning"]
  /\ UNCHANGED <<permit, window, run, process, oneShotLock, env, now, refused>>

\* The operating system creates the process the coroutine is waiting for.
CreateProcess(c) ==
  /\ task[c] = "spawning"
  /\ task' = [task EXCEPT ![c] = "created"]
  /\ supervisor' = [supervisor EXCEPT ![c] = "alive"]
  /\ spawns' = [spawns EXCEPT ![c] = @ + 1]
  /\ UNCHANGED <<permit, window, claim, run, oneShotLock, env, now, refused>>

\* on_started: mark_codex_canary_supervisor_spawned accepts the spawn.
MarkSpawned(c) ==
  /\ LoopFree
  /\ task[c] = "created"
  /\ Runnable(c)
  /\ claim[c].spawn_attempted = 1
  /\ claim' = [claim EXCEPT ![c].spawn_count = 1]
  /\ task' = [task EXCEPT ![c] = "collecting"]
  /\ UNCHANGED <<permit, window, run, process, oneShotLock, env, now, refused>>

SupervisorExits(c) ==
  /\ supervisor[c] = "alive"
  /\ supervisor' = [supervisor EXCEPT ![c] = "exited"]
  /\ UNCHANGED <<permit, window, claim, run, task, spawns, oneShotLock, env, now, refused>>

\* Mutant: whoever finishes writes the row.
RecordAnyway(c, result) ==
  /\ run' = [run EXCEPT ![claim[c].binding].status = result]
  /\ task' = [task EXCEPT ![c] = "recorded"]
  /\ UNCHANGED <<permit, window, claim, spawns, oneShotLock, env, now, refused>>

\* finish_codex_process_canary: only the row's owner can close it.
Record(c, result) ==
  /\ run' = LET b == claim[c].binding
            IN  IF run[b].status = "RUNNING" /\ run[b].owner = c
                THEN [run EXCEPT ![b].status = result] ELSE run
  /\ task' = [task EXCEPT ![c] = "recorded"]
  /\ UNCHANGED <<permit, window, claim, spawns, oneShotLock, env, now, refused>>

\* The executor or the spawn call raises before a process exists.
FailBeforeSpawn(c, result) ==
  /\ LoopFree
  /\ task[c] \in {"executor", "spawning"}
  /\ result # "PASSED"
  /\ Record(c, result)
  /\ UNCHANGED supervisor

\* on_started raises: nothing stops the process that was just created.
FailMark(c) ==
  /\ LoopFree
  /\ task[c] = "created"
  /\ ~(Runnable(c) /\ claim[c].spawn_attempted = 1)
  /\ Record(c, "ERROR")
  /\ UNCHANGED supervisor

\* The supervisor ended and its frame is judged.
FinishRun(c, result) ==
  /\ LoopFree
  /\ task[c] = "collecting"
  /\ supervisor[c] = "exited"
  /\ Record(c, result)
  /\ UNCHANGED supervisor

\* A failed payload write, too much output, or the inner timeout: the process
\* tree is terminated first.
TerminateRun(c) ==
  /\ LoopFree
  /\ task[c] = "collecting"
  /\ Record(c, "ERROR")
  /\ supervisor' = [supervisor EXCEPT ![c] = "exited"]

\* asyncio.wait_for cancels the coroutine: a process still being created is
\* closed by asyncio, one being read from is left as it is.
CancelRun(c) ==
  /\ LoopFree
  /\ task[c] \in {"spawning", "created", "collecting"}
  /\ Record(c, "ERROR")
  /\ supervisor' = IF task[c] = "created"
                   THEN [supervisor EXCEPT ![c] = "exited"] ELSE supervisor

\* finish_codex_canary_execution_claim with the recorded result, or with
\* canary_error when the run row had been taken over.
CloseClaim(c) ==
  /\ task[c] = "recorded"
  /\ claim' = LET row == run[claim[c].binding]
              IN  [claim EXCEPT ![c].status =
                     IF row.owner = c THEN row.status ELSE "ERROR"]
  /\ task' = [task EXCEPT ![c] = "done"]
  /\ ReleaseLock(c)
  /\ UNCHANGED <<permit, window, run, process, env, now, refused>>

-----------------------------------------------------------------------------
(* The world around the gate. *)

\* Other handlers refresh or invalidate the stored proofs.
ChangeEnvironment ==
  /\ LoopFree
  /\ attested' \in Binding \cup {None}
  /\ sealed' \in BOOLEAN
  /\ sealed' => attested' # None
  /\ UNCHANGED <<permit, window, claim, run, task, process, oneShotLock, now, refused>>

\* The isolation result nears its expiry: 330 s, then 300 s.
ProofAges ==
  /\ attested # None
  /\ sealed' = FALSE
  /\ attested' = IF sealed THEN attested ELSE None
  /\ UNCHANGED <<permit, window, claim, run, task, process, oneShotLock, now, refused>>

Tick ==
  /\ now < MaxTime
  /\ now' = now + 1
  /\ UNCHANGED <<permit, window, claim, run, task, process, oneShotLock, env, refused>>

\* Mutant: recovery forgets the claims.
ClaimsAsLeft == claim

\* recover_interrupted_codex_canary_execution_claims
RecoveredClaims ==
  [c \in Claim |-> IF claim[c].status \in {"CLAIMED", "RUNNING"}
                   THEN [claim[c] EXCEPT !.status = "ERROR"] ELSE claim[c]]

\* recover_interrupted_codex_process_canaries
RecoveredRuns ==
  [b \in Binding |-> IF run[b].status = "RUNNING"
                     THEN [run[b] EXCEPT !.status = "ERROR"] ELSE run[b]]

\* The server dies and the lifespan hook recovers; a supervisor may live on.
Restart ==
  /\ permit' = Disarmed(permit)
  /\ window' = Disarmed(window)
  /\ claim' = RecoveredClaims
  /\ run' = RecoveredRuns
  /\ task' = [c \in Claim |-> IF task[c] \in Suspended \cup Holding
                              THEN "lost" ELSE task[c]]
  /\ oneShotLock' = "idle"
  /\ UNCHANGED <<process, env, now, refused>>

-----------------------------------------------------------------------------
Browser ==
  \/ \E p \in Permit : IssuePermit(p) \/ RefuseArm(p)
  \/ \E p \in Permit, w \in Window :
       \/ ArmWindow(p, w) \/ ConsumePair(p, w) \/ RefusePair(p, w)
       \/ RefuseClaim(p, w)
  \/ \E p \in Permit, w \in Window, c \in Claim : ClaimOneShot(p, w, c)

Handoff ==
  \/ StartHandoff
  \/ FailHandoff
  \/ \E p \in Permit : AbortHandoff(p)
  \/ \E p \in Permit, w \in Window : BlockHandoff(p, w)
  \/ \E p \in Permit, w \in Window, c \in Claim : CompleteHandoff(p, w, c)

\* Every step of the coroutine that executes claim c.
Advance(c) ==
  \/ RejectClaim(c) \/ BeginClaim(c) \/ ReuseResult(c) \/ BeginRun(c)
  \/ ReserveSpawn(c) \/ CreateProcess(c) \/ MarkSpawned(c)
  \/ \E result \in Settled :
       RefuseRunner(c, result) \/ FailBeforeSpawn(c, result) \/ FinishRun(c, result)
  \/ FailMark(c) \/ TerminateRun(c) \/ CancelRun(c)
  \/ CloseClaim(c)

Environment ==
  \/ \E c \in Claim : SupervisorExits(c)
  \/ ChangeEnvironment \/ ProofAges \/ Tick \/ Restart

Next == Browser \/ Handoff \/ (\E c \in Claim : Advance(c)) \/ Environment

Spec == Init /\ [][Next]_vars

\* Every await of a claim's coroutine ends: the spawn call and the collection
\* of output are under wait_for(45 s), the isolation refresh under its own
\* timeouts.  Nothing obliges a browser, the clock or a supervisor to act.
Fairness ==
  /\ \A c \in Claim : WF_vars(Advance(c))
  /\ WF_vars(FailHandoff)

FairSpec == Spec /\ Fairness

-----------------------------------------------------------------------------
(* Properties. *)

TypeOK ==
  /\ permit \in [Permit -> Capability]
  /\ window \in [Window -> Capability]
  /\ claim \in [Claim -> ClaimRow]
  /\ run \in [Binding -> RunRow]
  /\ task \in [Claim -> TaskState]
  /\ supervisor \in [Claim -> {"none", "alive", "exited"}]
  /\ spawns \in [Claim -> Nat]
  /\ oneShotLock \in {"idle", "probing"} \cup Claim
  /\ attested \in Binding \cup {None}
  /\ sealed \in BOOLEAN
  /\ now \in Nat
  /\ refused \in [permits: SUBSET Permit, windows: SUBSET Window]

\* A permit and a window authorise at most one process between them, whatever
\* requests race, fail, are cancelled or are cut off by a restart: no two
\* claims share a capability and no claim spawns twice.
OneProcessPerCapability ==
  /\ \A c \in Claim : spawns[c] <= 1
  /\ \A c, d \in Claim :
       /\ c # d
       /\ spawns[c] > 0
       /\ spawns[d] > 0
       => claim[c].permit # claim[d].permit /\ claim[c].window # claim[d].window

\* Two unspent permits, or two unspent windows, never exist at a time, though
\* the browser endpoints and execute_one_shot issue them independently.
SingleArmed ==
  /\ \A p, q \in Permit :
       permit[p].status = "ARMED" /\ permit[q].status = "ARMED" => p = q
  /\ \A v, w \in Window :
       window[v].status = "ARMED" /\ window[w].status = "ARMED" => v = w

\* The durable counters bracket the truth: a counted spawn happened, and a
\* spawn that happened had been reserved, also across a crash.
SpawnAccounting ==
  \A c \in Claim :
    /\ claim[c].spawn_count <= spawns[c]
    /\ spawns[c] <= claim[c].spawn_attempted

\* No claim is left CLAIMED or RUNNING without a coroutine that will close it,
\* and no coroutine works for a claim that is already closed.
OpenClaimHasTask ==
  \A c \in Claim :
    claim[c].status \in {"CLAIMED", "RUNNING"} <=> task[c] \in Suspended \cup Holding

\* A RUNNING canary row names a claim that is executing under that identity,
\* even when a concurrent claim took the row over.
RunningRowHasOwner ==
  \A b \in Binding :
    run[b].status = "RUNNING" =>
      \E c \in Claim : /\ run[b].owner = c
                       /\ claim[c].status = "RUNNING"
                       /\ claim[c].binding = b
                       /\ task[c] \in Suspended

\* A claim reports PASSED only on a stored PASSED run of its own identity,
\* and never with its supervisor still alive.
PassedClaimIsProven ==
  \A c \in Claim :
    claim[c].status = "PASSED" =>
      run[claim[c].binding].status = "PASSED" /\ supervisor[c] # "alive"

\* A PASSED result is never overwritten by another request's begin, finish or
\* by recovery: the check for it and the takeover of the row are one step.
PassedRunIsFinal ==
  [][\A b \in Binding : run[b].status = "PASSED" => run'[b] = run[b]]_vars

\* A spent capability and a closed claim stay as they are: no later handler,
\* late result or recovery changes a terminal row.
TerminalRowsAreFinal ==
  [][/\ \A p \in Permit :
          permit[p].status \in {"EXPIRED", "CONSUMED", "ABORTED"} => permit'[p] = permit[p]
     /\ \A w \in Window :
          window[w].status \in {"EXPIRED", "CONSUMED"} => window'[w] = window[w]
     /\ \A c \in Claim : claim[c].status \in Settled => claim'[c] = claim[c]]_vars

Open(c) == claim[c].status \in {"CLAIMED", "RUNNING"}

\* A handoff ends: whenever a claim is open or the one-shot lock is taken, there
\* comes a moment at which that claim is closed and execute_one_shot is available
\* again.
HandoffSettles ==
  \A c \in Claim :
    (Open(c) \/ oneShotLock # "idle") ~> (~Open(c) /\ oneShotLock = "idle")

\* README: a request refused because the binding changed leaves neither
\* capability usable for a retry.
RefusedNeverReusable ==
  /\ \A p \in refused.permits : permit[p].status # "ARMED"
  /\ \A w \in refused.windows : window[w].status # "ARMED"

\* README, Phase 4.3: the first real supervisor spawn records spawn_count = 1;
\* SealedWSLSupervisorRunner: the counter represents a real observed
\* supervisor.  A request that is over does not leave an uncounted one behind.
ObservedSupervisorIsCounted ==
  \A c \in Claim :
    task[c] = "done" /\ supervisor[c] = "alive" => claim[c].spawn_count = 1

-----------------------------------------------------------------------------
(* What the safety properties rest on. *)

\* Progress of a claim's coroutine and the durable row agree.
StatusMatchesTask ==
  \A c \in Claim :
    /\ task[c] = "none" <=> claim[c].status = "NONE"
    /\ task[c] = "claimed" => claim[c].status = "CLAIMED"
    /\ task[c] \in Suspended \cup {"begun", "recorded"} => claim[c].status = "RUNNING"
    /\ task[c] \in {"done", "lost"} => claim[c].status \in Settled

\* The durable counters and the process, at every point of the coroutine.
CountersMatchTask ==
  \A c \in Claim :
    /\ claim[c].spawn_count <= spawns[c]
    /\ spawns[c] <= claim[c].spawn_attempted
    /\ supervisor[c] = "alive" => spawns[c] = 1
    /\ task[c] \in {"none", "claimed", "begun", "executor"} => claim[c].spawn_attempted = 0
    /\ task[c] = "spawning" => claim[c].spawn_attempted = 1 /\ spawns[c] = 0
    /\ task[c] = "created" => spawns[c] = 1 /\ claim[c].spawn_count = 0
    /\ task[c] = "collecting" => spawns[c] = 1

\* A claim holds a spent permit and a spent window that no other claim holds.
ClaimsHoldSpentPairs ==
  /\ \A c \in Claim :
       claim[c].status = "NONE" => claim[c].permit = None /\ claim[c].window = None
  /\ \A c \in Claim :
       claim[c].status # "NONE" =>
         /\ claim[c].binding \in Binding
         /\ claim[c].permit \in Permit /\ permit[claim[c].permit].status = "CONSUMED"
         /\ claim[c].window \in Window /\ window[claim[c].window].status = "CONSUMED"
  /\ \A c, d \in Claim :
       c # d /\ claim[c].status # "NONE" /\ claim[d].status # "NONE" =>
         claim[c].permit # claim[d].permit /\ claim[c].window # claim[d].window

\* The run row of an identity and the claim that owns it.
RowsMatchOwners ==
  \A b \in Binding :
    /\ run[b].status = "NONE" => run[b].owner = None
    /\ run[b].status # "NONE" => /\ run[b].owner \in Claim
                                 /\ claim[run[b].owner].status # "NONE"
                                 /\ claim[run[b].owner].binding = b
    /\ run[b].status = "RUNNING" => task[run[b].owner] \in Suspended
    /\ run[b].status = "PASSED" => /\ task[run[b].owner] \in {"recorded", "done", "lost"}
                                   /\ supervisor[run[b].owner] # "alive"
=============================================================================
