----------------------------- MODULE EgressWindow -----------------------------
(***************************************************************************)
(* The actual WSL egress harness: a two-minute execution window (a window  *)
(* nonce and an arm nonce, both one-use) authorises one run of the harness *)
(* service, which starts a supervisor process at most once at a time for   *)
(* a contract and keeps one result row per contract.                       *)
(*                                                                         *)
(* Handlers run on one event loop.  An action is the code between two      *)
(* suspensions, except that consuming a window and going on with the run   *)
(* are two commits in one stretch: a crash may fall between them, nothing  *)
(* else may (LoopFree).                                                    *)
(***************************************************************************)
EXTENDS Naturals

CONSTANTS
  Window,   \* windows, each issued together with an arm of the same name
  Request,  \* POSTs that run the harness
  Identity, \* sealed identities; a contract is the identity it was made from
  None,     \* the absent value
  TTL,      \* lifetime of a window, in clock ticks
  MaxTime   \* bound on the clock

ASSUME ConstantAssumption ==
  /\ TTL \in Nat \ {0}
  /\ MaxTime \in Nat
  /\ None \notin Window \cup Request \cup Identity

VARIABLES
  window,     \* egress_execution_windows
  spent,      \* egress_harness_arms: consumed_at of the arm of each window
  row,        \* egress_harness_runs of the WSL runner, one per contract
  task,       \* where the coroutine of a request is
  request,    \* the window a request consumed and the contract it runs
  supervisor, \* the operating-system process started for a request
  attested,   \* the identity the stored proofs attest
  sealed,     \* and its contract is the latest one
  now         \* the clock

vars == <<window, spent, row, task, request, supervisor, attested, sealed, now>>
env == <<attested, sealed>>

WindowStatus == {"NONE", "ARMED", "EXPIRED", "CONSUMED"}
WindowRow == [status : WindowStatus, binding : Identity \cup {None}, expires_at : Nat,
              error_code : {"none", "binding_changed"}]
Unissued == [status |-> "NONE", binding |-> None, expires_at |-> 0, error_code |-> "none"]

Settled == {"PASSED", "POLICY_VIOLATION", "ERROR"}
RunRow == [status : {"NONE", "RUNNING"} \cup Settled, harness_id : Request \cup {None}]

\* Holding the single-flight lock of its contract.
InFlight == {"starting", "spawning", "collecting"}
TaskState == {"none", "claimed", "waiting", "done", "lost"} \cup InFlight

Init ==
  /\ window = [w \in Window |-> Unissued]
  /\ spent = [w \in Window |-> FALSE]
  /\ row = [b \in Identity |-> [status |-> "NONE", harness_id |-> None]]
  /\ task = [r \in Request |-> "none"]
  /\ request = [r \in Request |-> [window |-> None, contract |-> None]]
  /\ supervisor = [r \in Request |-> "none"]
  /\ attested = None
  /\ sealed = FALSE
  /\ now = 0

-----------------------------------------------------------------------------
(* Shared pieces. *)

\* _sealed_binding, None when it raises
SealedBinding == IF sealed THEN attested ELSE None

\* No coroutine is between the two commits.
LoopFree == \A r \in Request : task[r] # "claimed"

\* The asyncio lock of a contract.
LockFree(b) == \A r \in Request : task[r] \in InFlight => request[r].contract # b

Overdue(w) == window[w].status = "ARMED" /\ window[w].expires_at <= now

\* Mutant: the lookup by nonce forgets the status of the row.
UsableAnyStatus(w) == now < window[w].expires_at

Usable(w) == window[w].status = "ARMED" /\ now < window[w].expires_at

\* The UPDATE issue_egress_execution_window begins with.
Swept == [w \in Window |->
            IF Overdue(w) THEN [window[w] EXCEPT !.status = "EXPIRED"] ELSE window[w]]

Issuable(w) == window[w].status = "NONE" /\ \A v \in Window : Swept[v].status # "ARMED"

\* Mutant: a run that did not pass is recorded as passed.
RecordPassed(r, s) == [row EXCEPT ![request[r].contract].status = "PASSED"]

\* finish_egress_harness: only its own RUNNING row; otherwise it raises.
Recorded(r, s) ==
  [b \in Identity |->
     IF b = request[r].contract /\ row[b] = [status |-> "RUNNING", harness_id |-> r]
     THEN [row[b] EXCEPT !.status = s]
     ELSE row[b]]

Finish(r, s) ==
  /\ row' = Recorded(r, s)
  /\ task' = [task EXCEPT ![r] = "done"]

-----------------------------------------------------------------------------
(* The gate. *)

\* POST .../actual/arm
Arm(w) ==
  /\ LoopFree
  /\ SealedBinding # None
  /\ Issuable(w)
  /\ window' = [Swept EXCEPT ![w] = [status |-> "ARMED", binding |-> SealedBinding,
                                    expires_at |-> now + TTL, error_code |-> "none"]]
  /\ UNCHANGED <<spent, row, task, request, supervisor, env, now>>

\* POST .../actual: both capabilities are consumed before anything is validated.
\* An arm of another window is refused, which changes nothing.
Consume(r, w, a) ==
  /\ LoopFree
  /\ task[r] = "none"
  /\ Usable(w) /\ ~spent[a]
  /\ a = w
  /\ window' = [window EXCEPT ![w].status = "CONSUMED"]
  /\ spent' = [spent EXCEPT ![a] = TRUE]
  /\ request' = [request EXCEPT ![r].window = w]
  /\ task' = [task EXCEPT ![r] = "claimed"]
  /\ UNCHANGED <<row, supervisor, env, now>>

\* The same for an overdue window: it is marked, the arm is spent, and the
\* request refused after the commit.
ExpireOnUse(w, a) ==
  /\ LoopFree
  /\ Overdue(w) /\ ~spent[a]
  /\ a = w
  /\ window' = [window EXCEPT ![w].status = "EXPIRED"]
  /\ spent' = [spent EXCEPT ![a] = TRUE]
  /\ UNCHANGED <<row, task, request, supervisor, env, now>>

Binding(r) == window[request[r].window].binding

\* Mutant: the changed binding is recorded, but the run goes on.
BlockAndGoOn(r) ==
  /\ task[r] = "claimed"
  /\ SealedBinding # Binding(r)
  /\ window' = [window EXCEPT ![request[r].window].error_code = "binding_changed"]
  /\ request' = [request EXCEPT ![r].contract = Binding(r)]
  /\ task' = [task EXCEPT ![r] = "waiting"]
  /\ UNCHANGED <<spent, row, supervisor, env, now>>

\* The identity changed or its proofs lapsed: mark_egress_execution_window_blocked.
Block(r) ==
  /\ task[r] = "claimed"
  /\ SealedBinding # Binding(r)
  /\ window' = [window EXCEPT ![request[r].window].error_code = "binding_changed"]
  /\ task' = [task EXCEPT ![r] = "done"]
  /\ UNCHANGED <<spent, row, request, supervisor, env, now>>

-----------------------------------------------------------------------------
(* The harness service. *)

\* The run has its contract b: read just now, or before it waited for the lock.
Ready(r, b) ==
  \/ task[r] = "claimed" /\ b = SealedBinding /\ b = Binding(r)
  \/ LoopFree /\ task[r] = "waiting" /\ b = request[r].contract

Wait(r, b) ==
  /\ task[r] = "claimed"
  /\ Ready(r, b)
  /\ ~LockFree(b)
  /\ request' = [request EXCEPT ![r].contract = b]
  /\ task' = [task EXCEPT ![r] = "waiting"]
  /\ UNCHANGED <<window, spent, row, supervisor, env, now>>

\* A PASSED result is returned instead of a run.
Reuse(r, b) ==
  /\ Ready(r, b)
  /\ LockFree(b)
  /\ row[b].status = "PASSED"
  /\ request' = [request EXCEPT ![r].contract = b]
  /\ task' = [task EXCEPT ![r] = "done"]
  /\ UNCHANGED <<window, spent, row, supervisor, env, now>>

\* begin_egress_harness
Begin(r, b) ==
  /\ Ready(r, b)
  /\ LockFree(b)
  /\ row[b].status # "PASSED"
  /\ row' = [row EXCEPT ![b] = [status |-> "RUNNING", harness_id |-> r]]
  /\ request' = [request EXCEPT ![r].contract = b]
  /\ task' = [task EXCEPT ![r] = "starting"]
  /\ UNCHANGED <<window, spent, supervisor, env, now>>

\* WSLEgressHarnessRunner.run: the contract still matches the stored proofs.
CallSpawn(r) ==
  /\ LoopFree
  /\ task[r] = "starting"
  /\ attested = request[r].contract
  /\ task' = [task EXCEPT ![r] = "spawning"]
  /\ UNCHANGED <<window, spent, row, request, supervisor, env, now>>

CreateProcess(r) ==
  /\ LoopFree
  /\ task[r] = "spawning"
  /\ supervisor' = [supervisor EXCEPT ![r] = "alive"]
  /\ task' = [task EXCEPT ![r] = "collecting"]
  /\ UNCHANGED <<window, spent, row, request, env, now>>

\* The runner refuses the contract, WSL is missing, the spawn fails or takes 30 s.
FailBeforeSpawn(r) ==
  /\ LoopFree
  /\ task[r] \in {"starting", "spawning"}
  /\ Finish(r, "ERROR")
  /\ UNCHANGED <<window, spent, request, supervisor, env, now>>

SupervisorExits(r) ==
  /\ supervisor[r] = "alive"
  /\ supervisor' = [supervisor EXCEPT ![r] = "exited"]
  /\ UNCHANGED <<window, spent, row, task, request, env, now>>

\* The result frame is judged.
FinishRun(r, s) ==
  /\ LoopFree
  /\ task[r] = "collecting"
  /\ supervisor[r] = "exited"
  /\ Finish(r, s)
  /\ UNCHANGED <<window, spent, request, supervisor, env, now>>

\* Mutant: the deadline is only looked at once the process has ended.
TimeOutAfterExit(r) ==
  /\ LoopFree
  /\ task[r] = "collecting"
  /\ supervisor[r] = "exited"
  /\ Finish(r, "ERROR")
  /\ UNCHANGED <<window, spent, request, supervisor, env, now>>

\* The service's 30 s end before the runner's own 30 s, which began later: the
\* runner is cancelled and never terminates its process.
TimeOut(r) ==
  /\ LoopFree
  /\ task[r] = "collecting"
  /\ supervisor[r] = "alive"
  /\ Finish(r, "ERROR")
  /\ UNCHANGED <<window, spent, request, supervisor, env, now>>

-----------------------------------------------------------------------------
(* The surroundings. *)

\* Other handlers store proofs or create a contract.
ChangeEnvironment ==
  /\ LoopFree
  /\ attested' \in Identity \cup {None}
  /\ sealed' \in BOOLEAN
  /\ sealed' => attested' # None
  /\ UNCHANGED <<window, spent, row, task, request, supervisor, now>>

\* The isolation result has less than 330 s left.
ProofLapses ==
  /\ attested' = None
  /\ sealed' = FALSE
  /\ UNCHANGED <<window, spent, row, task, request, supervisor, now>>

Tick ==
  /\ now < MaxTime
  /\ now' = now + 1
  /\ UNCHANGED <<window, spent, row, task, request, supervisor, env>>

\* recover_armed_egress_execution_windows
Disarmed == [w \in Window |->
               IF window[w].status = "ARMED" THEN [window[w] EXCEPT !.status = "EXPIRED"]
               ELSE window[w]]

\* recover_interrupted_egress_harnesses
Recovered == [b \in Identity |->
                IF row[b].status = "RUNNING" THEN [row[b] EXCEPT !.status = "ERROR"] ELSE row[b]]

\* The server dies and the lifespan hook recovers; a supervisor may live on.
Restart ==
  /\ window' = Disarmed
  /\ row' = Recovered
  /\ task' = [r \in Request |-> IF task[r] = "none" \/ task[r] = "done" THEN task[r] ELSE "lost"]
  /\ UNCHANGED <<spent, request, supervisor, env, now>>

-----------------------------------------------------------------------------
Gate ==
  \/ \E w \in Window : Arm(w)
  \/ \E w, a \in Window : ExpireOnUse(w, a) \/ \E r \in Request : Consume(r, w, a)

\* Every step of the coroutine of request r after it has consumed a window.
Advance(r) ==
  \/ Block(r)
  \/ \E b \in Identity : Wait(r, b) \/ Reuse(r, b) \/ Begin(r, b)
  \/ CallSpawn(r) \/ CreateProcess(r) \/ FailBeforeSpawn(r)
  \/ TimeOut(r) \/ \E s \in Settled : FinishRun(r, s)

Environment ==
  \/ \E r \in Request : SupervisorExits(r)
  \/ ChangeEnvironment \/ ProofLapses \/ Tick \/ Restart

Next == Gate \/ (\E r \in Request : Advance(r)) \/ Environment

Spec == Init /\ [][Next]_vars

\* Everything a run awaits is under wait_for(30 s), and asyncio's lock is fair.
\* Browsers, the clock, supervisors and restarts owe nothing.
Fairness == \A r \in Request : WF_vars(Advance(r))

FairSpec == Spec /\ Fairness

-----------------------------------------------------------------------------
(* Properties. *)

TypeOK ==
  /\ window \in [Window -> WindowRow]
  /\ spent \in [Window -> BOOLEAN]
  /\ row \in [Identity -> RunRow]
  /\ task \in [Request -> TaskState]
  /\ request \in [Request -> [window : Window \cup {None}, contract : Identity \cup {None}]]
  /\ supervisor \in [Request -> {"none", "alive", "exited"}]
  /\ attested \in Identity \cup {None}
  /\ sealed \in BOOLEAN
  /\ now \in Nat

\* There is never more than one window to run with.
SingleArmed ==
  \A v, w \in Window : window[v].status = "ARMED" /\ window[w].status = "ARMED" => v = w

\* Every process was started with a consumed window of its own, which was sealed
\* for the contract it ran and was not blocked.
ProcessIsAuthorised ==
  \A r \in Request : supervisor[r] # "none" =>
    LET w == request[r].window IN
    /\ w \in Window
    /\ window[w].status = "CONSUMED"
    /\ window[w].error_code = "none"
    /\ window[w].binding = request[r].contract
    /\ \A q \in Request : supervisor[q] # "none" /\ request[q].window = w => q = r

\* Single flight: a RUNNING row has exactly the coroutine that will settle it,
\* across queued requests, timeouts and restarts.
RunningRowIsServed ==
  \A b \in Identity :
    /\ row[b].status = "RUNNING" =>
         LET r == row[b].harness_id IN task[r] \in InFlight /\ request[r].contract = b
    /\ \A r \in Request : task[r] \in InFlight /\ request[r].contract = b =>
         row[b] = [status |-> "RUNNING", harness_id |-> r]

\* A PASSED result stands on a process that has ended by itself, started under a
\* window that was sealed for this contract; one abandoned at the timeout never
\* passes.
PassedIsProven ==
  \A b \in Identity : row[b].status = "PASSED" =>
    LET r == row[b].harness_id IN
    /\ supervisor[r] = "exited"
    /\ request[r].contract = b
    /\ window[request[r].window].binding = b

\* A PASSED result is never run again or overwritten, also when it passes while
\* another request waits for the lock.
PassedIsFinal ==
  [][\A b \in Identity : row[b].status = "PASSED" => row'[b] = row[b]]_vars

\* A run that consumed a window ends, one way or another.
RunSettles ==
  \A r \in Request : (task[r] \in {"claimed", "waiting"} \cup InFlight) ~> (task[r] \in {"done", "lost"})

-----------------------------------------------------------------------------
(* What a window promises. *)

Launched(w) == \E r \in Request : request[r].window = w /\ supervisor[r] # "none"

phase ==
  [w \in Window |->
     CASE window[w].status = "NONE" -> "unissued"
       [] window[w].status = "ARMED" -> "held"
       [] window[w].status = "EXPIRED" -> "void"
       [] window[w].status = "CONSUMED" -> IF Launched(w) THEN "launched" ELSE "claimed"]

Authority == INSTANCE OneUseAuthority WITH Grant <- Window

\* An execution window is a one-use authority: expired, restarted and blocked
\* windows never start a process, a consumed one starts at most one.
WindowIsOneUse == Authority!Spec
=============================================================================
