# A TLA+ model of CodexGate

CodexGate is a local FastAPI server that stands between a person's browser and
the Codex app-server. It decides which runs may start, with which evidence and
which model, and it proves (with sealed contracts, one-use capabilities and
append-only ledgers) what was and was not executed. Everything runs on one
asyncio event loop over one SQLite database.

This directory holds TLA+ modules of that system, the TLC configurations that
check them, and theorems that TLAPS has proved about them. `PROJECT.json` is the
index: which definition stands for which lines, which run checks which property,
which change of the code would break it, and what is proved.

## 1. The system

| Component (files under `src/app`) | State it keeps | Operations | Interacts with |
|---|---|---|---|
| HTTP API, local-origin guard (`main.py`) | services in `app.state` | endpoints, lifespan recovery | every service |
| Gate run lifecycle (`gateway.py`) | run records, thread/turn indexes, per-run events | start_run, notifications, interrupt | app-server client, route plans, capsules |
| Approvals (`gateway.py`) | pending approval records, a timer each | server request, decision, expiry, disconnect | app-server client, runs |
| App-server RPC client (`app_server.py`) | pending futures, reader task, child process | request with retry, notify, reconnect, close | the app-server process |
| Protocol schema (`protocol.py`) | none | validation of messages | client |
| Route plans (`storage.py` 5325-5554) | plan rows, plan uses | create, load, claim once, record outcome | Gate, Bridge, capsule |
| Router (`router.py`) | none | classification, model choice | model catalog |
| Policy and path guards (`policy.py`) | none | path, root and contract checks | all |
| Evidence capsule (`capsule.py`, `evidence.py`) | capsule rows | scan, select under a budget, seal | Gate, Bridge |
| Bridge (`bridge.py`, `storage.py` 1464-1882) | bridge tasks, nonces, evidence requests | start, packet, import, review, collect, recovery | route plans, evidence |
| Catalog (`catalog.py`, `storage.py` 816-996) | sources, scans, entries | scan in batches, cancel, resume | indexer (a thread) |
| Format probe (`format_probe.py`, `storage.py` 998-1235) | probe rows | begin, probing, complete, recovery | catalog (a thread) |
| Isolation probe (`isolation.py`), WSL isolation (`isolation_wsl.py`), repro (`isolation_repro.py`), WSL Codex runtime (`wsl_codex_runtime.py`) | singleton result rows with an expiry | configure, preflight, probe, repeat | WSL processes, egress contract |
| Sealed egress contract (`egress_contract.py`) | contract, instances | preview, create, revalidate | the stored proofs above |
| Egress harness and execution window (`egress_harness.py`, `egress_harness_wsl.py`) | windows, arms, runs | arm, run, single flight, reuse | contract, WSL supervisor |
| Broker and relay (`egress_broker.py`, `egress_relay.py`) | one-shot flags | one request | harness |
| Canary permit, window, claim, run (`codex_process_canary.py`, `storage.py` 2912-3994) | four tables, two asyncio locks | issue, arm, claim, execute, finish, recover | contract, isolation, executor |
| Canary executor and supervisor (`codex_process_executor_wsl.py`) | one process | reserve, spawn, mark, collect, terminate | claim row |
| Wire contract (`codex_wire_contract.py`) | none | proof state at import | executor |
| Token ledger (`token_ledger.py`, `storage.py` 4743-5089) | ledger rows | record, report | all runs |
| Account, limits, model catalog (`storage.py` 5104-5323) | snapshots | sparse merge, status | Gate, router |
| Browser UI (`static/app.js`) | capability nonces | calls the API | API |

What is hard about it. Every handler is a coroutine: it runs alone from one real
suspension to the next, and every table can change at a suspension. What two
handlers decide by reading a row and what they write later are protected only by
SQLite transactions and by a few asyncio locks. The server can die between two
commits, and only the lifespan hook repairs what it left. Timeouts are
nested (an outer `wait_for` around an inner deadline around a subprocess). A
transaction that raises rolls back, unless it commits by hand first. The
expected safety of each part is listed in `PROJECT.json` under `hazards`, at the
line where it could go wrong.

## 2. Plan

Modules, in order of importance. Where a module needs definitions or symmetry to
be checked it has an MC module; where its properties have an inductive argument it
has a proof module.

| Modules | Part | State |
|---|---|---|
| `CanaryOneShot`, `CanaryOneShotProofs` | permit, window, claim and process of the one-shot canary | checked, proved |
| `OneUseAuthority`, `CanaryAuthority` (proofs in `CanaryOneShotProofs`) | what a permit and a window promise; the refinement | checked, proved |
| `GateRun`, `PlanAuthority` (proofs in `GateProofs`) | start_run against notifications, interrupt, crashes and the single claim of a plan; a plan is a third implementation of `OneUseAuthority` | checked, proved |
| `ApprovalGate` (proofs in `GateProofs`) | decision, timer, disconnect and turn completion | checked, proved |
| `EgressWindow`, `EgressWindowProofs` | execution window, single flight and recovery of the egress harness, a second implementation of `OneUseAuthority` | checked, proved |
| `Isolation`, `SealedContract`, `SealedContractProofs` | the WSL probes and, on top, the runtime preflight and the egress contract | checked, proved |
| `RpcClient`, `RpcClientProofs` | connections, answers, timeouts and retries | checked, proved |
| `Bridge`, `BridgeProofs` | packets, nonces, evidence, review, recovery | checked, proved |
| `Catalog`, `FormatProbe`, `CatalogProofs` | scans and probes in worker threads | checked, proved |
| `Router`, `Routing`, `RoutingProofs` | route_preview; a plan from its preview to its claim | checked, proved |

How they fit. `SealedContract` extends `Isolation` and says when a contract may
execute; the canary and the egress modules take that as `attested` and `sealed`
and let it change at any time. `Routing` follows a plan up to its claim, `GateRun`
from the claim on; `RpcClient` justifies what `GateRun` and `ApprovalGate` assume
of a request: it is answered, fails with its connection or times out, as long as the
app-server does not live on without reading (section 7).

Two components that belong together share a proof module; where both had a
definition of one name, the second carries a prefix (`ApprovalSpec`, `ProbeSpec`).

What the prover does not reach stays with TLC and is named in each section:
liveness under fairness, and what a recursive definition computes for every input.
The models are written so that little needs the latter: "the first effort that
fits" is the least position that fits, not a filtered sequence.

## 3. The one-shot canary

### State

`permit`, `window`, `claim` and `run` are the four tables (rows as records, a
row that does not exist yet has status `NONE`). `task[c]` says where the request
coroutine of claim `c` is; `supervisor[c]` is the operating-system process and
`spawns[c]` counts processes ever created. `oneShotLock` is `_one_shot_lock`:
`idle`, `probing` while isolation is refreshed, then the claim it works for.
`attested` is the identity (contract, runtime, isolation and repro hashes) the
stored proofs attest, which is what the claim transaction and the executor
compare with; `sealed` says that it is also the latest contract with 330 s left,
which is what `_binding` asks for in addition. `refused` is a history variable.

### Atomicity

An action is the code between two suspensions. `_permit_lock` is never held
over one, so it is not modelled. Where one stretch commits several times (claim,
begin, run row; finish run, finish claim) each commit is an action, because the
server can die in between, and `LoopFree` keeps every other handler out, because the loop
cannot be taken. `wait_for` runs the executor in a task of its own (Python
3.11), so `BeginRun` and `ReserveSpawn` are separated by a suspension.

Transactions follow `sqlite3`'s context manager: an exception rolls back. So the
refusals of `validate_codex_canary_execution_permit` and of
`consume_codex_canary_execution_permit_and_window` leave the rows as they were
(`RefuseArm`, `RefusePair`), and only the claim transaction, which commits
before it raises, keeps its refusal (`RefuseClaim`).

### Correspondence

| Actions | Code |
|---|---|
| `IssuePermit`, `ArmWindow`, `RefuseArm` | gate `issue`, `arm`, with the sweep of overdue rows both inserts begin with |
| `ConsumePair`, `RefusePair` | the disabled endpoint and the blocked one-shot |
| `ClaimOneShot`, `RefuseClaim` | `claim_codex_canary_one_shot_execution` |
| `StartHandoff` ... `BlockHandoff` | `execute_one_shot` |
| `RejectClaim`, `BeginClaim`, `ReuseResult`, `RefuseRunner`, `BeginRun` | `run_one_shot_execution_claim` up to the await |
| `ReserveSpawn`, `CreateProcess`, `MarkSpawned`, `FailMark` | the executor and `on_started` |
| `FinishRun`, `TerminateRun`, `CancelRun`, `FailBeforeSpawn` | the ways the awaited run ends, up to `finish_codex_process_canary` |
| `CloseClaim` | `finish_codex_canary_execution_claim` and the `finally` block |
| `ChangeEnvironment`, `ProofAges`, `Tick` | other handlers' proofs, and time |
| `Restart` | a crash or shutdown, then the lifespan hook |

A row's `binding_hash`, `contract_hash` and the other sealed fields are one
model value, `Binding`: they are computed from each other. A result is a
status; the fields of an execution and the ledger rows are not modelled.
A process that survives the server is kept: `Restart` leaves `supervisor` alone.

### Runs and bounds

| Run | Shows |
|---|---|
| `canary_safety` | `SpawnAccounting`, `OpenClaimHasTask`, `PassedClaimIsProven`, `PassedRunIsFinal` in all interleavings |
| `canary_liveness` | permits and windows implement `OneUseAuthority`; whatever claim is open is closed in the end, and the lock is free again (`HandoffSettles`) |

`canary_safety`: two permits, two windows, two claims and two identities, since
every race in this code is between two requests over one row, and an identity
that changes and changes back needs two. The code gives both capabilities 120 s, under two constants. A
window armed late in its permit's life outlives it and may meet the next permit
(`RefusePair`); at a lifetime of one tick it could not, so windows have two here.
`MaxTime = 2` lets a capability expire and another be issued after it.
`canary_liveness` has two claims, one identity (and none: `attested = None`) and
`MaxTime = 1`. Rows are never reused. Symmetry is used in the safety run, whose
properties do not tell rows apart, not where liveness is checked.

Deadlock is checked in these runs: `Restart` is always possible. `TypeOK`, one
armed capability, owned RUNNING rows and final terminal rows are proved and no
longer run.

### Fairness

`WF(Advance(c))`: the spawn and the collection are under `wait_for(45 s)`, every
other step of the coroutine is straight-line code. `WF(FailHandoff)`: the
isolation refresh runs under its own process timeouts and then either proceeds
or raises; an action that completes the handoff also leaves `probing`. The clock,
the browser, the operating system and restarts owe nothing.

### Proofs

`CanaryOneShotProofs` proves for any sets and any bounds:

* `InductiveInvariant`: `IInv` is `TypeOK` and four parts. `StatusMatchesTask`
  ties the row's status to the coroutine; `CountersMatchTask` ties the counters
  to the process at each point; `ClaimsHoldSpentPairs` says a claim's permit and
  window are consumed and belong to no other claim; `RowsMatchOwners` says who
  owns a run row. None of the properties is inductive alone: that
  no pair is claimed twice needs that a claimed pair is CONSUMED for good; that a
  RUNNING row has an owner needs the owner's coroutine; that PASSED is final
  needs that a coroutine which can still record is not the owner of a passed row.
* From it: `TypeCorrect`, `AtMostOneProcess`, `CountersBracketSpawns`,
  `OpenClaimsAreServed`, `RunningRowsAreOwned`, `PassedIsProven`, and, with
  separate step lemmas, `OneArmed`, `PassedRunsStay`, `TerminalRowsStay`.

The step is organised by what a table change may be (`LegalRows`) and by the
class of the step (`Quiet`, `Opens`, `Records`, the rest), so that each part of the
invariant is argued once per class and not once per action.

The last part of it is the refinement of `CanaryAuthority`: `PermitRefinement` and
`WindowRefinement`, from the same invariant and the two step lemmas about
capability tables.

Assumptions: `ConstantAssumption` (the sets are disjoint from the marker values,
both lifetimes positive). Only model-checked: `HandoffSettles` (liveness).

## 4. Gate runs

### State

A call of `start_run` and the run it creates have one name. `use[p]` is the row of
`route_plan_uses` (its primary key is the plan, `owner` is the run), `saved[c]`
the status in the tasks table, `run[c]` the record's status in memory, `known[c]`
which of thread id and turn id the run has. `call[c]` is the coroutine, named
after what it awaits; `completion[c]` and `compaction[c]` are the tasks that handle
turn/completed and thread/compacted. `thread[c]` and `turn[c]` belong to the
app-server, which is modelled from how the client uses it. `lost` is a request
that will never be answered, `gone` something that existed when its app-server
ended or that the server forgot when it died. `interrupted` is a history variable.

### Correspondence

| Actions | Code |
|---|---|
| `LoadPlan` | `start_run` up to `connect` |
| `ClaimPlan`, `RefuseStart` | revalidation of the plan, `claim_route_plan`, thread/start sent |
| `ThreadStarted`, `TurnStarted` | the code after each answer |
| `FailThreadStart`, `FailTurnStart`, `FinishCleanup`, `RaiseCleanup` | the `except` branch with `_cleanup_partial_start`, and a settled use that makes it raise |
| `HandleCompleted`, `FinishCompleted`, `RaiseCompleted` | turn/completed, split at the await of the diff and thread/unsubscribe |
| `HandleCompacted`, `IgnoreCompacted`, `FinishCompacted`, `UserInterrupts` | `interrupt`, from thread/compacted or the browser |
| `OpenThread`, `BeginTurn`, `DropThread`, `EndTurn`, `Compact`, `Disconnect` | the app-server |
| `Restart` (`ServerEnds`, `MemoryLost`) | the server dies, and the app-server on its stdin with it; runs, calls and handlers are memory, tables stay |

Notifications run in tasks of their own, and `wait_for` resumes its caller two
loop steps after the answer (Python 3.11), so a notification that was read after
an answer may be handled before the code that awaited it. That is why
`HandleCompleted` asks nothing of `call[c]`. One compaction stands for every
notification that only interrupts (token limits, forbidden items). Expired,
outdated or mismatched plans are all `RefuseStart`. No startup hook reads these
tables: after a `Restart` a use stays claimed or started for good, and what the
properties say is that this never lets the plan run twice.

### Runs and bounds

`gate_safety`: one plan and three calls for it, with `OneThreadPerPlan`,
`UseMatchesRun`, `RestIsSaved`, the refinement `PlanIsOneUse` of `PlanAuthority` and,
under fairness, `StartSettles` and `TurnEndSettlesUse`. Three calls: one that claims, one refused by the claim, one
that reads the plan after a crash. Two runs on two plans share nothing but the
connection; `MCGateTwoPlans.cfg` (`tlc -config MCGateTwoPlans.cfg MCGateRun`)
checks the safety properties with two of each, and `UseIsFinal` and `TypeOK`.
Deadlock is not checked: a gate where every call was answered stops.

Fairness: each request times out after 30 s (at most four tries), `git diff` after
12 s, and a turn ends or its connection does. Without the last, a model may think
for ever and the use is rightly open. `StartSettles` and `TurnEndSettlesUse` count
a crash as an end: who waited is gone, and the table is what the next start reads.

### Proofs

`GateProofs`, second part, for any plans and calls. `RunsAreInOrder`: a call without a run has
sent nothing (`Idle`), a run owns the use of its plan (`OwnsUse`), and every used
plan has such a run. Ownership is what makes it inductive: that two calls never
ask for a thread for one plan follows because both would own the one row. From it
`TypeCorrect`, `PlanReachesServerOnce`, `UseTellsTheRun`, and with a step lemma
`SettledUseStays`. `RestingRunIsSaved` adds `Shown` to it: the table shows the status
of a run or something is still to come that writes it, the end of `start_run` or of
the handler of turn/completed. `PlanRefinement`: a plan's phase follows from whether
it is used and which turns the app-server began for it, a plan executed twice or
without a claim having no phase of the authority. The claim issues a claimed grant
(`PlanIssued`), the begin of a turn launches it (`PlanLaunched`: what is executed owns
the use, so there was no turn before), and no other step, the failure of a start and
a restart included, changes a phase. It says more than that a plan reaches the
server once: the turn whose start had timed out and was recorded as failed may
still begin, and is the only one. Assumption: `NoneAssumption`. Only model-checked: `StartSettles`, `TurnEndSettlesUse`.

## 5. Approvals

### State

One connection and the requests of one run. `approval[q]` is the status of the
record, `actor[q][a]` where each click and the timer are (`waiting` for the
approval's lock, `accepting` or `cancelling` while the answer is written),
`dispatch[q]` the task of the incoming request, `tracked[q]` whether the client
still accepts an answer for the id. `connection` is `broken` between the first
failing write and the reader's end of file. `answers` and `withdrawn` are history.

### Correspondence

| Actions | Code |
|---|---|
| `ServerAsks`, `Register`, `RejectRequest`, `RejectForbidden`, `InterruptAnswered`, `InterruptFails` | the reader, `_dispatch_server_request`, `handle_server_request` |
| `Decide`, `TimerWakes` | the endpoint and `_expire_approval` up to the lock |
| `SendDecision`, `SendUntracked`, `RefuseDecision`, `FinishSend`, `FailSend` | `resolve_approval` under the lock |
| `ServerResolves`, `TurnEnds`, `HandleDisconnect` | serverRequest/resolved, turn/completed, `handle_disconnect`, each with `timeout_task.cancel()` |
| `Break` | the app-server's pipe closes |

A timer cancelled while it writes is cut off before or after the write
(`CancelTimers`). `Enter` needs the lock; what the code checks under it is the
guard of the action. Which decision is sent is reduced to `accepting` and
`cancelling`, since a cancelled permission request also interrupts the turn.
Reconnection and the ids of requests across processes are outside this module.

### Runs and bounds

`approval_safety` checks `ShownAnsweredOnce`, `ResolvedWasAnswered` and
`PendingSettles`. It has two requests, of which `q1` is a permission request and `q2`
cannot be cancelled, and two clicks for each besides the timer: three actors are
enough for one that writes, one that waits for the lock and one that comes after
both. Deadlock is not checked: when all is
settled nothing is left to do.

Fairness: a sleeping timer fires; a coroutine that can go on goes on (asyncio's
lock is fair, the app-server reads its stdin); the reader sees a broken
connection. Nobody has to click. `PendingSettles` leaves out requests that cannot be cancelled: the
timer tries "cancel" once, is refused and gives up, and the approval is pending
until the turn or the connection ends.

### Proofs

`GateProofs`, first part, for any requests and clicks. `RequestsAreInOrder` has three
parts per request: `SenderAlone` (one writer, before any answer), `StatusTold` (what
each status says about the answer) and `ShownAfterDispatch`. Mutual exclusion has
to be in it, because a second writer is the only way to a second answer. From it `ApprovalTypeCorrect`, `ShownIsAnsweredOnce`,
`ResolvedIsAnswered`, `RespondingHasSender`, `PendingCanBeAnswered`. Assumption:
`RequestAssumption`. Only model-checked: `PendingSettles`.

## 6. The egress harness

### State

`window[w]` is a row of `egress_execution_windows`; the arm issued with it in the
same transaction has its name, and `spent[w]` is that arm's `consumed_at`. `row[b]`
is the one row `egress_harness_runs` keeps per contract for the WSL runner.
`task[r]` is the coroutine of a POST to `/actual`, `request[r]` what it consumed
and the contract it runs, `supervisor[r]` the process created for it. A contract
is identified with the sealed identity it was made from. `attested` is the
identity the stored proofs attest, which the runner compares with just before the
spawn; `sealed` says that its contract is also the latest one, which is what
`_sealed_binding` and `immutable_execution_contract` ask for in addition.

### Correspondence

| Actions | Code |
|---|---|
| `Arm`, `Consume`, `ExpireOnUse` | `arm` and `consume_egress_execution_window` |
| `Block` | `run` of the gate, when the identity is no longer the sealed one |
| `Wait`, `Reuse`, `Begin` | `SealedEgressHarnessService.run`: the lock of the contract, an earlier PASSED row, `begin_egress_harness` |
| `CallSpawn`, `CreateProcess`, `FailBeforeSpawn` | `WSLEgressHarnessRunner.run` and `LocalWSLCommandRunner.run` up to the process |
| `FinishRun`, `TimeOut` | the result frame, or the service's `wait_for`; `finish_egress_harness` |
| `ChangeEnvironment`, `ProofLapses`, `Tick` | other handlers' proofs, and time |
| `Restart` | a crash or shutdown, then the two recovery calls of the lifespan hook |

Consuming a window commits before the run goes on, so a crash may fall between;
`LoopFree` keeps other handlers out, because nothing suspends there. A request
that waits for the lock keeps the contract it read before (`Ready`). The lock
serves waiting requests first come first served; the model lets any of them go
next. `_arm_lock` is never held over a suspension and is not modelled. Between the
gate's check and the service's a proof could lapse by a clock reading taken a
moment later; the two checks are one here. The FAKE service is the same code
under another runner identity and without a window.

`TimeOut` leaves the process alive: the runner's own limit equals the service's
(`egress_harness_wsl.py:39`) and starts later, so the service's always ends first,
cancels the runner, and `_terminate_process_tree` is not reached.

### Runs and bounds

`egress_safety` checks `ProcessIsAuthorised`, `PassedIsProven`, `WindowIsOneUse` and
`RunSettles`. It has two windows, two requests and two contracts: one request in
flight and one waiting for its lock or holding the other's, one window overdue
while the next is armed. `TTL = 1`, `MaxTime = 2` let both expire in turn. Two
contracts let the environment change and change back. No symmetry, since the run
also checks `RunSettles`. Deadlock is checked: `Restart` is always possible.

Fairness: `WF(Advance(r))`. Whatever a run awaits is under `wait_for(30 s)` and the
lock is fair. Browsers, the clock, supervisors and restarts owe nothing; a run that
a restart cut off is `lost`, its row is recovered in the same step.

### Proofs

`EgressWindowProofs`, for any windows, requests, contracts and bounds.
`RequestsAndRowsAreInOrder`: `RequestInOrder` says which window a request holds (a
consumed one, its own, not blocked once it goes on, sealed for the contract it
runs) and that a request in flight owns the RUNNING row; `RowInOrder` says the
converse, and that a PASSED row names a request that is done, whose process has
exited; `BlockedIsConsumed` says that only consumed windows were blocked. None
of the properties is inductive alone: that a process is authorised needs that no
other request ever gets its window, that PASSED is proven needs that the request
named in it can never start a process again. From it `TypeCorrect`,
`ProcessesAreAuthorised`, `RunningRowsAreServed`, `PassedRowsAreProven`, with step
lemmas `PassedRowsStay`, `OneWindowArmed`, and the refinement `WindowRefinement`.
Assumption: `ConstantAssumption`. Only model-checked: `RunSettles`.

## 7. The app-server client

`process` is what `self.process` holds, `os[c]` and `stdout[c]` each process and
its unread lines, `asked[c]` what it has read and not answered, `reader[r]` the
stream the reader started for process `r` waits on now. `pending` are the futures,
`coro[k]` a coroutine of the gateway that connects and then makes one request of
its own, a job. `executed` counts how often a job's request was carried out.

| Actions | Code |
|---|---|
| `StartJob`, `PrepareFails`, `Spawn`, `Continue` | `connect`, `connect_for_command_exec`, `list_models` |
| `Issue` (in `StartJob`, `Spawn`, `Continue`, `Retry`) | `_request_once` up to its first suspension |
| `Write` (in `Issue`, `Dequeue`), `Drained`, `DrainRaises` | `_send`: `write_lock`, the line, and `drain`, which may suspend or raise |
| `Timeout`, `Raise`, `BackOff`, `Retry`, `FinishJob` | the ways a future ends, and the retry loop of `request` |
| `ReadLine`, `ReadLineAndFail`, `ReadEof` | `_read_stdout`, which looks `self.process` up for every line |
| `Execute`, `Refuse`, `Die`, `Reap` | the app-server and the child watcher |

`connect` holds no lock: two coroutines that find no connection each start a
process, and the reader of the first may turn to the stream of the second, where
`readline` raises because another coroutine waits there. Nobody then reads the
first process again. That costs time-outs, not correctness, which is what the
properties say.

`_send` awaits twice before the time-out of a request begins: for `write_lock` and
for `drain`. A request has its id and its future by then, so the line may be written
long after, to another process, and the end of a connection may have failed a future
nobody awaits yet (`Sent`). `Drained` owes nothing: an app-server that lives on and no
longer reads keeps the sender in `drain` for ever, under no time-out, and everybody
who has to write behind it. The code does nothing about it, and `JobSettles` names it
as the one exception.

`rpc`: two clients, two processes, two jobs, one retry (the code has three) and an
overload that only thread/start meets. Two of each is what a late answer needs:
a request that timed out and a later one waiting while the answer to the first
arrives, and a second sender to queue behind the first. An answer is a result, an
overload (-32001) or another error, which may come after the request was carried out
and counts as if it did. `WaitsInOrder` (types; whoever waits or has yet to write can
be reached), `AnswerIsOwn`, `ExecutedOnce`, and `JobSettles` under `WF(Resume(k))`:
timers of `wait_for` and `sleep` fire, a free lock is handed on, a broken pipe raises;
the app-server and the readers owe nothing. Not modelled: a model/list of several
pages, account queries, notifications (`initialized` goes out with the request after
it), `close`. Deadlock is not checked: when the jobs of the bound are done nothing is
left to do.

### Proofs

`RpcClientProofs`, for any number of clients, processes, jobs and retries.
`RequestsAreInOrder` is the invariant: `Numbered` says that an id names one request,
wherever a trace of it is left (a process that has read it, an unread line, the
client), which is what makes a late answer harmless: `AnswersAreOwn` follows only
because the id of a timed-out request is never given again. `JobsApart` gives
each job to one client, and `AskedOnce` says that a job is untouched while its client
will ask for it: before it was sent, or after a refusal, also one the client has not
read yet. Without that last case `ExecutedOnce` is not inductive: the retry after an
overload would look like a second request. `NotSentYet` says the same of a request
that has an id and is not written: no process and no line knows it. From it `EveryWaitIsReachable`,
`AnswersAreOwn`, `JobsAreExecutedOnce`. Assumptions: those of `RpcClient` on its
bounds and its methods. Only model-checked: `JobSettles`.

## 8. The bridge

One task. `task` is the payload of its row (status, pending nonce, plan, what was
asked, the evidence sealed in its packet), `nonces`, `plans`, `rows`, `results` and
`ledger` the tables, `op` the handler between two of its commits. Handlers do not
suspend, so `User` actions ask for `op = Idle`; but they commit several times, and
`Crash` may come between any two. `expired` says that the 30 minutes are over.

| Actions | Code |
|---|---|
| `PacketHeld`, `Copied`, `PrepareReview`, `PrepareHeld`, `RestartCycle` | `packet`, `copied`, `prepare_review`, `restart` |
| `Import` | `import_response`: the commit that claims the nonce |
| `CreatePlan`, `PlanFails`, `SavePlan`, `AskEvidence`, `CreateRequests` | `_import_architect` |
| `TakeVerdict`, `Retry` | `_import_review` |
| `MapEvidence`, `CollectAgain`, `BeginCollect` ... `CollectAdvances` | `map_evidence`, `collect_evidence`, `_advance_if_evidence_ready` |
| `Crash` | a crash, then `recover_processing_on_startup` |

`bridge`: three packets, two positions, two kinds of request of which one is
optional, one file, one crash. Three packets are a request for evidence, the packet
that answers it and a second request that meets the rows of the first. `TaskInOrder`
(types; a task under review has a PREVIEW plan made for an accepted response),
`PendingIsOpen`, `EvidenceIsStored`, and `ResponseSettles` under `WF(Commit)`: the
event loop runs a handler to its end. Deadlock is not checked: packets run out.
Files are read inside one step; hashes and the format of a packet are refusals.

### Proofs

`BridgeProofs`, for any number of packets, positions, files and crashes.
`TaskIsConsistent` is the invariant: nonces are issued in sequence, so that the next
one is new (`InSequence`); a nonce has a response from its claim on (`Answers`); where
a handler stands between two commits and what the row says agree (`HandlerAgrees`),
which is where a crash can come; and a row of evidence is whole (`RowsWhole`): its
result is there before it is READY. From it `ReviewsFollowPlans`, `PendingPacketIsOpen`,
`SealedEvidenceIsStored`. Assumptions: `BridgeAssumption` and `NoneIsNoResponse` (no
response of a person is the marker of none). Only model-checked: `ResponseSettles`.

## 9. Catalog and format probe

Both run in worker threads, so a step is one transaction or one file-system call.

`Catalog` is one source: `tree` what is on the disk, `entry` the rows by normalised
path, `scan` the scan rows with their cursors, `walker` the thread that walks (its
directory, what is left of it, the batch, what it has seen), `task` requests that
have read the source's generation and not begun. `ReadSource`, `RefuseScan`,
`NewScan`, `ResumeScan`, `Cancel` are the requests; `Start`, `OpenDirectory`,
`Visit`, `VisitLast`, `StopBetween`, `StopWithin`, `CloseDirectory`, `FailScan`,
`Complete` the walk; `ChangeTree` and `Restart` the world. `seenAll` is history: which
files a scan could see all the time.

`catalog_scan`: three files (two that differ in case, one in a sub-directory), two
requests, two generations, one change of the tree, batches of two: a scan is
cancelled in the root with a sub-directory queued, resumed, and followed by
another. `OneScanAtATime`, `CompletedMeetsAll`, `VanishedIsMissing`. The cursor of a
resumed scan grows (finding 1, section 12), so `MaxCursor` bounds it at two directories.
`CompletedMeetsAll` is about scans since which the generations never fell (`InTurn`),
and `VanishedIsMissing` about a scan whose generation is newer than every row it
began with (`fresh` of `seenAll`): a request that read the source long ago breaks
both, which `MCCatalogGeneration.cfg` shows with three scans.

`FormatProbe` is one row per attempt: `Stat`, `OpenFile`, `Sample` and `Compare` look at a
file that may be overwritten in place, replaced, restored or removed between any
two of them; `Reuse`, `RefuseProbe`, `Begin`, `Mark`, `CompleteProbe` are the
transactions; `DetectorRaises` is deeply nested JSON, which no detector catches.
`probe_rows`: one file, two calls, three versions (a signature, a header that does
not validate, nested JSON), three rows, two events. `ProbesInOrder`,
`CompletedIsCatalogued`, `ActiveIsServed`. A signature stands for size, mtime and
file id together: a rewrite that keeps all three is not seen by the code either.

In both, deadlock is not checked: the bounds on rows and changes end a behaviour.
No liveness: a disk may be slow for ever.

### Proofs

`CatalogProofs`, for any tree, requests, number of scans and batch size, and any
entries, calls and contents.

The scans. What makes `CompletedMeetsAll` inductive is `Covers`: for every scan that
is under way or may be resumed, a file it saw all along is in a row of its
generation or a later one, in the batch or the rejected paths of the walk, or in a
directory that the walk or the stored cursor still lists. It survives the scans in
between because of `SeenIsSo` (a later live scan saw at least as much, so what it
marks MISSING was not seen by the earlier one) and `InTurn` (what it writes is not
older). `RowsInTurn` says that the scan under way is the last live one, which is why
a resume never takes an older one up while a newer one is interrupted. `Spares` and
`GoneIsOlder` are the mirror image for paths that were gone all along: the walk
touches none of them, so their rows are older than the generation. From these
`ScansAreInOrder` (types) with `OneScanUnderWay`, `CompletedScansMeetAll`, `VanishedIsNotListed`. The attempt to
prove `CompletedMeetsAll` without `InTurn` is what found the divergence of
`MCCatalogGeneration.cfg` (section 12): two scans, which the run has, are not enough
to break it. Assumption: `CatalogAssumption`.

The probes. `ProbesStayInOrder` says of each call that finishes a row that the row is
its own entry's, with its snapshot and its identity, `PROBING` exactly between the
two transactions, and that no other call finishes it; of each row that its attempt
is at most its place; and of each file that a version that was written over is
neither its current one nor one to come. With the last, a sample that was torn by
a write is of a version the comparison can never see again. From it
`ProbesAreInOrder` (the attempt after the greatest one is new: `LastAttemptIs`),
`CompletedAreCatalogued`, `ActiveRowsAreServed`. Assumption: `ProbeAssumption`.

## 10. WSL isolation and the sealed contract

`Isolation`: the selected `distro`, the `tools` inside each (external), the preflight
cache `pre`, the one result `row`, the repeatability records `repro` by identity, and
requests `call[c]` named after what they wait for. Locks are per identity and the
row is one for all; a request goes on with the identity it started with, whatever
is selected meanwhile. `passed` is history: when the last canaries that passed in a
distro began. `SealedContract` adds the selected `binary`, the `runtime` row,
inspections in flight and the `contracts`, and says when one is `Executable`.

| Actions | Code |
|---|---|
| `BeginProbe`, `PreflightEnds`, `PreflightFails`, `PreflightWakes`, `ProbeWakes`, `CanaryEnds` | `probe` and `ensure_fresh_isolation_for_offline_canary` |
| `BeginRepro`, `ReproWakes`, `ReproRun`, `ReproPasses`, `ReproFails` | `WSLIsolationReproService.run` |
| `BeginInspection`, `InspectionEnds` | the runtime preflight |
| `Create` | `create` of the contract, with the preview as its guard |
| `SelectDistro`, `SelectBinary`, `UpgradeTools`, `Tick`, `Restart` | configuration, the world, a crash with the recovery |

`sealed_chain`: two requests, two distros, two versions of the tools, one binary,
one inspection, one edit, lifetimes of one tick. One edit is a selection in the
middle of a probe or a check; both distros may have results before it.
`RowsInOrder`, `ExecutableIsProven`, `FreshIsCurrent`. Deadlock is checked. A fresh
probe must have `MinLeft` (600 s) left and a contract `Reserve` (330 s); in a lifetime of
one tick both are one tick. `MCSealedReserves.cfg` has them differ and passes too, in
2.4 million states and about three minutes, which is why it is no run.
`ExecutableIsProven` holds although a repeatability record may mix two distros
(see 12): the canaries behind an executable contract are of the selected one.

### Proofs

`SealedContractProofs`, for any number of requests, distros, versions of tools,
binaries and inspections, any lifetimes and any length of time.
`PipelineIsConsistent` is the invariant. The singleton row is written by whichever
request comes back, so it says nothing by itself: `IdentityKnown` says that a request
under way knows the identity it works for, whatever is selected meanwhile, and
`SafeIsDated` that a SAFE row dates from the start of the last canaries that passed
in its distro; `InspectionsWhole` says the same of inspections in flight. From it
`OpenRowsAreServed`, `ExecutableRestsOnCanaries` and, with a lemma that no step but an
answer makes a request fresh, `FreshAnswersAreCurrent`. Assumptions:
`IsolationAssumption` and `SealedAssumption` (markers are no identities).

## 11. Routing

`Router` is `route_preview` as operators: refusal, the ladder of families, efforts
as stages 0 to 5, the downgrade, Ultra. `Routing` gives it its inputs as they are
stored: `limits` with the sparse merge of updates, `thresholds`, the model rows
`listed`, the `manual` statuses; and follows one plan from `SealPlan` through
`LoadPlan`, `ConnectLists`, `ConnectFetches` to `Claim` or `RefuseStart`. Between the
two halves of connect any other request may come; the check and the claim are one
step because nothing suspends there.

A request's effort is a stage and whether blanks surround the word (`padded`): the
code strips them for the stage (`router.py:74`) and not where it looks for Ultra
(`router.py:116`). The decision of a plan is stripped, so only a preview can be padded.

`routing`: three catalogs of up to three models (one of no known family, one that
lists its efforts out of order and one that offers Ultra outside the Ultra families),
every manual status of each, limits and updates that reach every account state under
two settings of the thresholds, 312 requests. `WithinRecommendation` and
`RouteIsBest` compare `Route`, written as the code computes it (the first of the
ladder, an AVAILABLE one before a LIMITED one), with what a best route is, written
with quantifiers; both are asked in every state without a plan. `BlockedNeverStarts`
is about the whole way from preview to claim. No fairness: nothing has to happen.

### Proofs

`RoutingProofs`, for every catalog, request, answer, update and threshold.

* Of the router: `Selected` and `SelectsIfAny` (an effort is selected exactly when
  one fits), `ForemostIsFirst` (the ladder's first candidate comes before all
  others), `CandidateIs` (who is a candidate), `PreviewRests` (a preview rests on a
  recommended model that is good for the request), and from them `PreviewIsWithin`
  and `DownIsBest`. They need a catalog whose rows are well formed and whose ids
  differ. "First" is a least position; that a set of naturals has a least member
  comes from the library's well-founded induction.
* `RoutingIsTyped`: the catalog is such a one in every state, because ids are the
  key of its table. With the lemmas, `PreviewsAreWithin` and `PreviewsAreBest`. The
  proof showed that `RouteIsBest` has to except Ultra by family and spelling
  (`IsUltra`): any other request for Ultra is routed as one for any effort.
* `BlockedNeverStartsThm`: the invariant `SealedIsAllowed` joins two parts that know
  nothing of each other: no preview is made on a blocked account, and `Worsened`
  admits no state worse than the sealed one. A plan made in the state UNKNOWN is why
  `Worsened` needs its second disjunct.

Assumption: `RoutingAssumption`: what a catalog, a request, an answer, an update and
the thresholds may be, as the validation of requests and the tables' keys have it.
Nothing of this module is only model-checked.

## 12. Findings and divergences

Registered, and checked by a run:

1. `catalog_resume`: a scan interrupted inside a directory visits it again when
   resumed and queues its sub-directories a second time; on the second visit their
   files collide with themselves and are REJECTED (`catalog.py:126`), against
   `README.md:227`.

Known divergences, each with a configuration that ends in a violation
(`tlc -config <cfg> <module>`):

| Configuration, module | Divergence |
|---|---|
| `MCCanaryRefusal.cfg`, `MCCanaryOneShot` | `README.md:175`: after a refused binding change neither capability can be retried. The refusal's UPDATE is rolled back by the raise that follows it (`storage.py:3464`): the permit is accepted if the identity returns within its 120 s |
| `MCCanaryCounter.cfg`, `MCCanaryOneShot` | `README.md:185`: the first real spawn is counted. When the identity changes while the process is created, `on_started` raises (`codex_process_executor_wsl.py:2187`): the process lives on, uncounted |
| `MCGateEnded.cfg`, `MCGateRun` | a turn that ends at once is handled before `start_run` resumes, which then saves "running" for good (`gateway.py:434`) |
| `MCGateCompaction.cfg`, `MCGateRun` | `README.md:70`: thread/compacted interrupts at once. `interrupt` returns silently while the turn id is unknown (`gateway.py:536`) |
| `MCApprovalDisconnect.cfg`, `MCApprovalGate` | a request registered, or a write that fails, after `handle_disconnect` leaves a pending approval on a dead connection (`gateway.py:655`, `gateway.py:686`) |
| `MCCatalogGeneration.cfg`, `MCCatalog` | `README.md:227`: MISSING is for an entry that vanished. `begin_catalog_scan` reads the generation before its transaction (`storage.py:858`): a request that waits there for the write lock while two scans begin goes on under an older generation and takes the rows down to it; the newer scan, interrupted and then resumed, marks MISSING what it had met (`storage.py:923`) |
| `MCReproMixed.cfg`, `MCSealedContract` | every run of a repeatability check reads the selected distro again (`isolation_repro.py:367`): one record may rest on two |
| `MCRoutingUltra.cfg`, `MCRouting` | `README.md:48`: Ultra is previewed only for an audit with an explicit approval. `_is_ultra` (`router.py:116`) knows three families and does not strip: "ultra" of another family, or "ultra " of these, is previewed without either |
| `MCBridgeEvidence.cfg`, `Bridge` | a second need_more_evidence meets the rows of the first (`bridge.py:335`): results of the old request are sent as the answer to the new one |

Met while modelling, and left as they are in the models:

* `README.md:247` lists statuses of a repeatability check that cannot occur:
  `parse_frame` accepts only the expected values, so every failure is ERROR; and
  recovery writes `repro_interrupted`, not `probe_interrupted`.
* A file collected a second time with the same result is refused by the ledger,
  and the refusal turns its READY row FAILED (`bridge.py:414`). A task whose server
  dies between saving NEED_MORE_EVIDENCE and creating its rows, or a response that
  asks for nothing, leaves a task nothing leads out of.
* Two concurrent connects start two app-servers (section 7).
* A scan whose root is gone when it is validated (`catalog.py:87`), or whose server
  dies, stays SCANNING: no recovery reads the table, and every later scan or resume
  of that source is refused.

## 13. Not modelled

See `components` in `PROJECT.json`, with a reason each. The pure checks of
`policy.py`, the validation of messages and requests, the text of packets, capsules
and results, the token ledger's sums and the generated schemas are functions of
data with no order of steps to get wrong. The evidence capsule is one synchronous
call; a crash between its rename and its save leaves a directory without a record,
which the next call marks INVALID. Cryptographic integrity (hashes over stored
rows, nonces in the clear), wording of errors and the ledger rows a step appends
are abstracted everywhere. Liveness is model-checked only: the prover does not
reach it.
