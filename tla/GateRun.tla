-------------------------------- MODULE GateRun --------------------------------
(***************************************************************************)
(* Gate.start_run against the notifications of the turn it starts.         *)
(*                                                                         *)
(* A call claims a route plan, asks the app-server for a thread and then   *)
(* for a turn.  Each answer is awaited (30 s); notifications are handled   *)
(* in tasks of their own.  An answer wakes its coroutine through wait_for, *)
(* which may take longer than starting the task of a notification that was *)
(* read after it, so the two come in either order.                         *)
(***************************************************************************)
EXTENDS Naturals

CONSTANTS
  Plan, \* sealed, executable route plans
  Call, \* POSTs of start_run; the run a call creates has its name
  None

ASSUME NoneAssumption == None \notin Plan \cup Call

VARIABLES
  use,        \* route_plan_uses: status and run of each plan
  call,       \* where each start_run coroutine is
  plan,       \* the plan a call asked for
  run,        \* Run.status, "none" before the run exists
  saved,      \* status in the tasks table
  known,      \* the ids the run has: "nothing", its "thread", its "turn" too
  thread,     \* the thread on the app-server
  turn,       \* the turn on the app-server
  completion, \* the task that handles turn/completed
  compaction, \* the task that handles thread/compacted
  interrupted \* history: turn/interrupt was requested

gate == <<use, call, plan, run, saved, known>>
server == <<thread, turn>>
tasks == <<completion, compaction>>
vars == <<use, call, plan, run, saved, known, thread, turn, completion, compaction, interrupted>>

UseStatus == {"none", "claimed", "started", "failed", "completed"}
Settled == {"failed", "completed"}
Awaiting == {"connecting", "threadStart", "turnStart", "cleanup"}
CallState == {"none", "ended", "raised", "lost"} \cup Awaiting
TurnResult == {"completed", "interrupted", "failed"}
RunStatus == {"none", "starting", "running", "interrupting", "forgotten"} \cup TurnResult

Init ==
  /\ use = [p \in Plan |-> [status |-> "none", owner |-> None]]
  /\ call = [c \in Call |-> "none"]
  /\ plan = [c \in Call |-> None]
  /\ run = [c \in Call |-> "none"]
  /\ saved = [c \in Call |-> "none"]
  /\ known = [c \in Call |-> "nothing"]
  /\ thread = [c \in Call |-> "none"]
  /\ turn = [c \in Call |-> "none"]
  /\ completion = [c \in Call |-> "none"]
  /\ compaction = [c \in Call |-> "none"]
  /\ interrupted = [c \in Call |-> FALSE]

-----------------------------------------------------------------------------
(* The row of a plan's use. *)

\* Mutant: a claim that replaces the row.
Reclaimable(p) == use[p].status # "completed"

\* The insert of claim_route_plan succeeds for one run only.
Unclaimed(p) == use[p].status = "none"

Claimed(p, c) == [use EXCEPT ![p] = [status |-> "claimed", owner |-> c]]

\* The previous states update_route_plan_use allows; otherwise it raises.
Accepts(p, s) ==
  use[p].status \in CASE s = "started"   -> {"claimed"}
                      [] s = "failed"    -> {"claimed", "started"}
                      [] s = "completed" -> {"started"}

\* Mutant: the failure of a start is not recorded.
ForgetUse(p, s) == IF s = "failed" THEN use ELSE [use EXCEPT ![p].status = s]

UpdatedUse(p, s) == [use EXCEPT ![p].status = s]

\* _persist
Persist(c, s) == saved' = [saved EXCEPT ![c] = s]

-----------------------------------------------------------------------------
(* start_run. *)

\* The plan is loaded unused; connect is awaited.
LoadPlan(c, p) ==
  /\ call[c] = "none"
  /\ Unclaimed(p)
  /\ call' = [call EXCEPT ![c] = "connecting"]
  /\ plan' = [plan EXCEPT ![c] = p]
  /\ UNCHANGED <<use, run, saved, known, server, tasks, interrupted>>

\* The plan is still valid, the claim succeeds and thread/start is sent.
ClaimPlan(c) ==
  /\ call[c] = "connecting"
  /\ Unclaimed(plan[c])
  /\ use' = Claimed(plan[c], c)
  /\ run' = [run EXCEPT ![c] = "starting"]
  /\ Persist(c, "starting")
  /\ thread' = [thread EXCEPT ![c] = "requested"]
  /\ call' = [call EXCEPT ![c] = "threadStart"]
  /\ UNCHANGED <<plan, known, turn, tasks, interrupted>>

\* Connecting fails, the plan expired or is outdated, or it was claimed meanwhile.
RefuseStart(c) ==
  /\ call[c] = "connecting"
  /\ call' = [call EXCEPT ![c] = "ended"]
  /\ UNCHANGED <<use, plan, run, saved, known, server, tasks, interrupted>>

\* thread/start is answered: turn/start is sent.  An answer that was read just
\* before the connection ended still counts.
ThreadStarted(c) ==
  /\ call[c] = "threadStart"
  /\ thread[c] \in {"subscribed", "gone"}
  /\ known' = [known EXCEPT ![c] = "thread"]
  /\ Accepts(plan[c], "started")
  /\ use' = UpdatedUse(plan[c], "started")
  /\ turn' = [turn EXCEPT ![c] = IF thread[c] = "gone" THEN "lost" ELSE "requested"]
  /\ call' = [call EXCEPT ![c] = "turnStart"]
  /\ UNCHANGED <<plan, run, saved, thread, tasks, interrupted>>

\* turn/start is answered.
TurnStarted(c) ==
  /\ call[c] = "turnStart"
  /\ turn[c] \in {"running", "ended", "gone"}
  /\ known' = [known EXCEPT ![c] = "turn"]
  /\ run' = [run EXCEPT ![c] = "running"]
  /\ Persist(c, "running")
  /\ call' = [call EXCEPT ![c] = "ended"]
  /\ UNCHANGED <<use, plan, server, tasks, interrupted>>

\* Mutant: an answer that never comes is awaited for good.
FailTurnStartLost(c) ==
  /\ call[c] = "turnStart"
  /\ turn[c] \in {"lost", "gone"}
  /\ run' = [run EXCEPT ![c] = "failed"]
  /\ call' = [call EXCEPT ![c] = "cleanup"]
  /\ UNCHANGED <<use, plan, saved, known, server, tasks, interrupted>>

\* thread/start fails: an error, the timeout or the end of the connection.
\* There is no thread to clean up.
FailThreadStart(c) ==
  /\ call[c] = "threadStart"
  /\ run' = [run EXCEPT ![c] = "failed"]
  /\ Accepts(plan[c], "failed")
  /\ use' = UpdatedUse(plan[c], "failed")
  /\ Persist(c, "failed")
  /\ call' = [call EXCEPT ![c] = "ended"]
  /\ UNCHANGED <<plan, known, server, tasks, interrupted>>

\* turn/start fails: thread/unsubscribe is sent.
FailTurnStart(c) ==
  /\ call[c] = "turnStart"
  /\ run' = [run EXCEPT ![c] = "failed"]
  /\ call' = [call EXCEPT ![c] = "cleanup"]
  /\ UNCHANGED <<use, plan, saved, known, server, tasks, interrupted>>

\* Mutant: the end of a failed start is not persisted.
CleanupUnsaved(c) ==
  /\ call[c] = "cleanup"
  /\ Accepts(plan[c], "failed")
  /\ use' = UpdatedUse(plan[c], "failed")
  /\ call' = [call EXCEPT ![c] = "ended"]
  /\ UNCHANGED <<plan, run, saved, known, server, tasks, interrupted>>

\* thread/unsubscribe was answered or failed.
FinishCleanup(c) ==
  /\ call[c] = "cleanup"
  /\ Accepts(plan[c], "failed")
  /\ use' = UpdatedUse(plan[c], "failed")
  /\ Persist(c, run[c])
  /\ call' = [call EXCEPT ![c] = "ended"]
  /\ UNCHANGED <<plan, run, known, server, tasks, interrupted>>

\* The same when turn/completed has settled the use: start_run raises.
RaiseCleanup(c) ==
  /\ call[c] = "cleanup"
  /\ ~Accepts(plan[c], "failed")
  /\ call' = [call EXCEPT ![c] = "raised"]
  /\ UNCHANGED <<use, plan, run, saved, known, server, tasks, interrupted>>

-----------------------------------------------------------------------------
(* The app-server. *)

OpenThread(c) ==
  /\ thread[c] = "requested"
  /\ thread' = [thread EXCEPT ![c] = "subscribed"]
  /\ UNCHANGED <<gate, turn, tasks, interrupted>>

BeginTurn(c) ==
  /\ turn[c] = "requested"
  /\ turn' = [turn EXCEPT ![c] = "running"]
  /\ UNCHANGED <<gate, thread, tasks, interrupted>>

\* thread/unsubscribe is executed, after a turn/start sent before it.
DropThread(c) ==
  /\ call[c] = "cleanup" \/ completion[c] = "finishing"
  /\ thread[c] = "subscribed"
  /\ turn[c] # "requested"
  /\ thread' = [thread EXCEPT ![c] = "dropped"]
  /\ UNCHANGED <<gate, turn, tasks, interrupted>>

\* The turn ends; a subscriber is told.
EndTurn(c) ==
  /\ turn[c] = "running"
  /\ turn' = [turn EXCEPT ![c] = "ended"]
  /\ completion' = [completion EXCEPT ![c] = IF thread[c] = "subscribed" THEN "queued" ELSE @]
  /\ UNCHANGED <<gate, thread, compaction, interrupted>>

Compact(c) ==
  /\ turn[c] = "running"
  /\ thread[c] = "subscribed"
  /\ compaction[c] = "none"
  /\ compaction' = [compaction EXCEPT ![c] = "queued"]
  /\ UNCHANGED <<gate, server, completion, interrupted>>

\* The app-server ends: what it was asked for is lost, what it had is gone.  A
\* later connect starts another one.
ServerEnds ==
  /\ thread' = [c \in Call |-> CASE thread[c] = "requested" -> "lost"
                               [] thread[c] = "subscribed" -> "gone"
                               [] OTHER -> thread[c]]
  /\ turn' = [c \in Call |-> CASE turn[c] = "requested" -> "lost"
                             [] turn[c] = "running" -> "gone"
                             [] OTHER -> turn[c]]

Disconnect == ServerEnds /\ UNCHANGED <<gate, tasks, interrupted>>

-----------------------------------------------------------------------------
(* A crash or shutdown of the server, whose child the app-server is.  The      *)
(* coroutines and the records are gone; the two tables stay as they are, for   *)
(* no hook of the lifespan reads them.                                         *)

\* What is in memory: coroutines, records, tasks.
MemoryLost ==
  /\ call' = [c \in Call |-> IF call[c] \in Awaiting THEN "lost" ELSE call[c]]
  /\ run' = [c \in Call |-> IF run[c] = "none" THEN "none" ELSE "forgotten"]
  /\ completion' = [c \in Call |-> IF completion[c] \in {"queued", "finishing"}
                                    THEN "lost" ELSE completion[c]]
  /\ compaction' = [c \in Call |-> IF compaction[c] \in {"queued", "interrupting"}
                                    THEN "lost" ELSE compaction[c]]

\* Mutant: the start-up gives claims back.
RestartReleases ==
  /\ ServerEnds /\ MemoryLost
  /\ use' = [p \in Plan |-> IF use[p].status = "claimed"
                            THEN [status |-> "none", owner |-> None] ELSE use[p]]
  /\ UNCHANGED <<plan, saved, known, interrupted>>

Restart == ServerEnds /\ MemoryLost /\ UNCHANGED <<use, plan, saved, known, interrupted>>

-----------------------------------------------------------------------------
(* Notifications and the user's interrupt. *)

\* turn/completed up to its await: the turn's status, or "failed" when Git shows
\* a change out of scope.  Then the diff and thread/unsubscribe are awaited.
HandleCompleted(c, result) ==
  /\ completion[c] = "queued"
  /\ run' = [run EXCEPT ![c] = result]
  /\ completion' = [completion EXCEPT ![c] = "finishing"]
  /\ UNCHANGED <<use, call, plan, saved, known, server, compaction, interrupted>>

\* Mutant: the handler leaves the use alone.
CompleteUnrecorded(c) ==
  /\ completion[c] = "finishing"
  /\ Accepts(plan[c], "completed")
  /\ Persist(c, run[c])
  /\ completion' = [completion EXCEPT ![c] = "done"]
  /\ UNCHANGED <<use, call, plan, run, known, server, compaction, interrupted>>

FinishCompleted(c) ==
  /\ completion[c] = "finishing"
  /\ Accepts(plan[c], "completed")
  /\ use' = UpdatedUse(plan[c], "completed")
  /\ Persist(c, run[c])
  /\ completion' = [completion EXCEPT ![c] = "done"]
  /\ UNCHANGED <<call, plan, run, known, server, compaction, interrupted>>

\* The start has failed meanwhile: the handler raises and persists nothing.
RaiseCompleted(c) ==
  /\ completion[c] = "finishing"
  /\ ~Accepts(plan[c], "completed")
  /\ completion' = [completion EXCEPT ![c] = "raised"]
  /\ UNCHANGED <<gate, server, compaction, interrupted>>

\* The runs interrupt does not ignore.
Interruptible(c) == run[c] \in {"starting", "running", "interrupting"} /\ known[c] = "turn"

Interrupt(c) ==
  /\ Interruptible(c)
  /\ run' = [run EXCEPT ![c] = "interrupting"]
  /\ interrupted' = [interrupted EXCEPT ![c] = TRUE]

HandleCompacted(c) ==
  /\ compaction[c] = "queued"
  /\ Interrupt(c)
  /\ compaction' = [compaction EXCEPT ![c] = "interrupting"]
  /\ UNCHANGED <<use, call, plan, saved, known, server, completion>>

IgnoreCompacted(c) ==
  /\ compaction[c] = "queued"
  /\ ~Interruptible(c)
  /\ Persist(c, run[c])
  /\ compaction' = [compaction EXCEPT ![c] = "done"]
  /\ UNCHANGED <<use, call, plan, run, known, server, completion, interrupted>>

\* turn/interrupt was answered, or it failed and the handler raises.
FinishCompacted(c) ==
  /\ compaction[c] = "interrupting"
  /\ compaction' = [compaction EXCEPT ![c] = "done"]
  /\ saved' \in {saved, [saved EXCEPT ![c] = run[c]]}
  /\ UNCHANGED <<use, call, plan, run, known, server, completion, interrupted>>

\* POST /api/runs/{run_id}/interrupt
UserInterrupts(c) ==
  /\ Interrupt(c)
  /\ UNCHANGED <<use, call, plan, saved, known, server, tasks>>

-----------------------------------------------------------------------------
Start(c) ==
  \/ \E p \in Plan : LoadPlan(c, p)
  \/ ClaimPlan(c) \/ RefuseStart(c)

\* An answer to what start_run awaits, or its failure.
Answer(c) ==
  \/ ThreadStarted(c) \/ FailThreadStart(c)
  \/ TurnStarted(c) \/ FailTurnStart(c)
  \/ FinishCleanup(c) \/ RaiseCleanup(c)

Complete(c) ==
  \/ \E result \in TurnResult : HandleCompleted(c, result)
  \/ FinishCompleted(c) \/ RaiseCompleted(c)

Server(c) == OpenThread(c) \/ BeginTurn(c) \/ DropThread(c) \/ EndTurn(c) \/ Compact(c)

Compacted(c) == HandleCompacted(c) \/ IgnoreCompacted(c) \/ FinishCompacted(c)

Next ==
  \/ \E c \in Call :
       Start(c) \/ Answer(c) \/ Complete(c) \/ Server(c) \/ Compacted(c) \/ UserInterrupts(c)
  \/ Disconnect \/ Restart

Spec == Init /\ [][Next]_vars

\* Every await of start_run and of the handler has a timeout: 30 s for a request
\* (with at most three retries), 12 s for git diff.  The turn ends, or the
\* connection does.
Fairness ==
  \A c \in Call :
    WF_vars(Answer(c)) /\ WF_vars(Complete(c)) /\ WF_vars(EndTurn(c) \/ (turn[c] = "running" /\ Disconnect))

FairSpec == Spec /\ Fairness

-----------------------------------------------------------------------------
(* Properties. *)

TypeOK ==
  /\ use \in [Plan -> [status : UseStatus, owner : Call \cup {None}]]
  /\ call \in [Call -> CallState]
  /\ plan \in [Call -> Plan \cup {None}]
  /\ run \in [Call -> RunStatus]
  /\ saved \in [Call -> RunStatus]
  /\ known \in [Call -> {"nothing", "thread", "turn"}]
  /\ thread \in [Call -> {"none", "requested", "subscribed", "dropped", "lost", "gone"}]
  /\ turn \in [Call -> {"none", "requested", "running", "ended", "lost", "gone"}]
  /\ completion \in [Call -> {"none", "queued", "finishing", "done", "raised", "lost"}]
  /\ compaction \in [Call -> {"none", "queued", "interrupting", "done", "lost"}]
  /\ interrupted \in [Call -> BOOLEAN]

\* A plan reaches the app-server once, whatever calls race for it and whenever the
\* server restarts: no two calls ask for a thread for one plan.
OneThreadPerPlan ==
  \A c, d \in Call : thread[c] # "none" /\ thread[d] # "none" /\ plan[c] = plan[d] => c = d

\* What the use of a plan says is true of its run: no claim outlives its
\* start_run, unless a crash cut that off, a failed start has left start_run and
\* its turn was not recorded as completed, and a completed use has a turn whose
\* end was handled.
UseMatchesRun ==
  \A p \in Plan :
    LET c == use[p].owner IN
    /\ use[p].status = "claimed" => call[c] \in {"threadStart", "lost"}
    /\ use[p].status = "started" => call[c] \in {"turnStart", "cleanup", "ended", "lost"}
                                    /\ completion[c] \notin {"done", "raised"}
    /\ use[p].status = "failed" => call[c] = "ended" /\ completion[c] # "done"
    /\ use[p].status = "completed" => completion[c] = "done" /\ turn[c] = "ended"

\* A settled use is never changed: not by a late turn/completed, not by a start
\* that fails after its turn has ended.
UseIsFinal ==
  [][\A p \in Plan : use[p].status \in Settled => use'[p] = use[p]]_vars

\* Everything of a run in memory has come to rest.
AtRest(c) ==
  /\ call[c] = "ended" /\ run[c] # "forgotten"
  /\ completion[c] \in {"none", "done"}
  /\ compaction[c] \in {"none", "done"}

\* When a run is at rest, the tasks table shows the status the run has, unless
\* an interrupt, which its handler does not persist, was the last thing asked.
RestIsSaved ==
  \A c \in Call : AtRest(c) /\ run[c] # "interrupting" => saved[c] = run[c]

\* No start hangs: start_run leaves each of its awaits, or the server ends.
StartSettles ==
  \A c \in Call : (call[c] \in {"threadStart", "turnStart", "cleanup"}) ~> (call[c] \in {"ended", "raised", "lost"})

\* A turn whose end is reported settles the use of its plan, if the server lives.
TurnEndSettlesUse ==
  \A c \in Call :
    (completion[c] = "queued") ~> \/ \E p \in Plan : use[p].owner = c /\ use[p].status \in Settled
                                  \/ completion[c] = "lost"

\* test_unsubscribe_failure_only_records_warning: after turn/completed was
\* handled the run has the status the turn ended with.
EndedRunIsClosed ==
  \A c \in Call : completion[c] = "done" => run[c] \in TurnResult

\* README: thread/compacted interrupts the turn at once.
CompactionInterrupts ==
  \A c \in Call : compaction[c] = "done" /\ turn[c] = "running" => interrupted[c]

-----------------------------------------------------------------------------
(* What the safety properties rest on. *)

\* A call without a run has sent nothing.
Idle(c) ==
  /\ call[c] \in {"none", "connecting", "ended", "lost"}
  /\ call[c] = "connecting" => plan[c] \in Plan
  /\ thread[c] = "none" /\ turn[c] = "none"
  /\ completion[c] = "none" /\ compaction[c] = "none"
  /\ known[c] = "nothing"

\* A run owns the use of its plan, whose status follows start_run and the
\* handler of turn/completed.
OwnsUse(c) ==
  /\ plan[c] \in Plan
  /\ use[plan[c]].owner = c
  /\ call[c] \notin {"none", "connecting"}
  /\ completion[c] # "none" => turn[c] = "ended"
  /\ call[c] = "lost" => /\ turn[c] \notin {"requested", "running"}
                         /\ completion[c] \notin {"queued", "finishing"}
  /\ LET status == use[plan[c]].status IN
     /\ status # "none"
     /\ call[c] = "threadStart" => status = "claimed"
     /\ status = "claimed" => call[c] \in {"threadStart", "lost"} /\ turn[c] = "none"
     /\ status = "started" => /\ call[c] \in {"turnStart", "cleanup", "ended", "lost"}
                              /\ completion[c] \notin {"done", "raised"}
     /\ status = "failed" => call[c] = "ended" /\ completion[c] # "done"
     /\ status = "completed" => completion[c] = "done"

RunsInOrder ==
  /\ \A c \in Call : IF run[c] = "none" THEN Idle(c) ELSE OwnsUse(c)
  /\ \A p \in Plan : use[p].status # "none" =>
       LET c == use[p].owner IN c \in Call /\ run[c] # "none" /\ plan[c] = p
=============================================================================
