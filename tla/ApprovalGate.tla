---------------------------- MODULE ApprovalGate ----------------------------
(***************************************************************************)
(* The approval requests of one running turn: the app-server asks, the     *)
(* gate shows the request, and a click, a 120 s timer, the server itself,  *)
(* the end of the turn or the end of the connection settles it.            *)
(*                                                                         *)
(* All of it runs on one event loop.  A handler is suspended only while it *)
(* waits for an approval's lock, while it writes to the app-server's stdin *)
(* (the write lock, then drain) and while it waits for turn/interrupt.     *)
(***************************************************************************)
EXTENDS Naturals

CONSTANTS
  Request,      \* ids of the server's approval requests
  Click,        \* POSTs of a decision from the browser
  Permission,   \* the requests of kind "permissions"
  Uncancellable \* the requests whose availableDecisions lack "cancel"

ASSUME RequestAssumption ==
  /\ Permission \subseteq Request
  /\ Uncancellable \subseteq Request
  /\ "timer" \notin Click

VARIABLES
  approval,   \* Approval.status, "none" before the record exists
  actor,      \* per request: where each click and the timer are
  dispatch,   \* where the task of the incoming request is
  tracked,    \* server_request_methods has the id
  connection, \* "broken": writes fail, the reader has not seen the end yet
  turnStatus, \* status of the run, as far as interrupt looks at it
  answers,    \* history: answers written for a request
  withdrawn   \* history: settled by the server or by the end of the turn

approvalVars == <<approval, actor, dispatch, tracked, connection, turnStatus, answers, withdrawn>>

Actor == Click \cup {"timer"}

ApprovalStatus == {"none", "pending", "responding", "resolved", "cancel"}
Sending == {"accepting", "cancelling"}
ActorState == {"none", "asleep", "waiting", "ended"} \cup Sending

ApprovalInit ==
  /\ approval = [q \in Request |-> "none"]
  /\ actor = [q \in Request |-> [a \in Actor |-> "none"]]
  /\ dispatch = [q \in Request |-> "none"]
  /\ tracked = [q \in Request |-> FALSE]
  /\ connection = "up"
  /\ turnStatus = "running"
  /\ answers = [q \in Request |-> 0]
  /\ withdrawn = [q \in Request |-> FALSE]

-----------------------------------------------------------------------------
(* Shared pieces. *)

Open(q) == approval[q] \in {"pending", "responding"}

\* approval.lock of asyncio
LockFree(q) == \A a \in Actor : actor[q][a] \notin Sending

Move(q, a, s) == actor' = [actor EXCEPT ![q][a] = s]

\* timeout_task.cancel(), for each request of a set.  A timer that is just
\* sending is cut off before its write (outside W) or after it (inside W).
CancelTimers(Q, W) ==
  /\ actor' = [q \in Request |->
                 IF q \in Q THEN [actor[q] EXCEPT !["timer"] = "ended"] ELSE actor[q]]
  /\ answers' = [q \in Request |-> IF q \in W THEN answers[q] + 1 ELSE answers[q]]

TimerSends(q) == actor[q]["timer"] \in Sending

\* respond for an incoming request that is not shown: written and untracked,
\* or refused because the id is not tracked any more.
Turndown(q) ==
  /\ answers' = [answers EXCEPT ![q] = IF tracked[q] THEN @ + 1 ELSE @]
  /\ tracked' = [tracked EXCEPT ![q] = FALSE]

\* Gate.interrupt up to its await
Interrupted == IF turnStatus = "running" THEN "interrupting" ELSE turnStatus

-----------------------------------------------------------------------------
(* An incoming request. *)

\* The reader tracks the id and starts a task.
ServerAsks(q) ==
  /\ connection # "down"
  /\ turnStatus # "over"
  /\ dispatch[q] = "none"
  /\ dispatch' = [dispatch EXCEPT ![q] = "queued"]
  /\ tracked' = [tracked EXCEPT ![q] = TRUE]
  /\ UNCHANGED <<approval, actor, connection, turnStatus, answers, withdrawn>>

\* Mutant: a record without its timer.
RegisterUntimed(q) ==
  /\ dispatch[q] = "queued"
  /\ dispatch' = [dispatch EXCEPT ![q] = "done"]
  /\ approval' = [approval EXCEPT ![q] = "pending"]
  /\ UNCHANGED <<actor, tracked, connection, turnStatus, answers, withdrawn>>

\* handle_server_request shows the request and starts its timer.
Register(q) ==
  /\ dispatch[q] = "queued"
  /\ dispatch' = [dispatch EXCEPT ![q] = "done"]
  /\ approval' = [approval EXCEPT ![q] = "pending"]
  /\ Move(q, "timer", "asleep")
  /\ UNCHANGED <<tracked, connection, turnStatus, answers, withdrawn>>

\* The request is invalid, not an approval, or of an unknown thread.
RejectRequest(q) ==
  /\ dispatch[q] = "queued"
  /\ dispatch' = [dispatch EXCEPT ![q] = "done"]
  /\ Turndown(q)
  /\ UNCHANGED <<approval, actor, connection, turnStatus, withdrawn>>

\* _reject_forbidden_request: answered first, then the turn is interrupted.
RejectForbidden(q) ==
  /\ dispatch[q] = "queued"
  /\ dispatch' = [dispatch EXCEPT ![q] = IF turnStatus = "over" THEN "done" ELSE "interrupting"]
  /\ turnStatus' = Interrupted
  /\ Turndown(q)
  /\ UNCHANGED <<approval, actor, connection, withdrawn>>

InterruptAnswered(q) ==
  /\ connection = "up"
  /\ dispatch[q] = "interrupting"
  /\ dispatch' = [dispatch EXCEPT ![q] = "done"]
  /\ UNCHANGED <<approval, actor, tracked, connection, turnStatus, answers, withdrawn>>

\* turn/interrupt fails: an error, the 30 s timeout or the end of the
\* connection.  _dispatch_server_request then answers with respond_error.
InterruptFails(q) ==
  /\ dispatch[q] = "interrupting"
  /\ dispatch' = [dispatch EXCEPT ![q] = "done"]
  /\ answers' = [answers EXCEPT ![q] = IF connection = "up" THEN @ + 1 ELSE @]
  /\ tracked' = [tracked EXCEPT ![q] = FALSE]
  /\ UNCHANGED <<approval, actor, connection, turnStatus, withdrawn>>

-----------------------------------------------------------------------------
(* resolve_approval, called by a click or by the timer. *)

Decide(q, a) ==
  /\ approval[q] # "none"
  /\ actor[q][a] = "none"
  /\ Move(q, a, "waiting")
  /\ UNCHANGED <<approval, dispatch, tracked, connection, turnStatus, answers, withdrawn>>

\* _expire_approval looks once and never again.
TimerWakes(q) ==
  /\ actor[q]["timer"] = "asleep"
  /\ Move(q, "timer", IF approval[q] = "pending" THEN "waiting" ELSE "ended")
  /\ UNCHANGED <<approval, dispatch, tracked, connection, turnStatus, answers, withdrawn>>

\* Mutant: no lock and no second look at the status.
EnterUnlocked(q, a) == actor[q][a] = "waiting"

\* The lock is taken and the approval is still pending.
Enter(q, a) ==
  /\ actor[q][a] = "waiting"
  /\ LockFree(q)
  /\ approval[q] = "pending"

\* The decision is allowed and the answer is on its way.
SendDecision(q, a, s) ==
  /\ Enter(q, a)
  /\ a = "timer" => s = "cancelling"
  /\ s = "cancelling" => q \notin Uncancellable
  /\ tracked[q]
  /\ approval' = [approval EXCEPT ![q] = "responding"]
  /\ Move(q, a, s)
  /\ UNCHANGED <<dispatch, tracked, connection, turnStatus, answers, withdrawn>>

\* The same with an id that is not tracked any more: back to pending at once.
SendUntracked(q, a) ==
  /\ Enter(q, a)
  /\ a = "timer" => q \notin Uncancellable
  /\ ~tracked[q]
  /\ Move(q, a, "ended")
  /\ UNCHANGED <<approval, dispatch, tracked, connection, turnStatus, answers, withdrawn>>

\* Settled meanwhile, or a decision the server or the subset rule excludes.
RefuseDecision(q, a) ==
  /\ actor[q][a] = "waiting"
  /\ LockFree(q)
  /\ approval[q] # "pending" \/ a # "timer" \/ q \in Uncancellable
  /\ Move(q, a, "ended")
  /\ UNCHANGED <<approval, dispatch, tracked, connection, turnStatus, answers, withdrawn>>

\* The answer is written: the timer is cancelled, a cancelled permission
\* interrupts the turn.
FinishSend(q, a) ==
  /\ connection # "broken"
  /\ actor[q][a] \in Sending
  /\ answers' = [answers EXCEPT ![q] = @ + 1]
  /\ tracked' = [tracked EXCEPT ![q] = FALSE]
  /\ approval' = [approval EXCEPT ![q] = "resolved"]
  /\ actor' = [actor EXCEPT ![q][a] = "ended",
                            ![q]["timer"] = "ended"]
  /\ turnStatus' = IF q \in Permission /\ actor[q][a] = "cancelling"
                   THEN Interrupted ELSE turnStatus
  /\ UNCHANGED <<dispatch, connection, withdrawn>>

\* Mutant: a failed write counts as an answer.
ResolveAnyway(q) == approval' = [approval EXCEPT ![q] = "resolved"]

\* The status a failed write leaves.
Reopen(q) == approval' = [approval EXCEPT ![q] = "pending"]

FailSend(q, a) ==
  /\ connection # "up"
  /\ actor[q][a] \in Sending
  /\ Reopen(q)
  /\ Move(q, a, "ended")
  /\ UNCHANGED <<dispatch, tracked, connection, turnStatus, answers, withdrawn>>

-----------------------------------------------------------------------------
(* Settled by others. *)

\* serverRequest/resolved
ServerResolves(q) ==
  /\ connection # "down"
  /\ dispatch[q] = "done"
  /\ Open(q)
  /\ approval' = [approval EXCEPT ![q] = "resolved"]
  /\ withdrawn' = [withdrawn EXCEPT ![q] = TRUE]
  /\ \E W \in SUBSET {x \in {q} : TimerSends(x)} : CancelTimers({q}, W)
  /\ UNCHANGED <<dispatch, tracked, connection, turnStatus>>

\* turn/completed: _clear_pending_approvals
TurnEnds ==
  /\ connection # "down"
  /\ turnStatus # "over"
  /\ \A q \in Request : dispatch[q] # "queued"
  /\ turnStatus' = "over"
  /\ approval' = [q \in Request |-> IF Open(q) THEN "resolved" ELSE approval[q]]
  /\ withdrawn' = [q \in Request |-> withdrawn[q] \/ Open(q)]
  /\ LET Q == {q \in Request : Open(q)}
     IN  \E W \in SUBSET {q \in Q : TimerSends(q)} : CancelTimers(Q, W)
  /\ UNCHANGED <<dispatch, tracked, connection>>

\* The app-server goes away; writes fail from now on.
Break ==
  /\ connection = "up"
  /\ connection' = "broken"
  /\ UNCHANGED <<approval, actor, dispatch, tracked, turnStatus, answers, withdrawn>>

Cancelled == [q \in Request |-> IF Open(q) THEN "cancel" ELSE approval[q]]

\* The reader sees the end: ids are forgotten and handle_disconnect cancels.
HandleDisconnect ==
  /\ connection # "down"
  /\ connection' = "down"
  /\ tracked' = [q \in Request |-> FALSE]
  /\ approval' = Cancelled
  /\ LET Q == {q \in Request : Open(q)}
     IN  \E W \in SUBSET {q \in Q : TimerSends(q)} : CancelTimers(Q, W)
  /\ UNCHANGED <<dispatch, turnStatus, withdrawn>>

-----------------------------------------------------------------------------
Incoming(q) ==
  \/ ServerAsks(q) \/ Register(q) \/ RejectRequest(q) \/ RejectForbidden(q)
  \/ InterruptAnswered(q) \/ InterruptFails(q)

\* What the coroutine of a decision does next.
Resolve(q, a) ==
  \/ \E s \in Sending : SendDecision(q, a, s)
  \/ SendUntracked(q, a) \/ RefuseDecision(q, a)
  \/ FinishSend(q, a) \/ FailSend(q, a)

ApprovalNext ==
  \/ \E q \in Request : Incoming(q) \/ TimerWakes(q) \/ ServerResolves(q)
  \/ \E q \in Request, a \in Click : Decide(q, a)
  \/ \E q \in Request, a \in Actor : Resolve(q, a)
  \/ TurnEnds \/ Break \/ HandleDisconnect

ApprovalSpec == ApprovalInit /\ [][ApprovalNext]_approvalVars

\* A timer fires, a coroutine that can go on goes on (asyncio's lock is fair and
\* the app-server reads what it is sent), and the reader sees a broken
\* connection.  Nobody has to click.
ApprovalFairness ==
  /\ \A q \in Request : WF_approvalVars(TimerWakes(q))
  /\ \A q \in Request, a \in Actor : WF_approvalVars(Resolve(q, a))
  /\ WF_approvalVars(connection = "broken" /\ HandleDisconnect)

ApprovalFairSpec == ApprovalSpec /\ ApprovalFairness

-----------------------------------------------------------------------------
(* Properties. *)

ApprovalTypeOK ==
  /\ approval \in [Request -> ApprovalStatus]
  /\ actor \in [Request -> [Actor -> ActorState]]
  /\ dispatch \in [Request -> {"none", "queued", "interrupting", "done"}]
  /\ tracked \in [Request -> BOOLEAN]
  /\ connection \in {"up", "broken", "down"}
  /\ turnStatus \in {"running", "interrupting", "over"}
  /\ answers \in [Request -> Nat]
  /\ withdrawn \in [Request -> BOOLEAN]

\* A request the user sees is answered at most once, though several clicks and
\* the timer may decide it, fail and be repeated.
ShownAnsweredOnce == \A q \in Request : approval[q] # "none" => answers[q] <= 1

\* No approval is reported resolved when its answer was lost.
ResolvedWasAnswered ==
  \A q \in Request :
    approval[q] = "resolved" => answers[q] = 1 \/ withdrawn[q]

\* An approval in the middle of an answer has a coroutine that will settle it.
RespondingIsServed ==
  \A q \in Request :
    approval[q] = "responding" => \E a \in Actor : actor[q][a] \in Sending

\* A pending approval of a live connection can still be answered: its id is
\* tracked and no answer was written, unless the server had it settled while an
\* answer was under way.
PendingIsAnswerable ==
  \A q \in Request :
    approval[q] = "pending" /\ connection # "down" /\ ~withdrawn[q]
      => tracked[q] /\ answers[q] = 0

\* While the connection lives, a pending approval that may be cancelled is
\* settled, by its timer if nobody else does.  (The timer tries once: one whose
\* availableDecisions lack "cancel" stays pending until the turn ends.)
PendingSettles ==
  \A q \in Request \ Uncancellable :
    (approval[q] = "pending") ~> (approval[q] # "pending" \/ connection # "up")

\* test_server_available_decisions_are_enforced_and_disconnect_cancels: once
\* the connection is gone the run shows no pending approval.
DisconnectClears ==
  connection = "down" => \A q \in Request : approval[q] # "pending"

-----------------------------------------------------------------------------
(* What the safety properties rest on, for one request. *)

\* At most one coroutine writes the answer, and only before any answer.
SenderAlone(q) ==
  \A a \in Actor :
    actor[q][a] \in Sending =>
      /\ answers[q] = 0
      /\ approval[q] \notin {"none", "pending"}
      /\ connection # "down" /\ ~withdrawn[q] => tracked[q]
      /\ \A b \in Actor : actor[q][b] \in Sending => a = b

\* What each status of the record says about the answer.
StatusTold(q) ==
  /\ approval[q] = "pending" => answers[q] = 0
  /\ approval[q] = "pending" /\ connection # "down" /\ ~withdrawn[q] => tracked[q]
  /\ approval[q] = "responding" => \E a \in Actor : actor[q][a] \in Sending
  /\ approval[q] = "resolved" => answers[q] = 1 \/ withdrawn[q]
  /\ approval[q] # "none" => answers[q] <= 1

\* A record exists only after its dispatch, and nobody acts before it exists.
ShownAfterDispatch(q) ==
  /\ approval[q] # "none" => dispatch[q] = "done"
  /\ approval[q] = "none" => \A a \in Actor : actor[q][a] = "none"
  /\ dispatch[q] \in {"none", "queued"} => answers[q] = 0 /\ ~withdrawn[q]
  /\ dispatch[q] = "queued" /\ connection # "down" => tracked[q]

RequestInOrder(q) == SenderAlone(q) /\ StatusTold(q) /\ ShownAfterDispatch(q)

RequestsInOrder == \A q \in Request : RequestInOrder(q)
=============================================================================
