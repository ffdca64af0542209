-------------------------------- MODULE Bridge --------------------------------
(***************************************************************************)
(* The manual bridge to a web architect: one task, its request packets,    *)
(* each answered under a nonce of its own, the route plan or the evidence  *)
(* an answer asks for, and the review of the result.                       *)
(*                                                                         *)
(* Every handler runs to its end before the next one starts, but it is     *)
(* made of several commits and the process may die between any two.        *)
(***************************************************************************)
EXTENDS Naturals, FiniteSets

CONSTANTS
  Index,     \* positions in the list of requests of a response
  Ask,       \* evidence requests: type, label, reason
  Optional,  \* the requests that are not required
  Source,    \* files of the project a request may be mapped to
  None,
  MaxNonce,  \* bound: packets sealed for the task
  MaxCrash   \* bound: restarts of the server

ASSUME BridgeAssumption ==
  /\ MaxNonce \in Nat \ {0} /\ MaxCrash \in Nat
  /\ Optional \subseteq Ask
  /\ None \notin Ask \cup Source \cup [ask : Ask, source : Source]

VARIABLES
  task,     \* bridge_tasks: the payload of the task
  nonces,   \* bridge_nonces
  plans,    \* route_plans, by the nonce in their idempotency key
  rows,     \* evidence_requests, by position
  results,  \* evidence_results, by position: the ones that are READY
  ledger,   \* ledger_usage_events of collected evidence
  expired,  \* whether 30 minutes have passed since the packet was sealed
  op,       \* the handler between two of its commits
  crashes

vars == <<task, nonces, plans, rows, results, ledger, expired, op, crashes>>

Nonce == 1 .. MaxNonce
Final == {"SUCCESS", "HOLD", "REDESIGN", "ROLLBACK"}
Copyable == {"ARCHITECT_READY", "WAITING_ARCHITECT", "REVIEW_READY", "WAITING_REVIEW"}
Status == Final \cup Copyable \cup {"ROUTE_READY", "NEED_MORE_EVIDENCE", "PROCESSING_RESPONSE"}
Phase(status) == IF status \in {"ARCHITECT_READY", "WAITING_ARCHITECT"} THEN "ARCHITECT" ELSE "REVIEW"

NoAsks == [i \in Index |-> None]
Architect ==
  {[outcome |-> "execute", asks |-> NoAsks]}
  \cup [outcome : {"need_more_evidence"}, asks : [Index -> Ask \cup {None}]]
Review == [outcome : {"SUCCESS", "HOLD", "RETRY", "REDESIGN", "ROLLBACK"}, asks : {NoAsks}]
\* The responses the contract of a packet allows.
Responses(phase) == IF phase = "ARCHITECT" THEN Architect ELSE Review

ASSUME NoneIsNoResponse == None \notin Architect \cup Review

Result == [ask : Ask, source : Source]
NoResults == [i \in Index |-> None]
NoRow == [state |-> "none", ask |-> None, source |-> None]
Unissued == [state |-> "unissued", phase |-> None, response |-> None]
Idle == [at |-> "idle", index |-> None]

Issue(rs, n, phase) ==
  [rs EXCEPT ![n] = [state |-> "issued", phase |-> phase, response |-> None]]

Init ==
  /\ task = [status |-> "ARCHITECT_READY", nonce |-> 1, plan |-> 0,
             asked |-> NoAsks, evidence |-> NoResults]
  /\ nonces = Issue([n \in Nonce |-> Unissued], 1, "ARCHITECT")
  /\ plans = [n \in Nonce |-> "none"]
  /\ rows = [i \in Index |-> NoRow] /\ results = NoResults /\ ledger = {}
  /\ expired = FALSE /\ op = Idle /\ crashes = 0

----------------------------------------------------------------------------
(* Saving the task.                                                          *)

\* The next nonce of the task.  A response or a collection, which may seal a
\* packet in the end, begins only while there is one within the bound.
Fresh == Cardinality({n \in Nonce : nonces[n].state # "unissued"}) + 1
Settle(n, state) == [nonces EXCEPT ![n].state = state]

\* Seal a request in the record t: a new nonce and 30 more minutes.
Seal(t, status, rs) ==
  /\ Fresh \in Nonce
  /\ task' = [t EXCEPT !.status = status, !.nonce = Fresh]
  /\ nonces' = Issue(rs, Fresh, Phase(status))
  /\ expired' = FALSE

\* The record a new architect cycle starts from.
NewCycle == [task EXCEPT !.plan = 0, !.asked = NoAsks, !.evidence = NoResults]

Held == [task EXCEPT !.status = "HOLD", !.nonce = 0]

----------------------------------------------------------------------------
(* Packets.                                                                  *)

Expire == /\ task.status \in Copyable /\ ~ expired
          /\ expired' = TRUE
          /\ UNCHANGED <<task, nonces, plans, rows, results, ledger, op, crashes>>

\* A packet is asked for that is expired, unsafe or over 60 KB.  Its nonce
\* stays issued.
PacketHeld ==
  /\ op = Idle /\ task.status \in Copyable
  /\ task' = Held
  /\ UNCHANGED <<nonces, plans, rows, results, ledger, expired, op, crashes>>

Copied ==
  /\ op = Idle
  /\ \/ task.status = "ARCHITECT_READY" /\ task' = [task EXCEPT !.status = "WAITING_ARCHITECT"]
     \/ task.status = "REVIEW_READY" /\ task' = [task EXCEPT !.status = "WAITING_REVIEW"]
  /\ UNCHANGED <<nonces, plans, rows, results, ledger, expired, op, crashes>>

PrepareReview ==
  /\ op = Idle /\ task.status = "ROUTE_READY"
  /\ Seal(task, "REVIEW_READY", nonces)
  /\ UNCHANGED <<plans, rows, results, ledger, op, crashes>>

\* The result or the validation the user pasted is unsafe.
PrepareHeld ==
  /\ op = Idle /\ task.status = "ROUTE_READY"
  /\ task' = Held
  /\ UNCHANGED <<nonces, plans, rows, results, ledger, expired, op, crashes>>

RestartCycle ==
  /\ op = Idle /\ task.status \in Final
  /\ Seal(NewCycle, "ARCHITECT_READY", nonces)
  /\ UNCHANGED <<plans, rows, results, ledger, op, crashes>>

----------------------------------------------------------------------------
(* Importing a response: the commit that claims the nonce, then the effects. *)

Answered(n, response, state) ==
  [nonces EXCEPT ![n].state = state, ![n].response = response]

\* A pasted response, written for the packet of the nonce n.  Any other nonce
\* than the pending one is refused, and the same response again is answered
\* with the task as it is.
Import(n, response) ==
  /\ op = Idle /\ task.status \in {"WAITING_ARCHITECT", "WAITING_REVIEW"}
  /\ n = task.nonce /\ response \in Responses(Phase(task.status))
  /\ nonces[n].state = "issued" /\ Fresh \in Nonce
  /\ \/ /\ expired
        /\ nonces' = Answered(n, response, "failed") /\ task' = Held /\ UNCHANGED op
     \/ /\ ~ expired
        /\ nonces' = Answered(n, response, "claimed")
        /\ task' = [task EXCEPT !.status = "PROCESSING_RESPONSE"]
        /\ op' = [Idle EXCEPT !.at = "claimed"]
  /\ UNCHANGED <<plans, rows, results, ledger, expired, crashes>>

Claimed(outcome) == op.at = "claimed" /\ nonces[task.nonce].response.outcome = outcome

\* The gateway's create_route_plan, one plan per idempotency key.
CreatePlan(status) ==
  /\ Claimed("execute")
  /\ plans' = IF plans[task.nonce] = "none" THEN [plans EXCEPT ![task.nonce] = status] ELSE plans
  /\ op' = [op EXCEPT !.at = "planned"]
  /\ UNCHANGED <<task, nonces, rows, results, ledger, expired, crashes>>

\* Mutant: the nonce is not failed with the task.
PlanFailsQuietly ==
  /\ Claimed("execute")
  /\ task' = Held /\ op' = Idle
  /\ UNCHANGED <<nonces, plans, rows, results, ledger, expired, crashes>>

PlanFails ==
  /\ Claimed("execute")
  /\ task' = Held /\ nonces' = Settle(task.nonce, "failed") /\ op' = Idle
  /\ UNCHANGED <<plans, rows, results, ledger, expired, crashes>>

\* Mutant: the status of the plan becomes the task's.
PlanStatus(status) == status
\* Mutant: the status of the plan is not looked at.
AlwaysReady(status) == "ROUTE_READY"
\* A plan on HOLD holds the task.
PlanState(status) == IF status = "PREVIEW" THEN "ROUTE_READY" ELSE "HOLD"

SavePlan ==
  /\ op.at = "planned"
  /\ task' = [task EXCEPT !.status = PlanState(plans[task.nonce]), !.nonce = 0,
                          !.plan = task.nonce]
  /\ nonces' = Settle(task.nonce, "completed") /\ op' = Idle
  /\ UNCHANGED <<plans, rows, results, ledger, expired, crashes>>

AskEvidence ==
  /\ Claimed("need_more_evidence")
  /\ task' = [task EXCEPT !.status = "NEED_MORE_EVIDENCE", !.nonce = 0,
                          !.asked = nonces[task.nonce].response.asks]
  /\ nonces' = Settle(task.nonce, "completed")
  /\ op' = [op EXCEPT !.at = "asked"]
  /\ UNCHANGED <<plans, rows, results, ledger, expired, crashes>>

\* The id of a request is made of the task and the position: a row that is
\* there already stays as it is.
CreateRequests ==
  /\ op.at = "asked"
  /\ rows' = [i \in Index |->
       IF task.asked[i] = None \/ rows[i] # NoRow THEN rows[i]
       ELSE [NoRow EXCEPT !.state = "REQUESTED", !.ask = task.asked[i]]]
  /\ op' = Idle
  /\ UNCHANGED <<task, nonces, plans, results, ledger, expired, crashes>>

TakeVerdict(verdict) ==
  /\ verdict \in Final /\ Claimed(verdict)
  /\ task' = [task EXCEPT !.status = verdict, !.nonce = 0]
  /\ nonces' = Settle(task.nonce, "completed") /\ op' = Idle
  /\ UNCHANGED <<plans, rows, results, ledger, expired, crashes>>

Retry ==
  /\ Claimed("RETRY")
  /\ Seal(NewCycle, "ARCHITECT_READY", Settle(task.nonce, "completed"))
  /\ op' = Idle
  /\ UNCHANGED <<plans, rows, results, ledger, crashes>>

----------------------------------------------------------------------------
(* Evidence.                                                                 *)

MapEvidence(i, s) ==
  /\ op = Idle /\ task.status = "NEED_MORE_EVIDENCE" /\ rows[i] # NoRow
  /\ rows' = [rows EXCEPT ![i].state = "MAPPED", ![i].source = s]
  /\ UNCHANGED <<task, nonces, plans, results, ledger, expired, op, crashes>>

\* Mutant: one collected request is enough.
NothingMissing == \E i \in Index : rows[i].state = "READY"
\* Every required row of the task is ready, of whichever cycle it is.
NoneMissing == \A i \in Index :
  rows[i] # NoRow /\ rows[i].ask \notin Optional => rows[i].state = "READY"

\* Seal the next packet when the evidence is complete.
Advance ==
  \/ /\ NoneMissing
     /\ Seal([task EXCEPT !.evidence = [i \in Index |->
                IF rows[i].state = "READY" THEN results[i] ELSE None]],
             "ARCHITECT_READY", nonces)
  \/ /\ ~ NoneMissing
     /\ UNCHANGED <<task, nonces, expired>>

\* A row that is READY is not collected again.
CollectAgain(i) ==
  /\ op = Idle /\ task.status = "NEED_MORE_EVIDENCE"
  /\ rows[i].state = "READY" /\ results[i] # None
  /\ Advance
  /\ UNCHANGED <<plans, rows, results, ledger, op, crashes>>

BeginCollect(i) ==
  /\ op = Idle /\ task.status = "NEED_MORE_EVIDENCE"
  /\ rows[i].state \in {"MAPPED", "FAILED", "COLLECTING"} /\ Fresh \in Nonce
  /\ rows' = [rows EXCEPT ![i].state = "COLLECTING"]
  /\ op' = [at |-> "collecting", index |-> i]
  /\ UNCHANGED <<task, nonces, plans, results, ledger, expired, crashes>>

Failed(i) == /\ rows' = [rows EXCEPT ![i].state = "FAILED"]
             /\ results' = [results EXCEPT ![i] = None]
             /\ op' = Idle

\* The collector refuses the file, or a limit of the packet is reached.
CollectFails ==
  /\ op.at = "collecting" /\ Failed(op.index)
  /\ UNCHANGED <<task, nonces, plans, ledger, expired, crashes>>

\* Any other exception, such as a file that is gone: the row stays COLLECTING
\* and may be collected again.
CollectRaises ==
  /\ op.at = "collecting" /\ op' = Idle
  /\ UNCHANGED <<task, nonces, plans, rows, results, ledger, expired, crashes>>

CollectEnds ==
  LET i == op.index IN
  /\ op.at = "collecting"
  /\ rows' = [rows EXCEPT ![i].state = "READY"]
  /\ results' = [results EXCEPT ![i] = [ask |-> rows[i].ask, source |-> rows[i].source]]
  /\ op' = [op EXCEPT !.at = "collected"]
  /\ UNCHANGED <<task, nonces, plans, ledger, expired, crashes>>

\* The usage event of a result has the result's hash in its id and the time
\* in its content: the same result a second time is refused, and the refusal
\* is caught as a failure of the collection.
RecordUsage ==
  LET e == <<op.index, results[op.index]>> IN
  /\ op.at = "collected"
  /\ \/ e \in ledger /\ Failed(op.index) /\ UNCHANGED ledger
     \/ /\ e \notin ledger /\ ledger' = ledger \cup {e}
        /\ op' = [op EXCEPT !.at = "recorded"] /\ UNCHANGED <<rows, results>>
  /\ UNCHANGED <<task, nonces, plans, expired, crashes>>

CollectAdvances ==
  /\ op.at = "recorded" /\ Advance /\ op' = Idle
  /\ UNCHANGED <<plans, rows, results, ledger, crashes>>

----------------------------------------------------------------------------
\* Mutant: the nonce of a held task is left claimed.
NotRecovered == nonces

Recovered == Settle(task.nonce, "failed")

\* The server dies, between two commits or at rest, and starts again: a
\* response that was being processed holds its task.
Crash ==
  /\ crashes < MaxCrash /\ crashes' = crashes + 1
  /\ op' = Idle
  /\ \/ task.status = "PROCESSING_RESPONSE" /\ task' = Held /\ nonces' = Recovered
     \/ task.status # "PROCESSING_RESPONSE" /\ UNCHANGED <<task, nonces>>
  /\ UNCHANGED <<plans, rows, results, ledger, expired>>

\* The commits of a handler that is under way.
Commit ==
  \/ \E s \in {"PREVIEW", "HOLD"} : CreatePlan(s)
  \/ PlanFails \/ SavePlan
  \/ AskEvidence \/ CreateRequests
  \/ (\E v \in Final : TakeVerdict(v)) \/ Retry
  \/ CollectFails \/ CollectRaises \/ CollectEnds \/ RecordUsage \/ CollectAdvances

\* What the user does next.
User ==
  \/ PacketHeld \/ Copied \/ PrepareReview \/ PrepareHeld \/ RestartCycle
  \/ \E n \in Nonce : \E r \in Responses("ARCHITECT") \cup Responses("REVIEW") : Import(n, r)
  \/ \E i \in Index : CollectAgain(i) \/ BeginCollect(i) \/ \E s \in Source : MapEvidence(i, s)

Next == User \/ Commit \/ Expire \/ Crash

\* The event loop runs a handler it has begun to its end.
Spec == Init /\ [][Next]_vars /\ WF_vars(Commit)

----------------------------------------------------------------------------
(* Properties.                                                               *)

TypeOK ==
  /\ task \in [status : Status, nonce : 0 .. MaxNonce, plan : 0 .. MaxNonce,
               asked : [Index -> Ask \cup {None}], evidence : [Index -> Result \cup {None}]]
  /\ nonces \in [Nonce -> [state : {"unissued", "issued", "claimed", "completed", "failed"},
        phase : {"ARCHITECT", "REVIEW", None}, response : Architect \cup Review \cup {None}]]
  /\ plans \in [Nonce -> {"none", "PREVIEW", "HOLD"}]
  /\ rows \in [Index -> [state : {"none", "REQUESTED", "MAPPED", "COLLECTING", "READY", "FAILED"},
        ask : Ask \cup {None}, source : Source \cup {None}]]
  /\ results \in [Index -> Result \cup {None}]
  /\ ledger \subseteq Index \X Result
  /\ expired \in BOOLEAN /\ crashes \in 0 .. MaxCrash
  /\ op \in [at : {"idle", "claimed", "planned", "asked", "collecting", "collected", "recorded"},
             index : Index \cup {None}]

\* A packet the user can copy or answer carries a nonce nobody has answered,
\* of the phase the task is in, and a nonce is claimed exactly while the
\* response to it is being processed.
PendingIsOpen ==
  /\ task.status \in Copyable =>
       /\ task.nonce \in Nonce /\ nonces[task.nonce].state = "issued"
       /\ nonces[task.nonce].phase = Phase(task.status)
  /\ \A n \in Nonce : nonces[n].state = "claimed" <=>
       /\ task.status = "PROCESSING_RESPONSE" /\ n = task.nonce
       /\ op.at \in {"claimed", "planned"}

\* A task whose result is reviewed was planned by a plan that is a PREVIEW, made
\* for an execute response that was accepted; no other response makes a plan.
ReviewIsPlanned ==
  /\ task.status \in {"ROUTE_READY", "REVIEW_READY", "WAITING_REVIEW"} =>
       /\ task.plan \in Nonce /\ plans[task.plan] = "PREVIEW"
       /\ nonces[task.plan].state = "completed"
  /\ \A n \in Nonce : plans[n] # "none" =>
       nonces[n].response # None /\ nonces[n].response.outcome = "execute"

\* Types, and the plan behind a task under review.
TaskInOrder == TypeOK /\ ReviewIsPlanned

\* The evidence in a sealed packet is what is stored for the task, and nothing
\* the task requires is missing from it: the packet can be rebuilt with the
\* hash it was sealed with.
EvidenceIsStored ==
  task.status \in {"ARCHITECT_READY", "WAITING_ARCHITECT"} /\ task.evidence # NoResults =>
    \A i \in Index :
      /\ task.evidence[i] # None => task.evidence[i] = results[i] /\ rows[i].state = "READY"
      /\ rows[i] # NoRow /\ rows[i].ask \notin Optional => task.evidence[i] # None

\* Every response that claims a nonce is completed or failed in the end, also
\* when the server dies in the middle.
ResponseSettles ==
  \A n \in Nonce : nonces[n].state = "claimed" ~> nonces[n].state \in {"completed", "failed"}

\* README: the next packet carries the collected results once every required
\* request is READY.  They are results of the requests the last response made.
EvidenceIsAsAsked ==
  task.status = "ARCHITECT_READY" /\ task.evidence # NoResults =>
    \A i \in Index : task.asked[i] # None /\ task.asked[i] \notin Optional =>
      task.evidence[i] # None /\ task.evidence[i].ask = task.asked[i]
=============================================================================
