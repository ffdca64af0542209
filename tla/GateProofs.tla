------------------------------ MODULE GateProofs ------------------------------
(***************************************************************************)
(* The safety of the two models of class Gate, ApprovalGate and GateRun,   *)
(* for any sets of requests, clicks, plans and calls.                      *)
(*                                                                         *)
(* The approvals' invariant says, request by request, who is writing an    *)
(* answer and what the record's status tells about it.  The runs' says     *)
(* that a plan is used by one run, and that its use tells the truth about  *)
(* that run.                                                               *)
(***************************************************************************)
EXTENDS ApprovalGate, PlanAuthority, TLAPS

-----------------------------------------------------------------------------
(* The approval requests of a turn. *)

ApprovalIInv == ApprovalTypeOK /\ RequestsInOrder

\* The settled requests of a step that cancels timers: their timer is ended,
\* and an answer is counted only where the timer alone was writing one.
LEMMA TimersCut ==
  ASSUME ApprovalIInv, NEW Q \in SUBSET Request,
         NEW W \in SUBSET {q \in Q : TimerSends(q)},
         CancelTimers(Q, W)
  PROVE  /\ actor' \in [Request -> [Actor -> ActorState]]
         /\ answers' \in [Request -> Nat]
         /\ \A q \in Request \ Q : actor'[q] = actor[q] /\ answers'[q] = answers[q]
         /\ \A q \in Q : /\ answers'[q] \in {answers[q], answers[q] + 1}
                         /\ answers'[q] # answers[q] => TimerSends(q)
                         /\ actor'[q]["timer"] \notin Sending
                         /\ \A a \in Click : actor'[q][a] = actor[q][a]
<1> USE DEF ApprovalIInv, ApprovalTypeOK, CancelTimers, TimerSends, Sending, Actor, ActorState
<1>1. actor' \in [Request -> [Actor -> ActorState]]
  OBVIOUS
<1>2. answers' \in [Request -> Nat]
  OBVIOUS
<1>3. \A q \in Request \ Q : actor'[q] = actor[q] /\ answers'[q] = answers[q]
  OBVIOUS
<1>4. ASSUME NEW q \in Q
      PROVE  /\ answers'[q] \in {answers[q], answers[q] + 1}
             /\ answers'[q] # answers[q] => TimerSends(q)
             /\ actor'[q]["timer"] \notin Sending
             /\ \A a \in Click : "timer" # a => actor'[q][a] = actor[q][a]
  OBVIOUS
<1> QED BY <1>1, <1>2, <1>3, <1>4, RequestAssumption

\* A request none of whose variables changes stays in order.
LEMMA Frame ==
  ASSUME ApprovalIInv, NEW q \in Request,
         approval'[q] = approval[q], actor'[q] = actor[q],
         dispatch'[q] = dispatch[q], tracked'[q] = tracked[q],
         answers'[q] = answers[q], withdrawn'[q] = withdrawn[q],
         connection' # "down" => connection # "down"
  PROVE  RequestInOrder(q)'
<1>1. SenderAlone(q) /\ StatusTold(q) /\ ShownAfterDispatch(q)
  BY DEF ApprovalIInv, RequestsInOrder, RequestInOrder
<1>2. SenderAlone(q)'
  BY <1>1 DEF SenderAlone
<1>3. StatusTold(q)'
  BY <1>1 DEF StatusTold
<1>4. ShownAfterDispatch(q)'
  BY <1>1 DEF ShownAfterDispatch
<1> QED
  BY <1>2, <1>3, <1>4 DEF RequestInOrder

\* The steps of an incoming request.
LEMMA IncomingKeeps ==
  ASSUME ApprovalIInv, NEW q \in Request, Incoming(q)
  PROVE  ApprovalTypeOK' /\ RequestInOrder(q)'
<1> USE DEF ApprovalIInv, ApprovalTypeOK
<1>0. SenderAlone(q) /\ StatusTold(q) /\ ShownAfterDispatch(q)
  BY DEF RequestsInOrder, RequestInOrder
<1> USE DEF SenderAlone, StatusTold, ShownAfterDispatch, RequestInOrder
<1>1. CASE ServerAsks(q)
  BY <1>0, <1>1 DEF ServerAsks
<1>2. CASE Register(q)
  <2>1. ApprovalTypeOK'
    BY <1>2 DEF Register, Move, ApprovalStatus, ActorState, Actor, Sending
  <2>2. \A a \in Actor : actor'[q][a] \notin Sending
    BY <1>0, <1>2 DEF Register, Move, Actor, Sending
  <2> QED
    BY <1>0, <1>2, <2>1, <2>2 DEF Register
<1>3. CASE RejectRequest(q)
  BY <1>0, <1>3 DEF RejectRequest, Turndown
<1>4. CASE RejectForbidden(q)
  BY <1>0, <1>4 DEF RejectForbidden, Turndown, Interrupted
<1>5. CASE InterruptAnswered(q)
  BY <1>0, <1>5 DEF InterruptAnswered
<1>6. CASE InterruptFails(q)
  BY <1>0, <1>6 DEF InterruptFails
<1> QED
  BY <1>1, <1>2, <1>3, <1>4, <1>5, <1>6 DEF Incoming

\* The steps of a click or of the timer, up to its write.
LEMMA DecisionKeeps ==
  ASSUME ApprovalIInv, NEW q \in Request, NEW a \in Actor,
         \/ a \in Click /\ Decide(q, a)
         \/ a = "timer" /\ TimerWakes(q)
         \/ \E s \in Sending : SendDecision(q, a, s)
         \/ SendUntracked(q, a) \/ RefuseDecision(q, a)
  PROVE  ApprovalTypeOK' /\ RequestInOrder(q)'
<1> USE DEF ApprovalIInv, ApprovalTypeOK
<1>0. SenderAlone(q) /\ StatusTold(q) /\ ShownAfterDispatch(q)
  BY DEF RequestsInOrder, RequestInOrder
<1>1. ASSUME NEW s \in ActorState \ Sending, Move(q, a, s),
             actor[q][a] # "none" \/ approval[q] # "none",
             actor[q][a] \notin Sending,
             UNCHANGED <<approval, dispatch, tracked, connection, turnStatus, answers, withdrawn>>
      PROVE  ApprovalTypeOK' /\ RequestInOrder(q)'
  <2>1. ApprovalTypeOK'
    BY <1>1 DEF Move
  <2>2. \A b \in Actor : actor'[q][b] \in Sending <=> actor[q][b] \in Sending
    BY <1>1 DEF Move
  <2>3. SenderAlone(q)' /\ StatusTold(q)'
    BY <1>0, <1>1, <2>2 DEF SenderAlone, StatusTold
  <2>4. ShownAfterDispatch(q)'
    BY <1>0, <1>1 DEF ShownAfterDispatch
  <2> QED
    BY <2>1, <2>3, <2>4 DEF RequestInOrder
<1>2. {"none", "asleep", "waiting", "ended"} \subseteq ActorState \ Sending
  BY DEF ActorState, Sending
<1>3. CASE Decide(q, a)
  BY <1>1, <1>2, <1>3 DEF Decide, Sending
<1>4. CASE a = "timer" /\ TimerWakes(q)
  BY <1>1, <1>2, <1>4 DEF TimerWakes, Sending
<1>5. CASE SendUntracked(q, a)
  BY <1>1, <1>2, <1>5 DEF SendUntracked, Enter, Sending
<1>6. CASE RefuseDecision(q, a)
  BY <1>1, <1>2, <1>6 DEF RefuseDecision, Sending
<1>7. ASSUME NEW s \in Sending, SendDecision(q, a, s)
      PROVE  ApprovalTypeOK' /\ RequestInOrder(q)'
  <2>1. ApprovalTypeOK'
    BY <1>7 DEF SendDecision, Move, ApprovalStatus, ActorState
  <2>2. \A b \in Actor : actor'[q][b] \in Sending <=> b = a
    BY <1>7 DEF SendDecision, Enter, LockFree, Move
  <2>3. SenderAlone(q)' /\ StatusTold(q)'
    BY <1>0, <1>7, <2>2 DEF SendDecision, Enter, SenderAlone, StatusTold
  <2>4. ShownAfterDispatch(q)'
    BY <1>0, <1>7 DEF SendDecision, Enter, ShownAfterDispatch
  <2> QED
    BY <2>1, <2>3, <2>4 DEF RequestInOrder
<1> QED
  BY <1>3, <1>4, <1>5, <1>6, <1>7

\* The end of a write.
LEMMA WriteKeeps ==
  ASSUME ApprovalIInv, NEW q \in Request, NEW a \in Actor,
         FinishSend(q, a) \/ FailSend(q, a)
  PROVE  ApprovalTypeOK' /\ RequestInOrder(q)'
<1> USE DEF ApprovalIInv, ApprovalTypeOK
<1>0. SenderAlone(q) /\ StatusTold(q) /\ ShownAfterDispatch(q)
  BY DEF RequestsInOrder, RequestInOrder
<1>1. actor[q][a] \in Sending /\ (\A b \in Actor : actor[q][b] \in Sending => a = b)
  BY <1>0 DEF FinishSend, FailSend, SenderAlone
<1>2. \A b \in Actor : actor'[q][b] \notin Sending
  <2>1. CASE FinishSend(q, a)
    BY <1>1, <2>1 DEF FinishSend, Sending, Actor
  <2>2. CASE FailSend(q, a)
    BY <1>1, <2>2 DEF FailSend, Move, Sending
  <2> QED
    BY <2>1, <2>2
<1>3. ApprovalTypeOK'
  <2>1. CASE FinishSend(q, a)
    <3>1. "timer" \in Actor /\ "ended" \in ActorState
      BY DEF Actor, ActorState
    <3>2. actor' \in [Request -> [Actor -> ActorState]]
      BY <2>1, <3>1 DEF FinishSend
    <3>3. turnStatus' \in {"running", "interrupting", "over"}
      BY <2>1 DEF FinishSend, Interrupted
    <3> QED
      BY <2>1, <3>2, <3>3 DEF FinishSend, ApprovalStatus
  <2>2. CASE FailSend(q, a)
    BY <2>2 DEF FailSend, Reopen, Move, ApprovalStatus, ActorState
  <2> QED
    BY <2>1, <2>2
<1>4. SenderAlone(q)'
  BY <1>2 DEF SenderAlone
<1>5. StatusTold(q)'
  BY <1>0, <1>1 DEF StatusTold, SenderAlone, FinishSend, FailSend, Reopen
<1>6. ShownAfterDispatch(q)'
  BY <1>0, <1>1 DEF ShownAfterDispatch, SenderAlone, FinishSend, FailSend, Reopen
<1> QED
  BY <1>3, <1>4, <1>5, <1>6 DEF RequestInOrder

\* A step that settles the open requests of Q and cancels their timers.
LEMMA SettlingKeeps ==
  ASSUME ApprovalIInv, NEW Q \in SUBSET Request, \A q \in Q : Open(q),
         NEW W \in SUBSET {q \in Q : TimerSends(q)}, CancelTimers(Q, W),
         NEW s \in {"resolved", "cancel"},
         approval' = [q \in Request |-> IF q \in Q THEN s ELSE approval[q]],
         withdrawn' \in [Request -> BOOLEAN],
         \A q \in Request \ Q : withdrawn'[q] = withdrawn[q],
         \A q \in Request : withdrawn[q] => withdrawn'[q],
         s = "resolved" => \A q \in Q : withdrawn'[q],
         dispatch' = dispatch,
         connection' \in {"up", "broken", "down"},
         tracked' \in [Request -> BOOLEAN],
         connection' # "down" => connection' = connection /\ tracked' = tracked,
         turnStatus' \in {"running", "interrupting", "over"}
  PROVE  ApprovalTypeOK' /\ RequestsInOrder'
<1>1. ApprovalTypeOK'
  BY TimersCut DEF ApprovalIInv, ApprovalTypeOK, ApprovalStatus
<1> SUFFICES ASSUME NEW r \in Request PROVE RequestInOrder(r)'
  BY <1>1 DEF RequestsInOrder
<1>0. SenderAlone(r) /\ StatusTold(r) /\ ShownAfterDispatch(r)
  BY DEF ApprovalIInv, RequestsInOrder, RequestInOrder
<1>2. r \in Q => /\ answers'[r] # answers[r] =>
                       answers'[r] = 1 /\ \A a \in Actor : actor'[r][a] \notin Sending
                /\ \A a \in Actor : actor'[r][a] \in Sending => actor[r][a] \in Sending
  <2>1. SUFFICES ASSUME r \in Q PROVE
            /\ answers'[r] # answers[r] =>
                  answers'[r] = 1 /\ \A a \in Actor : actor'[r][a] \notin Sending
            /\ \A a \in Actor : actor'[r][a] \in Sending => actor[r][a] \in Sending
    OBVIOUS
  <2>2. /\ answers'[r] \in {answers[r], answers[r] + 1}
        /\ answers'[r] # answers[r] => TimerSends(r)
        /\ actor'[r]["timer"] \notin Sending
        /\ \A a \in Click : actor'[r][a] = actor[r][a]
    BY <2>1, TimersCut
  <2>3. TimerSends(r) =>
          answers[r] = 0 /\ \A a \in Click : actor[r][a] \notin Sending
    BY <1>0, RequestAssumption DEF SenderAlone, TimerSends, Actor
  <2> QED
    BY <2>2, <2>3 DEF Actor
<1>3. r \notin Q => actor'[r] = actor[r] /\ answers'[r] = answers[r]
  BY TimersCut
<1>4. CASE r \notin Q
  <2>1. approval'[r] = approval[r] /\ withdrawn'[r] = withdrawn[r]
    BY <1>4
  <2>2. SenderAlone(r)'
    BY <1>0, <1>3, <1>4, <2>1 DEF SenderAlone
  <2>3. StatusTold(r)'
    BY <1>0, <1>3, <1>4, <2>1 DEF StatusTold
  <2>4. ShownAfterDispatch(r)'
    BY <1>0, <1>3, <1>4, <2>1 DEF ShownAfterDispatch
  <2> QED
    BY <2>2, <2>3, <2>4 DEF RequestInOrder
<1>5. CASE r \in Q
  <2>1. approval'[r] = s /\ approval[r] \in {"pending", "responding"}
    BY <1>5 DEF Open
  <2>2. SenderAlone(r)'
    <3>1. SUFFICES ASSUME NEW a \in Actor, actor'[r][a] \in Sending
                   PROVE  /\ answers'[r] = 0
                          /\ connection' # "down" /\ ~withdrawn'[r] => tracked'[r]
                          /\ \A b \in Actor : actor'[r][b] \in Sending => a = b
      BY <2>1 DEF SenderAlone
    <3>2. actor[r][a] \in Sending /\ answers'[r] = answers[r]
      BY <1>2, <1>5, <3>1
    <3>3. connection' # "down" /\ ~withdrawn'[r] => tracked'[r]
      BY <1>0, <3>2 DEF SenderAlone
    <3> QED
      BY <1>0, <1>2, <1>5, <2>1, <3>1, <3>2, <3>3 DEF SenderAlone
  <2>3. StatusTold(r)'
    BY <1>0, <1>2, <1>5, <2>1 DEF StatusTold
  <2>4. ShownAfterDispatch(r)'
    BY <1>0, <1>5, <2>1 DEF ShownAfterDispatch
  <2> QED
    BY <2>2, <2>3, <2>4 DEF RequestInOrder
<1> QED
  BY <1>4, <1>5

LEMMA ApprovalsStart == ApprovalInit => ApprovalIInv
<1> SUFFICES ASSUME ApprovalInit PROVE ApprovalIInv
  OBVIOUS
<1>1. ApprovalTypeOK
  BY DEF ApprovalInit, ApprovalTypeOK, ApprovalStatus, ActorState
<1>2. RequestsInOrder
  BY DEF ApprovalInit, RequestsInOrder, RequestInOrder, SenderAlone, StatusTold, ShownAfterDispatch,
     Sending
<1> QED
  BY <1>1, <1>2 DEF ApprovalIInv

\* Requests a step does not touch stay in order.
LEMMA OthersKeep ==
  ASSUME ApprovalIInv, NEW q \in Request, ApprovalTypeOK', RequestInOrder(q)',
         connection' # "down" => connection # "down",
         \A r \in Request \ {q} :
           /\ approval'[r] = approval[r] /\ actor'[r] = actor[r]
           /\ dispatch'[r] = dispatch[r] /\ tracked'[r] = tracked[r]
           /\ answers'[r] = answers[r] /\ withdrawn'[r] = withdrawn[r]
  PROVE  ApprovalIInv'
<1>1. ASSUME NEW r \in Request PROVE RequestInOrder(r)'
  <2>1. CASE r = q
    BY <2>1
  <2>2. CASE r # q
    BY <2>2, Frame
  <2> QED
    BY <2>1, <2>2
<1> QED
  BY <1>1 DEF ApprovalIInv, RequestsInOrder

LEMMA ApprovalsKept == ApprovalIInv /\ [ApprovalNext]_approvalVars => ApprovalIInv'
<1> SUFFICES ASSUME ApprovalIInv, [ApprovalNext]_approvalVars PROVE ApprovalIInv'
  OBVIOUS
<1>1. ASSUME NEW q \in Request, Incoming(q) PROVE ApprovalIInv'
  <2>1. \A r \in Request \ {q} :
           /\ approval'[r] = approval[r] /\ actor'[r] = actor[r]
           /\ dispatch'[r] = dispatch[r] /\ tracked'[r] = tracked[r]
           /\ answers'[r] = answers[r] /\ withdrawn'[r] = withdrawn[r]
    BY <1>1 DEF ApprovalIInv, ApprovalTypeOK, Incoming, ServerAsks, Register, RejectRequest,
       RejectForbidden, InterruptAnswered, InterruptFails, Turndown, Move
  <2>2. connection' = connection
    BY <1>1 DEF Incoming, ServerAsks, Register, RejectRequest,
       RejectForbidden, InterruptAnswered, InterruptFails
  <2> QED
    BY <1>1, <2>1, <2>2, IncomingKeeps, OthersKeep
<1>2. ASSUME NEW q \in Request, NEW a \in Actor,
             \/ a \in Click /\ Decide(q, a)
             \/ a = "timer" /\ TimerWakes(q)
             \/ Resolve(q, a)
      PROVE  ApprovalIInv'
  <2>1. \A r \in Request \ {q} :
           /\ approval'[r] = approval[r] /\ actor'[r] = actor[r]
           /\ dispatch'[r] = dispatch[r] /\ tracked'[r] = tracked[r]
           /\ answers'[r] = answers[r] /\ withdrawn'[r] = withdrawn[r]
    BY <1>2 DEF ApprovalIInv, ApprovalTypeOK, Decide, TimerWakes, Resolve, SendDecision, SendUntracked,
       RefuseDecision, FinishSend, FailSend, Reopen, Move
  <2>2. connection' = connection
    BY <1>2 DEF Decide, TimerWakes, Resolve, SendDecision, SendUntracked,
       RefuseDecision, FinishSend, FailSend
  <2>3. ApprovalTypeOK' /\ RequestInOrder(q)'
    BY <1>2, DecisionKeeps, WriteKeeps DEF Resolve
  <2> QED
    BY <2>1, <2>2, <2>3, OthersKeep
<1>3. ASSUME NEW q \in Request, ServerResolves(q) PROVE ApprovalIInv'
  <2>1. PICK W \in SUBSET {x \in {q} : TimerSends(x)} : CancelTimers({q}, W)
    BY <1>3 DEF ServerResolves
  <2>2. /\ Open(q)
        /\ approval' = [r \in Request |-> IF r \in {q} THEN "resolved" ELSE approval[r]]
        /\ withdrawn' \in [Request -> BOOLEAN]
        /\ \A r \in Request \ {q} : withdrawn'[r] = withdrawn[r]
        /\ \A r \in Request : withdrawn[r] => withdrawn'[r]
        /\ withdrawn'[q]
        /\ UNCHANGED <<dispatch, connection, tracked, turnStatus>>
    BY <1>3 DEF ServerResolves, ApprovalIInv, ApprovalTypeOK
  <2>3. ApprovalTypeOK' /\ RequestsInOrder'
    BY <2>1, <2>2, SettlingKeeps DEF ApprovalIInv, ApprovalTypeOK
  <2> QED
    BY <2>3 DEF ApprovalIInv
<1>4. CASE TurnEnds
  <2> DEFINE Q == {q \in Request : Open(q)}
  <2>1. PICK W \in SUBSET {q \in Q : TimerSends(q)} : CancelTimers(Q, W)
    BY <1>4 DEF TurnEnds
  <2>2. /\ approval' = [r \in Request |-> IF r \in Q THEN "resolved" ELSE approval[r]]
        /\ withdrawn' \in [Request -> BOOLEAN]
        /\ \A r \in Request \ Q : withdrawn'[r] = withdrawn[r]
        /\ \A r \in Request : withdrawn[r] => withdrawn'[r]
        /\ \A r \in Q : withdrawn'[r]
        /\ turnStatus' = "over"
        /\ UNCHANGED <<dispatch, connection, tracked>>
    BY <1>4 DEF TurnEnds, ApprovalIInv, ApprovalTypeOK
  <2>3. ApprovalTypeOK' /\ RequestsInOrder'
    <3> HIDE DEF Q
    <3>1. Q \in SUBSET Request /\ \A q \in Q : Open(q)
      BY DEF Q
    <3> QED
      BY <2>1, <2>2, <3>1, SettlingKeeps DEF ApprovalIInv, ApprovalTypeOK
  <2> QED
    BY <2>3 DEF ApprovalIInv
<1>5. CASE HandleDisconnect
  <2> DEFINE Q == {q \in Request : Open(q)}
  <2>1. PICK W \in SUBSET {q \in Q : TimerSends(q)} : CancelTimers(Q, W)
    BY <1>5 DEF HandleDisconnect
  <2>2. /\ approval' = [r \in Request |-> IF r \in Q THEN "cancel" ELSE approval[r]]
        /\ tracked' \in [Request -> BOOLEAN]
        /\ connection' = "down"
        /\ UNCHANGED <<dispatch, turnStatus, withdrawn>>
    BY <1>5 DEF HandleDisconnect, Cancelled, ApprovalIInv, ApprovalTypeOK
  <2>3. ApprovalTypeOK' /\ RequestsInOrder'
    <3> HIDE DEF Q
    <3>1. Q \in SUBSET Request /\ \A q \in Q : Open(q)
      BY DEF Q
    <3> QED
      BY <2>1, <2>2, <3>1, SettlingKeeps DEF ApprovalIInv, ApprovalTypeOK
  <2> QED
    BY <2>3 DEF ApprovalIInv
<1>6. CASE Break \/ UNCHANGED approvalVars
  <2>1. /\ UNCHANGED <<approval, actor, dispatch, tracked, turnStatus, answers, withdrawn>>
        /\ connection' # "down" => connection # "down"
        /\ connection' \in {"up", "broken", "down"}
    BY <1>6 DEF Break, approvalVars, ApprovalIInv, ApprovalTypeOK
  <2>2. ApprovalTypeOK'
    BY <2>1 DEF ApprovalIInv, ApprovalTypeOK
  <2>3. RequestsInOrder'
    BY <2>1, Frame DEF RequestsInOrder
  <2> QED
    BY <2>2, <2>3 DEF ApprovalIInv
<1> QED
  BY <1>1, <1>2, <1>3, <1>4, <1>5, <1>6 DEF ApprovalNext, Actor

\* The inductive invariant holds in every run.
THEOREM RequestsAreInOrder == ApprovalSpec => [](ApprovalTypeOK /\ RequestsInOrder)
<1>1. ApprovalSpec => []ApprovalIInv
  BY ApprovalsStart, ApprovalsKept, PTL DEF ApprovalSpec
<1> QED
  BY <1>1, PTL DEF ApprovalIInv

\* Every variable keeps its type.
THEOREM ApprovalTypeCorrect == ApprovalSpec => []ApprovalTypeOK
BY RequestsAreInOrder, PTL

\* A request the user sees is answered at most once.
THEOREM ShownIsAnsweredOnce == ApprovalSpec => []ShownAnsweredOnce
<1>1. RequestsInOrder => ShownAnsweredOnce
  BY DEF RequestsInOrder, RequestInOrder, StatusTold, ShownAnsweredOnce
<1> QED
  BY <1>1, RequestsAreInOrder, PTL

\* No approval is reported resolved when its answer was lost.
THEOREM ResolvedIsAnswered == ApprovalSpec => []ResolvedWasAnswered
<1>1. RequestsInOrder => ResolvedWasAnswered
  BY DEF RequestsInOrder, RequestInOrder, StatusTold, ResolvedWasAnswered
<1> QED
  BY <1>1, RequestsAreInOrder, PTL

\* An approval in the middle of an answer has a coroutine that will settle it.
THEOREM RespondingHasSender == ApprovalSpec => []RespondingIsServed
<1>1. RequestsInOrder => RespondingIsServed
  BY DEF RequestsInOrder, RequestInOrder, StatusTold, RespondingIsServed
<1> QED
  BY <1>1, RequestsAreInOrder, PTL

\* A pending approval of a live connection can still be answered.
THEOREM PendingCanBeAnswered == ApprovalSpec => []PendingIsAnswerable
<1>1. RequestsInOrder => PendingIsAnswerable
  BY DEF RequestsInOrder, RequestInOrder, StatusTold, PendingIsAnswerable
<1> QED
  BY <1>1, RequestsAreInOrder, PTL

-----------------------------------------------------------------------------
(* The runs. *)

InOrder(c) == IF run[c] = "none" THEN Idle(c) ELSE OwnsUse(c)

Backed(p) ==
  use[p].status # "none" =>
    /\ use[p].owner \in Call
    /\ run[use[p].owner] # "none"
    /\ plan[use[p].owner] = p

IInv == TypeOK /\ RunsInOrder

LEMMA OrderParts ==
  RunsInOrder <=> (\A c \in Call : InOrder(c)) /\ (\A p \in Plan : Backed(p))
BY DEF RunsInOrder, InOrder, Backed

LEMMA InvariantStarts == Init => IInv
<1> SUFFICES ASSUME Init PROVE IInv
  OBVIOUS
<1>1. TypeOK
  BY DEF Init, TypeOK, UseStatus, CallState, Awaiting, RunStatus
<1>2. RunsInOrder
  BY DEF Init, RunsInOrder, Idle
<1> QED
  BY <1>1, <1>2 DEF IInv

\* A step of a call, or of its turn, that leaves every use alone.
LEMMA LocalStep ==
  ASSUME IInv, NEW c \in Call, TypeOK', InOrder(c)', use' = use,
         run[c] # "none" => run'[c] # "none",
         run[c] # "none" => plan'[c] = plan[c],
         \A d \in Call \ {c} :
           /\ run'[d] = run[d] /\ call'[d] = call[d] /\ plan'[d] = plan[d]
           /\ known'[d] = known[d] /\ thread'[d] = thread[d] /\ turn'[d] = turn[d]
           /\ completion'[d] = completion[d] /\ compaction'[d] = compaction[d]
  PROVE  IInv'
<1>1. ASSUME NEW d \in Call, d # c PROVE InOrder(d)'
  <2>1. InOrder(d)
    BY OrderParts DEF IInv
  <2> QED
    BY <1>1, <2>1 DEF InOrder, Idle, OwnsUse
<1>2. ASSUME NEW p \in Plan PROVE Backed(p)'
  <2>1. Backed(p)
    BY OrderParts DEF IInv
  <2> QED
    BY <2>1 DEF Backed
<1>3. RunsInOrder'
  <2>1. \A d \in Call : InOrder(d)'
    BY <1>1
  <2> QED
    BY <1>2, <2>1 DEF RunsInOrder, InOrder, Backed
<1> QED
  BY <1>3 DEF IInv

\* A step of a run that changes the status of its own plan's use.
LEMMA OwnerStep ==
  ASSUME IInv, NEW c \in Call, run[c] # "none",
         NEW s \in {"started", "failed", "completed"},
         use' = UpdatedUse(plan[c], s),
         TypeOK', run'[c] # "none", plan' = plan,
         call'[c] \notin {"none", "connecting"},
         completion'[c] # "none" => turn'[c] = "ended",
         call'[c] \notin {"threadStart", "lost"},
         s = "started" => /\ call'[c] \in {"turnStart", "cleanup", "ended"}
                          /\ completion'[c] \notin {"done", "raised"},
         s = "failed" => call'[c] = "ended" /\ completion'[c] # "done",
         s = "completed" => completion'[c] = "done",
         \A d \in Call \ {c} :
           /\ run'[d] = run[d] /\ call'[d] = call[d]
           /\ known'[d] = known[d] /\ thread'[d] = thread[d] /\ turn'[d] = turn[d]
           /\ completion'[d] = completion[d] /\ compaction'[d] = compaction[d]
  PROVE  IInv'
<1>0. \A d \in Call : InOrder(d)
  BY OrderParts DEF IInv
<1>1. plan[c] \in Plan /\ use[plan[c]].owner = c /\ use[plan[c]].status # "none"
  BY <1>0 DEF InOrder, OwnsUse
<1>2. /\ use'[plan[c]].status = s /\ use'[plan[c]].owner = c
      /\ \A p \in Plan \ {plan[c]} : use'[p] = use[p]
      /\ \A p \in Plan : use'[p].owner = use[p].owner
  BY <1>1 DEF UpdatedUse, IInv, TypeOK
<1>3. InOrder(c)'
  BY <1>1, <1>2 DEF InOrder, OwnsUse
<1>4. ASSUME NEW d \in Call, d # c PROVE InOrder(d)'
  <2>1. CASE run[d] = "none"
    BY <1>0, <1>4, <2>1 DEF InOrder, Idle
  <2>2. CASE run[d] # "none"
    <3>1. OwnsUse(d) /\ plan[d] # plan[c]
      BY <1>0, <1>1, <1>4, <2>2 DEF InOrder, OwnsUse
    <3> QED
      BY <1>2, <1>4, <2>2, <3>1 DEF InOrder, OwnsUse
  <2> QED
    BY <2>1, <2>2
<1>5. ASSUME NEW p \in Plan PROVE Backed(p)'
  <2>1. Backed(p)
    BY OrderParts DEF IInv
  <2> QED
    BY <1>1, <1>2, <2>1 DEF Backed
<1>6. RunsInOrder'
  <2>1. \A d \in Call : InOrder(d)'
    BY <1>3, <1>4
  <2> QED
    BY <1>5, <2>1 DEF RunsInOrder, InOrder, Backed
<1> QED
  BY <1>6 DEF IInv

\* Types.
LEMMA TypeKept ==
  ASSUME IInv, [Next]_vars
  PROVE  TypeOK'
<1> USE DEF IInv, TypeOK
<1> USE DEF CallState, Awaiting, RunStatus, TurnResult
<1>0. ASSUME NEW p \in Plan, NEW s \in UseStatus
      PROVE  UpdatedUse(p, s) \in [Plan -> [status : UseStatus, owner : Call \cup {None}]]
  BY DEF UpdatedUse
<1>a. {"started", "failed", "completed", "claimed"} \subseteq UseStatus
  BY DEF UseStatus
<1>b. \A c \in Call : /\ call[c] \in {"connecting", "threadStart", "cleanup"} => plan[c] \in Plan
                      /\ completion[c] = "finishing" => plan[c] \in Plan
  BY OrderParts DEF InOrder, Idle, OwnsUse
<1>1. ASSUME NEW c \in Call, Start(c) PROVE TypeOK'
  <2>1. CASE \E p \in Plan : LoadPlan(c, p)
    BY <2>1 DEF LoadPlan, server, tasks
  <2>2. CASE ClaimPlan(c)
    <3>1. use' \in [Plan -> [status : UseStatus, owner : Call \cup {None}]]
      BY <2>2, <1>a DEF ClaimPlan, Claimed
    <3>2. /\ call' \in [Call -> CallState]
          /\ run' \in [Call -> RunStatus] /\ saved' \in [Call -> RunStatus]
          /\ thread' \in [Call -> {"none", "requested", "subscribed", "dropped", "lost", "gone"}]
      BY <2>2 DEF ClaimPlan, Persist
    <3>3. UNCHANGED <<plan, known, turn, completion, compaction, interrupted>>
      BY <2>2 DEF ClaimPlan, tasks
    <3> QED
      BY <3>1, <3>2, <3>3
  <2>3. CASE RefuseStart(c)
    BY <2>3 DEF RefuseStart, server, tasks
  <2> QED
    BY <1>1, <2>1, <2>2, <2>3 DEF Start
<1>2. ASSUME NEW c \in Call, Answer(c) PROVE TypeOK'
  <2>1. CASE ThreadStarted(c)
    BY <2>1, <1>0, <1>a, <1>b DEF ThreadStarted, tasks
  <2>2. CASE FailThreadStart(c)
    BY <2>2, <1>0, <1>a, <1>b DEF FailThreadStart, Persist, server, tasks
  <2>3. CASE TurnStarted(c)
    BY <2>3 DEF TurnStarted, Persist, server, tasks
  <2>4. CASE FailTurnStart(c)
    BY <2>4 DEF FailTurnStart, server, tasks
  <2>5. CASE FinishCleanup(c)
    BY <2>5, <1>0, <1>a, <1>b DEF FinishCleanup, Persist, server, tasks
  <2>6. CASE RaiseCleanup(c)
    BY <2>6 DEF RaiseCleanup, server, tasks
  <2> QED
    BY <1>2, <2>1, <2>2, <2>3, <2>4, <2>5, <2>6 DEF Answer
<1>3. ASSUME NEW c \in Call, Complete(c) PROVE TypeOK'
  <2>1. CASE \E result \in TurnResult : HandleCompleted(c, result)
    BY <2>1 DEF HandleCompleted, server
  <2>2. CASE FinishCompleted(c)
    BY <2>2, <1>0, <1>a, <1>b DEF FinishCompleted, Persist, server
  <2>3. CASE RaiseCompleted(c)
    BY <2>3 DEF RaiseCompleted, gate, server
  <2> QED
    BY <1>3, <2>1, <2>2, <2>3 DEF Complete
<1>4. ASSUME NEW c \in Call, Server(c) PROVE TypeOK'
  BY <1>4 DEF Server, OpenThread, BeginTurn, DropThread, EndTurn, Compact, gate, server, tasks
<1>5. ASSUME NEW c \in Call, Compacted(c) \/ UserInterrupts(c) PROVE TypeOK'
  <2>1. CASE HandleCompacted(c) \/ UserInterrupts(c)
    <3>1. interrupted' \in [Call -> BOOLEAN]
      BY <2>1 DEF HandleCompacted, UserInterrupts, Interrupt
    <3>2. run' \in [Call -> RunStatus]
      BY <2>1 DEF HandleCompacted, UserInterrupts, Interrupt
    <3>3. compaction' \in [Call -> {"none", "queued", "interrupting", "done", "lost"}]
      BY <2>1 DEF HandleCompacted, UserInterrupts, tasks
    <3>4. UNCHANGED <<use, call, plan, saved, known, thread, turn, completion>>
      BY <2>1 DEF HandleCompacted, UserInterrupts, server, tasks
    <3> QED
      BY <3>1, <3>2, <3>3, <3>4
  <2>2. CASE IgnoreCompacted(c)
    BY <2>2 DEF IgnoreCompacted, Persist, server
  <2>3. CASE FinishCompacted(c)
    BY <2>3 DEF FinishCompacted, server
  <2> QED
    BY <1>5, <2>1, <2>2, <2>3 DEF Compacted
<1>6. CASE Disconnect \/ Restart
  <2>1. /\ thread' \in [Call -> {"none", "requested", "subscribed", "dropped", "lost", "gone"}]
        /\ turn' \in [Call -> {"none", "requested", "running", "ended", "lost", "gone"}]
    BY <1>6 DEF Disconnect, Restart, ServerEnds
  <2>2. CASE Disconnect
    BY <2>1, <2>2 DEF Disconnect, gate, tasks
  <2>3. CASE Restart
    BY <2>1, <2>3 DEF Restart, MemoryLost
  <2> QED
    BY <1>6, <2>2, <2>3
<1>7. CASE UNCHANGED vars
  BY <1>7 DEF vars
<1> QED
  BY <1>1, <1>2, <1>3, <1>4, <1>5, <1>6, <1>7 DEF Next

\* Each action preserves the order of the runs.
LEMMA InvariantKept == IInv /\ [Next]_vars => IInv'
<1> SUFFICES ASSUME IInv, [Next]_vars PROVE IInv'
  OBVIOUS
<1>a. TypeOK'
  BY TypeKept
<1>b. \A c \in Call : InOrder(c)
  BY OrderParts DEF IInv
<1>c. TypeOK
  BY DEF IInv
<1>1. ASSUME NEW c \in Call, NEW p \in Plan, LoadPlan(c, p) PROVE IInv'
  <2>1. InOrder(c)'
    BY <1>1, <1>b, <1>c DEF LoadPlan, InOrder, Idle, OwnsUse, TypeOK, server, tasks
  <2>2. run[c] = "none"
    BY <1>1, <1>b DEF LoadPlan, InOrder, OwnsUse
  <2>3. \A d \in Call \ {c} : call'[d] = call[d] /\ plan'[d] = plan[d]
    BY <1>1, <1>c DEF LoadPlan, TypeOK
  <2> QED
    BY <1>1, <1>a, <2>1, <2>2, <2>3, LocalStep DEF LoadPlan, server, tasks
<1>2. ASSUME NEW c \in Call, ClaimPlan(c) PROVE IInv'
  <2>1. run[c] = "none" /\ plan[c] \in Plan /\ use[plan[c]].status = "none"
    BY <1>2, <1>b DEF ClaimPlan, Unclaimed, InOrder, Idle, OwnsUse
  <2>2. /\ use'[plan[c]] = [status |-> "claimed", owner |-> c]
        /\ \A p \in Plan \ {plan[c]} : use'[p] = use[p]
    BY <1>2, <1>c, <2>1 DEF ClaimPlan, Claimed, TypeOK
  <2>3. /\ run'[c] = "starting" /\ call'[c] = "threadStart" /\ plan' = plan
        /\ \A d \in Call \ {c} : /\ run'[d] = run[d] /\ call'[d] = call[d]
                                 /\ thread'[d] = thread[d]
        /\ UNCHANGED <<known, turn, completion, compaction>>
    BY <1>2, <1>c DEF ClaimPlan, TypeOK, tasks
  <2>4. InOrder(c)'
    BY <1>b, <2>1, <2>2, <2>3 DEF InOrder, Idle, OwnsUse
  <2>5. ASSUME NEW d \in Call, d # c PROVE InOrder(d)'
    <3>1. CASE run[d] = "none"
      BY <1>b, <2>3, <2>5, <3>1 DEF InOrder, Idle
    <3>2. CASE run[d] # "none"
      <4>1. OwnsUse(d) /\ plan[d] # plan[c]
        BY <1>b, <2>1, <3>2 DEF InOrder, OwnsUse
      <4> QED
        BY <2>2, <2>3, <2>5, <3>2, <4>1 DEF InOrder, OwnsUse
    <3> QED
      BY <3>1, <3>2
  <2>6. ASSUME NEW p \in Plan PROVE Backed(p)'
    <3>1. Backed(p)
      BY OrderParts DEF IInv
    <3>2. CASE p = plan[c]
      BY <2>2, <2>3, <3>2 DEF Backed
    <3>3. CASE p # plan[c]
      BY <2>1, <2>2, <2>3, <3>1, <3>3 DEF Backed
    <3> QED
      BY <3>2, <3>3
  <2>7. \A d \in Call : InOrder(d)'
    BY <2>4, <2>5
  <2> QED
    BY <1>a, <2>6, <2>7 DEF IInv, RunsInOrder, InOrder, Backed
<1>3. ASSUME NEW c \in Call, RefuseStart(c) PROVE IInv'
  <2>1. run[c] = "none"
    BY <1>3, <1>b DEF RefuseStart, InOrder, OwnsUse
  <2>2. InOrder(c)'
    BY <1>3, <1>b, <1>c, <2>1 DEF RefuseStart, InOrder, Idle, TypeOK, server, tasks
  <2>3. \A d \in Call \ {c} : call'[d] = call[d]
    BY <1>3, <1>c DEF RefuseStart, TypeOK
  <2> QED
    BY <1>3, <1>a, <2>1, <2>2, <2>3, LocalStep DEF RefuseStart, server, tasks
<1>4. ASSUME NEW c \in Call, ThreadStarted(c) PROVE IInv'
  <2>1. run[c] # "none" /\ completion[c] = "none"
    BY <1>4, <1>b, <1>c DEF ThreadStarted, InOrder, Idle, OwnsUse
  <2>2. /\ call'[c] = "turnStart"
        /\ \A d \in Call \ {c} : /\ call'[d] = call[d] /\ known'[d] = known[d]
                                 /\ turn'[d] = turn[d]
    BY <1>4, <1>c DEF ThreadStarted, TypeOK
  <2> QED
    BY <1>4, <1>a, <2>1, <2>2, OwnerStep DEF ThreadStarted, tasks
<1>5. ASSUME NEW c \in Call, FailThreadStart(c) PROVE IInv'
  <2>1. run[c] # "none" /\ completion[c] = "none"
    BY <1>5, <1>b DEF FailThreadStart, InOrder, Idle, OwnsUse
  <2>2. /\ call'[c] = "ended" /\ run'[c] = "failed"
        /\ \A d \in Call \ {c} : call'[d] = call[d] /\ run'[d] = run[d]
    BY <1>5, <1>c DEF FailThreadStart, TypeOK
  <2> QED
    BY <1>5, <1>a, <2>1, <2>2, OwnerStep DEF FailThreadStart, server, tasks
<1>6. ASSUME NEW c \in Call,
             TurnStarted(c) \/ FailTurnStart(c) \/ RaiseCleanup(c)
      PROVE  IInv'
  <2>1. run[c] # "none"
    BY <1>6, <1>b DEF TurnStarted, FailTurnStart, RaiseCleanup, InOrder, Idle
  <2>2. /\ run'[c] # "none"
        /\ call'[c] = IF TurnStarted(c) THEN "ended"
                      ELSE IF FailTurnStart(c) THEN "cleanup" ELSE "raised"
        /\ \A d \in Call \ {c} : /\ call'[d] = call[d] /\ run'[d] = run[d]
                                 /\ known'[d] = known[d]
        /\ UNCHANGED <<use, plan, thread, turn, completion, compaction>>
    BY <1>6, <1>c, <2>1 DEF TurnStarted, FailTurnStart, RaiseCleanup, TypeOK, server, tasks
  <2>3. OwnsUse(c)
    BY <1>b, <2>1 DEF InOrder
  <2>4. RaiseCleanup(c) => use[plan[c]].status = "completed"
    BY <1>c, <2>3 DEF RaiseCleanup, Accepts, OwnsUse, TypeOK, UseStatus
  <2>5. call[c] \in {"turnStart", "cleanup"}
    BY <1>6 DEF TurnStarted, FailTurnStart, RaiseCleanup
  <2>6. OwnsUse(c)'
    BY <1>6, <2>2, <2>3, <2>4, <2>5 DEF OwnsUse
  <2>7. InOrder(c)'
    BY <2>2, <2>6 DEF InOrder
  <2> QED
    BY <1>a, <2>2, <2>7, LocalStep
<1>7. ASSUME NEW c \in Call, FinishCleanup(c) PROVE IInv'
  <2>1. run[c] # "none"
    BY <1>7, <1>b DEF FinishCleanup, InOrder, Idle
  <2>2. /\ call'[c] = "ended"
        /\ \A d \in Call \ {c} : call'[d] = call[d]
    BY <1>7, <1>c DEF FinishCleanup, TypeOK
  <2>3. completion[c] # "done" /\ (completion[c] # "none" => turn[c] = "ended")
    BY <1>7, <1>b, <2>1 DEF FinishCleanup, Accepts, InOrder, OwnsUse
  <2> QED
    BY <1>7, <1>a, <2>1, <2>2, <2>3, OwnerStep DEF FinishCleanup, server, tasks
<1>8. ASSUME NEW c \in Call,
             \/ \E result \in TurnResult : HandleCompleted(c, result)
             \/ RaiseCompleted(c)
      PROVE  IInv'
  <2>1. run[c] # "none"
    BY <1>8, <1>b DEF HandleCompleted, RaiseCompleted, InOrder, Idle
  <2>2. /\ run'[c] # "none"
        /\ completion[c] \in {"queued", "finishing"}
        /\ completion'[c] \in {"finishing", "raised"}
        /\ completion'[c] = "raised" => use[plan[c]].status # "started"
        /\ \A d \in Call \ {c} : completion'[d] = completion[d] /\ run'[d] = run[d]
        /\ UNCHANGED <<use, call, plan, known, thread, turn, compaction>>
    BY <1>8, <1>c, <2>1 DEF HandleCompleted, RaiseCompleted, Accepts, TurnResult, TypeOK,
       gate, server
  <2>3. OwnsUse(c)
    BY <1>b, <2>1 DEF InOrder
  <2>4. InOrder(c)'
    BY <2>2, <2>3 DEF InOrder, OwnsUse
  <2> QED
    BY <1>a, <2>2, <2>4, LocalStep
<1>9. ASSUME NEW c \in Call, FinishCompleted(c) PROVE IInv'
  <2>1. run[c] # "none"
    BY <1>9, <1>b DEF FinishCompleted, InOrder, Idle
  <2>2. /\ completion'[c] = "done"
        /\ \A d \in Call \ {c} : completion'[d] = completion[d]
    BY <1>9, <1>c DEF FinishCompleted, TypeOK
  <2>3. /\ turn[c] = "ended"
        /\ call[c] \in {"turnStart", "cleanup", "ended"}
    BY <1>9, <1>b, <2>1 DEF FinishCompleted, Accepts, InOrder, OwnsUse
  <2> QED
    BY <1>9, <1>a, <2>1, <2>2, <2>3, OwnerStep DEF FinishCompleted, server
<1>10. ASSUME NEW c \in Call, Server(c) PROVE IInv'
  <2>1. thread[c] # "none" \/ turn[c] # "none"
    BY <1>10 DEF Server, OpenThread, BeginTurn, DropThread, EndTurn, Compact
  <2>2. run[c] # "none" /\ OwnsUse(c)
    BY <1>b, <2>1 DEF InOrder, Idle
  <2>3. /\ UNCHANGED <<use, run, call, plan, known>>
        /\ turn[c] = "none" => turn'[c] = "none"
        /\ turn[c] = "ended" => turn'[c] = "ended"
        /\ turn'[c] \in {"requested", "running"} => turn[c] \in {"requested", "running"}
        /\ \/ completion'[c] = completion[c]
           \/ turn[c] = "running" /\ turn'[c] = "ended" /\ completion'[c] = "queued"
        /\ \A d \in Call \ {c} : /\ thread'[d] = thread[d] /\ turn'[d] = turn[d]
                                 /\ completion'[d] = completion[d]
                                 /\ compaction'[d] = compaction[d]
    BY <1>10, <1>c DEF Server, OpenThread, BeginTurn, DropThread, EndTurn, Compact, TypeOK,
       gate, tasks, server
  <2>4. OwnsUse(c)'
    <3>1. completion'[c] # "none" => turn'[c] = "ended"
      BY <2>2, <2>3 DEF OwnsUse
    <3>2. completion'[c] = "done" <=> completion[c] = "done"
      BY <2>2, <2>3 DEF OwnsUse
    <3>3. completion'[c] = "raised" => completion[c] = "raised"
      BY <2>3
    <3>4. UNCHANGED <<use, call, plan>> /\ (turn[c] = "none" => turn'[c] = "none")
      BY <2>3
    <3>5. call'[c] = "lost" => /\ turn'[c] \notin {"requested", "running"}
                               /\ completion'[c] \notin {"queued", "finishing"}
      BY <2>2, <2>3 DEF OwnsUse
    <3> QED
      BY <2>2, <3>1, <3>2, <3>3, <3>4, <3>5 DEF OwnsUse
  <2>5. InOrder(c)'
    BY <2>2, <2>3, <2>4 DEF InOrder
  <2> QED
    BY <1>a, <2>2, <2>3, <2>5, LocalStep
<1>11. ASSUME NEW c \in Call, Compacted(c) \/ UserInterrupts(c) PROVE IInv'
  <2>1. run[c] # "none" /\ OwnsUse(c)
    BY <1>11, <1>b DEF Compacted, HandleCompacted, IgnoreCompacted, FinishCompacted,
       UserInterrupts, Interrupt, Interruptible, InOrder, Idle
  <2>2. /\ run'[c] # "none"
        /\ UNCHANGED <<use, call, plan, known, thread, turn, completion>>
        /\ \A d \in Call \ {c} : run'[d] = run[d] /\ compaction'[d] = compaction[d]
    BY <1>11, <1>c, <2>1 DEF Compacted, HandleCompacted, IgnoreCompacted, FinishCompacted,
       UserInterrupts, Interrupt, TypeOK, server, tasks
  <2>3. InOrder(c)'
    BY <2>1, <2>2 DEF InOrder, OwnsUse
  <2> QED
    BY <1>a, <2>2, <2>3, LocalStep
<1>12. CASE Disconnect \/ UNCHANGED vars
  <2>1. /\ UNCHANGED <<use, run, call, plan, known, completion, compaction>>
        /\ \A c \in Call : /\ thread[c] = "none" <=> thread'[c] = "none"
                           /\ turn[c] = "none" <=> turn'[c] = "none"
                           /\ turn[c] = "ended" => turn'[c] = "ended"
                           /\ turn'[c] \in {"requested", "running"} => turn'[c] = turn[c]
    BY <1>12, <1>c DEF Disconnect, ServerEnds, vars, gate, tasks, TypeOK
  <2>2. \A c \in Call : InOrder(c)'
    BY <1>b, <2>1 DEF InOrder, Idle, OwnsUse
  <2>3. \A p \in Plan : Backed(p)'
    BY OrderParts, <2>1 DEF IInv, Backed
  <2> QED
    BY <1>a, <2>2, <2>3 DEF IInv, RunsInOrder, InOrder, Backed
<1>13. CASE Restart
  <2>1. /\ UNCHANGED <<use, plan, known>>
        /\ \A c \in Call :
             /\ run[c] = "none" <=> run'[c] = "none"
             /\ call'[c] = IF call[c] \in Awaiting THEN "lost" ELSE call[c]
             /\ completion'[c] = IF completion[c] \in {"queued", "finishing"} THEN "lost"
                                 ELSE completion[c]
             /\ compaction[c] = "none" => compaction'[c] = "none"
             /\ thread[c] = "none" => thread'[c] = "none"
             /\ turn[c] = "none" => turn'[c] = "none"
             /\ turn[c] = "ended" => turn'[c] = "ended"
             /\ turn'[c] \notin {"requested", "running"}
    BY <1>13, <1>c DEF Restart, ServerEnds, MemoryLost, TypeOK
  <2>2. ASSUME NEW c \in Call PROVE InOrder(c)'
    <3>1. CASE run[c] = "none"
      BY <1>b, <2>1, <3>1 DEF InOrder, Idle, Awaiting
    <3>2. CASE run[c] # "none"
      BY <1>b, <2>1, <3>2 DEF InOrder, OwnsUse, Awaiting
    <3> QED
      BY <3>1, <3>2
  <2>3. \A p \in Plan : Backed(p)'
    BY OrderParts, <2>1 DEF IInv, Backed
  <2> QED
    BY <1>a, <2>2, <2>3 DEF IInv, RunsInOrder, InOrder, Backed
<1> QED
  BY <1>1, <1>2, <1>3, <1>4, <1>5, <1>6, <1>7, <1>8, <1>9, <1>10, <1>11, <1>12, <1>13
  DEF Next, Start, Answer, Complete

\* The inductive invariant holds in every run.
THEOREM RunsAreInOrder == Spec => [](TypeOK /\ RunsInOrder)
<1>1. Spec => []IInv
  BY InvariantStarts, InvariantKept, PTL DEF Spec
<1> QED
  BY <1>1, PTL DEF IInv

\* Every variable keeps its type.
THEOREM TypeCorrect == Spec => []TypeOK
BY RunsAreInOrder, PTL

\* No two calls ask for a thread for one plan.
THEOREM PlanReachesServerOnce == Spec => []OneThreadPerPlan
<1>1. TypeOK /\ RunsInOrder => OneThreadPerPlan
  BY OrderParts DEF InOrder, Idle, OwnsUse, OneThreadPerPlan
<1> QED
  BY <1>1, RunsAreInOrder, PTL

\* What the use of a plan says is true of its run.
THEOREM UseTellsTheRun == Spec => []UseMatchesRun
<1>1. TypeOK /\ RunsInOrder => UseMatchesRun
  <2> SUFFICES ASSUME RunsInOrder, NEW p \in Plan, use[p].status # "none"
               PROVE  LET c == use[p].owner IN
                 /\ use[p].status = "claimed" => call[c] \in {"threadStart", "lost"}
                 /\ use[p].status = "started" =>
                      /\ call[c] \in {"turnStart", "cleanup", "ended", "lost"}
                      /\ completion[c] \notin {"done", "raised"}
                 /\ use[p].status = "failed" => call[c] = "ended" /\ completion[c] # "done"
                 /\ use[p].status = "completed" =>
                      completion[c] = "done" /\ turn[c] = "ended"
    BY DEF UseMatchesRun
  <2>1. LET c == use[p].owner IN c \in Call /\ run[c] # "none" /\ plan[c] = p
    BY OrderParts DEF Backed
  <2>2. OwnsUse(use[p].owner)
    BY <2>1, OrderParts DEF InOrder
  <2> QED
    BY <2>1, <2>2 DEF OwnsUse
<1> QED
  BY <1>1, RunsAreInOrder, PTL

\* A settled use is never changed.
THEOREM SettledUseStays == Spec => UseIsFinal
<1>1. ASSUME IInv, [Next]_vars, NEW p \in Plan, use[p].status \in Settled
      PROVE  use'[p] = use[p]
  <2>1. TypeOK /\ \A c \in Call : InOrder(c)
    BY <1>1, OrderParts DEF IInv
  <2>2. ASSUME NEW c \in Call, NEW s \in {"started", "failed", "completed"},
               Accepts(plan[c], s), use' = UpdatedUse(plan[c], s)
        PROVE  use'[p] = use[p]
    BY <1>1, <2>1, <2>2 DEF Accepts, UpdatedUse, Settled, TypeOK
  <2>3. ASSUME NEW c \in Call, ClaimPlan(c) PROVE use'[p] = use[p]
    BY <1>1, <2>1, <2>3 DEF ClaimPlan, Unclaimed, Claimed, Settled, TypeOK
  <2>4. ASSUME NEW c \in Call,
               ThreadStarted(c) \/ FailThreadStart(c) \/ FinishCleanup(c) \/ FinishCompleted(c)
        PROVE  use'[p] = use[p]
    BY <2>2, <2>4 DEF ThreadStarted, FailThreadStart, FinishCleanup, FinishCompleted
  <2>5. \/ \E c \in Call :
             \/ ClaimPlan(c)
             \/ ThreadStarted(c) \/ FailThreadStart(c) \/ FinishCleanup(c) \/ FinishCompleted(c)
        \/ use' = use
    BY <1>1 DEF Next, vars, Start, LoadPlan, RefuseStart, Answer, TurnStarted, FailTurnStart,
       RaiseCleanup, Complete, HandleCompleted, RaiseCompleted, Server, OpenThread, BeginTurn,
       DropThread, EndTurn, Compact, Compacted, HandleCompacted, IgnoreCompacted,
       FinishCompacted, UserInterrupts, Disconnect, Restart, gate
  <2> QED
    BY <2>3, <2>4, <2>5
<1>2. IInv /\ [Next]_vars => [\A p \in Plan : use[p].status \in Settled => use'[p] = use[p]]_vars
  BY <1>1
<1>3. Spec => []IInv
  BY InvariantStarts, InvariantKept, PTL DEF Spec
<1> QED
  BY <1>2, <1>3, PTL DEF Spec, UseIsFinal

-----------------------------------------------------------------------------
(* The tasks table. *)

\* The table shows the status of a run, or something is still to come that
\* writes it: the end of start_run, or of the handler of turn/completed.
Shown(c) ==
  \/ saved[c] = run[c]
  \/ run[c] \in {"forgotten", "interrupting"}
  \/ call[c] \in {"cleanup", "raised"}
  \/ completion[c] \in {"finishing", "raised"}

\* No step leaves a run that differs from its row with nothing to write it.
LEMMA ShownKept ==
  ASSUME IInv, [Next]_vars, NEW c \in Call, Shown(c)
  PROVE  Shown(c)'
<1>a. TypeOK /\ InOrder(c)
  BY OrderParts DEF IInv
<1> USE DEF TypeOK, Shown
<1>1. ASSUME NEW d \in Call, Start(d) PROVE Shown(c)'
  BY <1>1, <1>a DEF Start, LoadPlan, ClaimPlan, RefuseStart, Persist, server, tasks
<1>2. ASSUME NEW d \in Call, Answer(d) PROVE Shown(c)'
  <2>1. CASE ThreadStarted(d) \/ FailThreadStart(d) \/ TurnStarted(d)
    BY <2>1, <1>a DEF ThreadStarted, FailThreadStart, TurnStarted, Persist, server, tasks
  <2>2. CASE FailTurnStart(d) \/ FinishCleanup(d) \/ RaiseCleanup(d)
    BY <2>2, <1>a DEF FailTurnStart, FinishCleanup, RaiseCleanup, Persist, server, tasks
  <2> QED
    BY <1>2, <2>1, <2>2 DEF Answer
<1>3. ASSUME NEW d \in Call, Complete(d) PROVE Shown(c)'
  BY <1>3, <1>a DEF Complete, HandleCompleted, FinishCompleted, RaiseCompleted, Persist,
     gate, server
<1>4. ASSUME NEW d \in Call, Server(d) PROVE Shown(c)'
  <2>1. completion[d] \in {"finishing", "raised"} => turn[d] # "running"
    BY <1>a, <1>4, OrderParts DEF IInv, InOrder, Idle, OwnsUse
  <2> QED
    BY <1>4, <1>a, <2>1 DEF Server, OpenThread, BeginTurn, DropThread, EndTurn, Compact,
       gate, server, tasks
<1>5. ASSUME NEW d \in Call, Compacted(d) \/ UserInterrupts(d) PROVE Shown(c)'
  BY <1>5, <1>a DEF Compacted, HandleCompacted, IgnoreCompacted, FinishCompacted,
     UserInterrupts, Interrupt, Persist, server, tasks
<1>6. CASE Restart
  <2>1. CASE run[c] = "none"
    BY <1>6, <1>a, <2>1 DEF Restart, MemoryLost, InOrder, Idle
  <2>2. CASE run[c] # "none"
    BY <1>6, <1>a, <2>2 DEF Restart, MemoryLost
  <2> QED
    BY <2>1, <2>2
<1>7. CASE Disconnect \/ UNCHANGED vars
  BY <1>7 DEF Disconnect, gate, tasks, vars
<1> QED
  BY <1>1, <1>2, <1>3, <1>4, <1>5, <1>6, <1>7 DEF Next

\* When a run is at rest the tasks table shows its status: neither a start that
\* fails while its turn ends, nor a compaction, leaves a row behind.
THEOREM RestingRunIsSaved == Spec => []RestIsSaved
<1>1. Init => \A c \in Call : Shown(c)
  BY DEF Init, Shown
<1>2. IInv /\ [Next]_vars /\ (\A c \in Call : Shown(c)) => (\A c \in Call : Shown(c))'
  BY ShownKept
<1>3. (\A c \in Call : Shown(c)) => RestIsSaved
  BY DEF Shown, RestIsSaved, AtRest
<1>4. Spec => []IInv
  BY InvariantStarts, InvariantKept, PTL DEF Spec
<1> QED
  BY <1>1, <1>2, <1>3, <1>4, PTL DEF Spec

-----------------------------------------------------------------------------
(* One use of each plan. *)

\* A plan's phase follows from whether it is used and which turns were begun for it.
LEMMA PhasesStay ==
  ASSUME \A p \in Plan : (use[p].status = "none")' <=> use[p].status = "none",
         \A p \in Plan : Executions(p)' = Executions(p)
  PROVE  planPhase' = planPhase
BY DEF planPhase, PlanPhase

\* What is executed is the run that owns the use.
LEMMA ExecutionsOwn ==
  ASSUME IInv, NEW p \in Plan, NEW c \in Executions(p)
  PROVE  use[p].status # "none" /\ use[p].owner = c
<1>1. InOrder(c)
  BY OrderParts DEF IInv, Executions
<1> QED
  BY <1>1 DEF InOrder, Idle, OwnsUse, Executions, Begun

\* The claim of a plan is the issue of its use, to the call that claims it.
LEMMA PlanIssued ==
  ASSUME IInv, NEW c \in Call, ClaimPlan(c)
  PROVE  UseAuthority!Next
<1> DEFINE p == plan[c]
<1>1. p \in Plan /\ use[p].status = "none" /\ TypeOK
  BY OrderParts DEF IInv, InOrder, Idle, OwnsUse, ClaimPlan, Unclaimed
<1>2. Executions(p) = {}
  BY <1>1, ExecutionsOwn
<1>3. \A q \in Plan : Executions(q)' = Executions(q)
  BY DEF ClaimPlan, Executions, Begun
<1>4. use'[p].status = "claimed" /\ \A q \in Plan : q # p => use'[q] = use[q]
  BY <1>1 DEF ClaimPlan, Claimed, TypeOK
<1>5. planPhase[p] = "unissued" /\ planPhase'[p] = "claimed"
  BY <1>1, <1>2, <1>3, <1>4 DEF planPhase, PlanPhase
<1>6. \A q \in Plan : planPhase[q] # "held" /\ (q # p => planPhase'[q] = planPhase[q])
  BY <1>3, <1>4 DEF planPhase, PlanPhase
<1>7. UseAuthority!Issue(p, "claimed")
  BY <1>5, <1>6 DEF UseAuthority!Issue, planPhase
<1> QED
  BY <1>1, <1>7 DEF UseAuthority!Next

\* The begin of a turn is the launch of its plan: it was claimed, and not launched.
LEMMA PlanLaunched ==
  ASSUME IInv, NEW c \in Call, BeginTurn(c)
  PROVE  UseAuthority!Next
<1> DEFINE p == plan[c]
<1>1. TypeOK /\ turn[c] = "requested" /\ turn' = [turn EXCEPT ![c] = "running"]
      /\ use' = use /\ plan' = plan
  BY DEF IInv, BeginTurn, gate
<1>2. OwnsUse(c)
  BY <1>1, OrderParts DEF IInv, InOrder, Idle
<1>3. p \in Plan /\ use[p].status # "none" /\ use[p].owner = c
  BY <1>2 DEF OwnsUse
<1>4. Executions(p) = {}
  BY <1>1, <1>3, ExecutionsOwn DEF Executions, Begun
<1>5. Executions(p)' = {c}
  BY <1>1, <1>4 DEF Executions, Begun, TypeOK
<1>6. \A q \in Plan : q # p => Executions(q)' = Executions(q)
  BY <1>1 DEF Executions, Begun, TypeOK
<1>7. planPhase[p] = "claimed" /\ planPhase'[p] = "launched"
  BY <1>1, <1>3, <1>4, <1>5 DEF planPhase, PlanPhase
<1>8. \A q \in Plan : q # p => planPhase'[q] = planPhase[q]
  BY <1>1, <1>6 DEF planPhase, PlanPhase
<1>9. UseAuthority!Launch(p)
  BY <1>7, <1>8 DEF UseAuthority!Launch, planPhase
<1> QED
  BY <1>3, <1>9 DEF UseAuthority!Next

\* No other step begins a turn, or takes up or gives back a use: not the outcome
\* that is recorded for it, nor the end of a server.
LEMMA OtherStepsKeepPhases ==
  ASSUME IInv, [Next]_vars,
         \A c \in Call : ~ClaimPlan(c) /\ ~BeginTurn(c)
  PROVE  planPhase' = planPhase
<1>1. TypeOK /\ \A c \in Call : InOrder(c)
  BY OrderParts DEF IInv
<1>2. ASSUME NEW c \in Call, NEW p \in Plan, LoadPlan(c, p) PROVE planPhase' = planPhase
  <2>1. turn[c] = "none"
    BY <1>1, <1>2 DEF LoadPlan, InOrder, Idle, OwnsUse
  <2>2. \A q \in Plan : Executions(q)' = Executions(q)
    BY <1>1, <1>2, <2>1 DEF LoadPlan, server, Executions, Begun, TypeOK
  <2> QED
    BY <1>2, <2>2, PhasesStay DEF LoadPlan
<1>3. ASSUME NEW c \in Call, NEW s \in {"started", "failed", "completed"},
             Accepts(plan[c], s), use' = UpdatedUse(plan[c], s)
      PROVE  \A p \in Plan : (use[p].status = "none")' <=> use[p].status = "none"
  BY <1>1, <1>3 DEF Accepts, UpdatedUse, TypeOK
<1>4. ASSUME NEW c \in Call, FailThreadStart(c) \/ FinishCleanup(c) \/ FinishCompleted(c)
      PROVE  planPhase' = planPhase
  <2>1. \A p \in Plan : Executions(p)' = Executions(p)
    BY <1>4 DEF FailThreadStart, FinishCleanup, FinishCompleted, server, Executions, Begun
  <2> QED
    BY <1>3, <1>4, <2>1, PhasesStay DEF FailThreadStart, FinishCleanup, FinishCompleted
<1>5. ASSUME NEW c \in Call, ThreadStarted(c) PROVE planPhase' = planPhase
  <2>1. turn[c] = "none"
    BY <1>1, <1>5 DEF ThreadStarted, InOrder, Idle, OwnsUse
  <2>2. \A p \in Plan : Executions(p)' = Executions(p)
    BY <1>1, <1>5, <2>1 DEF ThreadStarted, Executions, Begun, TypeOK
  <2> QED
    BY <1>3, <1>5, <2>2, PhasesStay DEF ThreadStarted
<1>6. ASSUME use' = use, plan' = plan, \A c \in Call : Begun(c)' <=> Begun(c)
      PROVE  planPhase' = planPhase
  BY <1>6, PhasesStay DEF Executions
<1>7. ASSUME NEW c \in Call, EndTurn(c) PROVE planPhase' = planPhase
  BY <1>1, <1>6, <1>7 DEF EndTurn, gate, Begun, TypeOK
<1>8. CASE Disconnect \/ Restart
  BY <1>1, <1>6, <1>8 DEF Disconnect, Restart, ServerEnds, gate, Begun, TypeOK
<1>9. \/ \E c \in Call :
           \/ \E p \in Plan : LoadPlan(c, p)
           \/ FailThreadStart(c) \/ FinishCleanup(c) \/ FinishCompleted(c)
           \/ ThreadStarted(c) \/ EndTurn(c)
      \/ Disconnect \/ Restart
      \/ use' = use /\ plan' = plan /\ turn' = turn
  BY DEF Next, vars, Start, RefuseStart, Answer, TurnStarted, FailTurnStart, RaiseCleanup,
     Complete, HandleCompleted, RaiseCompleted, Server, OpenThread, DropThread, Compact,
     Compacted, HandleCompacted, IgnoreCompacted, FinishCompacted, UserInterrupts,
     gate, server
<1> QED
  BY <1>2, <1>4, <1>5, <1>6, <1>7, <1>8, <1>9 DEF Begun

\* A route plan is a one-use authority: its use is never given back, and the
\* app-server begins one turn for it, after the claim, whatever calls race for the
\* plan, whichever answer comes too late and whenever either server ends.
THEOREM PlanRefinement == Spec => PlanIsOneUse
<1>1. Init => UseAuthority!Init
  BY DEF Init, UseAuthority!Init, planPhase, PlanPhase, Executions, Begun
<1>2. IInv /\ [Next]_vars => [UseAuthority!Next]_planPhase
  BY PlanIssued, PlanLaunched, OtherStepsKeepPhases
<1>3. Spec => []IInv
  BY InvariantStarts, InvariantKept, PTL DEF Spec
<1> QED
  BY <1>1, <1>2, <1>3, PTL DEF Spec, PlanIsOneUse, UseAuthority!Spec
=============================================================================
