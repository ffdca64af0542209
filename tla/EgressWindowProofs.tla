-------------------------- MODULE EgressWindowProofs --------------------------
(***************************************************************************)
(* The safety of EgressWindow for any set of windows, requests and         *)
(* contracts, and that an execution window is a one-use authority.  The    *)
(* inductive invariant says, request by request, which window it holds,    *)
(* and, row by row, which coroutine will settle it or has passed it.       *)
(***************************************************************************)
EXTENDS EgressWindow, TLAPS

\* A request has nothing until it has consumed a window, which then is its own;
\* it works only for the contract that window was sealed for.
RequestInOrder(r) ==
  LET w == request[r].window IN
  /\ task[r] = "none" => w = None
  /\ task[r] # "none" =>
       /\ w \in Window
       /\ window[w].status = "CONSUMED"
       /\ \A q \in Request : request[q].window = w => q = r
  /\ task[r] \in {"none", "claimed", "waiting", "starting", "spawning"} => supervisor[r] = "none"
  /\ task[r] = "claimed" => window[w].error_code = "none"
  /\ task[r] \in {"waiting"} \cup InFlight \/ supervisor[r] # "none" =>
       /\ window[w].error_code = "none"
       /\ window[w].binding = request[r].contract
       /\ request[r].contract \in Identity
  /\ task[r] \in InFlight =>
       row[request[r].contract] = [status |-> "RUNNING", harness_id |-> r]

\* Whose the result row of a contract is.
RowInOrder(b) ==
  LET r == row[b].harness_id IN
  /\ row[b].status = "RUNNING" =>
       r \in Request /\ task[r] \in InFlight /\ request[r].contract = b
  /\ row[b].status = "PASSED" =>
       r \in Request /\ task[r] = "done" /\ supervisor[r] = "exited" /\ request[r].contract = b

InOrder ==
  /\ \A r \in Request : RequestInOrder(r)
  /\ \A b \in Identity : RowInOrder(b)

\* Only a consumed window can have been blocked.
BlockedIsConsumed ==
  \A w \in Window : window[w].status # "CONSUMED" => window[w].error_code = "none"

IInv == TypeOK /\ BlockedIsConsumed /\ InOrder

\* The invariant holds initially.
LEMMA InvariantStarts == ConstantAssumption /\ Init => IInv
<1> SUFFICES ASSUME ConstantAssumption, Init PROVE IInv
  OBVIOUS
<1>1. TypeOK
  BY DEF Init, TypeOK, WindowRow, WindowStatus, Unissued, RunRow, Settled, TaskState, InFlight
<1>2. InOrder
  BY DEF Init, InOrder, RequestInOrder, RowInOrder, InFlight
<1>3. BlockedIsConsumed
  BY DEF Init, BlockedIsConsumed, Unissued
<1> QED
  BY <1>1, <1>2, <1>3 DEF IInv

\* A row of a window keeps its type with another status.
LEMMA StatusTypes ==
  ASSUME TypeOK, NEW w \in Window, NEW s \in WindowStatus
  PROVE  [window EXCEPT ![w].status = s] \in [Window -> WindowRow]
<1>1. [window[w] EXCEPT !.status = s] \in WindowRow
  BY DEF TypeOK, WindowRow
<1> QED
  BY <1>1 DEF TypeOK

\* Every step keeps the types.
LEMMA TypeKept == TypeOK /\ [Next]_vars => TypeOK'
<1> SUFFICES ASSUME TypeOK, [Next]_vars PROVE TypeOK'
  OBVIOUS
<1> USE DEF TypeOK
<1>1. CASE Gate
  <2>1. ASSUME NEW w \in Window, Arm(w) PROVE TypeOK'
    <3>1. Swept \in [Window -> WindowRow]
      BY DEF Swept, WindowRow, WindowStatus
    <3>2. [status |-> "ARMED", binding |-> SealedBinding, expires_at |-> now + TTL,
           error_code |-> "none"] \in WindowRow
      BY <2>1, ConstantAssumption
      DEF Arm, SealedBinding, WindowRow, WindowStatus, ConstantAssumption
    <3> QED
      BY <2>1, <3>1, <3>2 DEF Arm, env
  <2>2. ASSUME NEW w \in Window, NEW a \in Window, ExpireOnUse(w, a) PROVE TypeOK'
    <3>1. window' \in [Window -> WindowRow]
      <4>1. window' = [window EXCEPT ![w].status = "EXPIRED"]
        BY <2>2 DEF ExpireOnUse
      <4> QED
        BY <4>1, StatusTypes DEF WindowStatus
    <3> QED
      BY <2>2, <3>1 DEF ExpireOnUse, env
  <2>3. ASSUME NEW w \in Window, NEW a \in Window, NEW r \in Request, Consume(r, w, a)
        PROVE  TypeOK'
    <3>1. window' \in [Window -> WindowRow]
      <4>1. window' = [window EXCEPT ![w].status = "CONSUMED"]
        BY <2>3 DEF Consume
      <4> QED
        BY <4>1, StatusTypes DEF WindowStatus
    <3>2. task' \in [Request -> TaskState]
      BY <2>3 DEF Consume, TaskState
    <3>3. request' \in [Request -> [window : Window \cup {None}, contract : Identity \cup {None}]]
      BY <2>3 DEF Consume
    <3> QED
      BY <2>3, <3>1, <3>2, <3>3 DEF Consume, env
  <2> QED
    BY <1>1, <2>1, <2>2, <2>3 DEF Gate
<1>2. ASSUME NEW r \in Request, Advance(r) PROVE TypeOK'
  <2>1. CASE Block(r)
    <3>1. window' \in [Window -> WindowRow]
      BY <2>1 DEF Block, WindowRow
    <3> QED
      BY <2>1, <3>1 DEF Block, env, TaskState
  <2>2. ASSUME NEW b \in Identity, Wait(r, b) \/ Reuse(r, b) \/ Begin(r, b) PROVE TypeOK'
    <3>1. row' \in [Identity -> RunRow]
      BY <2>2 DEF Wait, Reuse, Begin, RunRow
    <3>2. request' \in [Request -> [window : Window \cup {None}, contract : Identity \cup {None}]]
      BY <2>2 DEF Wait, Reuse, Begin
    <3>3. task' \in [Request -> TaskState]
      BY <2>2 DEF Wait, Reuse, Begin, TaskState, InFlight
    <3> QED
      BY <2>2, <3>1, <3>2, <3>3 DEF Wait, Reuse, Begin, env
  <2>3. CASE CallSpawn(r) \/ CreateProcess(r)
    BY <2>3 DEF CallSpawn, CreateProcess, env, TaskState, InFlight
  <2>4. ASSUME NEW s \in Settled, Finish(r, s),
               UNCHANGED <<window, spent, request, supervisor, env, now>>
        PROVE  TypeOK'
    <3>1. row' \in [Identity -> RunRow]
      BY <2>4 DEF Finish, Recorded, RunRow
    <3> QED
      BY <2>4, <3>1 DEF Finish, env, TaskState
  <2>5. CASE FailBeforeSpawn(r) \/ TimeOut(r) \/ \E s \in Settled : FinishRun(r, s)
    BY <2>5, <2>4 DEF FailBeforeSpawn, TimeOut, FinishRun, Settled
  <2> QED
    BY <1>2, <2>1, <2>2, <2>3, <2>5 DEF Advance
<1>3. CASE Environment
  <2>1. CASE Restart
    <3>1. window' \in [Window -> WindowRow]
      BY <2>1 DEF Restart, Disarmed, WindowRow, WindowStatus
    <3>2. row' \in [Identity -> RunRow]
      BY <2>1 DEF Restart, Recovered, RunRow, Settled
    <3>3. task' \in [Request -> TaskState]
      BY <2>1 DEF Restart, TaskState
    <3> QED
      BY <2>1, <3>1, <3>2, <3>3 DEF Restart, env
  <2>2. CASE \E r \in Request : SupervisorExits(r)
    BY <2>2 DEF SupervisorExits, env
  <2>3. CASE ChangeEnvironment
    BY <2>3 DEF ChangeEnvironment
  <2>4. CASE ProofLapses
    BY <2>4 DEF ProofLapses
  <2>5. CASE Tick
    BY <2>5 DEF Tick, env
  <2> QED
    BY <1>3, <2>1, <2>2, <2>3, <2>4, <2>5 DEF Environment
<1>4. CASE UNCHANGED vars
  BY <1>4 DEF vars
<1> QED
  BY <1>1, <1>2, <1>3, <1>4 DEF Next

-----------------------------------------------------------------------------
(* The invariant, class of steps by class of steps. *)

\* A step that touches no request, row or consumed window keeps the order.
LEMMA SurroundingStep ==
  ASSUME IInv, UNCHANGED <<row, task, request>>,
         \A r \in Request : \/ supervisor'[r] = supervisor[r]
                            \/ supervisor[r] = "alive" /\ supervisor'[r] = "exited",
         \A w \in Window : window[w].status = "CONSUMED" => window'[w] = window[w]
  PROVE  InOrder'
<1>1. ASSUME NEW r \in Request PROVE RequestInOrder(r)'
  <2>1. RequestInOrder(r)
    BY DEF IInv, InOrder
  <2>2. task[r] # "none" => window'[request[r].window] = window[request[r].window]
    BY <2>1 DEF RequestInOrder
  <2>3. supervisor[r] # "none" => task[r] # "none"
    BY <2>1 DEF RequestInOrder
  <2>4. supervisor'[r] = "none" <=> supervisor[r] = "none"
    OBVIOUS
  <2> QED
    BY <2>1, <2>2, <2>3, <2>4 DEF RequestInOrder, InFlight
<1>2. ASSUME NEW b \in Identity PROVE RowInOrder(b)'
  BY DEF IInv, InOrder, RowInOrder
<1> QED
  BY <1>1, <1>2 DEF InOrder

\* A step of one request that leaves the other requests, their windows and the
\* rows of those in flight alone.
LEMMA OwnStep ==
  ASSUME IInv, NEW r \in Request, RequestInOrder(r)',
         \A q \in Request \ {r} :
           /\ task'[q] = task[q] /\ request'[q] = request[q] /\ supervisor'[q] = supervisor[q]
           /\ request[q].window # request'[r].window
           /\ task[q] # "none" => window'[request[q].window] = window[request[q].window]
           /\ task[q] \in InFlight => row'[request[q].contract] = row[request[q].contract],
         \A b \in Identity : RowInOrder(b)'
  PROVE  InOrder'
<1>1. ASSUME NEW q \in Request, q # r PROVE RequestInOrder(q)'
  <2>1. RequestInOrder(q)
    BY DEF IInv, InOrder
  <2>2. task[q] # "none" => \A x \in Request : request'[x].window = request[q].window => x = q
    BY <1>1, <2>1 DEF RequestInOrder
  <2>3. task'[q] = task[q] /\ request'[q] = request[q] /\ supervisor'[q] = supervisor[q]
    BY <1>1
  <2>4. supervisor[q] # "none" => task[q] # "none"
    BY <2>1 DEF RequestInOrder
  <2> QED
    BY <1>1, <2>1, <2>2, <2>3, <2>4 DEF RequestInOrder, InFlight
<1> QED
  BY <1>1 DEF InOrder

\* What the invariant says of two different requests.
LEMMA Apart ==
  ASSUME IInv, NEW r \in Request, NEW q \in Request \ {r}
  PROVE  /\ task[r] # "none" => request[q].window # request[r].window
         /\ task[r] \in InFlight /\ task[q] \in InFlight =>
              request[q].contract # request[r].contract
<1>1. RequestInOrder(r) /\ RequestInOrder(q)
  BY DEF IInv, InOrder
<1>2. task[r] # "none" => request[q].window # request[r].window
  BY <1>1 DEF RequestInOrder
<1>3. task[r] \in InFlight /\ task[q] \in InFlight => request[q].contract # request[r].contract
  BY <1>1 DEF RequestInOrder
<1> QED
  BY <1>2, <1>3

\* A coroutine in flight records its result and is done.
LEMMA FinishKeeps ==
  ASSUME IInv, NEW r \in Request, NEW s \in Settled, Finish(r, s),
         task[r] \in InFlight, s = "PASSED" => supervisor[r] = "exited",
         UNCHANGED <<window, request, supervisor>>
  PROVE  InOrder'
<1> DEFINE b == request[r].contract
<1>1. RequestInOrder(r)
  BY DEF IInv, InOrder
<1>2. /\ b \in Identity
      /\ row[b] = [status |-> "RUNNING", harness_id |-> r]
      /\ task[r] # "none"
  BY <1>1 DEF RequestInOrder, InFlight
<1>3. /\ row'[b].status = s /\ row'[b].harness_id = r
      /\ \A c \in Identity \ {b} : row'[c] = row[c]
  BY <1>2 DEF Finish, Recorded
<1>4. /\ task'[r] = "done"
      /\ \A q \in Request \ {r} : task'[q] = task[q]
  BY DEF Finish, IInv, TypeOK
<1>5. RequestInOrder(r)'
  BY <1>1, <1>2, <1>4 DEF RequestInOrder, InFlight
<1>6. \A q \in Request \ {r} : task[q] \in InFlight =>
        row'[request[q].contract] = row[request[q].contract]
  <2> SUFFICES ASSUME NEW q \in Request \ {r}, task[q] \in InFlight
               PROVE  row'[request[q].contract] = row[request[q].contract]
    OBVIOUS
  <2>1. RequestInOrder(q)
    BY DEF IInv, InOrder
  <2>2. request[q].contract \in Identity \ {b}
    BY <2>1, Apart DEF RequestInOrder
  <2> QED
    BY <1>3, <2>2
<1>7. ASSUME NEW c \in Identity PROVE RowInOrder(c)'
  <2>1. RowInOrder(c)
    BY DEF IInv, InOrder
  <2>2. CASE c = b
    BY <1>3, <1>4, <2>2 DEF RowInOrder, Settled
  <2>3. CASE c # b
    <3>1. row'[c] = row[c]
      BY <1>3, <2>3
    <3>2. row[c].status \in {"RUNNING", "PASSED"} => row[c].harness_id # r
      BY <1>2, <2>1, <2>3 DEF RowInOrder, InFlight
    <3> QED
      BY <1>4, <2>1, <3>1, <3>2 DEF RowInOrder
  <2> QED
    BY <2>2, <2>3
<1> QED
  BY <1>2, <1>4, <1>5, <1>6, <1>7, Apart, OwnStep

\* Every step of a coroutine keeps the order.
LEMMA AdvanceKeeps ==
  ASSUME ConstantAssumption, IInv, NEW r \in Request, Advance(r) PROVE InOrder'
<1> DEFINE w == request[r].window
<1>0. RequestInOrder(r) /\ TypeOK
  BY DEF IInv, InOrder
<1>1. CASE Block(r)
  <2>1. w \in Window /\ supervisor[r] = "none"
    BY <1>0, <1>1 DEF Block, RequestInOrder
  <2>2. /\ task' = [task EXCEPT ![r] = "done"]
        /\ window' = [window EXCEPT ![w].error_code = "binding_changed"]
        /\ UNCHANGED <<row, request, supervisor>>
    BY <1>1 DEF Block
  <2>3. /\ task'[r] = "done" /\ window'[w].status = window[w].status
        /\ \A q \in Request \ {r} : task'[q] = task[q]
        /\ \A v \in Window \ {w} : window'[v] = window[v]
    BY <1>0, <2>1, <2>2 DEF TypeOK, WindowRow
  <2>4. task[r] = "claimed"
    BY <1>1 DEF Block
  <2>5. RequestInOrder(r)'
    BY <1>0, <2>1, <2>2, <2>3, <2>4 DEF RequestInOrder, InFlight
  <2>6. \A q \in Request \ {r} :
          /\ request[q].window # w
          /\ task[q] # "none" => request[q].window \in Window
    BY <2>4, Apart DEF IInv, InOrder, RequestInOrder
  <2>7. \A b \in Identity : RowInOrder(b)'
    BY <2>2, <2>3, <2>4 DEF IInv, InOrder, RowInOrder, InFlight
  <2> QED
    BY <2>2, <2>3, <2>5, <2>6, <2>7, OwnStep
<1>2. ASSUME NEW b \in Identity, Wait(r, b) \/ Reuse(r, b) \/ Begin(r, b) PROVE InOrder'
  <2>1. Ready(r, b)
    BY <1>2 DEF Wait, Reuse, Begin
  <2>2. /\ task[r] \in {"claimed", "waiting"}
        /\ window[w].error_code = "none"
        /\ window[w].binding = b
    BY <1>0, <2>1 DEF Ready, Binding, RequestInOrder
  <2>3. /\ task'[r] \in {"waiting", "done", "starting"}
        /\ request'[r].window = w /\ request'[r].contract = b
        /\ \A q \in Request \ {r} : task'[q] = task[q] /\ request'[q] = request[q]
        /\ UNCHANGED <<window, supervisor>>
    BY <1>0, <1>2 DEF Wait, Reuse, Begin, TypeOK
  <2>4. CASE Begin(r, b)
    <3>1. /\ row'[b] = [status |-> "RUNNING", harness_id |-> r]
          /\ \A c \in Identity \ {b} : row'[c] = row[c]
          /\ task'[r] = "starting"
      BY <1>0, <2>4 DEF Begin, TypeOK
    <3>2. RequestInOrder(r)'
      <4>1. \A q \in Request : request'[q].window = request[q].window
        BY <2>3
      <4> QED
        BY <1>0, <2>2, <2>3, <3>1, <4>1 DEF RequestInOrder, InFlight
    <3>3. \A q \in Request \ {r} : task[q] \in InFlight =>
            row'[request[q].contract] = row[request[q].contract]
      BY <2>4, <3>1 DEF Begin, LockFree, IInv, InOrder, RequestInOrder
    <3>4. ASSUME NEW c \in Identity PROVE RowInOrder(c)'
      <4>1. RowInOrder(c)
        BY DEF IInv, InOrder
      <4>2. CASE c = b
        BY <2>3, <3>1, <4>2 DEF RowInOrder, InFlight
      <4>3. CASE c # b
        <5>1. row'[c] = row[c]
          BY <3>1, <4>3
        <5>2. row[c].status \in {"RUNNING", "PASSED"} => row[c].harness_id # r
          BY <2>2, <4>1 DEF RowInOrder, InFlight
        <5> QED
          BY <2>3, <4>1, <5>1, <5>2 DEF RowInOrder
      <4> QED
        BY <4>2, <4>3
    <3>5. \A q \in Request \ {r} : request[q].window # request'[r].window
      BY <2>2, <2>3, Apart
    <3> QED
      BY <2>3, <3>2, <3>3, <3>4, <3>5, OwnStep
  <2>5. CASE Wait(r, b) \/ Reuse(r, b)
    <3>1. row' = row /\ task'[r] \in {"waiting", "done"}
      BY <1>0, <2>5 DEF Wait, Reuse, TypeOK
    <3>2. RequestInOrder(r)'
      <4>1. \A q \in Request : request'[q].window = request[q].window
        BY <2>3
      <4> QED
        BY <1>0, <2>2, <2>3, <3>1, <4>1 DEF RequestInOrder, InFlight
    <3>3. ASSUME NEW c \in Identity PROVE RowInOrder(c)'
      <4>1. RowInOrder(c)
        BY DEF IInv, InOrder
      <4>2. row[c].status \in {"RUNNING", "PASSED"} => row[c].harness_id # r
        BY <2>2, <4>1 DEF RowInOrder, InFlight
      <4> QED
        BY <2>3, <3>1, <4>1, <4>2 DEF RowInOrder
    <3>4. \A q \in Request \ {r} : request[q].window # request'[r].window
      BY <2>2, <2>3, Apart
    <3> QED
      BY <2>3, <3>1, <3>2, <3>3, <3>4, OwnStep
  <2> QED
    BY <1>2, <2>4, <2>5
<1>3. CASE CallSpawn(r) \/ CreateProcess(r)
  <2>1. task[r] \in InFlight
    BY <1>3 DEF CallSpawn, CreateProcess, InFlight
  <2>2. /\ task'[r] \in InFlight
        /\ task'[r] \in {"starting", "spawning"} => supervisor'[r] = "none"
        /\ \A q \in Request \ {r} : task'[q] = task[q] /\ supervisor'[q] = supervisor[q]
        /\ UNCHANGED <<window, row, request>>
    BY <1>0, <1>3 DEF CallSpawn, CreateProcess, InFlight, TypeOK, RequestInOrder
  <2>3. RequestInOrder(r)'
    BY <1>0, <2>1, <2>2 DEF RequestInOrder, InFlight
  <2>4. ASSUME NEW c \in Identity PROVE RowInOrder(c)'
    <3>1. RowInOrder(c)
      BY DEF IInv, InOrder
    <3>2. row[c].status = "PASSED" => row[c].harness_id # r
      BY <2>1, <3>1 DEF RowInOrder, InFlight
    <3> QED
      BY <2>2, <3>1, <3>2 DEF RowInOrder
  <2>5. \A q \in Request \ {r} : request[q].window # request'[r].window
    BY <2>1, <2>2, Apart DEF InFlight
  <2> QED
    BY <2>2, <2>3, <2>4, <2>5, OwnStep
<1>4. CASE FailBeforeSpawn(r) \/ TimeOut(r)
  BY <1>4, FinishKeeps DEF FailBeforeSpawn, TimeOut, InFlight, Settled
<1>5. CASE \E s \in Settled : FinishRun(r, s)
  BY <1>5, FinishKeeps DEF FinishRun, InFlight
<1> QED
  BY <1>1, <1>2, <1>3, <1>4, <1>5 DEF Advance

\* Only a consumed window is blocked.
LEMMA BlocksKept == IInv /\ [Next]_vars => BlockedIsConsumed'
<1> SUFFICES ASSUME IInv, [Next]_vars, NEW w \in Window
             PROVE  window'[w].status # "CONSUMED" => window'[w].error_code = "none"
  BY DEF BlockedIsConsumed
<1>0. TypeOK /\ (window[w].status # "CONSUMED" => window[w].error_code = "none")
  BY DEF IInv, BlockedIsConsumed
<1>1. CASE Gate
  <2>1. ASSUME NEW v \in Window, Arm(v) PROVE window'[w].error_code = "none" \/ window'[w] = window[w]
    BY <1>0, <2>1 DEF Arm, Swept, Overdue, TypeOK, WindowRow
  <2>2. ASSUME NEW v \in Window,
               \/ window' = [window EXCEPT ![v].status = "EXPIRED"] /\ Overdue(v)
               \/ window' = [window EXCEPT ![v].status = "CONSUMED"] /\ Usable(v)
        PROVE  window'[w].error_code = "none" \/ window'[w] = window[w]
    BY <1>0, <2>2 DEF Overdue, Usable, TypeOK, WindowRow
  <2> QED
    BY <1>0, <1>1, <2>1, <2>2 DEF Gate, ExpireOnUse, Consume
<1>2. ASSUME NEW r \in Request, Block(r) PROVE window'[w].error_code = "none" \/ window'[w].status = "CONSUMED"
  <2>1. RequestInOrder(r)
    BY DEF IInv, InOrder
  <2> QED
    BY <1>0, <1>2, <2>1 DEF Block, RequestInOrder, TypeOK, WindowRow
<1>3. CASE Restart
  BY <1>0, <1>3 DEF Restart, Disarmed, TypeOK, WindowRow
<1>4. ASSUME NEW r \in Request, Advance(r), ~Block(r) PROVE window' = window
  BY <1>4 DEF Advance, Wait, Reuse, Begin, CallSpawn, CreateProcess, FailBeforeSpawn, TimeOut,
     FinishRun
<1>5. CASE (\E r \in Request : SupervisorExits(r)) \/ ChangeEnvironment \/ ProofLapses \/ Tick
  BY <1>0, <1>5 DEF SupervisorExits, ChangeEnvironment, ProofLapses, Tick
<1>6. CASE UNCHANGED vars
  BY <1>0, <1>6 DEF vars
<1> QED
  BY <1>0, <1>1, <1>2, <1>3, <1>4, <1>5, <1>6 DEF Next, Environment

\* Every step keeps the invariant.
LEMMA InvariantKept == ConstantAssumption /\ IInv /\ [Next]_vars => IInv'
<1> SUFFICES ASSUME ConstantAssumption, IInv, [Next]_vars PROVE InOrder'
  BY TypeKept, BlocksKept DEF IInv
<1>0. TypeOK
  BY DEF IInv
<1>1. CASE Gate
  <2>1. ASSUME NEW v \in Window, Arm(v) PROVE InOrder'
    <3>1. \A w \in Window : window[w].status = "CONSUMED" => window'[w] = window[w]
      BY <1>0, <2>1 DEF Arm, Issuable, Swept, Overdue, TypeOK
    <3> QED
      BY <2>1, <3>1, SurroundingStep DEF Arm
  <2>2. ASSUME NEW v \in Window, NEW a \in Window, ExpireOnUse(v, a) PROVE InOrder'
    <3>1. \A w \in Window : window[w].status = "CONSUMED" => window'[w] = window[w]
      BY <1>0, <2>2 DEF ExpireOnUse, Overdue, TypeOK
    <3> QED
      BY <2>2, <3>1, SurroundingStep DEF ExpireOnUse
  <2>3. ASSUME NEW v \in Window, NEW a \in Window, NEW r \in Request, Consume(r, v, a)
        PROVE  InOrder'
    <3>1. /\ task[r] = "none" /\ window[v].status = "ARMED"
          /\ UNCHANGED <<row, supervisor>>
      BY <2>3 DEF Consume, Usable
    <3>2. /\ task'[r] = "claimed" /\ request'[r].window = v
          /\ window'[v].status = "CONSUMED"
          /\ window'[v].error_code = window[v].error_code
          /\ \A q \in Request \ {r} : task'[q] = task[q] /\ request'[q] = request[q]
          /\ \A w \in Window \ {v} : window'[w] = window[w]
      BY <1>0, <2>3 DEF Consume, TypeOK, WindowRow
    <3>3. \A q \in Request : /\ request[q].window # v
                             /\ task[q] # "none" => request[q].window \in Window \ {v}
      <4> SUFFICES ASSUME NEW q \in Request
                   PROVE  /\ request[q].window # v
                          /\ task[q] # "none" => request[q].window \in Window \ {v}
        OBVIOUS
      <4>1. RequestInOrder(q)
        BY DEF IInv, InOrder
      <4>2. None # v
        BY ConstantAssumption DEF ConstantAssumption
      <4> QED
        BY <3>1, <4>1, <4>2 DEF RequestInOrder
    <3>4. window[v].error_code = "none"
      BY <3>1 DEF IInv, BlockedIsConsumed
    <3>5. RequestInOrder(r)'
      <4>1. supervisor'[r] = "none"
        BY <3>1 DEF IInv, InOrder, RequestInOrder
      <4>2. \A q \in Request : request'[q].window = v => q = r
        BY <3>2, <3>3
      <4> QED
        BY <3>2, <3>4, <4>1, <4>2 DEF RequestInOrder, InFlight
    <3>6. \A b \in Identity : RowInOrder(b)'
      BY <3>1, <3>2 DEF IInv, InOrder, RowInOrder, InFlight
    <3> QED
      BY <3>1, <3>2, <3>3, <3>5, <3>6, OwnStep
  <2> QED
    BY <1>1, <2>1, <2>2, <2>3 DEF Gate
<1>2. ASSUME NEW r \in Request, Advance(r) PROVE InOrder'
  BY <1>2, AdvanceKeeps
<1>3. CASE Restart
  <2>1. /\ \A w \in Window : window[w].status = "CONSUMED" => window'[w] = window[w]
        /\ UNCHANGED <<request, supervisor>>
    BY <1>0, <1>3 DEF Restart, Disarmed, TypeOK
  <2>2. \A r \in Request :
          /\ task'[r] = IF task[r] = "none" \/ task[r] = "done" THEN task[r] ELSE "lost"
          /\ task'[r] \in {"none", "done", "lost"}
    BY <1>3 DEF Restart
  <2>3. ASSUME NEW r \in Request PROVE RequestInOrder(r)'
    <3>1. RequestInOrder(r)
      BY DEF IInv, InOrder
    <3>2. task[r] # "none" => window'[request[r].window] = window[request[r].window]
      BY <2>1, <3>1 DEF RequestInOrder
    <3>3. supervisor[r] # "none" => task[r] # "none"
      BY <3>1 DEF RequestInOrder
    <3> QED
      BY <2>1, <2>2, <3>1, <3>2, <3>3 DEF RequestInOrder, InFlight
  <2>4. ASSUME NEW b \in Identity PROVE RowInOrder(b)'
    <3>1. RowInOrder(b)
      BY DEF IInv, InOrder
    <3>2. /\ row'[b].status # "RUNNING"
          /\ row'[b].status = "PASSED" => row'[b] = row[b]
      BY <1>0, <1>3 DEF Restart, Recovered, TypeOK, RunRow
    <3> QED
      BY <2>1, <2>2, <3>1, <3>2 DEF RowInOrder
  <2> QED
    BY <2>3, <2>4 DEF InOrder
<1>4. ASSUME NEW r \in Request, SupervisorExits(r) PROVE InOrder'
  <2>1. \A q \in Request : \/ supervisor'[q] = supervisor[q]
                           \/ supervisor[q] = "alive" /\ supervisor'[q] = "exited"
    BY <1>0, <1>4 DEF SupervisorExits, TypeOK
  <2> QED
    BY <1>4, <2>1, SurroundingStep DEF SupervisorExits
<1>5. CASE ChangeEnvironment \/ ProofLapses \/ Tick \/ UNCHANGED vars
  <2>1. UNCHANGED <<window, row, task, request, supervisor>>
    BY <1>5 DEF ChangeEnvironment, ProofLapses, Tick, vars
  <2> QED
    BY <2>1, SurroundingStep
<1> QED
  BY <1>1, <1>2, <1>3, <1>4, <1>5 DEF Next, Environment

\* The inductive invariant holds in every run.
THEOREM RequestsAndRowsAreInOrder == Spec => []IInv
BY ConstantAssumption, InvariantStarts, InvariantKept, PTL DEF Spec

-----------------------------------------------------------------------------
(* What follows from it. *)

\* Every variable keeps its type.
THEOREM TypeCorrect == Spec => []TypeOK
BY RequestsAndRowsAreInOrder, PTL DEF IInv

\* Every process was started with a consumed window of its own, which was sealed
\* for the contract it ran and was not blocked.
THEOREM ProcessesAreAuthorised == Spec => []ProcessIsAuthorised
<1>1. IInv => ProcessIsAuthorised
  <2> SUFFICES ASSUME IInv, NEW r \in Request, supervisor[r] # "none"
               PROVE  LET w == request[r].window IN
                 /\ w \in Window
                 /\ window[w].status = "CONSUMED"
                 /\ window[w].error_code = "none"
                 /\ window[w].binding = request[r].contract
                 /\ \A q \in Request : supervisor[q] # "none" /\ request[q].window = w => q = r
    BY DEF ProcessIsAuthorised
  <2>1. RequestInOrder(r)
    BY DEF IInv, InOrder
  <2> QED
    BY <2>1 DEF RequestInOrder
<1> QED
  BY <1>1, RequestsAndRowsAreInOrder, PTL

\* A RUNNING row has exactly the coroutine that will settle it.
THEOREM RunningRowsAreServed == Spec => []RunningRowIsServed
<1>1. IInv => RunningRowIsServed
  BY DEF IInv, InOrder, RequestInOrder, RowInOrder, RunningRowIsServed
<1> QED
  BY <1>1, RequestsAndRowsAreInOrder, PTL

\* A PASSED result stands on a process that has ended by itself, started under a
\* window that was sealed for this contract.
THEOREM PassedRowsAreProven == Spec => []PassedIsProven
<1>1. IInv => PassedIsProven
  <2> SUFFICES ASSUME IInv, NEW b \in Identity, row[b].status = "PASSED"
               PROVE  LET r == row[b].harness_id IN
                 /\ supervisor[r] = "exited"
                 /\ request[r].contract = b
                 /\ window[request[r].window].binding = b
    BY DEF PassedIsProven
  <2>1. RowInOrder(b)
    BY DEF IInv, InOrder
  <2>2. RequestInOrder(row[b].harness_id)
    BY <2>1 DEF IInv, InOrder, RowInOrder
  <2> QED
    BY <2>1, <2>2 DEF RowInOrder, RequestInOrder
<1> QED
  BY <1>1, RequestsAndRowsAreInOrder, PTL

\* A PASSED result is never run again or overwritten.
THEOREM PassedRowsStay == Spec => PassedIsFinal
<1>1. ASSUME IInv, [Next]_vars, NEW b \in Identity, row[b].status = "PASSED"
      PROVE  row'[b] = row[b]
  <2>1. row \in [Identity -> RunRow]
    BY <1>1 DEF IInv, TypeOK
  <2>2. ASSUME NEW r \in Request, NEW c \in Identity, Begin(r, c) PROVE row'[b] = row[b]
    BY <1>1, <2>1, <2>2 DEF Begin
  <2>3. ASSUME NEW r \in Request, NEW s \in Settled, Finish(r, s) PROVE row'[b] = row[b]
    BY <1>1, <2>3 DEF Finish, Recorded
  <2>4. CASE Restart
    BY <1>1, <2>4 DEF Restart, Recovered
  <2>5. ASSUME NEW r \in Request, Advance(r) PROVE row'[b] = row[b]
    BY <2>2, <2>3, <2>5 DEF Advance, Block, Wait, Reuse, CallSpawn, CreateProcess,
       FailBeforeSpawn, TimeOut, FinishRun, Settled
  <2>6. CASE Gate
    BY <2>6 DEF Gate, Arm, ExpireOnUse, Consume
  <2>7. CASE (\E r \in Request : SupervisorExits(r)) \/ ChangeEnvironment \/ ProofLapses \/ Tick
    BY <2>7 DEF SupervisorExits, ChangeEnvironment, ProofLapses, Tick
  <2>8. CASE UNCHANGED vars
    BY <2>8 DEF vars
  <2> QED
    BY <1>1, <2>4, <2>5, <2>6, <2>7, <2>8 DEF Next, Environment
<1>2. IInv /\ [Next]_vars => [\A b \in Identity : row[b].status = "PASSED" => row'[b] = row[b]]_vars
  BY <1>1
<1> QED
  BY <1>2, RequestsAndRowsAreInOrder, PTL DEF Spec, PassedIsFinal

\* There is never more than one window to run with.
THEOREM OneWindowArmed == Spec => []SingleArmed
<1>1. Init => SingleArmed
  BY DEF Init, SingleArmed, Unissued
<1>2. ASSUME IInv, SingleArmed, [Next]_vars PROVE SingleArmed'
  <2>0. window \in [Window -> WindowRow]
    BY <1>2 DEF IInv, TypeOK
  <2>1. ASSUME NEW w \in Window, Arm(w) PROVE SingleArmed'
    <3>1. \A v \in Window : v # w => window'[v].status # "ARMED"
      BY <2>0, <2>1 DEF Arm, Issuable, Swept
    <3> QED
      BY <3>1 DEF SingleArmed
  <2>2. ASSUME \A w \in Window : window'[w].status = "ARMED" => window[w].status = "ARMED"
        PROVE  SingleArmed'
    BY <1>2, <2>2 DEF SingleArmed
  <2>3. ASSUME NEW v \in Window, NEW a \in Window,
               ExpireOnUse(v, a) \/ \E r \in Request : Consume(r, v, a)
        PROVE  SingleArmed'
    BY <2>0, <2>2, <2>3 DEF ExpireOnUse, Consume, WindowRow
  <2>4. ASSUME NEW r \in Request, Block(r) PROVE SingleArmed'
    BY <2>0, <2>2, <2>4 DEF Block, WindowRow
  <2>5. CASE Restart
    BY <2>0, <2>2, <2>5 DEF Restart, Disarmed, WindowRow
  <2>6. CASE window' = window
    BY <2>2, <2>6
  <2>7. ASSUME NEW r \in Request, Advance(r), ~Block(r) PROVE window' = window
    BY <2>7 DEF Advance, Wait, Reuse, Begin, CallSpawn, CreateProcess, FailBeforeSpawn, TimeOut,
       FinishRun
  <2>8. CASE (\E r \in Request : SupervisorExits(r)) \/ ChangeEnvironment \/ ProofLapses \/ Tick
             \/ UNCHANGED vars
    BY <2>6, <2>8 DEF SupervisorExits, ChangeEnvironment, ProofLapses, Tick, vars
  <2> QED
    BY <1>2, <2>1, <2>3, <2>4, <2>5, <2>6, <2>7, <2>8 DEF Next, Gate, Environment
<1> QED
  BY <1>1, <1>2, RequestsAndRowsAreInOrder, PTL DEF Spec

-----------------------------------------------------------------------------
(* The refinement: every step issues, voids, claims or launches, or leaves *)
(* the phase of every window alone.                                        *)

\* The phase of a window, read off its row and its process.
LEMMA Phases ==
  ASSUME TypeOK, NEW w \in Window
  PROVE  /\ phase[w] = "unissued" <=> window[w].status = "NONE"
         /\ phase[w] = "held" <=> window[w].status = "ARMED"
         /\ phase[w] = "void" <=> window[w].status = "EXPIRED"
         /\ phase[w] = "claimed" <=> window[w].status = "CONSUMED" /\ ~Launched(w)
         /\ phase[w] = "launched" <=> window[w].status = "CONSUMED" /\ Launched(w)
         /\ phase[w] \in Authority!Phase
<1>1. window[w].status \in {"NONE", "ARMED", "EXPIRED", "CONSUMED"}
  BY DEF TypeOK, WindowRow, WindowStatus
<1>2. phase[w] = CASE window[w].status = "NONE" -> "unissued"
                   [] window[w].status = "ARMED" -> "held"
                   [] window[w].status = "EXPIRED" -> "void"
                   [] window[w].status = "CONSUMED" -> IF Launched(w) THEN "launched" ELSE "claimed"
  BY DEF phase
<1> QED
  BY <1>1, <1>2 DEF Authority!Phase

\* A window keeps its phase when its status and its process stay.
LEMMA PhaseKept ==
  ASSUME NEW w \in Window, window'[w].status = window[w].status,
         Launched(w)' <=> Launched(w)
  PROVE  phase'[w] = phase[w]
<1>1. phase[w] = CASE window[w].status = "NONE" -> "unissued"
                   [] window[w].status = "ARMED" -> "held"
                   [] window[w].status = "EXPIRED" -> "void"
                   [] window[w].status = "CONSUMED" -> IF Launched(w) THEN "launched" ELSE "claimed"
  BY DEF phase
<1>2. phase'[w] = CASE window'[w].status = "NONE" -> "unissued"
                    [] window'[w].status = "ARMED" -> "held"
                    [] window'[w].status = "EXPIRED" -> "void"
                    [] window'[w].status = "CONSUMED" ->
                         IF Launched(w)' THEN "launched" ELSE "claimed"
  BY DEF phase
<1> QED
  BY <1>1, <1>2

\* The phase is a table of the windows.
LEMMA PhaseTable ==
  /\ phase = [w \in Window |-> phase[w]]
  /\ phase' = [w \in Window |-> phase'[w]]
<1> DEFINE PhaseOf(w) ==
      CASE window[w].status = "NONE" -> "unissued"
        [] window[w].status = "ARMED" -> "held"
        [] window[w].status = "EXPIRED" -> "void"
        [] window[w].status = "CONSUMED" -> IF Launched(w) THEN "launched" ELSE "claimed"
<1>1. phase = [w \in Window |-> PhaseOf(w)]
  BY DEF phase
<1>2. phase' = [w \in Window |-> PhaseOf(w)']
  BY DEF phase
<1> HIDE DEF PhaseOf
<1>3. phase = [w \in Window |-> phase[w]]
  BY <1>1
<1>4. phase' = [w \in Window |-> phase'[w]]
  BY <1>2
<1> QED
  BY <1>3, <1>4

\* A window whose armed row expires becomes void.
LEMMA PhaseVoided ==
  ASSUME NEW w \in Window, window'[w].status = "EXPIRED"
  PROVE  phase'[w] = "void"
BY DEF phase

\* A window that is not yet, or no longer, held by a request has no process.
LEMMA UnclaimedIdle ==
  ASSUME ConstantAssumption, IInv, NEW w \in Window, window[w].status # "CONSUMED"
  PROVE  ~Launched(w)
<1> SUFFICES ASSUME NEW r \in Request, request[r].window = w, supervisor[r] # "none"
             PROVE  FALSE
  BY DEF Launched
<1>1. RequestInOrder(r)
  BY DEF IInv, InOrder
<1> QED
  BY <1>1 DEF RequestInOrder

\* A step that starts no process and keeps the windows of the requests which
\* have one moves windows only by their status.
LEMMA LaunchedKept ==
  ASSUME NEW w \in Window,
         \A r \in Request :
           \/ /\ request'[r].window = request[r].window
              /\ supervisor'[r] = "none" <=> supervisor[r] = "none"
           \/ supervisor[r] = "none" /\ supervisor'[r] = "none"
  PROVE  Launched(w)' <=> Launched(w)
BY DEF Launched

\* The gate issues, voids or claims.
LEMMA GateRefines ==
  ASSUME ConstantAssumption, IInv, IInv', Gate
  PROVE  Authority!Next
<1>0. TypeOK /\ TypeOK'
  BY DEF IInv
<1>1. ASSUME NEW w \in Window, Arm(w) PROVE Authority!Next
  <2>1. /\ window[w].status = "NONE" /\ window'[w].status = "ARMED"
        /\ \A v \in Window \ {w} :
             window'[v].status = IF window[v].status = "ARMED" THEN "EXPIRED" ELSE window[v].status
    BY <1>0, <1>1 DEF Arm, Issuable, Swept, Overdue, TypeOK, WindowRow
  <2>2. \A v \in Window : Launched(v)' <=> Launched(v)
    BY <1>1, LaunchedKept DEF Arm
  <2>3. phase'[w] = "held" /\ phase[w] = "unissued"
    BY <1>0, <2>1, Phases DEF TypeOK, phase
  <2>4. \A v \in Window \ {w} : phase'[v] = IF phase[v] = "held" THEN "void" ELSE phase[v]
    BY <1>0, <2>1, <2>2, Phases, PhaseKept, PhaseVoided
  <2>5. phase' = [v \in Window |-> IF v = w THEN "held"
                                   ELSE IF phase[v] = "held" THEN "void" ELSE phase[v]]
    BY <2>3, <2>4, PhaseTable
  <2>6. Authority!Issue(w, "held")
    BY <2>3, <2>5 DEF Authority!Issue
  <2> QED
    BY <2>6 DEF Authority!Next
<1>2. ASSUME NEW w \in Window, NEW a \in Window, ExpireOnUse(w, a) PROVE Authority!Next
  <2>1. /\ window[w].status = "ARMED" /\ window'[w].status = "EXPIRED"
        /\ \A v \in Window \ {w} : window'[v] = window[v]
    BY <1>0, <1>2 DEF ExpireOnUse, Overdue, TypeOK, WindowRow
  <2>2. \A v \in Window : Launched(v)' <=> Launched(v)
    BY <1>2, LaunchedKept DEF ExpireOnUse
  <2>3. phase'[w] = "void" /\ phase[w] = "held"
    BY <1>0, <2>1, Phases DEF phase
  <2>4. \A v \in Window \ {w} : phase'[v] = phase[v]
    BY <2>1, <2>2, PhaseKept
  <2>5. phase' = [v \in Window |-> IF v \in {w} THEN "void" ELSE phase[v]]
    BY <2>3, <2>4, PhaseTable
  <2>6. Authority!Void({w})
    BY <2>3, <2>5 DEF Authority!Void
  <2> QED
    BY <2>6 DEF Authority!Next
<1>3. ASSUME NEW w \in Window, NEW a \in Window, NEW r \in Request, Consume(r, w, a)
      PROVE  Authority!Next
  <2>1. /\ window[w].status = "ARMED" /\ window'[w].status = "CONSUMED"
        /\ \A v \in Window \ {w} : window'[v] = window[v]
        /\ supervisor' = supervisor
        /\ \A q \in Request \ {r} : request'[q] = request[q]
        /\ task[r] = "none"
    BY <1>0, <1>3 DEF Consume, Usable, TypeOK, WindowRow
  <2>2. supervisor[r] = "none"
    BY <2>1 DEF IInv, InOrder, RequestInOrder
  <2>3. \A v \in Window : Launched(v)' <=> Launched(v)
    BY <2>1, <2>2, LaunchedKept
  <2>4. ~Launched(w)
    BY <2>1, UnclaimedIdle
  <2>5. phase[w] = "held" /\ phase'[w] = "claimed"
    BY <1>0, <2>1, <2>3, <2>4, Phases DEF phase
  <2>6. \A v \in Window \ {w} : phase'[v] = phase[v]
    BY <2>1, <2>3, PhaseKept
  <2>7. phase' = [phase EXCEPT ![w] = "claimed"]
    BY <2>5, <2>6, PhaseTable
  <2>8. Authority!ClaimGrant(w)
    BY <2>5, <2>7 DEF Authority!ClaimGrant
  <2> QED
    BY <2>8 DEF Authority!Next
<1> QED
  BY <1>1, <1>2, <1>3 DEF Gate

\* The process of a run launches its window.
LEMMA LaunchRefines ==
  ASSUME ConstantAssumption, IInv, NEW r \in Request, CreateProcess(r)
  PROVE  Authority!Next
<1> DEFINE w == request[r].window
<1>1. TypeOK /\ RequestInOrder(r)
  BY DEF IInv, InOrder
<1>2. /\ w \in Window /\ window[w].status = "CONSUMED" /\ supervisor[r] = "none"
      /\ \A q \in Request : request[q].window = w => q = r
  BY <1>1 DEF CreateProcess, RequestInOrder
<1>3. /\ UNCHANGED <<window, request>>
      /\ supervisor'[r] = "alive"
      /\ \A q \in Request \ {r} : supervisor'[q] = supervisor[q]
  BY <1>1 DEF CreateProcess, TypeOK
<1>4. ~Launched(w) /\ Launched(w)'
  BY <1>2, <1>3 DEF Launched
<1>5. phase[w] = "claimed"
  BY <1>1, <1>2, <1>4, Phases
<1>6. phase'[w] = "launched"
  BY <1>2, <1>3, <1>4 DEF phase
<1>7. \A v \in Window \ {w} : phase'[v] = phase[v]
  <2> SUFFICES ASSUME NEW v \in Window \ {w} PROVE phase'[v] = phase[v]
    OBVIOUS
  <2>1. Launched(v)' <=> Launched(v)
    BY <1>3 DEF Launched
  <2> QED
    BY <1>3, <2>1, PhaseKept
<1>8. phase' = [phase EXCEPT ![w] = "launched"]
  BY <1>6, <1>7, PhaseTable
<1>9. Authority!Launch(w)
  BY <1>5, <1>8 DEF Authority!Launch
<1> QED
  BY <1>2, <1>9 DEF Authority!Next

\* Every step is a step of the authority or a stutter.
LEMMA WindowStep ==
  ASSUME ConstantAssumption, IInv, [Next]_vars
  PROVE  [Authority!Next]_phase
<1>0. IInv' /\ TypeOK
  BY InvariantKept DEF IInv
<1>1. CASE Gate
  BY <1>0, <1>1, GateRefines
<1>2. ASSUME \A w \in Window : window'[w].status = window[w].status,
             \A r \in Request : \/ request'[r].window = request[r].window
                                \/ supervisor[r] = "none",
             \A r \in Request : supervisor'[r] = "none" <=> supervisor[r] = "none"
      PROVE  phase' = phase
  <2>1. \A w \in Window : Launched(w)' <=> Launched(w)
    BY <1>2, LaunchedKept
  <2>2. \A w \in Window : phase'[w] = phase[w]
    BY <1>2, <2>1, PhaseKept
  <2> QED
    BY <2>2, PhaseTable
<1>3. ASSUME NEW r \in Request, CreateProcess(r) PROVE Authority!Next
  BY <1>3, LaunchRefines
<1>4. ASSUME NEW r \in Request, Block(r) PROVE phase' = phase
  <2>1. \A w \in Window : window'[w].status = window[w].status
    BY <1>0, <1>4 DEF Block, TypeOK, WindowRow
  <2> QED
    BY <1>2, <1>4, <2>1 DEF Block
<1>5. ASSUME NEW r \in Request, NEW b \in Identity, Wait(r, b) \/ Reuse(r, b) \/ Begin(r, b)
      PROVE  phase' = phase
  <2>1. \A q \in Request : request'[q].window = request[q].window
    <3>1. request' = [request EXCEPT ![r].contract = b]
      BY <1>5 DEF Wait, Reuse, Begin
    <3> QED
      BY <1>0, <3>1 DEF TypeOK
  <2>2. UNCHANGED <<window, supervisor>>
    BY <1>5 DEF Wait, Reuse, Begin
  <2> QED
    BY <1>2, <2>1, <2>2
<1>6. ASSUME NEW r \in Request,
             CallSpawn(r) \/ FailBeforeSpawn(r) \/ TimeOut(r) \/ \E s \in Settled : FinishRun(r, s)
      PROVE  phase' = phase
  <2>1. UNCHANGED <<window, request, supervisor>>
    BY <1>6 DEF CallSpawn, FailBeforeSpawn, TimeOut, FinishRun
  <2> QED
    BY <1>2, <2>1
<1>7. ASSUME NEW r \in Request, SupervisorExits(r) PROVE phase' = phase
  <2>1. \A q \in Request : supervisor'[q] = "none" <=> supervisor[q] = "none"
    BY <1>0, <1>7 DEF SupervisorExits, TypeOK
  <2> QED
    BY <1>2, <1>7, <2>1 DEF SupervisorExits
<1>8. CASE Restart
  <2> DEFINE Held == {w \in Window : window[w].status = "ARMED"}
  <2>1. \A w \in Window : window'[w].status =
          IF window[w].status = "ARMED" THEN "EXPIRED" ELSE window[w].status
    BY <1>0, <1>8 DEF Restart, Disarmed, TypeOK, WindowRow
  <2>2. \A w \in Window : Launched(w)' <=> Launched(w)
    BY <1>8 DEF Restart, Launched
  <2>3. \A w \in Window : phase'[w] = IF w \in Held THEN "void" ELSE phase[w]
    BY <2>1, <2>2, PhaseKept, PhaseVoided
  <2>4. phase' = [w \in Window |-> IF w \in Held THEN "void" ELSE phase[w]]
    BY <2>3, PhaseTable
  <2>5. Authority!Void(Held)
    BY <1>0, <2>4, Phases DEF Authority!Void
  <2> QED
    BY <2>5 DEF Authority!Next
<1>9. CASE ChangeEnvironment \/ ProofLapses \/ Tick \/ UNCHANGED vars
  <2>1. UNCHANGED <<window, request, supervisor>>
    BY <1>9 DEF ChangeEnvironment, ProofLapses, Tick, vars
  <2> QED
    BY <1>2, <2>1
<1> QED
  BY <1>1, <1>3, <1>4, <1>5, <1>6, <1>7, <1>8, <1>9 DEF Next, Advance, Environment

\* An execution window is a one-use authority: expired, restarted and blocked
\* windows never start a process, a consumed one starts at most one.
THEOREM WindowRefinement == Spec => WindowIsOneUse
<1>1. Init => Authority!Init
  BY DEF Init, Unissued, phase, Authority!Init
<1>2. ConstantAssumption /\ IInv /\ [Next]_vars => [Authority!Next]_phase
  BY WindowStep
<1> QED
  BY <1>1, <1>2, ConstantAssumption, RequestsAndRowsAreInOrder, PTL
     DEF Spec, WindowIsOneUse, Authority!Spec
=============================================================================
