------------------------------ MODULE BridgeProofs ------------------------------
(***************************************************************************)
(* The safety of Bridge for any number of packets, requests and restarts:  *)
(* a packet that can be answered has an open nonce, a review follows an    *)
(* accepted plan, and sealed evidence can be rebuilt from what is stored.  *)
(***************************************************************************)
EXTENDS Bridge, FiniteSetTheorems, TLAPS

\* Nonces are issued one after the other, so that the next one is new.
InSequence ==
  \E k \in 0 .. MaxNonce : \A n \in Nonce : nonces[n].state # "unissued" <=> n <= k

\* A nonce has a response once it has been claimed or refused, and not before.
Answers ==
  \A n \in Nonce :
    /\ nonces[n].state \in {"unissued", "issued"} => nonces[n].response = None
    /\ nonces[n].state = "claimed" => nonces[n].response # None

\* Where a handler is between two commits and what the task says agree.
HandlerAgrees ==
  /\ task.status = "PROCESSING_RESPONSE" <=> op.at \in {"claimed", "planned"}
  /\ task.status = "PROCESSING_RESPONSE" => task.nonce \in Nonce
  /\ op.at \in {"asked", "collecting", "collected", "recorded"} =>
       task.status = "NEED_MORE_EVIDENCE"
  /\ op.at \in {"collecting", "collected", "recorded"} =>
       op.index \in Index /\ rows[op.index].ask \in Ask /\ rows[op.index].source \in Source
  /\ op.at = "collected" => results[op.index] # None

\* A row is whole: it has its request, its file once mapped, and its result once
\* it is READY.
RowsWhole ==
  \A i \in Index :
    /\ rows[i].state = "none" <=> rows[i] = NoRow
    /\ rows[i].state # "none" => rows[i].ask \in Ask
    /\ rows[i].state \in {"MAPPED", "COLLECTING", "READY", "FAILED"} => rows[i].source \in Source
    /\ rows[i].state = "READY" => results[i] # None

IInv ==
  /\ TypeOK /\ InSequence /\ Answers /\ HandlerAgrees /\ RowsWhole
  /\ PendingIsOpen /\ ReviewIsPlanned /\ EvidenceIsStored

--------------------------------------------------------------------------------
(* Records and nonces. *)

Task == [status : Status, nonce : 0 .. MaxNonce, plan : 0 .. MaxNonce,
         asked : [Index -> Ask \cup {None}], evidence : [Index -> Result \cup {None}]]
NonceRow == [state : {"unissued", "issued", "claimed", "completed", "failed"},
             phase : {"ARCHITECT", "REVIEW", None}, response : Architect \cup Review \cup {None}]
Row == [state : {"none", "REQUESTED", "MAPPED", "COLLECTING", "READY", "FAILED"},
        ask : Ask \cup {None}, source : Source \cup {None}]

LEMMA Records ==
  TypeOK <=>
    /\ task \in Task /\ nonces \in [Nonce -> NonceRow] /\ rows \in [Index -> Row]
    /\ plans \in [Nonce -> {"none", "PREVIEW", "HOLD"}]
    /\ results \in [Index -> Result \cup {None}]
    /\ ledger \subseteq Index \X Result
    /\ expired \in BOOLEAN /\ crashes \in 0 .. MaxCrash
    /\ op \in [at : {"idle", "claimed", "planned", "asked", "collecting", "collected", "recorded"},
               index : Index \cup {None}]
BY DEF TypeOK, Task, NonceRow, Row

\* The next nonce is the first that has not been issued.
LEMMA FreshIsNew ==
  ASSUME InSequence, Fresh \in Nonce
  PROVE  \A n \in Nonce : nonces[n].state # "unissued" <=> n < Fresh
<1>1. MaxNonce \in Nat
  BY BridgeAssumption
<1>2. PICK k \in 0 .. MaxNonce : \A n \in Nonce : nonces[n].state # "unissued" <=> n <= k
  BY DEF InSequence
<1>3. {n \in Nonce : nonces[n].state # "unissued"} = 1 .. k
  BY <1>1, <1>2 DEF Nonce
<1>4. Cardinality(1 .. k) = k
  BY <1>1, <1>2, FS_Interval
<1>5. Fresh = k + 1
  BY <1>3, <1>4 DEF Fresh
<1> QED
  BY <1>1, <1>2, <1>5 DEF Nonce

\* Settling a nonce changes its state and nothing else.
LEMMA Settling ==
  ASSUME TypeOK, NEW n \in Nonce, NEW s \in {"completed", "failed"}
  PROVE  /\ Settle(n, s) \in [Nonce -> NonceRow]
         /\ Settle(n, s)[n].state = s
         /\ Settle(n, s)[n].response = nonces[n].response
         /\ \A m \in Nonce \ {n} : Settle(n, s)[m] = nonces[m]
<1>1. nonces \in [Nonce -> NonceRow]
  BY Records
<1>2. [nonces[n] EXCEPT !.state = s] \in NonceRow
  BY <1>1 DEF NonceRow
<1>3. /\ [nonces[n] EXCEPT !.state = s].state = s
      /\ [nonces[n] EXCEPT !.state = s].response = nonces[n].response
  BY <1>1 DEF NonceRow
<1>4. Settle(n, s) = [nonces EXCEPT ![n] = [nonces[n] EXCEPT !.state = s]]
  BY DEF Settle
<1> QED
  BY <1>1, <1>2, <1>3, <1>4

\* What sealing a packet does, whatever record it is sealed in.
SealFacts(t, status, rs) ==
  /\ Fresh \in Nonce /\ nonces[Fresh].state = "unissued"
  /\ task' \in Task
  /\ task'.status = status /\ task'.nonce = Fresh /\ task'.plan = t.plan
  /\ task'.evidence = t.evidence
  /\ nonces' \in [Nonce -> NonceRow]
  /\ nonces'[Fresh].state = "issued" /\ nonces'[Fresh].phase = Phase(status)
  /\ nonces'[Fresh].response = None
  /\ \A n \in Nonce \ {Fresh} : nonces'[n] = rs[n]
  /\ InSequence'
  /\ expired' = FALSE

LEMMA SealEffect ==
  ASSUME TypeOK, InSequence, NEW t \in Task, NEW status \in Copyable,
         NEW rs \in [Nonce -> NonceRow],
         \A n \in Nonce : rs[n].state = "unissued" <=> nonces[n].state = "unissued",
         Seal(t, status, rs)
  PROVE  SealFacts(t, status, rs)
<1>1. Fresh \in Nonce /\ MaxNonce \in Nat
  BY BridgeAssumption DEF Seal
<1>2. \A n \in Nonce : nonces[n].state # "unissued" <=> n < Fresh
  BY <1>1, FreshIsNew
<1>3. nonces[Fresh].state = "unissued"
  BY <1>1, <1>2 DEF Nonce
<1>4. task' = [t EXCEPT !.status = status, !.nonce = Fresh]
  BY DEF Seal
<1>5. Fresh \in 0 .. MaxNonce /\ status \in Status
  BY <1>1 DEF Nonce, Copyable, Status
<1>6. /\ task' \in Task /\ task'.status = status /\ task'.nonce = Fresh
      /\ task'.plan = t.plan /\ task'.evidence = t.evidence
  <2> HIDE DEF Fresh
  <2> QED
    BY <1>4, <1>5 DEF Task
<1>7. nonces' = [rs EXCEPT ![Fresh] =
                  [state |-> "issued", phase |-> Phase(status), response |-> None]]
  BY Zenon DEF Seal, Issue
<1>8. Phase(status) \in {"ARCHITECT", "REVIEW"}
  BY DEF Phase
<1>9. /\ nonces' \in [Nonce -> NonceRow]
      /\ nonces'[Fresh] = [state |-> "issued", phase |-> Phase(status), response |-> None]
      /\ \A n \in Nonce \ {Fresh} : nonces'[n] = rs[n]
  <2>1. [state |-> "issued", phase |-> Phase(status), response |-> None] \in NonceRow
    BY <1>8 DEF NonceRow
  <2> HIDE DEF Fresh
  <2> QED
    BY <1>1, <1>7, <2>1
<1>10. \A n \in Nonce : nonces'[n].state # "unissued" <=> n <= Fresh
  <2> HIDE DEF Fresh
  <2> QED
    BY <1>1, <1>2, <1>9 DEF Nonce
<1>11. InSequence'
  <2> HIDE DEF Fresh
  <2> QED
    BY <1>5, <1>10 DEF InSequence
<1> QED
  <2>1. expired' = FALSE
    BY DEF Seal
  <2> HIDE DEF Fresh
  <2> QED
    BY <1>1, <1>3, <1>6, <1>9, <1>11, <2>1 DEF SealFacts

--------------------------------------------------------------------------------
(* When the parts of the invariant are kept. *)

Reviewed == {"ROUTE_READY", "REVIEW_READY", "WAITING_REVIEW"}
Sealed == {"ARCHITECT_READY", "WAITING_ARCHITECT"}

\* No step makes a completed nonce another, nor changes a response a plan was made for.
LEMMA PlanKept ==
  ASSUME IInv, UNCHANGED plans,
         task'.status \in Reviewed => task.status \in Reviewed /\ task'.plan = task.plan,
         \A n \in Nonce : nonces[n].state = "completed" => nonces'[n].state = "completed",
         \A n \in Nonce : nonces[n].response # None => nonces'[n].response = nonces[n].response
  PROVE  ReviewIsPlanned'
BY DEF IInv, ReviewIsPlanned, Reviewed

LEMMA EvidenceKept ==
  ASSUME IInv,
         task'.status \in Sealed /\ task'.evidence # NoResults =>
           task.status \in Sealed /\ task'.evidence = task.evidence /\ UNCHANGED <<rows, results>>
  PROVE  EvidenceIsStored'
BY DEF IInv, EvidenceIsStored, Sealed

\* The states of nonces that matter to the order in which they are issued, and
\* whether they have been answered.
LEMMA NoncesKept ==
  ASSUME IInv,
         \A n \in Nonce : nonces'[n].state = "unissued" <=> nonces[n].state = "unissued",
         \A n \in Nonce : nonces'[n].response # nonces[n].response =>
           nonces'[n].response # None /\ nonces'[n].state \notin {"unissued", "issued"},
         \A n \in Nonce : nonces'[n].state \in {"issued", "claimed"} =>
           \/ nonces'[n].state = nonces[n].state
           \/ nonces'[n].response # None /\ nonces'[n].state = "claimed"
  PROVE  InSequence' /\ Answers'
<1>1. InSequence'
  BY DEF IInv, InSequence
<1>2. Answers'
  BY DEF IInv, Answers
<1> QED
  BY <1>1, <1>2

\* The end of a response: its nonce is settled with the task.
LEMMA SettleKeeps ==
  ASSUME IInv, task.status = "PROCESSING_RESPONSE", NEW s \in {"completed", "failed"},
         nonces' = Settle(task.nonce, s), TypeOK',
         task'.status \in Final \cup {"ROUTE_READY", "NEED_MORE_EVIDENCE"},
         op'.at \in {"idle", "asked"}, op'.at = "asked" => task'.status = "NEED_MORE_EVIDENCE",
         UNCHANGED <<plans, rows, results>>,
         task'.status = "ROUTE_READY" =>
           task'.plan = task.nonce /\ plans[task.nonce] = "PREVIEW" /\ s = "completed"
  PROVE  IInv'
<1>1. /\ TypeOK /\ Answers /\ task.nonce \in Nonce
      /\ \A n \in Nonce : nonces[n].state = "claimed" <=> n = task.nonce
  BY DEF IInv, HandlerAgrees, PendingIsOpen
<1>2. /\ nonces'[task.nonce].state = s
      /\ nonces'[task.nonce].response = nonces[task.nonce].response
      /\ \A n \in Nonce \ {task.nonce} : nonces'[n] = nonces[n]
  BY <1>1, Settling
<1>3. InSequence' /\ Answers'
  <2>1. nonces[task.nonce].state = "claimed" /\ nonces[task.nonce].response # None
    BY <1>1 DEF Answers
  <2>2. \A n \in Nonce : \/ nonces'[n] = nonces[n]
                        \/ /\ nonces[n].state = "claimed" /\ nonces'[n].state = s
                           /\ nonces'[n].response = nonces[n].response
    BY <1>2, <2>1
  <2>3. \A n \in Nonce :
          /\ nonces'[n].state = "unissued" <=> nonces[n].state = "unissued"
          /\ nonces'[n].response = nonces[n].response
          /\ nonces'[n].state \in {"issued", "claimed"} => nonces'[n].state = nonces[n].state
    BY <2>2
  <2> QED
    BY <2>3, NoncesKept
<1>4. /\ task'.status \notin {"PROCESSING_RESPONSE", "REVIEW_READY", "WAITING_REVIEW"}
      /\ task'.status \notin Copyable \cup Sealed
  BY DEF Final, Copyable, Sealed
<1>5. HandlerAgrees'
  BY <1>4 DEF HandlerAgrees
<1>6. RowsWhole'
  BY DEF IInv, RowsWhole
<1>7. PendingIsOpen'
  BY <1>1, <1>2, <1>4 DEF PendingIsOpen
<1>8. ReviewIsPlanned'
  BY <1>1, <1>2, <1>4 DEF IInv, ReviewIsPlanned
<1>9. EvidenceIsStored'
  BY <1>4, EvidenceKept
<1> QED
  BY <1>3, <1>5, <1>6, <1>7, <1>8, <1>9 DEF IInv

\* A packet is sealed in the record t, at the end of a handler.
LEMMA SealKeeps ==
  ASSUME IInv, NEW t \in Task, NEW status \in Copyable, NEW rs \in [Nonce -> NonceRow],
         \A n \in Nonce :
           /\ rs[n].state # "claimed" /\ rs[n].response = nonces[n].response
           /\ \/ rs[n] = nonces[n]
              \/ nonces[n].state = "claimed" /\ rs[n].state = "completed",
         Seal(t, status, rs), op' = Idle, crashes' = crashes,
         UNCHANGED <<plans, rows, results, ledger>>,
         status \in Reviewed => task.status \in Reviewed /\ t.plan = task.plan,
         status \in Sealed /\ t.evidence # NoResults => \A i \in Index :
           /\ t.evidence[i] # None => t.evidence[i] = results[i] /\ rows[i].state = "READY"
           /\ rows[i] # NoRow /\ rows[i].ask \notin Optional => t.evidence[i] # None
  PROVE  IInv'
<1> HIDE DEF Fresh
<1>1. TypeOK /\ InSequence /\ Answers
  BY DEF IInv
<1>2. \A n \in Nonce : rs[n].state = "unissued" <=> nonces[n].state = "unissued"
  OBVIOUS
<1>seal. SealFacts(t, status, rs)
  BY <1>1, <1>2, SealEffect
<1>3. /\ Fresh \in Nonce /\ nonces[Fresh].state = "unissued"
      /\ task' \in Task /\ task'.status = status /\ task'.nonce = Fresh /\ task'.plan = t.plan
      /\ task'.evidence = t.evidence
      /\ nonces' \in [Nonce -> NonceRow]
      /\ nonces'[Fresh].state = "issued" /\ nonces'[Fresh].phase = Phase(status)
      /\ nonces'[Fresh].response = None
      /\ \A n \in Nonce \ {Fresh} : nonces'[n] = rs[n]
      /\ InSequence' /\ expired' = FALSE
  BY <1>seal DEF SealFacts
<1>4. TypeOK'
  <2>1. UNCHANGED <<plans, rows, results, ledger, crashes>> /\ op' = Idle
    OBVIOUS
  <2>2. op' \in [at : {"idle", "claimed", "planned", "asked", "collecting", "collected",
                      "recorded"},
                index : Index \cup {None}]
    BY <2>1 DEF Idle
  <2>3. expired' \in BOOLEAN
    BY <1>3
  <2> QED
    BY <1>1, <1>3, <2>1, <2>2, <2>3 DEF TypeOK, Task, NonceRow
<1>5. Answers'
  <2>1. \A n \in Nonce \ {Fresh} : /\ nonces'[n].state # "claimed"
                                   /\ nonces'[n].response = nonces[n].response
                                   /\ nonces'[n].state \in {"unissued", "issued"} =>
                                        nonces'[n].state = nonces[n].state
    BY <1>3
  <2> QED
    BY <1>1, <1>3, <2>1 DEF Answers
<1>6. status # "PROCESSING_RESPONSE" /\ op'.at = "idle"
  BY DEF Copyable, Idle
<1>7. HandlerAgrees' /\ RowsWhole'
  BY <1>3, <1>6 DEF IInv, HandlerAgrees, RowsWhole
<1>8. PendingIsOpen'
  BY <1>3, <1>6 DEF PendingIsOpen
<1>9. ReviewIsPlanned'
  <2>1. \A n \in Nonce : nonces[n].state = "completed" => nonces'[n].state = "completed"
    BY <1>3
  <2>2. \A n \in Nonce : nonces[n].response # None => nonces'[n].response = nonces[n].response
    BY <1>1, <1>3 DEF Answers
  <2> QED
    BY <1>3, <2>1, <2>2, PlanKept
<1>10. EvidenceIsStored'
  BY <1>3 DEF EvidenceIsStored, Sealed
<1> QED
  BY <1>3, <1>4, <1>5, <1>7, <1>8, <1>9, <1>10 DEF IInv

\* The same, when no response is being processed.
LEMMA SealAtRest ==
  ASSUME IInv, NEW t \in Task, NEW status \in Copyable,
         \A n \in Nonce : nonces[n].state # "claimed",
         Seal(t, status, nonces), op' = Idle, crashes' = crashes,
         UNCHANGED <<plans, rows, results, ledger>>,
         status \in Reviewed => task.status \in Reviewed /\ t.plan = task.plan,
         status \in Sealed /\ t.evidence # NoResults => \A i \in Index :
           /\ t.evidence[i] # None => t.evidence[i] = results[i] /\ rows[i].state = "READY"
           /\ rows[i] # NoRow /\ rows[i].ask \notin Optional => t.evidence[i] # None
  PROVE  IInv'
<1>1. nonces \in [Nonce -> NonceRow]
  BY Records DEF IInv
<1> QED
  BY <1>1, SealKeeps

\* A new cycle forgets the plan, the requests and the evidence of the last.
LEMMA NewCycleEffect ==
  ASSUME task \in Task
  PROVE  NewCycle \in Task /\ NewCycle.evidence = NoResults
<1>1. /\ NoAsks \in [Index -> Ask \cup {None}] /\ NoResults \in [Index -> Result \cup {None}]
      /\ 0 \in 0 .. MaxNonce
  BY BridgeAssumption DEF NoAsks, NoResults
<1> QED
  BY <1>1 DEF NewCycle, Task

--------------------------------------------------------------------------------
(* The invariant is kept. *)

LEMMA InvariantStarts == Init => IInv
<1> SUFFICES ASSUME Init PROVE IInv
  OBVIOUS
<1>1. 1 \in Nonce /\ MaxNonce \in Nat /\ 1 \in 0 .. MaxNonce
  BY BridgeAssumption DEF Nonce
<1>2. /\ nonces = [n \in Nonce |-> IF n = 1
           THEN [state |-> "issued", phase |-> "ARCHITECT", response |-> None]
           ELSE [state |-> "unissued", phase |-> None, response |-> None]]
  BY <1>1 DEF Init, Issue, Unissued
<1>3. TypeOK
  <2>1. nonces \in [Nonce -> NonceRow]
    BY <1>2 DEF NonceRow
  <2>2. NoAsks \in [Index -> Ask \cup {None}] /\ NoResults \in [Index -> Result \cup {None}]
    BY DEF NoAsks, NoResults
  <2>3. task \in Task
    BY <1>1, <2>2 DEF Init, Task, Status, Copyable
  <2>4. rows \in [Index -> Row]
    BY DEF Init, Row, NoRow
  <2>5. 0 \in 0 .. MaxCrash
    BY BridgeAssumption
  <2> QED
    BY <2>1, <2>2, <2>3, <2>4, <2>5, Records DEF Init, Idle
<1>4. InSequence
  <2>1. \A n \in Nonce : nonces[n].state # "unissued" <=> n = 1
    BY <1>2
  <2>2. \A n \in Nonce : n = 1 <=> n <= 1
    BY <1>1 DEF Nonce
  <2> QED
    BY <1>1, <2>1, <2>2 DEF InSequence
<1>5. Answers /\ PendingIsOpen
  BY <1>1, <1>2 DEF Init, Answers, PendingIsOpen, Phase, Idle
<1>6. HandlerAgrees /\ RowsWhole
  BY DEF Init, HandlerAgrees, RowsWhole, Idle, NoRow
<1>7. ReviewIsPlanned /\ EvidenceIsStored
  BY DEF Init, ReviewIsPlanned, EvidenceIsStored
<1> QED
  BY <1>3, <1>4, <1>5, <1>6, <1>7 DEF IInv

\* What the user does to a task at rest, other than answering or collecting.
LEMMA HandlingKeeps ==
  ASSUME IInv,
         PacketHeld \/ PrepareHeld \/ Copied \/ PrepareReview \/ RestartCycle \/ Expire
  PROVE  IInv'
<1>1. TypeOK /\ task \in Task /\ nonces \in [Nonce -> NonceRow]
  BY Records DEF IInv
<1>2. CASE PacketHeld \/ PrepareHeld
  <2>1. /\ UNCHANGED <<nonces, plans, rows, results, ledger, expired, op, crashes>>
        /\ op = Idle /\ task' = Held
    BY <1>2 DEF PacketHeld, PrepareHeld
  <2>2. /\ task' \in Task /\ task'.status = "HOLD"
    <3>1. "HOLD" \in Status /\ 0 \in 0 .. MaxNonce
      BY BridgeAssumption DEF Status, Final
    <3> QED
      BY <1>1, <2>1, <3>1 DEF Held, Task
  <2>3. TypeOK'
    BY <1>1, <2>1, <2>2 DEF TypeOK, Task
  <2>4. task'.status \notin Copyable \cup Sealed \cup Reviewed /\ op.at = "idle"
    BY <2>1, <2>2 DEF Copyable, Sealed, Reviewed, Idle
  <2>5. InSequence' /\ Answers' /\ RowsWhole'
    BY <2>1 DEF IInv, InSequence, Answers, RowsWhole
  <2>6. HandlerAgrees' /\ PendingIsOpen'
    BY <2>1, <2>2, <2>4 DEF IInv, HandlerAgrees, PendingIsOpen
  <2>7. ReviewIsPlanned' /\ EvidenceIsStored'
    BY <2>1, <2>4, PlanKept, EvidenceKept
  <2> QED
    BY <2>3, <2>5, <2>6, <2>7 DEF IInv
<1>3. CASE Copied
  <2>1. /\ UNCHANGED <<nonces, plans, rows, results, ledger, expired, op, crashes>>
        /\ op = Idle
        /\ \/ /\ task.status = "ARCHITECT_READY"
              /\ task' = [task EXCEPT !.status = "WAITING_ARCHITECT"]
           \/ /\ task.status = "REVIEW_READY"
              /\ task' = [task EXCEPT !.status = "WAITING_REVIEW"]
    BY <1>3 DEF Copied
  <2>2. /\ task' \in Task
        /\ task'.nonce = task.nonce /\ task'.plan = task.plan /\ task'.evidence = task.evidence
        /\ \/ task.status = "ARCHITECT_READY" /\ task'.status = "WAITING_ARCHITECT"
           \/ task.status = "REVIEW_READY" /\ task'.status = "WAITING_REVIEW"
    BY <1>1, <2>1 DEF Task, Status, Copyable
  <2>3. TypeOK'
    BY <1>1, <2>1, <2>2 DEF TypeOK, Task
  <2>4. InSequence' /\ Answers' /\ RowsWhole'
    BY <2>1 DEF IInv, InSequence, Answers, RowsWhole
  <2>5. HandlerAgrees' /\ PendingIsOpen'
    BY <2>1, <2>2 DEF IInv, HandlerAgrees, PendingIsOpen, Copyable, Phase
  <2>6. ReviewIsPlanned' /\ EvidenceIsStored'
    BY <2>1, <2>2, PlanKept, EvidenceKept DEF Reviewed, Sealed
  <2> QED
    BY <2>3, <2>4, <2>5, <2>6 DEF IInv
<1>4. op = Idle => \A n \in Nonce : nonces[n].state # "claimed"
  BY DEF IInv, PendingIsOpen, Idle
<1>5. CASE PrepareReview
  <2>1. /\ op = Idle /\ task.status = "ROUTE_READY" /\ op' = Idle /\ crashes' = crashes
        /\ Seal(task, "REVIEW_READY", nonces) /\ UNCHANGED <<plans, rows, results, ledger>>
    BY <1>5 DEF PrepareReview
  <2> QED
    BY <1>1, <1>4, <2>1, SealAtRest DEF Copyable, Reviewed, Sealed
<1>6. CASE RestartCycle
  <2>1. /\ op = Idle /\ op' = Idle /\ crashes' = crashes
        /\ Seal(NewCycle, "ARCHITECT_READY", nonces) /\ UNCHANGED <<plans, rows, results, ledger>>
    BY <1>6 DEF RestartCycle
  <2>2. NewCycle \in Task /\ NewCycle.evidence = NoResults
    BY <1>1, NewCycleEffect
  <2> QED
    BY <1>1, <1>4, <2>1, <2>2, SealAtRest DEF Copyable, Reviewed, Sealed
<1>7. CASE Expire
  <2>1. UNCHANGED <<task, nonces, plans, rows, results, ledger, op, crashes>> /\ expired' = TRUE
    BY <1>7 DEF Expire
  <2> QED
    BY <1>1, <2>1 DEF IInv, TypeOK, InSequence, Answers, HandlerAgrees, RowsWhole,
       PendingIsOpen, ReviewIsPlanned, EvidenceIsStored
<1> QED
  BY <1>2, <1>3, <1>5, <1>6, <1>7

\* A response is refused with its task held, or claims its nonce.
LEMMA ImportKeeps ==
  ASSUME IInv, NEW n \in Nonce,
         NEW r \in Responses("ARCHITECT") \cup Responses("REVIEW"), Import(n, r)
  PROVE  IInv'
<1>1. TypeOK /\ task \in Task /\ nonces \in [Nonce -> NonceRow]
  BY Records DEF IInv
<1>2. /\ op = Idle /\ task.status \in {"WAITING_ARCHITECT", "WAITING_REVIEW"}
      /\ n = task.nonce /\ nonces[n].state = "issued"
      /\ UNCHANGED <<plans, rows, results, ledger, expired, crashes>>
  BY DEF Import
<1>3. /\ \A m \in Nonce : nonces[m].state # "claimed"
      /\ nonces[n].response = None
      /\ r \in Architect \cup Review /\ r # None
  BY <1>2, NoneIsNoResponse DEF IInv, PendingIsOpen, Answers, Idle, Responses
<1>4. ASSUME NEW s \in {"claimed", "failed"}, nonces' = Answered(n, r, s)
      PROVE  /\ nonces' \in [Nonce -> NonceRow]
             /\ nonces'[n].state = s /\ nonces'[n].response = r
             /\ \A m \in Nonce \ {n} : nonces'[m] = nonces[m]
  <2>1. nonces' = [nonces EXCEPT ![n] = [nonces[n] EXCEPT !.state = s, !.response = r]]
    BY <1>1, <1>4 DEF Answered
  <2>2. /\ [nonces[n] EXCEPT !.state = s, !.response = r] \in NonceRow
        /\ [nonces[n] EXCEPT !.state = s, !.response = r].state = s
        /\ [nonces[n] EXCEPT !.state = s, !.response = r].response = r
    BY <1>1, <1>3 DEF NonceRow
  <2> QED
    BY <1>1, <2>1, <2>2
<1>5. CASE nonces' = Answered(n, r, "failed") /\ task' = Held /\ UNCHANGED op
  <2>1. /\ nonces' \in [Nonce -> NonceRow] /\ nonces'[n].state = "failed"
        /\ nonces'[n].response = r /\ \A m \in Nonce \ {n} : nonces'[m] = nonces[m]
    BY <1>4, <1>5
  <2>2. /\ task' \in Task /\ task'.status = "HOLD"
    <3>1. "HOLD" \in Status /\ 0 \in 0 .. MaxNonce
      BY BridgeAssumption DEF Status, Final
    <3> QED
      BY <1>1, <1>5, <3>1 DEF Held, Task
  <2>3. TypeOK'
    BY <1>1, <1>2, <1>5, <2>1, <2>2 DEF TypeOK, Task, NonceRow
  <2>4. InSequence' /\ Answers'
    <3>1. \A m \in Nonce : nonces'[m].state = "unissued" <=> nonces[m].state = "unissued"
      BY <1>2, <2>1
    <3>2. \A m \in Nonce : nonces'[m].response # nonces[m].response =>
            nonces'[m].response # None /\ nonces'[m].state \notin {"unissued", "issued"}
      BY <1>3, <2>1
    <3>3. \A m \in Nonce : nonces'[m].state \in {"issued", "claimed"} =>
            nonces'[m].state = nonces[m].state
      BY <2>1
    <3> QED
      BY <3>1, <3>2, <3>3, NoncesKept
  <2>5. task'.status \notin Copyable \cup Sealed \cup Reviewed /\ op.at = "idle"
    BY <1>2, <2>2 DEF Copyable, Sealed, Reviewed, Idle
  <2>6. HandlerAgrees' /\ RowsWhole'
    BY <1>2, <1>5, <2>2, <2>5 DEF IInv, HandlerAgrees, RowsWhole
  <2>7. PendingIsOpen'
    BY <1>3, <2>1, <2>2, <2>5 DEF PendingIsOpen
  <2>8. ReviewIsPlanned' /\ EvidenceIsStored'
    BY <1>2, <1>3, <2>1, <2>5, PlanKept, EvidenceKept
  <2> QED
    BY <2>3, <2>4, <2>6, <2>7, <2>8 DEF IInv
<1>6. CASE /\ nonces' = Answered(n, r, "claimed")
           /\ task' = [task EXCEPT !.status = "PROCESSING_RESPONSE"]
           /\ op' = [Idle EXCEPT !.at = "claimed"]
  <2>1. /\ nonces' \in [Nonce -> NonceRow] /\ nonces'[n].state = "claimed"
        /\ nonces'[n].response = r /\ \A m \in Nonce \ {n} : nonces'[m] = nonces[m]
    BY <1>4, <1>6
  <2>2. /\ task' \in Task /\ task'.status = "PROCESSING_RESPONSE" /\ task'.nonce = task.nonce
    <3>1. "PROCESSING_RESPONSE" \in Status
      BY DEF Status
    <3> QED
      BY <1>1, <1>6, <3>1 DEF Task
  <2>3. op'.at = "claimed" /\ op' = [at |-> "claimed", index |-> None]
    BY <1>6 DEF Idle
  <2>4. TypeOK'
    BY <1>1, <1>2, <2>1, <2>2, <2>3 DEF TypeOK, Task, NonceRow
  <2>5. InSequence' /\ Answers'
    <3>1. \A m \in Nonce : nonces'[m].state = "unissued" <=> nonces[m].state = "unissued"
      BY <1>2, <2>1
    <3>2. \A m \in Nonce : nonces'[m].response # nonces[m].response =>
            nonces'[m].response # None /\ nonces'[m].state \notin {"unissued", "issued"}
      BY <1>3, <2>1
    <3>3. \A m \in Nonce : nonces'[m].state \in {"issued", "claimed"} =>
            \/ nonces'[m].state = nonces[m].state
            \/ nonces'[m].response # None /\ nonces'[m].state = "claimed"
      BY <1>3, <2>1
    <3> QED
      BY <3>1, <3>2, <3>3, NoncesKept
  <2>6. task'.status \notin Copyable \cup Sealed \cup Reviewed
    BY <2>2 DEF Copyable, Sealed, Reviewed
  <2>7. HandlerAgrees' /\ RowsWhole'
    BY <1>2, <2>2, <2>3 DEF IInv, HandlerAgrees, RowsWhole
  <2>8. PendingIsOpen'
    BY <1>2, <1>3, <2>1, <2>2, <2>3, <2>6 DEF PendingIsOpen
  <2>9. ReviewIsPlanned' /\ EvidenceIsStored'
    BY <1>2, <1>3, <2>1, <2>6, PlanKept, EvidenceKept
  <2> QED
    BY <2>4, <2>5, <2>7, <2>8, <2>9 DEF IInv
<1> QED
  BY <1>5, <1>6 DEF Import

\* A step on the rows of a task that asks for evidence: nothing else depends on them.
LEMMA RowsStep ==
  ASSUME IInv, TypeOK', RowsWhole', HandlerAgrees', task.status = "NEED_MORE_EVIDENCE",
         UNCHANGED <<task, nonces, plans>>
  PROVE  IInv'
<1>1. task.status \notin Copyable \cup Sealed \cup {"PROCESSING_RESPONSE"}
  BY DEF Copyable, Sealed
<1>2. InSequence' /\ Answers' /\ ReviewIsPlanned'
  BY DEF IInv, InSequence, Answers, ReviewIsPlanned
<1>3. PendingIsOpen'
  BY <1>1 DEF IInv, PendingIsOpen
<1>4. EvidenceIsStored'
  BY <1>1, EvidenceKept
<1> QED
  BY <1>2, <1>3, <1>4 DEF IInv

\* The next packet carries what is stored, when nothing required is missing.
LEMMA AdvanceKeeps ==
  ASSUME IInv, Advance, task.status = "NEED_MORE_EVIDENCE", op' = Idle, crashes' = crashes,
         UNCHANGED <<plans, rows, results, ledger>>
  PROVE  IInv'
<1>1. TypeOK /\ task \in Task /\ results \in [Index -> Result \cup {None}]
  BY Records DEF IInv
<1>2. CASE NoneMissing /\ ~ (UNCHANGED <<task, nonces, expired>>)
  <2> DEFINE evidence == [i \in Index |-> IF rows[i].state = "READY" THEN results[i] ELSE None]
             t == [task EXCEPT !.evidence = evidence]
  <2>1. NoneMissing /\ Seal(t, "ARCHITECT_READY", nonces)
    BY <1>2 DEF Advance
  <2>2. t \in Task /\ t.evidence = evidence
    BY <1>1 DEF Task
  <2>3. \A n \in Nonce : nonces[n].state # "claimed"
    BY DEF IInv, PendingIsOpen
  <2>4. \A i \in Index :
          /\ evidence[i] # None => evidence[i] = results[i] /\ rows[i].state = "READY"
          /\ rows[i] # NoRow /\ rows[i].ask \notin Optional => evidence[i] # None
    BY <2>1 DEF NoneMissing, IInv, RowsWhole
  <2>5. "ARCHITECT_READY" \in Copyable /\ "ARCHITECT_READY" \notin Reviewed
    BY DEF Copyable, Reviewed
  <2> HIDE DEF t, evidence
  <2> QED
    BY <2>1, <2>2, <2>3, <2>4, <2>5, SealAtRest
<1>3. CASE UNCHANGED <<task, nonces, expired>>
  <2>1. TypeOK'
    BY <1>1, <1>3 DEF TypeOK, Idle
  <2>2. RowsWhole' /\ HandlerAgrees'
    BY <1>3 DEF IInv, RowsWhole, HandlerAgrees, Idle
  <2> QED
    BY <1>3, <2>1, <2>2, RowsStep
<1> QED
  BY <1>2, <1>3 DEF Advance

\* The request at the position i has a file and takes the state s.
LEMMA RowStep ==
  ASSUME IInv, task.status = "NEED_MORE_EVIDENCE", UNCHANGED <<task, nonces, plans, expired, crashes>>,
         UNCHANGED ledger,
         NEW i \in Index, NEW s \in {"MAPPED", "COLLECTING", "READY", "FAILED"},
         rows' \in [Index -> Row], rows'[i].state = s,
         rows'[i].ask \in Ask, rows'[i].source \in Source,
         \A j \in Index \ {i} : rows'[j] = rows[j],
         results' \in [Index -> Result \cup {None}],
         \A j \in Index \ {i} : results'[j] = results[j],
         s = "READY" => results'[i] # None,
         \/ op' = Idle
         \/ op' = [at |-> "collecting", index |-> i]
         \/ op' = [at |-> "collected", index |-> i] /\ results'[i] # None
  PROVE  IInv'
<1>1. TypeOK /\ task \in Task
  BY Records DEF IInv
<1>2. TypeOK'
  BY <1>1 DEF TypeOK, Row, Idle
<1>3. RowsWhole'
  <2>1. rows'[i] # NoRow
    BY DEF NoRow
  <2>2. \A j \in Index \ {i} : RowsWhole => /\ rows'[j] = rows[j] /\ results'[j] = results[j]
    OBVIOUS
  <2> QED
    BY <2>1, <2>2 DEF IInv, RowsWhole
<1>4. HandlerAgrees'
  BY DEF HandlerAgrees, Idle
<1> QED
  BY <1>2, <1>3, <1>4, RowsStep

\* Setting the state of a request changes nothing else of it.
LEMMA RowState ==
  ASSUME TypeOK, NEW i \in Index, NEW s \in {"MAPPED", "COLLECTING", "READY", "FAILED"},
         rows' = [rows EXCEPT ![i].state = s]
  PROVE  /\ rows' \in [Index -> Row] /\ rows'[i].state = s
         /\ rows'[i].ask = rows[i].ask /\ rows'[i].source = rows[i].source
         /\ \A j \in Index \ {i} : rows'[j] = rows[j]
<1>1. rows \in [Index -> Row]
  BY Records
<1>2. rows' = [rows EXCEPT ![i] = [rows[i] EXCEPT !.state = s]]
  OBVIOUS
<1>3. /\ [rows[i] EXCEPT !.state = s] \in Row
      /\ [rows[i] EXCEPT !.state = s].state = s
      /\ [rows[i] EXCEPT !.state = s].ask = rows[i].ask
      /\ [rows[i] EXCEPT !.state = s].source = rows[i].source
  BY <1>1 DEF Row
<1> QED
  BY <1>1, <1>2, <1>3

\* What a collection in progress knows of its request.
LEMMA Collecting ==
  ASSUME IInv, op.at \in {"collecting", "collected", "recorded"}
  PROVE  /\ task.status = "NEED_MORE_EVIDENCE" /\ op.index \in Index
         /\ rows[op.index].ask \in Ask /\ rows[op.index].source \in Source
BY DEF IInv, HandlerAgrees

\* A collection that fails loses its result.
LEMMA FailedKeeps ==
  ASSUME IInv, op.at \in {"collecting", "collected"}, Failed(op.index),
         UNCHANGED <<task, nonces, plans, ledger, expired, crashes>>
  PROVE  IInv'
<1> DEFINE i == op.index
<1>1. TypeOK /\ results \in [Index -> Result \cup {None}]
  BY Records DEF IInv
<1>2. /\ task.status = "NEED_MORE_EVIDENCE" /\ i \in Index
      /\ rows[i].ask \in Ask /\ rows[i].source \in Source
  BY Collecting
<1>3. /\ rows' = [rows EXCEPT ![i].state = "FAILED"] /\ op' = Idle
      /\ results' = [results EXCEPT ![i] = None]
  BY DEF Failed
<1>4. /\ rows' \in [Index -> Row] /\ rows'[i].state = "FAILED"
      /\ rows'[i].ask = rows[i].ask /\ rows'[i].source = rows[i].source
      /\ \A j \in Index \ {i} : rows'[j] = rows[j]
  BY <1>1, <1>2, <1>3, RowState
<1>5. /\ results' \in [Index -> Result \cup {None}]
      /\ \A j \in Index \ {i} : results'[j] = results[j]
  BY <1>1, <1>2, <1>3
<1> HIDE DEF i
<1> QED
  BY <1>2, <1>3, <1>4, <1>5, RowStep

\* The rows of the task, from the request to the collected result.
LEMMA CollectionKeeps ==
  ASSUME IInv,
         \/ \E i \in Index, s \in Source : MapEvidence(i, s)
         \/ \E i \in Index : CollectAgain(i) \/ BeginCollect(i)
         \/ CreateRequests \/ CollectFails \/ CollectRaises \/ CollectEnds
         \/ RecordUsage \/ CollectAdvances
  PROVE  IInv'
<1>1. /\ TypeOK /\ task \in Task /\ rows \in [Index -> Row]
      /\ results \in [Index -> Result \cup {None}]
  BY Records DEF IInv
<1>2. ASSUME NEW i \in Index, NEW s \in Source, MapEvidence(i, s) PROVE IInv'
  <2>1. /\ task.status = "NEED_MORE_EVIDENCE" /\ rows[i] # NoRow /\ op' = Idle
        /\ rows' = [rows EXCEPT ![i] = [[rows[i] EXCEPT !.state = "MAPPED"] EXCEPT !.source = s]]
        /\ UNCHANGED <<task, nonces, plans, results, ledger, expired, crashes>>
    BY <1>1, <1>2 DEF MapEvidence, Row
  <2>2. rows[i].ask \in Ask
    BY <2>1 DEF IInv, RowsWhole
  <2>3. /\ [[rows[i] EXCEPT !.state = "MAPPED"] EXCEPT !.source = s] \in Row
        /\ [[rows[i] EXCEPT !.state = "MAPPED"] EXCEPT !.source = s].state = "MAPPED"
        /\ [[rows[i] EXCEPT !.state = "MAPPED"] EXCEPT !.source = s].ask = rows[i].ask
        /\ [[rows[i] EXCEPT !.state = "MAPPED"] EXCEPT !.source = s].source = s
    BY <1>1 DEF Row
  <2>4. /\ rows' \in [Index -> Row] /\ rows'[i].state = "MAPPED"
        /\ rows'[i].ask \in Ask /\ rows'[i].source \in Source
        /\ \A j \in Index \ {i} : rows'[j] = rows[j]
    BY <1>1, <2>1, <2>2, <2>3
  <2> QED
    BY <1>1, <2>1, <2>4, RowStep
<1>3. ASSUME NEW i \in Index, BeginCollect(i) PROVE IInv'
  <2>1. /\ task.status = "NEED_MORE_EVIDENCE" /\ op' = [at |-> "collecting", index |-> i]
        /\ rows' = [rows EXCEPT ![i].state = "COLLECTING"]
        /\ rows[i].state \in {"MAPPED", "FAILED", "COLLECTING"}
        /\ UNCHANGED <<task, nonces, plans, results, ledger, expired, crashes>>
    BY <1>3 DEF BeginCollect
  <2>2. rows[i].ask \in Ask /\ rows[i].source \in Source
    BY <2>1 DEF IInv, RowsWhole
  <2>3. /\ rows' \in [Index -> Row] /\ rows'[i].state = "COLLECTING"
        /\ rows'[i].ask = rows[i].ask /\ rows'[i].source = rows[i].source
        /\ \A j \in Index \ {i} : rows'[j] = rows[j]
    BY <1>1, <2>1, RowState
  <2> QED
    BY <1>1, <2>1, <2>2, <2>3, RowStep
<1>4. CASE CollectEnds
  <2> DEFINE i == op.index
             result == [ask |-> rows[i].ask, source |-> rows[i].source]
  <2>1. /\ op.at = "collecting" /\ rows' = [rows EXCEPT ![i].state = "READY"]
        /\ results' = [results EXCEPT ![i] = result]
        /\ op' = [op EXCEPT !.at = "collected"]
        /\ UNCHANGED <<task, nonces, plans, ledger, expired, crashes>>
    BY <1>4 DEF CollectEnds
  <2>2. /\ task.status = "NEED_MORE_EVIDENCE" /\ i \in Index
        /\ rows[i].ask \in Ask /\ rows[i].source \in Source
    BY <2>1, Collecting
  <2>3. /\ rows' \in [Index -> Row] /\ rows'[i].state = "READY"
        /\ rows'[i].ask = rows[i].ask /\ rows'[i].source = rows[i].source
        /\ \A j \in Index \ {i} : rows'[j] = rows[j]
    BY <1>1, <2>1, <2>2, RowState
  <2>4. result \in Result /\ result # None
    BY <2>2, BridgeAssumption DEF Result
  <2>5. op' = [at |-> "collected", index |-> i]
    BY <1>1, <2>1 DEF TypeOK
  <2> HIDE DEF i, result
  <2>6. /\ results' \in [Index -> Result \cup {None}] /\ results'[i] # None
        /\ \A j \in Index \ {i} : results'[j] = results[j]
    BY <1>1, <2>1, <2>2, <2>4
  <2> QED
    BY <2>1, <2>2, <2>3, <2>5, <2>6, RowStep
<1>5. CASE CollectFails
  BY <1>5, FailedKeeps DEF CollectFails
<1>6. CASE RecordUsage
  <2>1. CASE Failed(op.index) /\ UNCHANGED ledger
    BY <1>6, <2>1, FailedKeeps DEF RecordUsage
  <2>2. CASE /\ ledger' = ledger \cup {<<op.index, results[op.index]>>}
             /\ op' = [op EXCEPT !.at = "recorded"] /\ UNCHANGED <<rows, results>>
    <3>1. op.at = "collected" /\ UNCHANGED <<task, nonces, plans, rows, results, expired, crashes>>
      BY <1>6, <2>2 DEF RecordUsage
    <3>2. task.status = "NEED_MORE_EVIDENCE" /\ op.index \in Index /\ results[op.index] # None
      BY <3>1, Collecting DEF IInv, HandlerAgrees
    <3>3. op' = [at |-> "recorded", index |-> op.index]
      BY <1>1, <2>2 DEF TypeOK
    <3>4. ledger' \subseteq Index \X Result
      BY <1>1, <2>2, <3>2 DEF TypeOK
    <3>5. TypeOK'
      BY <1>1, <3>1, <3>2, <3>3, <3>4 DEF TypeOK
    <3>6. HandlerAgrees' /\ RowsWhole'
      BY <3>1, <3>2, <3>3 DEF IInv, HandlerAgrees, RowsWhole
    <3> QED
      BY <3>1, <3>2, <3>5, <3>6, RowsStep
  <2> QED
    BY <1>6, <2>1, <2>2 DEF RecordUsage
<1>7. CASE CollectRaises
  <2>1. /\ op.at = "collecting" /\ op' = Idle
        /\ UNCHANGED <<task, nonces, plans, rows, results, ledger, expired, crashes>>
    BY <1>7 DEF CollectRaises
  <2>2. task.status = "NEED_MORE_EVIDENCE"
    BY <2>1, Collecting
  <2>3. TypeOK'
    BY <1>1, <2>1 DEF TypeOK, Idle
  <2>4. HandlerAgrees' /\ RowsWhole'
    BY <2>1, <2>2 DEF IInv, HandlerAgrees, RowsWhole, Idle
  <2> QED
    BY <2>1, <2>2, <2>3, <2>4, RowsStep
<1>8. CASE CollectAdvances
  <2>1. /\ op.at = "recorded" /\ Advance /\ op' = Idle
        /\ UNCHANGED <<plans, rows, results, ledger, crashes>>
    BY <1>8 DEF CollectAdvances
  <2> QED
    BY <2>1, Collecting, AdvanceKeeps
<1>9. ASSUME NEW i \in Index, CollectAgain(i) PROVE IInv'
  <2>1. /\ task.status = "NEED_MORE_EVIDENCE" /\ Advance /\ op' = Idle
        /\ UNCHANGED <<plans, rows, results, ledger, crashes>>
    BY <1>9 DEF CollectAgain
  <2> QED
    BY <2>1, AdvanceKeeps
<1>10. CASE CreateRequests
  <2> DEFINE requested(i) == [NoRow EXCEPT !.state = "REQUESTED", !.ask = task.asked[i]]
  <2>1. /\ op.at = "asked" /\ op' = Idle
        /\ UNCHANGED <<task, nonces, plans, results, ledger, expired, crashes>>
        /\ rows' = [i \in Index |->
             IF task.asked[i] = None \/ rows[i] # NoRow THEN rows[i] ELSE requested(i)]
    BY <1>10, Zenon DEF CreateRequests
  <2>2. task.status = "NEED_MORE_EVIDENCE" /\ task.asked \in [Index -> Ask \cup {None}]
    BY <1>1, <2>1 DEF IInv, HandlerAgrees, Task
  <2>3. \A i \in Index : task.asked[i] # None =>
          requested(i) \in Row /\ requested(i).state = "REQUESTED" /\ requested(i).ask \in Ask
    <3>1. NoRow \in Row
      BY DEF NoRow, Row
    <3> QED
      BY <2>2, <3>1 DEF Row
  <2> HIDE DEF requested
  <2>4. rows' \in [Index -> Row]
    BY <1>1, <2>1, <2>2, <2>3 DEF Row
  <2>5. TypeOK'
    BY <1>1, <2>1, <2>4 DEF TypeOK, Row, Idle
  <2>6. RowsWhole'
    <3> SUFFICES ASSUME NEW i \in Index
                 PROVE  /\ rows'[i].state = "none" <=> rows'[i] = NoRow
                        /\ rows'[i].state # "none" => rows'[i].ask \in Ask
                        /\ rows'[i].state \in {"MAPPED", "COLLECTING", "READY", "FAILED"} =>
                             rows'[i].source \in Source
                        /\ rows'[i].state = "READY" => results'[i] # None
      BY DEF RowsWhole
    <3>1. CASE rows'[i] = rows[i]
      BY <2>1, <3>1 DEF IInv, RowsWhole
    <3>2. CASE rows'[i].state = "REQUESTED" /\ rows'[i].ask \in Ask
      BY <3>2 DEF NoRow
    <3> QED
      BY <2>1, <2>2, <2>3, <3>1, <3>2
  <2>7. HandlerAgrees'
    BY <2>1, <2>2 DEF HandlerAgrees, Idle
  <2> QED
    BY <2>1, <2>2, <2>5, <2>6, <2>7, RowsStep
<1> QED
  BY <1>2, <1>3, <1>4, <1>5, <1>6, <1>7, <1>8, <1>9, <1>10

\* The effects of a response: a plan, evidence to ask for, a verdict, or a failure.
LEMMA ResponseKeeps ==
  ASSUME IInv,
         \/ \E s \in {"PREVIEW", "HOLD"} : CreatePlan(s)
         \/ PlanFails \/ SavePlan \/ AskEvidence
         \/ \E v \in Final : TakeVerdict(v)
         \/ Retry
  PROVE  IInv'
<1>1. /\ TypeOK /\ task \in Task /\ nonces \in [Nonce -> NonceRow]
      /\ plans \in [Nonce -> {"none", "PREVIEW", "HOLD"}]
  BY Records DEF IInv
<1>2. /\ op.at \in {"claimed", "planned"}
      /\ task.status = "PROCESSING_RESPONSE" /\ task.nonce \in Nonce
      /\ nonces[task.nonce].state = "claimed" /\ nonces[task.nonce].response # None
      /\ nonces[task.nonce].response \in Architect \cup Review
  <2>1. op.at \in {"claimed", "planned"}
    BY DEF CreatePlan, PlanFails, SavePlan, AskEvidence, TakeVerdict, Retry, Claimed
  <2>2. task.status = "PROCESSING_RESPONSE" /\ task.nonce \in Nonce
    BY <2>1 DEF IInv, HandlerAgrees
  <2>3. nonces[task.nonce].state = "claimed"
    BY <2>1, <2>2 DEF IInv, PendingIsOpen
  <2>4. nonces[task.nonce].response # None
    BY <2>2, <2>3 DEF IInv, Answers
  <2> QED
    BY <1>1, <2>1, <2>2, <2>3, <2>4 DEF NonceRow
<1>3. ASSUME NEW s \in {"PREVIEW", "HOLD"}, CreatePlan(s) PROVE IInv'
  <2>1. /\ op.at = "claimed" /\ nonces[task.nonce].response.outcome = "execute"
        /\ op' = [op EXCEPT !.at = "planned"]
        /\ UNCHANGED <<task, nonces, rows, results, ledger, expired, crashes>>
        /\ plans' = IF plans[task.nonce] = "none" THEN [plans EXCEPT ![task.nonce] = s] ELSE plans
    BY <1>3 DEF CreatePlan, Claimed
  <2>2. /\ plans' \in [Nonce -> {"none", "PREVIEW", "HOLD"}]
        /\ \A n \in Nonce : plans[n] # "none" => plans'[n] = plans[n]
        /\ \A n \in Nonce : plans'[n] # "none" => plans[n] # "none" \/ n = task.nonce
    BY <1>1, <2>1
  <2>3. op' = [at |-> "planned", index |-> op.index] /\ op.index \in Index \cup {None}
    BY <1>1, <2>1 DEF TypeOK
  <2>4. TypeOK'
    BY <1>1, <2>1, <2>2, <2>3 DEF TypeOK
  <2>5. InSequence' /\ Answers' /\ RowsWhole' /\ EvidenceIsStored'
    BY <2>1 DEF IInv, InSequence, Answers, RowsWhole, EvidenceIsStored
  <2>6. HandlerAgrees' /\ PendingIsOpen'
    BY <1>2, <2>1, <2>3 DEF IInv, HandlerAgrees, PendingIsOpen
  <2>7. ReviewIsPlanned'
    BY <1>2, <2>1, <2>2 DEF IInv, ReviewIsPlanned
  <2> QED
    BY <2>4, <2>5, <2>6, <2>7 DEF IInv
<1>4. ASSUME NEW s \in {"completed", "failed"}, nonces' = Settle(task.nonce, s), task' \in Task,
             op' = Idle \/ op' = [at |-> "asked", index |-> op.index],
             UNCHANGED <<plans, rows, results, ledger, expired, crashes>>
      PROVE  TypeOK'
  <2>1. nonces' \in [Nonce -> NonceRow]
    BY <1>1, <1>2, <1>4, Settling
  <2>2. op' \in [at : {"idle", "claimed", "planned", "asked", "collecting", "collected", "recorded"},
                 index : Index \cup {None}]
    BY <1>1, <1>4 DEF TypeOK, Idle
  <2> QED
    BY <1>1, <1>4, <2>1, <2>2 DEF TypeOK, Task, NonceRow
<1>5. 0 \in 0 .. MaxNonce /\ task.nonce \in 0 .. MaxNonce /\ Idle.at = "idle"
  BY <1>1, BridgeAssumption DEF Task, Idle
<1>6. CASE PlanFails
  <2>1. /\ nonces' = Settle(task.nonce, "failed") /\ op' = Idle /\ task' = Held
        /\ UNCHANGED <<plans, rows, results, ledger, expired, crashes>>
    BY <1>6 DEF PlanFails
  <2>2. "HOLD" \in Status /\ "HOLD" \in Final
    BY DEF Status, Final
  <2>3. task' \in Task /\ task'.status = "HOLD"
    BY <1>1, <1>5, <2>1, <2>2 DEF Held, Task
  <2>4. TypeOK'
    BY <1>4, <2>1, <2>3
  <2> QED
    BY <1>2, <1>5, <2>1, <2>2, <2>3, <2>4, SettleKeeps
<1>7. CASE SavePlan
  <2>1. /\ nonces' = Settle(task.nonce, "completed") /\ op' = Idle
        /\ task' = [task EXCEPT !.status = PlanState(plans[task.nonce]), !.nonce = 0,
                                !.plan = task.nonce]
        /\ UNCHANGED <<plans, rows, results, ledger, expired, crashes>>
    BY <1>7 DEF SavePlan
  <2>2. /\ PlanState(plans[task.nonce]) \in Status
        /\ PlanState(plans[task.nonce]) \in {"HOLD", "ROUTE_READY"}
        /\ PlanState(plans[task.nonce]) = "ROUTE_READY" => plans[task.nonce] = "PREVIEW"
    BY DEF PlanState, Status, Final
  <2>3. /\ task' \in Task /\ task'.status = PlanState(plans[task.nonce])
        /\ task'.plan = task.nonce
    BY <1>1, <1>5, <2>1, <2>2 DEF Task
  <2>4. TypeOK'
    BY <1>4, <2>1, <2>3
  <2>5. task'.status \in Final \cup {"ROUTE_READY", "NEED_MORE_EVIDENCE"}
    BY <2>2, <2>3 DEF Final
  <2> QED
    BY <1>2, <1>5, <2>1, <2>2, <2>3, <2>4, <2>5, SettleKeeps
<1>8. CASE AskEvidence
  <2>1. /\ nonces' = Settle(task.nonce, "completed")
        /\ nonces[task.nonce].response.outcome = "need_more_evidence"
        /\ task' = [task EXCEPT !.status = "NEED_MORE_EVIDENCE", !.nonce = 0,
                                !.asked = nonces[task.nonce].response.asks]
        /\ op' = [op EXCEPT !.at = "asked"]
        /\ UNCHANGED <<plans, rows, results, ledger, expired, crashes>>
    BY <1>8 DEF AskEvidence, Claimed
  <2>2. op' = [at |-> "asked", index |-> op.index]
    BY <1>1, <2>1 DEF TypeOK
  <2>3. nonces[task.nonce].response.asks \in [Index -> Ask \cup {None}]
    BY <1>2, <2>1 DEF Architect, Review, NoAsks
  <2>4. "NEED_MORE_EVIDENCE" \in Status
    BY DEF Status
  <2>5. task' \in Task /\ task'.status = "NEED_MORE_EVIDENCE"
    BY <1>1, <1>5, <2>1, <2>3, <2>4 DEF Task
  <2>6. TypeOK'
    BY <1>4, <2>1, <2>2, <2>5
  <2> QED
    BY <1>2, <2>1, <2>2, <2>5, <2>6, SettleKeeps
<1>9. ASSUME NEW v \in Final, TakeVerdict(v) PROVE IInv'
  <2>1. /\ nonces' = Settle(task.nonce, "completed") /\ op' = Idle
        /\ task' = [task EXCEPT !.status = v, !.nonce = 0]
        /\ UNCHANGED <<plans, rows, results, ledger, expired, crashes>>
    BY <1>9 DEF TakeVerdict
  <2>2. v \in Status /\ v # "ROUTE_READY"
    BY DEF Status, Final
  <2>3. task' \in Task /\ task'.status = v
    BY <1>1, <1>5, <2>1, <2>2 DEF Task
  <2>4. TypeOK'
    BY <1>4, <2>1, <2>3
  <2> QED
    BY <1>2, <1>5, <2>1, <2>2, <2>3, <2>4, SettleKeeps
<1>10. CASE Retry
  <2> DEFINE rs == Settle(task.nonce, "completed")
  <2>1. /\ Seal(NewCycle, "ARCHITECT_READY", rs) /\ op' = Idle /\ crashes' = crashes
        /\ UNCHANGED <<plans, rows, results, ledger>>
    BY <1>10 DEF Retry
  <2>2. NewCycle \in Task /\ NewCycle.evidence = NoResults
    BY <1>1, NewCycleEffect
  <2>3. /\ rs \in [Nonce -> NonceRow] /\ rs[task.nonce].state = "completed"
        /\ rs[task.nonce].response = nonces[task.nonce].response
        /\ \A m \in Nonce \ {task.nonce} : rs[m] = nonces[m]
    BY <1>1, <1>2, Settling
  <2> HIDE DEF rs
  <2>4. \A n \in Nonce :
          /\ rs[n].state # "claimed" /\ rs[n].response = nonces[n].response
          /\ \/ rs[n] = nonces[n]
             \/ nonces[n].state = "claimed" /\ rs[n].state = "completed"
    BY <1>2, <2>3 DEF IInv, PendingIsOpen
  <2>5. "ARCHITECT_READY" \in Copyable /\ "ARCHITECT_READY" \notin Reviewed
    BY DEF Copyable, Reviewed
  <2> QED
    BY <2>1, <2>2, <2>3, <2>4, <2>5, SealKeeps
<1> QED
  BY <1>3, <1>6, <1>7, <1>8, <1>9, <1>10

\* A restart holds a task whose response was being processed, and forgets the handler.
LEMMA CrashKeeps ==
  ASSUME IInv, Crash
  PROVE  IInv'
<1>1. TypeOK /\ task \in Task /\ nonces \in [Nonce -> NonceRow]
  BY Records DEF IInv
<1>2. /\ op' = Idle /\ crashes' \in 0 .. MaxCrash
      /\ UNCHANGED <<plans, rows, results, ledger, expired>>
  BY <1>1, BridgeAssumption DEF Crash, TypeOK
<1>3. CASE task.status = "PROCESSING_RESPONSE"
  <2>1. task' = Held /\ nonces' = Settle(task.nonce, "failed") /\ task.nonce \in Nonce
    BY <1>3 DEF Crash, Recovered, IInv, HandlerAgrees
  <2>2. "HOLD" \in Status /\ "HOLD" \in Final /\ 0 \in 0 .. MaxNonce
    BY BridgeAssumption DEF Status, Final
  <2>3. task' \in Task /\ task'.status = "HOLD"
    BY <1>1, <2>1, <2>2 DEF Held, Task
  <2>4. nonces' \in [Nonce -> NonceRow]
    BY <1>1, <2>1, Settling
  <2>5. TypeOK'
    BY <1>1, <1>2, <2>3, <2>4 DEF TypeOK, Task, NonceRow, Idle
  <2>6. Idle.at = "idle"
    BY DEF Idle
  <2> QED
    BY <1>2, <1>3, <2>1, <2>2, <2>3, <2>5, <2>6, SettleKeeps
<1>4. CASE task.status # "PROCESSING_RESPONSE"
  <2>1. UNCHANGED <<task, nonces>>
    BY <1>4 DEF Crash
  <2>2. TypeOK'
    BY <1>1, <1>2, <2>1 DEF TypeOK, Idle
  <2>3. InSequence' /\ Answers' /\ RowsWhole' /\ EvidenceIsStored' /\ ReviewIsPlanned'
    BY <1>2, <2>1 DEF IInv, InSequence, Answers, RowsWhole, EvidenceIsStored, ReviewIsPlanned
  <2>4. HandlerAgrees' /\ PendingIsOpen'
    BY <1>2, <1>4, <2>1 DEF IInv, HandlerAgrees, PendingIsOpen, Idle
  <2> QED
    BY <2>2, <2>3, <2>4 DEF IInv
<1> QED
  BY <1>3, <1>4

LEMMA InvariantKept == IInv /\ [Next]_vars => IInv'
<1> SUFFICES ASSUME IInv, [Next]_vars PROVE IInv'
  OBVIOUS
<1>1. CASE User
  <2>1. CASE \E n \in Nonce : \E r \in Responses("ARCHITECT") \cup Responses("REVIEW") :
               Import(n, r)
    BY <2>1, ImportKeeps
  <2>2. CASE \E i \in Index :
               \/ CollectAgain(i) \/ BeginCollect(i)
               \/ \E s \in Source : MapEvidence(i, s)
    BY <2>2, CollectionKeeps
  <2> QED
    BY <1>1, <2>1, <2>2, HandlingKeeps DEF User
<1>2. CASE Commit
  BY <1>2, ResponseKeeps, CollectionKeeps DEF Commit
<1>3. CASE UNCHANGED vars
  BY <1>3 DEF vars, IInv, TypeOK, InSequence, Answers, HandlerAgrees, RowsWhole,
     PendingIsOpen, ReviewIsPlanned, EvidenceIsStored
<1> QED
  BY <1>1, <1>2, <1>3, HandlingKeeps, CrashKeeps DEF Next

--------------------------------------------------------------------------------
(* The theorems. *)

\* Nonces are issued in order and answered once, a handler and its task agree on
\* what is being processed, and a row of evidence has what its state promises, at
\* every point at which the server may die.
THEOREM TaskIsConsistent == Spec => []IInv
<1>1. Spec => Init /\ [][Next]_vars
  BY PTL DEF Spec
<1> QED
  BY <1>1, InvariantStarts, InvariantKept, PTL

\* A task is never under review without a plan that is a PREVIEW, made for an
\* execute response that was accepted; no other response of the architect makes
\* a plan, whatever fails and wherever the server dies.
THEOREM ReviewsFollowPlans == Spec => []TaskInOrder
<1>1. IInv => TaskInOrder
  BY DEF IInv, TaskInOrder
<1> QED
  BY <1>1, TaskIsConsistent, PTL

\* A packet that can be copied or answered carries a nonce that is open, and a
\* nonce is claimed exactly while its response is being processed: a restart
\* leaves no claim behind.
THEOREM PendingPacketIsOpen == Spec => []PendingIsOpen
<1>1. IInv => PendingIsOpen
  BY DEF IInv
<1> QED
  BY <1>1, TaskIsConsistent, PTL

\* The evidence of a sealed packet is what is stored, complete in what the task
\* requires, so that the packet can be rebuilt with the hash it was sealed with.
THEOREM SealedEvidenceIsStored == Spec => []EvidenceIsStored
<1>1. IInv => EvidenceIsStored
  BY DEF IInv
<1> QED
  BY <1>1, TaskIsConsistent, PTL
================================================================================
