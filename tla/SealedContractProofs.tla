-------------------------- MODULE SealedContractProofs --------------------------
(***************************************************************************)
(* The isolation pipeline and what is sealed on top of it, for any number  *)
(* of requests, distros, tools and binaries, any lifetimes and any length  *)
(* of time: what may execute rests on canaries that passed recently in the *)
(* distro selected now, and an open row has its request at work.           *)
(***************************************************************************)
EXTENDS SealedContract, TLAPS

CallRow ==
  [at : {"idle", "preflight", "preflight_wait", "canary", "canary_wait", "repro", "repro_wait"},
   distro : Distro \cup {None}, tool : Tool \cup {None}, since : 0 .. MaxTime,
   runs : 0 .. Runs - 1, place : Distro \cup {None}, fresh : BOOLEAN]

\* A request under way has read a configured distro, and the tools once its
\* preflight is over.
Known(r) ==
  /\ r.at # "idle" => r.distro \in Distro
  /\ r.at \in {"canary", "canary_wait", "repro", "repro_wait"} => r.tool \in Tool
  /\ r.at = "repro" => r.place \in Distro

\* Nothing is known of any identity before the first distro is selected.
IdentityKnown ==
  /\ \A c \in Call : Known(call[c])
  /\ row.status # "UNCONFIGURED" => row.distro \in Distro /\ row.tool \in Tool
  /\ distro = None => row.distro = None /\ \A c \in Call : call[c].distro = None

\* A SAFE row, whichever request wrote it, dates from the start of the last
\* canaries that passed in its distro.
SafeIsDated ==
  row.status = "SAFE" => /\ passed[row.distro] # None
                         /\ row.until = passed[row.distro] + TTL

\* The inductive invariant of the pipeline, and that of the whole.
PInv == TypeOK /\ OpenRowIsServed /\ IdentityKnown /\ SafeIsDated

InspectionsWhole ==
  \A i \in Inspection : inspect[i] # NoInspection =>
    inspect[i].binary \in Binary /\ inspect[i].key \in Key

IInv == PInv /\ SealedTypeOK /\ InspectionsWhole

\* What an answer that is fresh has seen, and that a step makes no other fresh.
Seen == /\ row.status = "SAFE" /\ row.distro = distro /\ passed[distro] # None
        /\ now + MinLeft <= passed[distro] + TTL
FreshStep == \A c \in Call : call'[c].fresh /\ ~ call[c].fresh => Seen'

--------------------------------------------------------------------------------
(* Records. *)

LEMMA Constants ==
  /\ Runs \in Nat \ {0} /\ TTL \in Nat /\ PreflightTTL \in Nat /\ MinLeft \in Nat \ {0}
  /\ Reserve \in Nat
  /\ MaxTime \in Nat /\ MaxEdit \in Nat
  /\ None \notin Distro /\ None \notin Tool /\ None \notin 0 .. MaxTime
  /\ None \notin Binary /\ None \notin Key
BY IsolationAssumption, SealedAssumption

LEMMA IdleIsRow == Idle \in CallRow /\ Known(Idle)
<1>1. 0 \in 0 .. MaxTime /\ 0 \in 0 .. Runs - 1
  BY Constants
<1> QED
  BY <1>1 DEF Idle, CallRow, Known

\* The request that answers, and the one that waits or works for an identity.
LEMMA AnswerEffect ==
  ASSUME TypeOK, NEW c \in Call, NEW r, AnswerProbe(c, r)
  PROVE  /\ call' \in [Call -> CallRow]
         /\ Known(call'[c]) /\ call'[c].at = "idle" /\ call'[c].distro = None
         /\ call'[c].fresh = Fresh(Visible(r))
         /\ \A o \in Call \ {c} : call'[o] = call[o]
<1> DEFINE answer == [Idle EXCEPT !.fresh = Fresh(Visible(r))]
<1>1. Fresh(Visible(r)) \in BOOLEAN
  BY DEF Fresh
<1>2. /\ answer \in CallRow /\ answer.at = "idle" /\ answer.distro = None
      /\ answer.fresh = Fresh(Visible(r))
  <2> HIDE DEF Fresh, Visible
  <2> QED
    BY <1>1, IdleIsRow DEF CallRow, Idle
<1>3. Known(answer)
  BY <1>2 DEF Known
<1>4. call' = [call EXCEPT ![c] = answer] /\ call \in [Call -> CallRow]
  BY DEF AnswerProbe, TypeOK, CallRow
<1> HIDE DEF answer
<1> QED
  BY <1>2, <1>3, <1>4

LEMMA ReturnEffect ==
  ASSUME TypeOK, NEW c \in Call, Return(c)
  PROVE  /\ call' \in [Call -> CallRow]
         /\ Known(call'[c]) /\ call'[c].at = "idle" /\ call'[c].distro = None
         /\ call'[c].fresh = FALSE
         /\ \A o \in Call \ {c} : call'[o] = call[o]
<1>1. call' = [call EXCEPT ![c] = Idle] /\ call \in [Call -> CallRow]
  BY DEF Return, TypeOK, CallRow
<1>2. call'[c] = Idle /\ Idle.at = "idle" /\ Idle.distro = None /\ Idle.fresh = FALSE
  BY <1>1 DEF Idle
<1> QED
  BY <1>1, <1>2, IdleIsRow

LEMMA WaitEffect ==
  ASSUME TypeOK, NEW c \in Call, NEW d \in Distro, NEW t \in Tool \cup {None},
         NEW at \in {"preflight", "preflight_wait", "canary_wait", "repro_wait"},
         at \in {"canary_wait", "repro_wait"} => t \in Tool,
         Wait(c, at, d, t)
  PROVE  /\ call' \in [Call -> CallRow]
         /\ Known(call'[c]) /\ call'[c].at = at /\ call'[c].fresh = FALSE
         /\ \A o \in Call \ {c} : call'[o] = call[o]
<1> DEFINE wait == [Idle EXCEPT !.at = at, !.distro = d, !.tool = t]
<1>1. /\ wait \in CallRow /\ wait.at = at /\ wait.distro = d /\ wait.tool = t
      /\ wait.fresh = FALSE
  BY IdleIsRow DEF CallRow, Idle
<1>2. Known(wait)
  BY <1>1 DEF Known
<1>3. call' = [call EXCEPT ![c] = wait] /\ call \in [Call -> CallRow]
  BY DEF Wait, TypeOK, CallRow
<1> HIDE DEF wait
<1> QED
  BY <1>1, <1>2, <1>3

\* A row that answers fresh, when a distro is selected.
LEMMA FreshIsVisible ==
  ASSUME NEW r \in ResultRow, distro \in Distro, now \in 0 .. MaxTime, Fresh(Visible(r))
  PROVE  r.status = "SAFE" /\ r.distro = distro /\ now + MinLeft <= r.until
<1>1. NoRow.status = "UNCONFIGURED"
  BY DEF NoRow
<1>2. Visible(r) = r /\ r.status = "SAFE" /\ r.distro = distro
  BY <1>1, Constants DEF Fresh, Visible
<1>3. r.until \in Nat /\ now \in Nat
  BY Constants DEF ResultRow, Time
<1> QED
  BY <1>2, <1>3, Constants DEF Fresh, Left

--------------------------------------------------------------------------------
(* One step of one request. *)

\* What a step of the request c must do to keep the invariant: it may write the
\* row, a record of the repeatability check and itself.
LEMMA CallStep ==
  ASSUME PInv, NEW c \in Call, distro \in Distro, UNCHANGED <<now, distro, tools, edits>>,
         pre' \in [Distro -> PreflightRow], row' \in ResultRow,
         repro' \in [Key -> ReproRow], passed' \in [Distro -> 0 .. MaxTime \cup {None}],
         call' \in [Call -> CallRow], Known(call'[c]),
         \A o \in Call \ {c} : call'[o] = call[o],
         row'.status # "UNCONFIGURED" => row'.distro \in Distro /\ row'.tool \in Tool,
         SafeIsDated',
         row'.status = "PROBING" =>
           \/ call'[c].at = "canary" /\ KeyOf(call'[c]) = KeyOf(row')
           \/ row' = row /\ call[c].at # "canary",
         \A k \in Key : repro'[k].status = "RUNNING" =>
           \/ call'[c].at = "repro" /\ KeyOf(call'[c]) = k
           \/ repro[k].status = "RUNNING" /\ ~ (call[c].at = "repro" /\ KeyOf(call[c]) = k),
         call'[c].fresh /\ ~ call[c].fresh =>
           row'.status = "SAFE" /\ row'.distro = distro /\ now + MinLeft <= row'.until
  PROVE  PInv' /\ FreshStep
<1>1. TypeOK'
  BY DEF PInv, TypeOK, CallRow
<1>2. IdentityKnown'
  <2>1. \A o \in Call : Known(call'[o])
    BY DEF PInv, IdentityKnown, Known
  <2> QED
    BY <2>1, Constants DEF IdentityKnown, Known
<1>3. OpenRowIsServed'
  <2>1. ASSUME row'.status = "PROBING"
        PROVE  \E o \in Call : call'[o].at = "canary" /\ KeyOf(call'[o]) = KeyOf(row')
    <3>1. CASE call'[c].at = "canary" /\ KeyOf(call'[c]) = KeyOf(row')
      BY <3>1
    <3>2. CASE row' = row /\ call[c].at # "canary"
      <4>1. PICK o \in Call : call[o].at = "canary" /\ KeyOf(call[o]) = KeyOf(row)
        BY <2>1, <3>2 DEF PInv, OpenRowIsServed
      <4> QED
        BY <3>2, <4>1
    <3> QED
      BY <2>1, <3>1, <3>2
  <2>2. ASSUME NEW k \in Key, repro'[k].status = "RUNNING"
        PROVE  \E o \in Call : call'[o].at = "repro" /\ KeyOf(call'[o]) = k
    <3>1. CASE call'[c].at = "repro" /\ KeyOf(call'[c]) = k
      BY <3>1
    <3>2. CASE repro[k].status = "RUNNING" /\ ~ (call[c].at = "repro" /\ KeyOf(call[c]) = k)
      <4>1. PICK o \in Call : call[o].at = "repro" /\ KeyOf(call[o]) = k
        BY <3>2 DEF PInv, OpenRowIsServed
      <4> QED
        BY <3>2, <4>1
    <3> QED
      BY <2>2, <3>1, <3>2
  <2> QED
    BY <2>1, <2>2 DEF OpenRowIsServed, KeyOf
<1>4. FreshStep
  <2>1. ASSUME call'[c].fresh, ~ call[c].fresh PROVE Seen'
    <3>1. /\ row'.status = "SAFE" /\ row'.distro = distro' /\ now' + MinLeft <= row'.until
          /\ passed'[row'.distro] # None /\ row'.until = passed'[row'.distro] + TTL
      BY <2>1 DEF SafeIsDated
    <3> QED
      BY <3>1 DEF Seen
  <2> QED
    BY <2>1 DEF FreshStep
<1> QED
  BY <1>1, <1>2, <1>3, <1>4 DEF PInv

LEMMA PipelineTypes ==
  ASSUME PInv
  PROVE  /\ TypeOK /\ now \in 0 .. MaxTime /\ now \in Nat /\ distro \in Distro \cup {None}
         /\ tools \in [Distro -> Tool] /\ pre \in [Distro -> PreflightRow] /\ row \in ResultRow
         /\ repro \in [Key -> ReproRow] /\ passed \in [Distro -> 0 .. MaxTime \cup {None}]
         /\ call \in [Call -> CallRow]
         /\ \A c \in Call : Known(call[c]) /\ (call[c].at # "idle" => distro \in Distro)
BY Constants DEF PInv, TypeOK, CallRow, IdentityKnown, Known

\* From a successful preflight to an answer, to the lock, or to the canaries.
LEMMA ProceedKeeps ==
  ASSUME PInv, NEW c \in Call, call[c].at \notin {"canary", "repro"}, distro \in Distro,
         NEW d \in Distro, NEW t \in Tool, Proceed(c, d, t),
         pre' \in [Distro -> PreflightRow], UNCHANGED <<now, distro, tools, repro, passed, edits>>
  PROVE  PInv' /\ FreshStep
<1>1. /\ TypeOK /\ now \in 0 .. MaxTime /\ now \in Nat /\ row \in ResultRow
      /\ repro \in [Key -> ReproRow] /\ passed \in [Distro -> 0 .. MaxTime \cup {None}]
      /\ call \in [Call -> CallRow]
  BY PipelineTypes
<1>2. /\ row.status # "UNCONFIGURED" => row.distro \in Distro /\ row.tool \in Tool
      /\ SafeIsDated
  BY DEF PInv, IdentityKnown
<1>3. CASE UNCHANGED row /\ AnswerProbe(c, row)
  <2>1. /\ call' \in [Call -> CallRow] /\ Known(call'[c]) /\ call'[c].at = "idle"
        /\ call'[c].fresh = Fresh(Visible(row))
        /\ \A o \in Call \ {c} : call'[o] = call[o]
    BY <1>1, <1>3, AnswerEffect
  <2>2. call'[c].fresh => row.status = "SAFE" /\ row.distro = distro /\ now + MinLeft <= row.until
    BY <1>1, <2>1, FreshIsVisible
  <2>3. SafeIsDated'
    BY <1>2, <1>3 DEF SafeIsDated
  <2> QED
    BY <1>1, <1>2, <1>3, <2>1, <2>2, <2>3, CallStep
<1>4. CASE UNCHANGED row /\ Wait(c, "canary_wait", d, t)
  <2>1. /\ call' \in [Call -> CallRow] /\ Known(call'[c]) /\ call'[c].at = "canary_wait"
        /\ call'[c].fresh = FALSE
        /\ \A o \in Call \ {c} : call'[o] = call[o]
    BY <1>1, <1>4, WaitEffect
  <2>2. SafeIsDated'
    BY <1>2, <1>4 DEF SafeIsDated
  <2> QED
    BY <1>1, <1>2, <1>4, <2>1, <2>2, CallStep
<1>5. CASE SaveProbing(c, d, t)
  <2> DEFINE probe == [Idle EXCEPT !.at = "canary", !.distro = d, !.tool = t, !.since = now]
  <2>1. /\ probe \in CallRow /\ probe.at = "canary" /\ probe.distro = d /\ probe.tool = t
        /\ probe.fresh = FALSE
    BY <1>1, IdleIsRow DEF CallRow, Idle
  <2>2. Known(probe) /\ KeyOf(probe) = <<d, t>>
    BY <2>1 DEF Known, KeyOf
  <2>3. /\ call' = [call EXCEPT ![c] = probe]
        /\ row' = [distro |-> d, tool |-> t, status |-> "PROBING", until |-> now + TTL]
    BY <1>5 DEF SaveProbing
  <2> HIDE DEF probe
  <2>4. call' \in [Call -> CallRow] /\ call'[c] = probe /\ \A o \in Call \ {c} : call'[o] = call[o]
    BY <1>1, <2>1, <2>3
  <2>5. now + TTL \in Time
    BY <1>1, Constants DEF Time
  <2>6. row' \in ResultRow /\ row'.status = "PROBING" /\ KeyOf(row') = <<d, t>>
    BY <2>3, <2>5 DEF ResultRow, RowStatus, KeyOf
  <2>7. SafeIsDated'
    BY <2>6 DEF SafeIsDated
  <2> QED
    BY <1>1, <2>1, <2>2, <2>3, <2>4, <2>6, <2>7, CallStep
<1> QED
  BY <1>3, <1>4, <1>5 DEF Proceed

\* A step that writes no row, nor a record, of a request that works on none.
LEMMA QuietStep ==
  ASSUME PInv, NEW c \in Call, distro \in Distro, call[c].at \notin {"canary", "repro"},
         UNCHANGED <<now, distro, tools, pre, row, repro, passed, edits>>,
         call' \in [Call -> CallRow], Known(call'[c]), call'[c].fresh = FALSE,
         \A o \in Call \ {c} : call'[o] = call[o]
  PROVE  PInv' /\ FreshStep
<1>1. /\ row.status # "UNCONFIGURED" => row.distro \in Distro /\ row.tool \in Tool
      /\ SafeIsDated'
  BY DEF PInv, IdentityKnown, SafeIsDated
<1> QED
  BY <1>1, PipelineTypes, CallStep

LEMMA BeginProbeKeeps ==
  ASSUME PInv, NEW c \in Call, BeginProbe(c)
  PROVE  PInv' /\ FreshStep
<1>1. /\ TypeOK /\ now \in 0 .. MaxTime /\ now \in Nat /\ distro \in Distro \cup {None}
      /\ pre \in [Distro -> PreflightRow] /\ call \in [Call -> CallRow]
  BY PipelineTypes
<1>2. call[c].at = "idle" /\ UNCHANGED <<now, distro, tools, pre, repro, passed, edits>>
  BY DEF BeginProbe
<1>3. CASE distro = None /\ row' = [NoRow EXCEPT !.until = now + TTL] /\ AnswerProbe(c, NoRow)
  <2>1. /\ call' \in [Call -> CallRow] /\ Known(call'[c]) /\ call'[c].distro = None
        /\ call'[c].fresh = Fresh(Visible(NoRow))
        /\ \A o \in Call \ {c} : call'[o] = call[o]
    BY <1>1, <1>3, AnswerEffect
  <2>2. ~ call'[c].fresh
    BY <2>1 DEF Fresh, Visible, NoRow
  <2>3. now + TTL \in Time
    BY <1>1, Constants DEF Time
  <2>4. row' \in ResultRow /\ row'.status = "UNCONFIGURED" /\ row'.distro = None
    BY <1>3, <2>3 DEF NoRow, ResultRow, RowStatus
  <2>5. TypeOK'
    BY <1>1, <1>2, <2>1, <2>4 DEF TypeOK, CallRow
  <2>6. IdentityKnown'
    <3>1. /\ \A o \in Call : Known(call[o]) /\ call[o].distro = None
      BY <1>3 DEF PInv, IdentityKnown
    <3>2. \A o \in Call : Known(call'[o]) /\ call'[o].distro = None
      BY <2>1, <3>1
    <3> QED
      BY <2>4, <3>2 DEF IdentityKnown, Known
  <2>7. OpenRowIsServed'
    <3>1. ASSUME NEW k \in Key, repro'[k].status = "RUNNING"
          PROVE  \E o \in Call : call'[o].at = "repro" /\ KeyOf(call'[o]) = k
      <4>1. PICK o \in Call : call[o].at = "repro" /\ KeyOf(call[o]) = k
        BY <1>2, <3>1 DEF PInv, OpenRowIsServed
      <4>2. o # c
        BY <1>2, <4>1
      <4> QED
        BY <2>1, <4>1, <4>2
    <3> QED
      BY <2>4, <3>1 DEF OpenRowIsServed, KeyOf
  <2>8. SafeIsDated' /\ FreshStep
    BY <2>1, <2>2, <2>4 DEF SafeIsDated, FreshStep
  <2> QED
    BY <2>5, <2>6, <2>7, <2>8 DEF PInv
<1>4. CASE distro # None /\ ReusablePreflight(distro) /\ Proceed(c, distro, pre[distro].tool)
  <2>1. pre[distro].tool \in Tool
    BY <1>1, <1>4 DEF ReusablePreflight, PreflightRow
  <2> QED
    BY <1>1, <1>2, <1>4, <2>1, ProceedKeeps
<1>5. CASE /\ distro # None /\ UNCHANGED row
           /\ Wait(c, IF PreflightLockFree(distro) THEN "preflight" ELSE "preflight_wait",
                   distro, None)
  <2>1. PICK at \in {"preflight", "preflight_wait"} : Wait(c, at, distro, None)
    BY <1>5
  <2>2. /\ call' \in [Call -> CallRow] /\ Known(call'[c]) /\ call'[c].fresh = FALSE
        /\ \A o \in Call \ {c} : call'[o] = call[o]
    BY <1>1, <1>5, <2>1, WaitEffect
  <2> QED
    BY <1>1, <1>2, <1>5, <2>2, QuietStep
<1> QED
  BY <1>3, <1>4, <1>5 DEF BeginProbe

LEMMA PreflightKeeps ==
  ASSUME PInv, NEW c \in Call,
         PreflightEnds(c) \/ PreflightFails(c) \/ PreflightWakes(c) \/ ProbeWakes(c)
  PROVE  PInv' /\ FreshStep
<1>1. /\ TypeOK /\ now \in Nat /\ pre \in [Distro -> PreflightRow] /\ tools \in [Distro -> Tool]
      /\ \A o \in Call : Known(call[o]) /\ (call[o].at # "idle" => distro \in Distro)
      /\ now \in 0 .. MaxTime
  BY PipelineTypes
<1> DEFINE d == call[c].distro
<1>2. /\ distro \in Distro /\ d \in Distro
      /\ call[c].at \in {"preflight", "preflight_wait", "canary_wait"}
      /\ UNCHANGED <<now, distro, tools, repro, passed, edits>>
  BY <1>1 DEF PreflightEnds, PreflightFails, PreflightWakes, ProbeWakes, Known
<1>3. CASE PreflightEnds(c)
  <2>1. /\ pre' = [pre EXCEPT ![d] = [tool |-> tools[d], until |-> now + PreflightTTL]]
        /\ Proceed(c, d, tools[d])
    BY <1>3 DEF PreflightEnds
  <2>2. [tool |-> tools[d], until |-> now + PreflightTTL] \in PreflightRow /\ tools[d] \in Tool
    BY <1>1, <1>2, Constants DEF PreflightRow
  <2>3. pre' \in [Distro -> PreflightRow]
    BY <1>1, <1>2, <2>1, <2>2
  <2> QED
    BY <1>2, <2>1, <2>2, <2>3, ProceedKeeps
<1>4. CASE PreflightFails(c)
  <2>1. Return(c) /\ UNCHANGED <<pre, row>>
    BY <1>4 DEF PreflightFails
  <2>2. /\ call' \in [Call -> CallRow] /\ Known(call'[c]) /\ call'[c].fresh = FALSE
        /\ \A o \in Call \ {c} : call'[o] = call[o]
    BY <1>1, <2>1, ReturnEffect
  <2> QED
    BY <1>2, <2>1, <2>2, QuietStep
<1>5. CASE PreflightWakes(c)
  <2>1. UNCHANGED pre
    BY <1>5 DEF PreflightWakes
  <2>2. CASE ReusablePreflight(d) /\ Proceed(c, d, pre[d].tool)
    <3>1. pre[d].tool \in Tool
      BY <1>1, <1>2, <2>2 DEF ReusablePreflight, PreflightRow
    <3> QED
      BY <1>1, <1>2, <2>1, <2>2, <3>1, ProceedKeeps
  <2>3. CASE UNCHANGED row /\ Wait(c, "preflight", d, None)
    <3>1. /\ call' \in [Call -> CallRow] /\ Known(call'[c]) /\ call'[c].fresh = FALSE
          /\ \A o \in Call \ {c} : call'[o] = call[o]
      BY <1>1, <1>2, <2>3, WaitEffect
    <3> QED
      BY <1>2, <2>1, <2>3, <3>1, QuietStep
  <2> QED
    BY <1>5, <2>2, <2>3 DEF PreflightWakes
<1>6. CASE ProbeWakes(c)
  <2>1. call[c].tool \in Tool /\ UNCHANGED pre /\ Proceed(c, d, call[c].tool)
    BY <1>1, <1>6 DEF ProbeWakes, Known
  <2> QED
    BY <1>1, <1>2, <2>1, ProceedKeeps
<1> QED
  BY <1>3, <1>4, <1>5, <1>6

LEMMA CanaryKeeps ==
  ASSUME PInv, NEW c \in Call, NEW status \in FinalStates, CanaryEnds(c, status)
  PROVE  PInv' /\ FreshStep
<1> DEFINE d == call[c].distro
<1>1. /\ TypeOK /\ now \in 0 .. MaxTime /\ now \in Nat /\ call \in [Call -> CallRow]
      /\ pre \in [Distro -> PreflightRow] /\ repro \in [Key -> ReproRow]
      /\ passed \in [Distro -> 0 .. MaxTime \cup {None}]
  BY PipelineTypes
<1>2. /\ call[c].at = "canary" /\ UNCHANGED <<now, distro, tools, pre, repro, edits>>
      /\ passed' = IF status = "SAFE" THEN [passed EXCEPT ![d] = call[c].since] ELSE passed
  BY DEF CanaryEnds
<1>3. d \in Distro /\ call[c].tool \in Tool /\ distro \in Distro /\ call[c].since \in 0 .. MaxTime
  BY <1>1, <1>2, PipelineTypes DEF Known, CallRow
<1> HIDE DEF d
<1>4. PICK until \in Expiry(c, status) :
        /\ row' = [distro |-> d, tool |-> call[c].tool, status |-> status, until |-> until]
        /\ AnswerProbe(c, row')
  <2>1. \E until \in Expiry(c, status) :
          LET r == [distro |-> d, tool |-> call[c].tool, status |-> status, until |-> until]
          IN  row' = r /\ AnswerProbe(c, r)
    BY DEF CanaryEnds, d
  <2> QED
    BY <2>1
<1>5. until \in Time /\ (status = "SAFE" => until = call[c].since + TTL)
  BY <1>1, <1>3, Constants DEF Expiry, Time
<1>6. row' \in ResultRow /\ row'.status = status /\ row'.distro = d /\ row'.until = until
  BY <1>3, <1>4, <1>5 DEF ResultRow, RowStatus, FinalStates
<1>7. /\ passed' \in [Distro -> 0 .. MaxTime \cup {None}]
      /\ status = "SAFE" => passed'[d] = call[c].since
  BY <1>1, <1>2, <1>3
<1>8. SafeIsDated'
  BY <1>3, <1>5, <1>6, <1>7, Constants DEF SafeIsDated
<1>9. /\ call' \in [Call -> CallRow] /\ Known(call'[c]) /\ call'[c].fresh = Fresh(Visible(row'))
      /\ \A o \in Call \ {c} : call'[o] = call[o]
  BY <1>1, <1>4, AnswerEffect
<1>10. call'[c].fresh => row'.status = "SAFE" /\ row'.distro = distro /\ now + MinLeft <= row'.until
  BY <1>1, <1>3, <1>6, <1>9, FreshIsVisible
<1>11. row'.distro \in Distro /\ row'.tool \in Tool /\ row'.status # "PROBING"
  BY <1>3, <1>4, <1>6 DEF FinalStates
<1> QED
  BY <1>1, <1>2, <1>3, <1>6, <1>7, <1>8, <1>9, <1>10, <1>11, CallStep

--------------------------------------------------------------------------------
(* The repeatability check. *)

\* A step of the check writes the record of its identity and its request, and the
\* record is RUNNING only while the request works on it.
LEMMA ReproStep ==
  ASSUME PInv, NEW c \in Call, NEW k \in Key, distro \in Distro, call[c].at # "canary",
         call[c].at = "repro" => KeyOf(call[c]) = k,
         NEW r \in ReproRow, repro' = [repro EXCEPT ![k] = r],
         UNCHANGED <<now, distro, tools, pre, row, passed, edits>>,
         call' \in [Call -> CallRow], Known(call'[c]), call'[c].fresh => call[c].fresh,
         \A o \in Call \ {c} : call'[o] = call[o],
         r.status = "RUNNING" => call'[c].at = "repro" /\ KeyOf(call'[c]) = k
  PROVE  PInv' /\ FreshStep
<1>1. /\ row.status # "UNCONFIGURED" => row.distro \in Distro /\ row.tool \in Tool
      /\ SafeIsDated'
  BY DEF PInv, IdentityKnown, SafeIsDated
<1>2. /\ repro \in [Key -> ReproRow] /\ pre \in [Distro -> PreflightRow] /\ row \in ResultRow
      /\ passed \in [Distro -> 0 .. MaxTime \cup {None}]
  BY PipelineTypes
<1>3. repro' \in [Key -> ReproRow] /\ repro'[k] = r /\ \A l \in Key \ {k} : repro'[l] = repro[l]
  BY <1>2
<1>4. \A l \in Key : repro'[l].status = "RUNNING" =>
        \/ call'[c].at = "repro" /\ KeyOf(call'[c]) = l
        \/ repro[l].status = "RUNNING" /\ ~ (call[c].at = "repro" /\ KeyOf(call[c]) = l)
  BY <1>3
<1> QED
  BY <1>1, <1>2, <1>3, <1>4, CallStep

LEMMA ReproRows ==
  /\ [NoRepro EXCEPT !.status = "RUNNING"] \in ReproRow
  /\ \A n \in 0 .. Runs : [NoRepro EXCEPT !.status = "ERROR", !.completed = n] \in ReproRow
  /\ \A n \in 0 .. Runs :
       [NoRepro EXCEPT !.status = "ERROR", !.completed = n].status = "ERROR"
<1>1. NoRepro \in ReproRow /\ "RUNNING" \in ReproStatus /\ "ERROR" \in ReproStatus
  BY Constants DEF NoRepro, ReproRow, ReproStatus
<1>2. ASSUME NEW n \in 0 .. Runs
      PROVE  /\ [NoRepro EXCEPT !.status = "ERROR", !.completed = n] \in ReproRow
             /\ [NoRepro EXCEPT !.status = "ERROR", !.completed = n].status = "ERROR"
  BY <1>1 DEF ReproRow
<1> QED
  BY <1>1, <1>2 DEF ReproRow

LEMMA EnterKeeps ==
  ASSUME PInv, NEW c \in Call, NEW k \in Key, distro \in Distro,
         call[c].at \notin {"canary", "repro"}, EnterRepro(c, k),
         UNCHANGED <<now, distro, tools, pre, row, passed, edits>>
  PROVE  PInv' /\ FreshStep
<1>1. TypeOK /\ call \in [Call -> CallRow]
  BY PipelineTypes
<1>2. CASE Return(c) /\ UNCHANGED repro
  <2>1. /\ call' \in [Call -> CallRow] /\ Known(call'[c]) /\ call'[c].fresh = FALSE
        /\ \A o \in Call \ {c} : call'[o] = call[o]
    BY <1>1, <1>2, ReturnEffect
  <2> QED
    BY <1>2, <2>1, QuietStep
<1>3. CASE /\ repro' = [repro EXCEPT ![k] = [NoRepro EXCEPT !.status = "RUNNING"]]
           /\ call' = [call EXCEPT ![c] = [Idle EXCEPT !.at = "repro", !.distro = k[1],
                                                       !.tool = k[2], !.place = distro]]
  <2> DEFINE check == [Idle EXCEPT !.at = "repro", !.distro = k[1], !.tool = k[2],
                                   !.place = distro]
             running == [NoRepro EXCEPT !.status = "RUNNING"]
  <2>1. k[1] \in Distro /\ k[2] \in Tool /\ k = <<k[1], k[2]>>
    BY DEF Key
  <2>2. /\ check \in CallRow /\ check.at = "repro" /\ check.distro = k[1] /\ check.tool = k[2]
        /\ check.place = distro /\ check.fresh = FALSE
    BY <2>1, IdleIsRow DEF CallRow, Idle
  <2>3. Known(check) /\ KeyOf(check) = k
    BY <2>1, <2>2 DEF Known, KeyOf
  <2>4. running \in ReproRow
    BY ReproRows
  <2>5. repro' = [repro EXCEPT ![k] = running] /\ call' = [call EXCEPT ![c] = check]
    BY <1>3
  <2> HIDE DEF check, running
  <2>6. call' \in [Call -> CallRow] /\ call'[c] = check /\ \A o \in Call \ {c} : call'[o] = call[o]
    BY <1>1, <2>2, <2>5
  <2> QED
    BY <2>2, <2>3, <2>4, <2>5, <2>6, ReproStep
<1> QED
  BY <1>2, <1>3 DEF EnterRepro

LEMMA BeginReproKeeps ==
  ASSUME PInv, NEW c \in Call, BeginRepro(c)
  PROVE  PInv' /\ FreshStep
<1> DEFINE r == CurrentRow
<1>1. TypeOK /\ call \in [Call -> CallRow]
  BY PipelineTypes
<1>2. call[c].at = "idle" /\ UNCHANGED <<now, distro, tools, pre, row, passed, edits>>
  BY DEF BeginRepro
<1>3. /\ call' \in [Call -> CallRow] /\ Known(call'[c]) /\ call'[c].fresh = FALSE
         /\ call'[c].at = "idle" /\ call'[c].distro = None
         /\ \A o \in Call \ {c} : call'[o] = call[o]
      => (UNCHANGED repro => PInv' /\ FreshStep)
  <2> SUFFICES ASSUME call' \in [Call -> CallRow], Known(call'[c]), call'[c].fresh = FALSE,
                      call'[c].at = "idle", call'[c].distro = None,
                      \A o \in Call \ {c} : call'[o] = call[o], UNCHANGED repro
               PROVE  PInv' /\ FreshStep
    OBVIOUS
  <2>1. TypeOK'
    BY <1>1, <1>2 DEF TypeOK, CallRow
  <2>2. IdentityKnown' /\ SafeIsDated'
    BY <1>2 DEF PInv, IdentityKnown, SafeIsDated, Known
  <2>3. OpenRowIsServed'
    <3>1. \A o \in Call : call[o].at # "idle" => call'[o] = call[o]
      BY <1>2
    <3> QED
      BY <1>2, <3>1 DEF PInv, OpenRowIsServed, KeyOf
  <2>4. FreshStep
    BY DEF FreshStep
  <2> QED
    BY <2>1, <2>2, <2>3, <2>4 DEF PInv
<1>4. CASE Return(c) /\ UNCHANGED repro
  <2>1. /\ call' \in [Call -> CallRow] /\ Known(call'[c]) /\ call'[c].fresh = FALSE
        /\ call'[c].at = "idle" /\ call'[c].distro = None
        /\ \A o \in Call \ {c} : call'[o] = call[o]
    BY <1>1, <1>4, ReturnEffect
  <2> QED
    BY <1>3, <1>4, <2>1
<1>5. CASE r.status = "SAFE"
  <2>1. r = row /\ r.distro \in Distro /\ r.tool \in Tool
    <3>1. r = row
      BY <1>5 DEF CurrentRow, Visible, NoRow
    <3> QED
      BY <1>5, <3>1 DEF PInv, IdentityKnown
  <2>2. distro \in Distro /\ KeyOf(r) \in Key
    BY <2>1, Constants, PipelineTypes DEF PInv, IdentityKnown, KeyOf, Key
  <2> HIDE DEF r
  <2>3. CASE EnterRepro(c, KeyOf(r))
    BY <1>2, <2>2, <2>3, EnterKeeps
  <2>4. CASE Wait(c, "repro_wait", r.distro, r.tool) /\ UNCHANGED repro
    <3>1. /\ call' \in [Call -> CallRow] /\ Known(call'[c]) /\ call'[c].fresh = FALSE
          /\ \A o \in Call \ {c} : call'[o] = call[o]
      BY <1>1, <2>1, <2>4, WaitEffect
    <3> QED
      BY <1>2, <2>2, <2>4, <3>1, QuietStep
  <2> QED
    BY <1>4, <1>5, <2>3, <2>4 DEF BeginRepro, r
<1> QED
  BY <1>4, <1>5 DEF BeginRepro

LEMMA ReproKeeps ==
  ASSUME PInv, NEW c \in Call,
         ReproWakes(c) \/ ReproRun(c) \/ ReproPasses(c) \/ ReproFails(c)
  PROVE  PInv' /\ FreshStep
<1> DEFINE k == <<call[c].distro, call[c].tool>>
<1>1. /\ TypeOK /\ call \in [Call -> CallRow] /\ repro \in [Key -> ReproRow]
  BY PipelineTypes
<1>2. /\ call[c].at \in {"repro", "repro_wait"}
      /\ UNCHANGED <<now, distro, tools, pre, row, passed, edits>>
  BY DEF ReproWakes, ReproRun, ReproPasses, ReproFails
<1>3. /\ distro \in Distro /\ k \in Key /\ k = KeyOf(call[c]) /\ Known(call[c])
      /\ call[c].runs \in 0 .. Runs - 1 /\ call[c].runs \in 0 .. Runs
  BY <1>1, <1>2, PipelineTypes, Constants DEF Known, Key, KeyOf, CallRow
<1>4. /\ call[c].at = "repro" => call[c].place \in Distro
      /\ repro[k] \in ReproRow
  BY <1>1, <1>3 DEF Known
<1>5. CASE ReproWakes(c)
  <2>1. call[c].at = "repro_wait" /\ EnterRepro(c, k)
    BY <1>5 DEF ReproWakes
  <2> HIDE DEF k
  <2> QED
    BY <1>2, <1>3, <2>1, EnterKeeps
<1>6. ASSUME NEW r \in ReproRow, repro' = [repro EXCEPT ![k] = r], Return(c), r.status # "RUNNING"
      PROVE  PInv' /\ FreshStep
  <2>1. /\ call' \in [Call -> CallRow] /\ Known(call'[c]) /\ call'[c].fresh = FALSE
        /\ \A o \in Call \ {c} : call'[o] = call[o]
    BY <1>1, <1>6, ReturnEffect
  <2> HIDE DEF k
  <2> QED
    BY <1>2, <1>3, <1>6, <2>1, ReproStep
<1>7. CASE ReproFails(c)
  <2> DEFINE r == [NoRepro EXCEPT !.status = "ERROR", !.completed = call[c].runs]
  <2>1. repro' = [repro EXCEPT ![k] = r] /\ Return(c)
    BY <1>7 DEF ReproFails
  <2>2. r \in ReproRow /\ r.status # "RUNNING"
    BY <1>3, ReproRows
  <2> HIDE DEF k, r
  <2> QED
    BY <1>6, <2>1, <2>2
<1>8. CASE ReproPasses(c)
  <2> DEFINE r == [status |-> "SAFE_REPRODUCIBLE", completed |-> Runs,
                   where |-> repro[k].where \cup {call[c].place}]
  <2>1. repro' = [repro EXCEPT ![k] = r] /\ Return(c) /\ call[c].at = "repro"
    BY <1>8 DEF ReproPasses
  <2>2. r \in ReproRow /\ r.status # "RUNNING"
    BY <1>4, <2>1, Constants DEF ReproRow, ReproStatus
  <2> HIDE DEF k, r
  <2> QED
    BY <1>6, <2>1, <2>2
<1>9. CASE ReproRun(c)
  <2> DEFINE r == [repro[k] EXCEPT !.where = repro[k].where \cup {call[c].place}]
             next == [call[c] EXCEPT !.runs = call[c].runs + 1, !.place = distro]
  <2>1. /\ call[c].at = "repro" /\ call[c].runs + 1 < Runs
        /\ repro' = [repro EXCEPT ![k] = r] /\ call' = [call EXCEPT ![c] = next]
    BY <1>1, <1>9 DEF ReproRun
  <2>2. r \in ReproRow
    BY <1>4, <2>1 DEF ReproRow
  <2>3. call[c].runs + 1 \in 0 .. Runs - 1
    BY <1>3, <2>1, Constants
  <2>4. /\ next \in CallRow /\ next.at = "repro" /\ next.distro = call[c].distro
        /\ next.tool = call[c].tool /\ next.place = distro /\ next.fresh = call[c].fresh
    BY <1>1, <1>3, <2>1, <2>3 DEF CallRow
  <2>5. Known(next) /\ KeyOf(next) = k
    BY <1>3, <2>1, <2>4 DEF Known, KeyOf
  <2> HIDE DEF k, r, next
  <2>6. call' \in [Call -> CallRow] /\ call'[c] = next /\ \A o \in Call \ {c} : call'[o] = call[o]
    BY <1>1, <2>1, <2>4
  <2> QED
    BY <1>2, <1>3, <2>1, <2>2, <2>4, <2>5, <2>6, ReproStep
<1> QED
  BY <1>5, <1>7, <1>8, <1>9

--------------------------------------------------------------------------------
(* The pipeline. *)

LEMMA SurroundingsKeep ==
  ASSUME PInv, Surroundings
  PROVE  PInv' /\ FreshStep
<1>1. TypeOK /\ now \in Nat /\ edits \in Nat
  BY PipelineTypes, Constants DEF TypeOK
<1>2. UNCHANGED <<pre, row, repro, call, passed>>
  BY DEF Surroundings, Tick, SelectDistro, UpgradeTools
<1>3. TypeOK' /\ (distro' = distro \/ distro' # None)
  <2>1. CASE Tick
    BY <1>1, <1>2, <2>1, Constants DEF Tick, TypeOK
  <2>2. ASSUME NEW d \in Distro, SelectDistro(d)
        PROVE  TypeOK' /\ distro' # None
    BY <1>1, <1>2, <2>2, Constants DEF SelectDistro, TypeOK
  <2>3. ASSUME NEW d \in Distro, NEW t \in Tool, UpgradeTools(d, t)
        PROVE  TypeOK' /\ distro' = distro
    BY <1>1, <1>2, <2>3, Constants DEF UpgradeTools, TypeOK
  <2>4. Tick => distro' = distro
    BY DEF Tick
  <2> QED
    BY <2>1, <2>2, <2>3, <2>4 DEF Surroundings
<1>4. OpenRowIsServed' /\ IdentityKnown' /\ SafeIsDated'
  BY <1>2, <1>3 DEF PInv, OpenRowIsServed, IdentityKnown, SafeIsDated, Known, KeyOf
<1>5. FreshStep
  BY <1>2 DEF FreshStep
<1> QED
  BY <1>3, <1>4, <1>5 DEF PInv

\* A restart closes every open row and forgets every request.
LEMMA RestartKeeps ==
  ASSUME PInv, Restart
  PROVE  PInv' /\ FreshStep
<1>1. /\ TypeOK /\ row \in ResultRow /\ now \in 0 .. MaxTime /\ now \in Nat
      /\ repro \in [Key -> ReproRow]
  BY PipelineTypes
<1>2. /\ UNCHANGED <<now, distro, tools, pre, passed, edits>>
      /\ \A c \in Call : call'[c] = Idle
      /\ call' \in [Call -> CallRow]
  BY IdleIsRow DEF Restart
<1>3. row' = IF row.status = "PROBING" THEN [row EXCEPT !.status = "ERROR", !.until = now] ELSE row
  BY DEF Restart, RecoveredProbe
<1>4. /\ row' \in ResultRow /\ row'.distro = row.distro /\ row'.tool = row.tool
      /\ row'.status # "PROBING"
      /\ row'.status = "SAFE" => row' = row
      /\ row'.status # "UNCONFIGURED" => row.status # "UNCONFIGURED"
  <2>1. now \in Time /\ "ERROR" \in RowStatus
    BY <1>1, Constants DEF Time, RowStatus
  <2> QED
    BY <1>1, <1>3, <2>1 DEF ResultRow
<1>5. repro' \in [Key -> ReproRow] /\ \A k \in Key : repro'[k].status # "RUNNING"
  <2>1. \A k \in Key : RecoveredRepro(k) \in ReproRow /\ RecoveredRepro(k).status # "RUNNING"
    <3> SUFFICES ASSUME NEW k \in Key
                 PROVE  RecoveredRepro(k) \in ReproRow /\ RecoveredRepro(k).status # "RUNNING"
      OBVIOUS
    <3>1. repro[k] \in ReproRow /\ "ERROR" \in ReproStatus
      BY <1>1 DEF ReproStatus
    <3> QED
      BY <3>1 DEF RecoveredRepro, ReproRow
  <2> QED
    BY <2>1 DEF Restart
<1>6. TypeOK'
  BY <1>1, <1>2, <1>4, <1>5 DEF TypeOK, CallRow
<1>7. OpenRowIsServed' /\ SafeIsDated'
  BY <1>2, <1>4, <1>5 DEF PInv, OpenRowIsServed, SafeIsDated
<1>8. IdentityKnown'
  <2>1. \A c \in Call : call'[c].distro = None /\ Known(call'[c])
    <3>1. Idle.distro = None
      BY DEF Idle
    <3> QED
      BY <1>2, <3>1, IdleIsRow
  <2> QED
    BY <1>2, <1>4, <2>1 DEF PInv, IdentityKnown, Known
<1>9. FreshStep
  BY <1>2 DEF FreshStep, Idle
<1> QED
  BY <1>6, <1>7, <1>8, <1>9 DEF PInv

LEMMA PipelineKeeps ==
  ASSUME PInv, [Next]_vars
  PROVE  PInv' /\ FreshStep
<1>1. ASSUME NEW c \in Call, Request(c) \/ Step(c) PROVE PInv' /\ FreshStep
  BY <1>1, BeginProbeKeeps, BeginReproKeeps, PreflightKeeps, CanaryKeeps, ReproKeeps
     DEF Request, Step
<1>2. CASE UNCHANGED vars
  BY <1>2 DEF vars, PInv, TypeOK, OpenRowIsServed, IdentityKnown, SafeIsDated, Known, KeyOf,
     FreshStep
<1> QED
  BY <1>1, <1>2, SurroundingsKeep, RestartKeeps DEF Next

--------------------------------------------------------------------------------
(* What is sealed on top. *)

LEMMA InvariantStarts == SealedInit => IInv
<1> SUFFICES ASSUME SealedInit PROVE IInv
  OBVIOUS
<1>1. /\ Init /\ 0 \in 0 .. MaxTime /\ 0 \in 0 .. MaxEdit /\ 0 \in Time
      /\ 0 \in 0 .. MaxTime + PreflightTTL /\ 0 \in 0 .. Runs
  BY Constants DEF SealedInit, Time
<1>2. TypeOK
  <2>1. NoRow \in ResultRow
    BY <1>1 DEF NoRow, ResultRow, RowStatus
  <2>2. NoPreflight \in PreflightRow
    BY <1>1 DEF NoPreflight, PreflightRow
  <2>3. NoRepro \in ReproRow
    BY <1>1 DEF NoRepro, ReproRow, ReproStatus
  <2> QED
    BY <1>1, <2>1, <2>2, <2>3, IdleIsRow DEF Init, TypeOK, CallRow
<1>3. OpenRowIsServed /\ SafeIsDated
  BY <1>1 DEF Init, OpenRowIsServed, SafeIsDated, NoRow, NoRepro
<1>4. IdentityKnown
  BY <1>1, IdleIsRow DEF Init, IdentityKnown, NoRow, Idle
<1>5. SealedTypeOK /\ InspectionsWhole
  <2>1. Blocked \in RuntimeResult
    BY DEF Blocked, RuntimeResult
  <2>2. IsInjective(contracts) /\ contracts \in Seq(Identity)
    BY DEF SealedInit, IsInjective
  <2> QED
    BY <1>2, <2>1, <2>2 DEF SealedInit, SealedTypeOK, InspectionsWhole, NoInspection
<1> QED
  BY <1>2, <1>3, <1>4, <1>5 DEF IInv, PInv

\* A new contract instance differs from the ones there are.
LEMMA AppendIsInjective ==
  ASSUME NEW S, NEW s \in Seq(S), IsInjective(s), NEW x \in S, x \notin ToSet(s)
  PROVE  Append(s, x) \in Seq(S) /\ IsInjective(Append(s, x))
<1>1. \A i \in 1 .. Len(s) : s[i] # x
  BY DEF ToSet
<1>2. \A i, j \in 1 .. Len(s) : s[i] = s[j] => i = j
  BY DEF IsInjective
<1>3. /\ Append(s, x) \in Seq(S) /\ DOMAIN Append(s, x) = 1 .. Len(s) + 1
      /\ Append(s, x)[Len(s) + 1] = x
      /\ \A i \in 1 .. Len(s) : Append(s, x)[i] = s[i]
  OBVIOUS
<1> QED
  BY <1>1, <1>2, <1>3 DEF IsInjective

LEMMA InvariantKept == IInv /\ [SealedNext]_allVars => IInv' /\ FreshStep
<1> SUFFICES ASSUME IInv, [SealedNext]_allVars PROVE IInv' /\ FreshStep
  OBVIOUS
<1>1. /\ PInv /\ TypeOK /\ binary \in Binary \cup {None} /\ runtime \in RuntimeResult
      /\ inspect \in [Inspection -> [binary : Binary \cup {None}, key : Key \cup {None}]]
      /\ contracts \in Seq(Identity) /\ IsInjective(contracts)
      /\ row.status = "SAFE" => KeyOf(row) \in Key
  BY DEF IInv, PInv, SealedTypeOK, IdentityKnown, KeyOf, Key
<1>2. PInv' /\ FreshStep
  <2>1. CASE PipelineStep
    BY <1>1, <2>1, PipelineKeeps DEF PipelineStep, Next
  <2>2. CASE SealedRestart
    BY <1>1, <2>2, PipelineKeeps DEF SealedRestart, Next
  <2>3. ASSUME NEW b \in Binary, SelectBinary(b) PROVE PInv' /\ FreshStep
    <3>1. /\ UNCHANGED <<now, distro, tools, pre, row, repro, call, passed>>
          /\ edits' \in 0 .. MaxEdit
      BY <1>1, <2>3, Constants DEF SelectBinary, TypeOK
    <3> QED
      BY <1>1, <3>1 DEF PInv, TypeOK, OpenRowIsServed, IdentityKnown, SafeIsDated, Known, KeyOf,
         FreshStep
  <2>4. CASE UNCHANGED vars
    BY <1>1, <2>4, PipelineKeeps
  <2>5. ASSUME NEW i \in Inspection,
               BeginInspection(i) \/ \E good \in BOOLEAN : InspectionEnds(i, good)
        PROVE  UNCHANGED vars
    BY <2>5 DEF BeginInspection, InspectionEnds
  <2>6. ASSUME NEW h \in Identity, Create(h) PROVE UNCHANGED vars
    BY <2>6 DEF Create
  <2>7. UNCHANGED allVars => UNCHANGED vars
    BY DEF allVars
  <2> QED
    BY <2>1, <2>2, <2>3, <2>4, <2>5, <2>6, <2>7 DEF SealedNext
<1>3. TypeOK'
  BY <1>2 DEF PInv
<1>4. ASSUME UNCHANGED <<runtime, contracts>>, binary' \in Binary \cup {None},
             inspect' = inspect \/ inspect' = [i \in Inspection |-> NoInspection]
      PROVE  IInv'
  <2>1. SealedTypeOK'
    BY <1>1, <1>3, <1>4 DEF SealedTypeOK, NoInspection
  <2>2. InspectionsWhole'
    BY <1>4 DEF IInv, InspectionsWhole
  <2> QED
    BY <1>2, <2>1, <2>2 DEF IInv
<1>5. ASSUME NEW i \in Inspection, BeginInspection(i) PROVE IInv'
  <2>1. UNCHANGED <<binary, contracts>>
    BY <1>5 DEF BeginInspection
  <2>2. CASE runtime' = Blocked /\ UNCHANGED inspect
    <3>1. Blocked \in RuntimeResult
      BY DEF Blocked, RuntimeResult
    <3>2. SealedTypeOK' /\ InspectionsWhole'
      BY <1>1, <1>3, <2>1, <2>2, <3>1 DEF SealedTypeOK, IInv, InspectionsWhole
    <3> QED
      BY <1>2, <3>2 DEF IInv
  <2>3. CASE /\ ~ Refused /\ UNCHANGED runtime
             /\ inspect' = [inspect EXCEPT ![i] = [binary |-> binary, key |-> KeyOf(row)]]
    <3>1. binary \in Binary /\ row.status = "SAFE"
      BY <1>1, <2>3 DEF Refused, CurrentRow, Visible, NoRow
    <3>2. KeyOf(row) \in Key
      BY <1>1, <3>1
    <3>3. SealedTypeOK'
      BY <1>1, <1>3, <2>1, <2>3, <3>1, <3>2 DEF SealedTypeOK
    <3>4. InspectionsWhole'
      <4> SUFFICES ASSUME NEW j \in Inspection, inspect'[j] # NoInspection
                   PROVE  inspect'[j].binary \in Binary /\ inspect'[j].key \in Key
        BY DEF InspectionsWhole
      <4>1. CASE j = i
        BY <1>1, <2>3, <3>1, <3>2, <4>1
      <4>2. CASE j # i
        BY <1>1, <2>3, <4>2 DEF IInv, InspectionsWhole
      <4> QED
        BY <4>1, <4>2
    <3> QED
      BY <1>2, <3>3, <3>4 DEF IInv
  <2> QED
    BY <1>5, <2>2, <2>3 DEF BeginInspection
<1>6. ASSUME NEW i \in Inspection, NEW good \in BOOLEAN, InspectionEnds(i, good) PROVE IInv'
  <2>1. /\ inspect[i] # NoInspection /\ UNCHANGED <<binary, contracts>>
        /\ inspect' = [inspect EXCEPT ![i] = NoInspection]
        /\ runtime' = IF good THEN [status |-> "EGRESS_UNCONFIGURED",
                                    binary |-> inspect[i].binary, key |-> inspect[i].key]
                      ELSE Blocked
    BY <1>6 DEF InspectionEnds
  <2>2. inspect[i].binary \in Binary /\ inspect[i].key \in Key
    BY <2>1 DEF IInv, InspectionsWhole
  <2>3. runtime' \in RuntimeResult
    <3>1. Blocked \in RuntimeResult
      BY DEF Blocked, RuntimeResult
    <3>2. [status |-> "EGRESS_UNCONFIGURED", binary |-> inspect[i].binary,
           key |-> inspect[i].key] \in RuntimeResult
      BY <2>2, Constants DEF RuntimeResult
    <3> QED
      BY <2>1, <3>1, <3>2
  <2>4. SealedTypeOK'
    BY <1>1, <1>3, <2>1, <2>3 DEF SealedTypeOK, NoInspection
  <2>5. InspectionsWhole'
    BY <1>1, <2>1 DEF IInv, InspectionsWhole
  <2> QED
    BY <1>2, <2>4, <2>5 DEF IInv
<1>7. ASSUME NEW h \in Identity, Create(h) PROVE IInv'
  <2>1. /\ contracts' = IF h \in ToSet(contracts) THEN contracts ELSE Append(contracts, h)
        /\ UNCHANGED <<binary, runtime, inspect>>
    BY <1>7 DEF Create
  <2>2. contracts' \in Seq(Identity) /\ IsInjective(contracts')
    BY <1>1, <2>1, AppendIsInjective
  <2>3. SealedTypeOK'
    BY <1>1, <1>3, <2>1, <2>2 DEF SealedTypeOK, IsInjective
  <2>4. InspectionsWhole'
    BY <2>1 DEF IInv, InspectionsWhole
  <2> QED
    BY <1>2, <2>3, <2>4 DEF IInv
<1>8. ASSUME PipelineStep \/ SealedRestart \/ (\E b \in Binary : SelectBinary(b)) \/ UNCHANGED allVars
      PROVE  IInv'
  <2>1. UNCHANGED <<runtime, contracts>> /\ binary' \in Binary \cup {None}
    BY <1>1, <1>8 DEF PipelineStep, SealedRestart, SelectBinary, sealedVars, allVars
  <2>2. inspect' = inspect \/ inspect' = [i \in Inspection |-> NoInspection]
    BY <1>8 DEF PipelineStep, SealedRestart, SelectBinary, sealedVars, allVars
  <2> QED
    BY <1>4, <2>1, <2>2
<1> QED
  BY <1>2, <1>5, <1>6, <1>7, <1>8 DEF SealedNext

--------------------------------------------------------------------------------
(* The theorems. *)

\* Whatever requests interleave, expire or die, a request knows the identity it
\* works for, a SAFE row is dated by the canaries that passed last in its distro,
\* and a preflight holds a complete identity or none.
THEOREM PipelineIsConsistent == SealedSpec => []IInv
BY InvariantStarts, InvariantKept, PTL DEF SealedSpec

\* A PROBING row and a RUNNING check have their request at work in every
\* interleaving, contract instances are distinct, and a runtime result has an
\* identity exactly when it is not BLOCKED.
THEOREM OpenRowsAreServed == SealedSpec => []RowsInOrder
<1>1. IInv => RowsInOrder
  BY DEF IInv, PInv, RowsInOrder
<1> QED
  BY <1>1, PipelineIsConsistent, PTL

\* A sealed contract that may execute now rests on canaries that passed in the
\* distro selected now, begun no longer ago than the lifetime less the reserve.
THEOREM ExecutableRestsOnCanaries == SealedSpec => []ExecutableIsProven
<1>1. IInv => ExecutableIsProven
  <2> SUFFICES ASSUME IInv, NEW x \in Identity, Executable(x)
               PROVE  /\ x.key[1] = distro /\ passed[distro] # None
                      /\ now + Reserve <= passed[distro] + TTL
    BY DEF ExecutableIsProven
  <2>1. /\ CurrentRow.status = "SAFE" /\ CurrentRow.until >= now + Reserve
        /\ x.key = KeyOf(CurrentRow)
    BY DEF Executable, Proven
  <2>2. CurrentRow = row /\ (distro = None \/ row.distro = distro)
    BY <2>1 DEF CurrentRow, Visible, NoRow
  <2>3. row.distro \in Distro /\ distro # None
    BY <2>1, <2>2, Constants DEF IInv, PInv, IdentityKnown
  <2>4. passed[row.distro] # None /\ row.until = passed[row.distro] + TTL
    BY <2>1, <2>2 DEF IInv, PInv, SafeIsDated
  <2>5. x.key[1] = row.distro
    BY <2>1, <2>2 DEF KeyOf
  <2> QED
    BY <2>1, <2>2, <2>3, <2>4, <2>5
<1> QED
  BY <1>1, PipelineIsConsistent, PTL

\* When a probe answers that the isolation is fresh, the row is of the distro
\* selected at that moment and canaries recent enough passed in it.
THEOREM FreshAnswersAreCurrent == SealedSpec => FreshIsCurrent
<1>1. IInv /\ [SealedNext]_allVars =>
        [\A c \in Call : call'[c].fresh /\ ~ call[c].fresh =>
           /\ row'.status = "SAFE" /\ row'.distro = distro'
           /\ passed'[distro'] # None
           /\ now' + MinLeft <= passed'[distro'] + TTL]_vars
  BY InvariantKept DEF FreshStep, Seen
<1> QED
  BY <1>1, PipelineIsConsistent, PTL DEF SealedSpec, FreshIsCurrent
================================================================================
