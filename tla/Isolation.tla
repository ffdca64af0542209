------------------------------ MODULE Isolation ------------------------------
(***************************************************************************)
(* The WSL isolation pipeline: the configured distro, the preflight cache, *)
(* the canary probe with its one result row, the freshness the one-shot    *)
(* canary asks for, and the repeatability check.                           *)
(*                                                                         *)
(* Requests are coroutines of one event loop: a step of a call runs from   *)
(* one suspension to the next.  The configuration, the tools inside the    *)
(* distro and the clock change between two steps.                          *)
(***************************************************************************)
EXTENDS Naturals, FiniteSets

CONSTANTS
  Call,          \* requests
  Distro,        \* WSL distributions
  Tool,          \* versions of the tools inside one: the tool fingerprint
  None,
  Runs,          \* REPRO_RUNS
  TTL,           \* PROBE_TTL_SECONDS
  PreflightTTL,  \* PREFLIGHT_CACHE_TTL_SECONDS
  MinLeft,       \* OFFLINE_CANARY_MIN_REMAINING_SECONDS
  MaxTime,       \* bound: the clock
  MaxEdit        \* bound: changes of the configuration and of the tools

ASSUME IsolationAssumption ==
  /\ {Runs, TTL, PreflightTTL, MinLeft, MaxTime, MaxEdit} \subseteq Nat
  /\ Runs > 0 /\ MinLeft > 0 /\ MinLeft <= TTL
  /\ None \notin Distro \cup Tool \cup 0 .. MaxTime

VARIABLES
  now,
  distro,  \* wsl_isolation_config: the selected distro
  tools,   \* external: the tools each distro has now
  pre,     \* wsl_isolation_preflight_cache, per distro
  row,     \* wsl_isolation_probe_results, a single row
  repro,   \* wsl_isolation_repro_runs, by identity
  call,
  passed,  \* history: when the last canary run that passed in a distro began
  edits

vars == <<now, distro, tools, pre, row, repro, call, passed, edits>>

Time == 0 .. MaxTime + TTL
\* The identity of a result: the hash of the configuration and of the tools.
Key == Distro \X Tool
RowStatus == {"UNCONFIGURED", "PROBING", "SAFE", "UNSAFE", "ERROR"}
\* UNSAFE stands for UNSAFE_HOST_FS, UNSAFE_WRITE, UNSAFE_NETWORK and for the
\* MISCONFIGURED of a failed wslpath.
FinalStates == {"SAFE", "UNSAFE", "ERROR"}
ReproStatus == {"none", "RUNNING", "SAFE_REPRODUCIBLE", "ERROR"}
\* What the store accepts: only a successful preflight has a row, and a check
\* has completed no more runs than were asked for.
ResultRow == [distro : Distro \cup {None}, tool : Tool \cup {None},
              status : RowStatus, until : Time]
PreflightRow == [tool : Tool \cup {None}, until : 0 .. MaxTime + PreflightTTL]
ReproRow == [status : ReproStatus, completed : 0 .. Runs, where : SUBSET Distro]
NoRow == [distro |-> None, tool |-> None, status |-> "UNCONFIGURED", until |-> 0]
NoPreflight == [tool |-> None, until |-> 0]
\* where: history, the distros the runs of the record executed in.
NoRepro == [status |-> "none", completed |-> 0, where |-> {}]
Idle == [at |-> "idle", distro |-> None, tool |-> None,
         since |-> 0, runs |-> 0, place |-> None, fresh |-> FALSE]

Init ==
  /\ now = 0 /\ edits = 0
  /\ distro \in Distro \cup {None}
  /\ tools \in [Distro -> Tool]
  /\ pre = [d \in Distro |-> NoPreflight]
  /\ row = NoRow
  /\ repro = [k \in Key |-> NoRepro]
  /\ call = [c \in Call |-> Idle]
  /\ passed = [d \in Distro |-> None]

----------------------------------------------------------------------------
(* The surroundings.                                                         *)

Tick == /\ now < MaxTime /\ now' = now + 1
        /\ UNCHANGED <<distro, tools, pre, row, repro, call, passed, edits>>

\* POST /api/isolation/wsl/config
SelectDistro(d) ==
  /\ edits < MaxEdit /\ d # distro
  /\ edits' = edits + 1 /\ distro' = d
  /\ UNCHANGED <<now, tools, pre, row, repro, call, passed>>

\* The user upgrades Python or bubblewrap inside a distro.
UpgradeTools(d, t) ==
  /\ edits < MaxEdit /\ t # tools[d]
  /\ edits' = edits + 1 /\ tools' = [tools EXCEPT ![d] = t]
  /\ UNCHANGED <<now, distro, pre, row, repro, call, passed>>

----------------------------------------------------------------------------
(* Reading the result row.                                                   *)

\* Read with an identity: any other row does not count.
RowFor(d, t) == IF row.distro = d /\ row.tool = t THEN row ELSE NoRow

\* Mutant: the selected distro is not compared.
RowOfAnyDistro(r) == r

\* Read without one: the row counts unless another distro is selected now.
Visible(r) == IF distro # None /\ r.distro # distro THEN NoRow ELSE r
CurrentRow == Visible(row)

Left(r) == IF r.until > now THEN r.until - now ELSE 0
Reusable(d, t) == LET r == RowFor(d, t)
                  IN r.status \in FinalStates /\ r.until >= now + MinLeft

ReusablePreflight(d) == pre[d].tool # None /\ pre[d].until > now

----------------------------------------------------------------------------
(* The probe.  ensure_fresh_isolation_for_offline_canary is a probe that     *)
(* reads the row again, in the same step as the probe's last one; the probe  *)
(* of the HTTP API does the same and looks at nothing afterwards.            *)

Return(c) == call' = [call EXCEPT ![c] = Idle]

Fresh(r) == r.status = "SAFE" /\ Left(r) >= MinLeft

\* What the call answers once its probe has returned, with r in the row.
AnswerProbe(c, r) ==
  call' = [call EXCEPT ![c] = [Idle EXCEPT !.fresh = Fresh(Visible(r))]]

Wait(c, at, d, t) ==
  call' = [call EXCEPT ![c] = [Idle EXCEPT !.at = at, !.distro = d, !.tool = t]]

CanaryLockFree(d, t) ==
  \A o \in Call : ~ (call[o].at = "canary" /\ call[o].distro = d /\ call[o].tool = t)
PreflightLockFree(d) ==
  \A o \in Call : ~ (call[o].at = "preflight" /\ call[o].distro = d)

SaveProbing(c, d, t) ==
  /\ row' = [distro |-> d, tool |-> t, status |-> "PROBING", until |-> now + TTL]
  /\ call' = [call EXCEPT ![c] = [Idle EXCEPT !.at = "canary", !.distro = d,
                                              !.tool = t, !.since = now]]

\* From a successful preflight to the lock of the identity or, when it is
\* free and the row cannot be reused, to the canaries.
Proceed(c, d, t) ==
  \/ Reusable(d, t) /\ UNCHANGED row /\ AnswerProbe(c, row)
  \/ ~ Reusable(d, t) /\ CanaryLockFree(d, t) /\ SaveProbing(c, d, t)
  \/ ~ Reusable(d, t) /\ ~ CanaryLockFree(d, t)
     /\ UNCHANGED row /\ Wait(c, "canary_wait", d, t)

BeginProbe(c) ==
  /\ call[c].at = "idle"
  /\ \/ /\ distro = None
        /\ row' = [NoRow EXCEPT !.until = now + TTL]
        /\ AnswerProbe(c, NoRow)
     \/ distro # None /\ ReusablePreflight(distro) /\ Proceed(c, distro, pre[distro].tool)
     \/ /\ distro # None /\ ~ ReusablePreflight(distro)
        /\ Wait(c, IF PreflightLockFree(distro) THEN "preflight" ELSE "preflight_wait",
                distro, None)
        /\ UNCHANGED row
  /\ UNCHANGED <<now, distro, tools, pre, repro, passed, edits>>

\* The preflight's own awaits end: the tools it saw go to the cache.
PreflightEnds(c) ==
  LET d == call[c].distro IN
  /\ call[c].at = "preflight"
  /\ pre' = [pre EXCEPT ![d] = [tool |-> tools[d], until |-> now + PreflightTTL]]
  /\ Proceed(c, d, tools[d])
  /\ UNCHANGED <<now, distro, tools, repro, passed, edits>>

\* A failed preflight is answered and leaves the row untouched.
PreflightFails(c) ==
  /\ call[c].at = "preflight"
  /\ Return(c)
  /\ UNCHANGED <<now, distro, tools, pre, row, repro, passed, edits>>

PreflightWakes(c) ==
  LET d == call[c].distro IN
  /\ call[c].at = "preflight_wait" /\ PreflightLockFree(d)
  /\ \/ ReusablePreflight(d) /\ Proceed(c, d, pre[d].tool)
     \/ ~ ReusablePreflight(d) /\ UNCHANGED row /\ Wait(c, "preflight", d, None)
  /\ UNCHANGED <<now, distro, tools, pre, repro, passed, edits>>

ProbeWakes(c) ==
  /\ call[c].at = "canary_wait" /\ CanaryLockFree(call[c].distro, call[c].tool)
  /\ Proceed(c, call[c].distro, call[c].tool)
  /\ UNCHANGED <<now, distro, tools, pre, repro, passed, edits>>

\* Mutant: the lifetime counts from the end of the canaries.
ExpiryFromEnd(c, status) == {now + TTL}

\* When a result expires: one read from the markers was issued before the
\* canaries ran, one made of an exception is issued now.
Expiry(c, status) ==
  IF status = "ERROR" THEN {call[c].since + TTL, now + TTL} ELSE {call[c].since + TTL}

\* The canaries have run, or timed out, or failed: the row is written.
CanaryEnds(c, status) ==
  LET d == call[c].distro IN
  /\ call[c].at = "canary" /\ status \in FinalStates
  /\ \E until \in Expiry(c, status) :
       LET r == [distro |-> d, tool |-> call[c].tool, status |-> status, until |-> until]
       IN row' = r /\ AnswerProbe(c, r)
  /\ passed' = IF status = "SAFE" THEN [passed EXCEPT ![d] = call[c].since] ELSE passed
  /\ UNCHANGED <<now, distro, tools, pre, repro, edits>>

----------------------------------------------------------------------------
(* The repeatability check.                                                  *)

KeyOf(r) == <<r.distro, r.tool>>
ReproLockFree(k) ==
  \A o \in Call : ~ (call[o].at = "repro" /\ <<call[o].distro, call[o].tool>> = k)

\* With the identity's lock in hand: a stored success is final, anything
\* else is run again.
EnterRepro(c, k) ==
  \/ /\ repro[k].status = "SAFE_REPRODUCIBLE"
     /\ Return(c) /\ UNCHANGED repro
  \/ /\ repro[k].status # "SAFE_REPRODUCIBLE"
     /\ repro' = [repro EXCEPT ![k] = [NoRepro EXCEPT !.status = "RUNNING"]]
     /\ call' = [call EXCEPT ![c] = [Idle EXCEPT !.at = "repro",
                    !.distro = k[1], !.tool = k[2], !.place = distro]]

BeginRepro(c) ==
  LET r == CurrentRow IN
  /\ call[c].at = "idle"
  /\ \/ /\ r.status # "SAFE" \/ r.until <= now
        /\ Return(c) /\ UNCHANGED repro
     \/ /\ r.status = "SAFE" /\ r.until > now
        /\ \/ ReproLockFree(KeyOf(r)) /\ EnterRepro(c, KeyOf(r))
           \/ /\ ~ ReproLockFree(KeyOf(r))
              /\ Wait(c, "repro_wait", r.distro, r.tool) /\ UNCHANGED repro
  /\ UNCHANGED <<now, distro, tools, pre, row, passed, edits>>

ReproWakes(c) ==
  LET k == <<call[c].distro, call[c].tool>> IN
  /\ call[c].at = "repro_wait" /\ ReproLockFree(k) /\ EnterRepro(c, k)
  /\ UNCHANGED <<now, distro, tools, pre, row, passed, edits>>

\* One run ends with the expected frame.  The next reads the configured
\* distro again.
ReproRun(c) ==
  LET k == <<call[c].distro, call[c].tool>>
      r == [repro[k] EXCEPT !.where = repro[k].where \cup {call[c].place}]
  IN
  /\ call[c].at = "repro"
  /\ call[c].runs + 1 < Runs
  /\ repro' = [repro EXCEPT ![k] = r]
  /\ call' = [call EXCEPT ![c].runs = call[c].runs + 1, ![c].place = distro]
  /\ UNCHANGED <<now, distro, tools, pre, row, passed, edits>>

ReproPasses(c) ==
  LET k == <<call[c].distro, call[c].tool>> IN
  /\ call[c].at = "repro" /\ call[c].runs + 1 = Runs
  /\ repro' = [repro EXCEPT ![k] =
       [status |-> "SAFE_REPRODUCIBLE", completed |-> Runs,
        where |-> repro[k].where \cup {call[c].place}]]
  /\ Return(c)
  /\ UNCHANGED <<now, distro, tools, pre, row, passed, edits>>

\* A bad frame, a failed command or a timeout: parse_frame accepts no value
\* but the expected ones, so every failure is an ERROR.
ReproFails(c) ==
  LET k == <<call[c].distro, call[c].tool>> IN
  /\ call[c].at = "repro"
  /\ repro' = [repro EXCEPT ![k] = [NoRepro EXCEPT !.status = "ERROR", !.completed = call[c].runs]]
  /\ Return(c)
  /\ UNCHANGED <<now, distro, tools, pre, row, passed, edits>>

----------------------------------------------------------------------------
\* Mutant: a PROBING row is left as it is.
ProbingStays == row

\* The process dies and starts again: requests and locks are gone, and the
\* rows left open become errors.
RecoveredProbe ==
  IF row.status = "PROBING" THEN [row EXCEPT !.status = "ERROR", !.until = now] ELSE row
RecoveredRepro(k) ==
  IF repro[k].status = "RUNNING" THEN [repro[k] EXCEPT !.status = "ERROR"] ELSE repro[k]

Restart ==
  /\ row' = RecoveredProbe
  /\ repro' = [k \in Key |-> RecoveredRepro(k)]
  /\ call' = [c \in Call |-> Idle]
  /\ UNCHANGED <<now, distro, tools, pre, passed, edits>>

Step(c) ==
  \/ PreflightEnds(c) \/ PreflightFails(c) \/ PreflightWakes(c)
  \/ ProbeWakes(c) \/ (\E s \in FinalStates : CanaryEnds(c, s))
  \/ ReproWakes(c) \/ ReproRun(c) \/ ReproPasses(c) \/ ReproFails(c)

Request(c) == BeginRepro(c) \/ BeginProbe(c)

Surroundings ==
  \/ Tick
  \/ \E d \in Distro : SelectDistro(d)
  \/ \E d \in Distro, t \in Tool : UpgradeTools(d, t)

Next == Surroundings \/ Restart \/ \E c \in Call : Request(c) \/ Step(c)

Spec == Init /\ [][Next]_vars

----------------------------------------------------------------------------
(* Properties.                                                               *)

TypeOK ==
  /\ now \in 0 .. MaxTime /\ edits \in 0 .. MaxEdit
  /\ distro \in Distro \cup {None}
  /\ tools \in [Distro -> Tool]
  /\ pre \in [Distro -> PreflightRow]
  /\ row \in ResultRow
  /\ repro \in [Key -> ReproRow]
  /\ call \in [Call -> [at : {"idle", "preflight", "preflight_wait", "canary", "canary_wait",
              "repro", "repro_wait"},
        distro : Distro \cup {None}, tool : Tool \cup {None}, since : 0 .. MaxTime, runs : 0 .. Runs - 1,
        place : Distro \cup {None}, fresh : BOOLEAN]]
  /\ passed \in [Distro -> 0 .. MaxTime \cup {None}]

\* A PROBING row or a RUNNING check has its request at work on it, whatever
\* other requests, for other identities, wrote in between: the start-up
\* recovery is the only one needed.
OpenRowIsServed ==
  /\ row.status = "PROBING" =>
       \E c \in Call : call[c].at = "canary" /\ KeyOf(call[c]) = KeyOf(row)
  /\ \A k \in Key : repro[k].status = "RUNNING" =>
       \E c \in Call : call[c].at = "repro" /\ KeyOf(call[c]) = k

\* When ensure_fresh_isolation_for_offline_canary answers, the stored row is
\* of the distro selected at that moment, and canaries begun in that very
\* distro, no longer ago than the lifetime less the required remainder, passed.
FreshIsCurrent ==
  [][\A c \in Call : call'[c].fresh /\ ~ call[c].fresh =>
       /\ row'.status = "SAFE" /\ row'.distro = distro'
       /\ passed'[distro'] # None
       /\ now' + MinLeft <= passed'[distro'] + TTL]_vars

\* validate_sealed_execution_proof calls the stored record "its exact
\* current-environment Repro record": every run behind it ran in its distro.
ReproIsOfItsDistro ==
  \A k \in Key : repro[k].status = "SAFE_REPRODUCIBLE" => repro[k].where = {k[1]}
=============================================================================
