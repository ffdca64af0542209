---------------------------- MODULE SealedContract ----------------------------
(***************************************************************************)
(* What is sealed on top of the isolation pipeline: the runtime preflight  *)
(* inspects the configured Codex binary and binds it to the isolation      *)
(* identity, and the egress contract binds both to a repeatability record. *)
(***************************************************************************)
EXTENDS Isolation, Sequences, SequencesExt

CONSTANTS
  Inspection,  \* requests of a runtime preflight
  Binary,      \* Codex binaries the user may select
  Reserve      \* CANARY_REQUIRED_REMAINING_SECONDS: what a contract asks of
               \* the isolation row, where a fresh probe has MinLeft

ASSUME SealedAssumption == Reserve \in Nat /\ None \notin Binary \cup Key

VARIABLES
  binary,     \* wsl_codex_runtime_config: the selected binary
  runtime,    \* wsl_codex_runtime_results, a single row
  inspect,    \* runtime preflights in flight
  contracts   \* sealed_egress_contract_instances, oldest first

sealedVars == <<binary, runtime, inspect, contracts>>
allVars == <<vars, sealedVars>>

\* What the hash of a contract covers and can vary: the runtime fingerprint
\* and launch spec (binary and isolation identity) and the repeatability key.
Identity == [binary : Binary, key : Key]
Blocked == [status |-> "BLOCKED", binary |-> None, key |-> None]
\* What the store accepts and reads back: a result is EGRESS_UNCONFIGURED
\* exactly when its identity is complete.
RuntimeResult ==
  {r \in [status : {"BLOCKED", "EGRESS_UNCONFIGURED"}, binary : Binary \cup {None},
          key : Key \cup {None}] :
     (r.status = "EGRESS_UNCONFIGURED") = (r.binary # None /\ r.key # None)}
NoInspection == [binary |-> None, key |-> None]

SealedInit ==
  /\ Init
  /\ binary \in Binary \cup {None}
  /\ runtime = Blocked
  /\ inspect = [i \in Inspection |-> NoInspection]
  /\ contracts = <<>>

----------------------------------------------------------------------------
(* The runtime preflight.                                                    *)

\* POST /api/isolation/wsl/runtime/config
SelectBinary(b) ==
  /\ edits < MaxEdit /\ b # binary
  /\ edits' = edits + 1 /\ binary' = b
  /\ UNCHANGED <<now, distro, tools, pre, row, repro, call, passed>>
  /\ UNCHANGED <<runtime, inspect, contracts>>

\* Configuration and isolation row are read before the lock.  The row's
\* expiry is not looked at.
Refused == binary = None \/ distro = None \/ CurrentRow.status # "SAFE"

\* The lock of the identity only delays a second inspection of the same
\* binary, so a request is in flight from here to its save.
BeginInspection(i) ==
  /\ inspect[i] = NoInspection
  /\ \/ /\ Refused
        /\ runtime' = Blocked /\ UNCHANGED inspect
     \/ /\ ~ Refused
        /\ inspect' = [inspect EXCEPT ![i] = [binary |-> binary, key |-> KeyOf(row)]]
        /\ UNCHANGED runtime
  /\ UNCHANGED vars /\ UNCHANGED <<binary, contracts>>

\* The inspection is over: the identity is complete when the binary is the
\* expected one, and any failure is saved in its place.
InspectionEnds(i, good) ==
  /\ inspect[i] # NoInspection
  /\ runtime' = IF good THEN [status |-> "EGRESS_UNCONFIGURED",
                              binary |-> inspect[i].binary, key |-> inspect[i].key]
                ELSE Blocked
  /\ inspect' = [inspect EXCEPT ![i] = NoInspection]
  /\ UNCHANGED vars /\ UNCHANGED <<binary, contracts>>

----------------------------------------------------------------------------
(* The egress contract: every operation is one step.                         *)

\* _binding_problem without a contract, then validate_sealed_execution_proof.
RuntimeIsBound ==
  /\ runtime.status = "EGRESS_UNCONFIGURED" /\ CurrentRow.status = "SAFE"
  /\ runtime.key = KeyOf(CurrentRow)
Proven ==
  /\ CurrentRow.status = "SAFE" /\ CurrentRow.until >= now + Reserve
  /\ repro[KeyOf(CurrentRow)].status = "SAFE_REPRODUCIBLE"
  /\ repro[KeyOf(CurrentRow)].completed = Runs

CurrentIdentity == [binary |-> runtime.binary, key |-> runtime.key]

\* Mutant: the twin is not looked for.
CreateAgain(h) ==
  /\ RuntimeIsBound /\ Proven /\ h = CurrentIdentity
  /\ contracts' = Append(contracts, h)
  /\ UNCHANGED vars /\ UNCHANGED <<binary, runtime, inspect>>

\* Create with the hash of the preview h, or find its twin.  The preview is
\* read-only; a hash that is not the current one is refused.
Create(h) ==
  /\ RuntimeIsBound /\ Proven /\ h = CurrentIdentity
  /\ contracts' = IF h \in ToSet(contracts) THEN contracts ELSE Append(contracts, h)
  /\ UNCHANGED vars /\ UNCHANGED <<binary, runtime, inspect>>

\* The latest instance, still bound and proven: what the harness and the
\* canary run under.
Executable(x) ==
  /\ contracts # <<>> /\ x = Last(contracts)
  /\ RuntimeIsBound /\ x = CurrentIdentity
  /\ Proven /\ x.key = KeyOf(CurrentRow)

----------------------------------------------------------------------------
SealedRestart ==
  /\ Restart
  /\ inspect' = [i \in Inspection |-> NoInspection]
  /\ UNCHANGED <<binary, runtime, contracts>>

PipelineStep ==
  /\ Surroundings \/ \E c \in Call : Request(c) \/ Step(c)
  /\ UNCHANGED sealedVars

SealedNext ==
  \/ PipelineStep \/ SealedRestart
  \/ \E b \in Binary : SelectBinary(b)
  \/ \E i \in Inspection : BeginInspection(i) \/ \E good \in BOOLEAN : InspectionEnds(i, good)
  \/ \E h \in Identity : Create(h)

SealedSpec == SealedInit /\ [][SealedNext]_allVars

----------------------------------------------------------------------------
(* Properties.                                                               *)

SealedTypeOK ==
  /\ TypeOK
  /\ binary \in Binary \cup {None}
  /\ runtime \in RuntimeResult
  /\ inspect \in [Inspection -> [binary : Binary \cup {None}, key : Key \cup {None}]]
  /\ contracts \in Seq(Identity) /\ IsInjective(contracts)

\* Types, distinct contract instances, and an open row of a probe or check
\* always with its request at work, in every composition with inspections.
RowsInOrder == SealedTypeOK /\ OpenRowIsServed

\* A contract that may execute now rests on canaries that passed: in the
\* distro selected now, begun no longer ago than the lifetime less the reserve.
\* The rows in between are singletons written out of order by preflights and
\* probes of other identities.
ExecutableIsProven ==
  \A x \in Identity : Executable(x) =>
    /\ x.key[1] = distro
    /\ passed[distro] # None
    /\ now + Reserve <= passed[distro] + TTL
=============================================================================
