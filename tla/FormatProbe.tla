----------------------------- MODULE FormatProbe -----------------------------
(***************************************************************************)
(* FormatProbeService: a call samples the head of each catalogued file in  *)
(* its batch and keeps one row per attempt.                                *)
(*                                                                         *)
(* Calls run in worker threads; the file, the catalog and other calls may  *)
(* change between two file-system calls and between two transactions.      *)
(***************************************************************************)
EXTENDS Naturals, Sequences

CONSTANTS
  Entry,       \* catalog entries, one file each
  Call,        \* POSTs of a probe
  Batch,       \* the entries a call may ask for, repetitions removed
  MaxVersion,  \* bound: versions of a file
  MaxProbe,    \* bound: rows
  MaxEvent,    \* bound: changes of files and rescans
  Content      \* what the sample of each version holds

Version == 1 .. MaxVersion

\* A sample as the detectors see it: its magic and whether the header behind
\* it is valid.
Magic == {"signature", "header", "strict", "nested", "none"}
SampleType == [magic: Magic, valid: BOOLEAN]
NoSample == [magic |-> "none", valid |-> FALSE]

ASSUME ProbeAssumption ==
  /\ Content \in [Version -> SampleType]
  /\ {MaxVersion, MaxProbe, MaxEvent} \subseteq Nat
  /\ MaxVersion > 0
  /\ \A b \in Batch : b \in Seq(Entry)

NoFile == 0

VARIABLES
  file,    \* version at each entry's path: its signature and its content
  newest,  \* newest version each file ever had
  dead,    \* versions that were written over: nothing brings them back
  listed,  \* catalog_entries: status and signature
  probe,   \* format_probes rows in the order of insertion
  call,    \* the calls
  count    \* number of changes and rescans

probeVars == <<file, newest, dead, listed, probe, call, count>>
world == <<file, newest, dead, listed>>

Allowed == {"ADDED", "MODIFIED", "UNCHANGED", "MOVED_CANDIDATE"}
Active == {"PENDING", "PROBING"}
Terminal == {"COMPLETED", "STALE", "REJECTED", "FAILED"}

IdleCall == [pc |-> "idle", todo |-> <<>>]

ProbeInit ==
  /\ file = [e \in Entry |-> 1]
  /\ newest = [e \in Entry |-> 1]
  /\ dead = [e \in Entry |-> {}]
  /\ listed = [e \in Entry |-> [status |-> "ADDED", sig |-> 1]]
  /\ probe = <<>>
  /\ call = [c \in Call |-> IdleCall]
  /\ count = 0

-----------------------------------------------------------------------------
(* Detection: the registry of detectors and the pick of one format.        *)

\* Signatures alone are HIGH; headers that do not validate leave a MEDIUM
\* candidate; executables need their second signature.  Deeply nested JSON
\* raises RecursionError, which no detector catches.
Raises(sample) == sample.magic = "nested"

Candidates(sample) ==
  CASE sample.magic = "signature"              -> {[format |-> sample.magic, confidence |-> "HIGH"]}
    [] sample.magic = "header" /\ sample.valid  -> {[format |-> sample.magic, confidence |-> "HIGH"]}
    [] sample.magic = "header" /\ ~sample.valid -> {[format |-> sample.magic, confidence |-> "MEDIUM"]}
    [] sample.magic = "strict" /\ sample.valid  -> {[format |-> sample.magic, confidence |-> "HIGH"]}
    [] OTHER -> {}

High(candidates) == {c \in candidates : c.confidence = "HIGH"}

Picked(candidates) ==
  IF \E c \in High(candidates) : High(candidates) = {c}
  THEN (CHOOSE c \in High(candidates) : TRUE).format ELSE "UNKNOWN"

Detected(sample) == Picked(Candidates(sample))

-----------------------------------------------------------------------------
(* One call. *)

Now(c) == Head(call[c].todo)

Accept(c, batch) ==
  /\ call[c] = IdleCall
  /\ call' = [call EXCEPT ![c] = [IdleCall EXCEPT !.pc = "read", !.todo = batch]]
  /\ UNCHANGED <<world, probe, count>>

Working(c, pc, snap, before, sample, kind, verdict) ==
  [pc |-> pc, todo |-> call[c].todo, snap |-> snap, before |-> before,
   sample |-> sample, kind |-> kind, verdict |-> verdict, probe |-> 0]

\* catalog_entry_private; a row that is not listed is rejected unread.
ReadEntry(c) ==
  /\ call[c].pc = "read"
  /\ call[c].todo # <<>>
  /\ LET e == listed[Now(c)]
     IN  call' = [call EXCEPT ![c] =
           IF e.status \in Allowed
           THEN Working(c, "stat", e.sig, e.sig, NoSample, "unread", "COMPLETED")
           ELSE Working(c, "begin", e.sig, e.sig, NoSample, "unread", "REJECTED")]
  /\ UNCHANGED <<world, probe, count>>

\* The path is resolved and stat'ed; what no longer resolves is rejected.
Stat(c) ==
  /\ call[c].pc = "stat"
  /\ LET v == file[Now(c)]
     IN  call' = [call EXCEPT ![c] =
           IF v = NoFile THEN [@ EXCEPT !.pc = "begin", !.verdict = "REJECTED"]
           ELSE [@ EXCEPT !.pc = "open", !.before = v]]
  /\ UNCHANGED <<world, probe, count>>

\* It was resolved, but the stat fails.
StatFails(c) ==
  /\ call[c].pc = "stat"
  /\ file[Now(c)] = NoFile
  /\ call' = [call EXCEPT ![c].pc = "begin", ![c].kind = "stat-error", ![c].verdict = "FAILED"]
  /\ UNCHANGED <<world, probe, count>>

OpenFile(c) ==
  /\ call[c].pc = "open"
  /\ LET v == file[Now(c)]
     IN  call' = [call EXCEPT ![c] =
           IF v = NoFile
           THEN [@ EXCEPT !.pc = "begin", !.kind = "io-error", !.verdict = "FAILED"]
           ELSE IF v # call[c].before
           THEN [@ EXCEPT !.pc = "begin", !.kind = "read-error", !.verdict = "STALE"]
           ELSE [@ EXCEPT !.pc = "sample"]]
  /\ UNCHANGED <<world, probe, count>>

\* The handle reads the file that was opened, whatever the path names by now,
\* and what was written into it since.
Sample(c, v) ==
  /\ call[c].pc = "sample"
  /\ IF call[c].before \in dead[Now(c)] THEN v \in 1 .. newest[Now(c)] ELSE v = call[c].before
  /\ call' = [call EXCEPT ![c].pc = "compare", ![c].sample = Content[v]]
  /\ UNCHANGED <<world, probe, count>>

\* Mutant: the file is not looked at again after it was read.
NeverChanged(c) == FALSE

\* The signatures of the handle and of the path, taken after the read.
ChangedSince(c) == file[Now(c)] # call[c].before

Compare(c) ==
  /\ call[c].pc = "compare"
  /\ call' = [call EXCEPT ![c] =
       IF file[Now(c)] = NoFile
       THEN [@ EXCEPT !.pc = "begin", !.kind = "io-error", !.verdict = "FAILED"]
       ELSE [@ EXCEPT !.pc = "begin", !.kind = "sampled",
                      !.verdict = IF call[c].before # call[c].snap \/ ChangedSince(c)
                                  THEN "STALE" ELSE "COMPLETED"]]
  /\ UNCHANGED <<world, probe, count>>

-----------------------------------------------------------------------------
(* begin_format_probe, mark_format_probe_probing, complete_format_probe.   *)

\* The identity in the cache: an attempt without a sample has only its kind.
Identity(c) ==
  IF call[c].kind = "sampled"
  THEN [sig |-> call[c].before, kind |-> call[c].kind, sample |-> call[c].sample]
  ELSE [sig |-> call[c].snap, kind |-> call[c].kind, sample |-> NoSample]

RowsOf(e) == {i \in 1 .. Len(probe) : probe[i].entry = e}
Reusable(c) == {i \in RowsOf(Now(c)) : probe[i].status = "COMPLETED" /\ probe[i].identity = Identity(c)}
ActiveRows(e) == {i \in RowsOf(e) : probe[i].status \in Active}

\* COALESCE(MAX(attempt), 0)
LastAttempt(e) ==
  IF RowsOf(e) = {} THEN 0
  ELSE LET i == CHOOSE x \in RowsOf(e) : \A y \in RowsOf(e) : probe[x].attempt >= probe[y].attempt
       IN  probe[i].attempt

\* Mutant: the attempts count from zero.
NewRowFromZero(c) ==
  [entry |-> Now(c), attempt |-> LastAttempt(Now(c)), identity |-> Identity(c),
   status |-> "PENDING", format |-> "UNKNOWN", snap |-> call[c].snap]

NewRow(c) ==
  [entry |-> Now(c), attempt |-> LastAttempt(Now(c)) + 1, identity |-> Identity(c),
   status |-> "PENDING", format |-> "UNKNOWN", snap |-> call[c].snap]

\* The call goes on with the next entry of its batch.
Proceed(c) == [pc |-> "read", todo |-> Tail(call[c].todo)]

Reuse(c) ==
  /\ call[c].pc = "begin"
  /\ Reusable(c) # {}
  /\ call' = [call EXCEPT ![c] = Proceed(c)]
  /\ UNCHANGED <<world, probe, count>>

\* Mutant: only a PROBING row keeps the entry.
BusyProbing(c) == \E i \in RowsOf(Now(c)) : probe[i].status = "PROBING"

Busy(c) == ActiveRows(Now(c)) # {}

\* The whole batch fails; what it did so far stays.
RefuseProbe(c) ==
  /\ call[c].pc = "begin"
  /\ Reusable(c) = {}
  /\ Busy(c)
  /\ call' = [call EXCEPT ![c] = IdleCall]
  /\ UNCHANGED <<world, probe, count>>

Begin(c) ==
  /\ call[c].pc = "begin"
  /\ Reusable(c) = {}
  /\ ~Busy(c)
  /\ Len(probe) < MaxProbe
  /\ probe' = Append(probe, NewRow(c))
  /\ call' = [call EXCEPT ![c].probe = Len(probe) + 1,
                          ![c].pc = IF call[c].verdict = "COMPLETED" THEN "mark" ELSE "finish"]
  /\ UNCHANGED <<world, count>>

Mark(c) ==
  /\ call[c].pc = "mark"
  /\ probe' = [probe EXCEPT ![call[c].probe].status = "PROBING"]
  /\ call' = [call EXCEPT ![c].pc = "finish"]
  /\ UNCHANGED <<world, count>>

\* The detectors run on the sample in memory; no handler is around them.
DetectorRaises(c) ==
  /\ call[c].pc = "finish"
  /\ call[c].verdict = "COMPLETED"
  /\ Raises(call[c].sample)
  /\ call' = [call EXCEPT ![c] = IdleCall]
  /\ UNCHANGED <<world, probe, count>>

CompleteProbe(c) ==
  /\ call[c].pc = "finish"
  /\ call[c].verdict = "COMPLETED" => ~Raises(call[c].sample)
  /\ LET i == call[c].probe
     IN  /\ probe' = [probe EXCEPT ![i].status = call[c].verdict,
                        ![i].format = IF call[c].verdict = "COMPLETED"
                                      THEN Detected(call[c].sample) ELSE "UNKNOWN"]
         /\ call' = [call EXCEPT ![c] = Proceed(c)]
  /\ UNCHANGED <<world, count>>

\* The batch is through: probe() returns its results.
Through(c) == call[c].pc = "read" /\ call[c].todo = <<>>

Answer(c) ==
  /\ Through(c)
  /\ call' = [call EXCEPT ![c] = IdleCall]
  /\ UNCHANGED <<world, probe, count>>

-----------------------------------------------------------------------------
(* The world, and a restart. *)

Change(e) ==
  /\ count < MaxEvent
  /\ count' = count + 1
  /\ UNCHANGED <<probe, call>>

CanGrow(e) == newest[e] < MaxVersion

Overwrite(e) ==
  /\ Change(e)
  /\ CanGrow(e)
  /\ file[e] # NoFile
  /\ newest' = [newest EXCEPT ![e] = @ + 1]
  /\ file' = [file EXCEPT ![e] = newest'[e]]
  /\ dead' = [dead EXCEPT ![e] = @ \cup {file[e]}]
  /\ UNCHANGED listed

\* Another file, new or moved back, takes the path.
Replace(e, v) ==
  /\ Change(e)
  /\ \/ v \in (1 .. newest[e]) \ (dead[e] \cup {file[e]})
     \/ CanGrow(e) /\ v = newest[e] + 1
  /\ newest' = [newest EXCEPT ![e] = IF v > @ THEN v ELSE @]
  /\ file' = [file EXCEPT ![e] = v]
  /\ UNCHANGED <<dead, listed>>

Remove(e) ==
  /\ Change(e)
  /\ file[e] # NoFile
  /\ file' = [file EXCEPT ![e] = NoFile]
  /\ UNCHANGED <<newest, dead, listed>>

\* A scan of the source (module Catalog) updates the row.
Rescan(e) ==
  /\ Change(e)
  /\ listed' = [listed EXCEPT ![e] =
       IF file[e] = NoFile THEN [@ EXCEPT !.status = "MISSING"]
       ELSE [status |-> "MODIFIED", sig |-> file[e]]]
  /\ listed' # listed
  /\ UNCHANGED <<file, newest, dead>>

\* Mutant: a PENDING row is not recovered.
InterruptedProbing(p) == p.status = "PROBING"

InterruptedRow(p) == p.status \in Active

\* recover_interrupted_format_probes
RecoverProbes ==
  /\ \E c \in Call : call[c] # IdleCall
  /\ call' = [c \in Call |-> IdleCall]
  /\ probe' = [i \in 1 .. Len(probe) |->
                 IF InterruptedRow(probe[i]) THEN [probe[i] EXCEPT !.status = "FAILED"] ELSE probe[i]]
  /\ UNCHANGED <<world, count>>

Step(c) ==
  \/ (\E b \in Batch : Accept(c, b))
  \/ ReadEntry(c) \/ Stat(c) \/ StatFails(c) \/ OpenFile(c)
  \/ (\E v \in Version : Sample(c, v)) \/ Compare(c)
  \/ Reuse(c) \/ RefuseProbe(c) \/ Begin(c)
  \/ Mark(c) \/ DetectorRaises(c) \/ CompleteProbe(c) \/ Answer(c)

Environment ==
  \E e \in Entry : \/ Overwrite(e) \/ (\E v \in Version : Replace(e, v))
                   \/ Remove(e) \/ Rescan(e)

ProbeNext == (\E c \in Call : Step(c)) \/ Environment \/ RecoverProbes

ProbeSpec == ProbeInit /\ [][ProbeNext]_probeVars

-----------------------------------------------------------------------------
(* Properties. *)

ProbeTypeOK ==
  /\ file \in [Entry -> Version \cup {NoFile}]
  /\ newest \in [Entry -> Version]
  /\ dead \in [Entry -> SUBSET Version]
  /\ listed \in [Entry -> [status: Allowed \cup {"MISSING"}, sig: Version]]
  /\ \A i \in 1 .. Len(probe) :
       /\ probe[i].status \in Active \cup Terminal
       /\ probe[i].attempt \in 1 .. MaxProbe

\* begin_format_probe: an entry is probed by one call at a time, and the
\* attempts of an entry are told apart, whatever calls race.
OneProbeAtATime ==
  /\ \A i, j \in 1 .. Len(probe) :
       i # j /\ probe[i].entry = probe[j].entry =>
         /\ probe[i].attempt # probe[j].attempt
         /\ probe[i].status \in Active => probe[j].status \notin Active

\* The rows are of their types, and no two calls work on one entry at a time.
ProbesInOrder == ProbeTypeOK /\ OneProbeAtATime

\* A COMPLETED row tells the format of the catalogued version of the file,
\* however the file was written to or replaced while it was read.
CompletedIsCatalogued ==
  \A i \in 1 .. Len(probe) :
    probe[i].status = "COMPLETED" =>
      /\ probe[i].identity.sig = probe[i].snap
      /\ probe[i].format = Detected(Content[probe[i].snap])

\* A row that is not finished is being finished by a call, or its sample made
\* a detector raise; the latter holds the entry until the next restart.
ActiveIsServed ==
  \A i \in 1 .. Len(probe) :
    probe[i].status \in Active =>
      \/ \E c \in Call : call[c].pc \in {"mark", "finish"} /\ call[c].probe = i
      \/ probe[i].status = "PROBING" /\ Raises(probe[i].identity.sample)
=============================================================================
