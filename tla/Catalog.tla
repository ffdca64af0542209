------------------------------- MODULE Catalog -------------------------------
(***************************************************************************)
(* The scan of one catalog source: requests in threads of their own, a     *)
(* directory walk that commits in batches, cancel, resume and a tree that  *)
(* changes meanwhile.                                                      *)
(*                                                                         *)
(* Scans run in worker threads (asyncio.to_thread), so a step is one       *)
(* SQLite transaction or one directory entry, and everything else may      *)
(* happen between two steps.                                               *)
(***************************************************************************)
EXTENDS Naturals, Sequences, FiniteSets

CONSTANTS
  File,       \* paths of files, under the root or a sub-directory
  SubDir,     \* paths of directories below the root
  Root,       \* the root itself, "" in the cursor
  In,         \* the directory each path is in
  Key,        \* normalised (case-folded) paths
  Norm,       \* the key of a path
  Sig,        \* what stat tells of a file: size, mtime and file id together
  First,      \* what the files are at first
  Request,    \* POSTs of a scan or a resume
  MaxScan,    \* bound: scan rows
  MaxChange,  \* bound: changes of the tree
  MaxCursor,  \* bound: directories in the cursor of a resumed scan
  BatchSize,  \* BATCH_SIZE
  None

Path == File \cup SubDir

ASSUME CatalogAssumption ==
  /\ In \in [Path -> SubDir \cup {Root}]
  /\ \A d \in SubDir : In[d] = Root
  /\ Norm \in [Path -> Key]
  /\ First \in [File -> Sig]
  /\ File \cap SubDir = {} /\ Root \notin Path
  /\ Sig \cap {"dir", "link", "absent", None} = {}
  /\ {MaxScan, MaxChange, MaxCursor, BatchSize} \subseteq Nat

Scan == 1 .. MaxScan

VARIABLES
  tree,     \* per path: a signature, "dir", "link" or "absent"
  source,   \* the catalog_sources row: generation
  entry,    \* catalog_entries by normalised path
  scan,     \* catalog_scans rows, in the order of started_at
  walker,   \* the thread that walks, if any
  task,     \* requests that have read the source and not begun yet
  changes,  \* number of changes of the tree
  seenAll   \* history: what each scan saw of the tree all along

vars == <<tree, source, entry, scan, walker, task, changes, seenAll>>

-----------------------------------------------------------------------------
(* Rows and initial states. *)

Listed == {"ADDED", "UNCHANGED", "MODIFIED", "MOVED_CANDIDATE"}
EntryStatus == Listed \cup {"NONE", "MISSING", "REJECTED"}
NoEntry == [status |-> "NONE", gen |-> 0, sig |-> None]

NoScan == [status |-> "NONE", gen |-> 0, cursor |-> <<>>, cancel |-> FALSE]
Idle == [pc |-> "idle"]
NothingSeen == [steady |-> {}, gone |-> {}, fresh |-> FALSE]

\* A directory that can be listed; sub-directories are directly below the root.
Open(d) == tree[Root] = "dir" /\ tree[d] = "dir"
Exists(p) == tree[p] # "absent" /\ Open(In[p])
Regular(p) == Exists(p) /\ tree[p] \in Sig

Init ==
  /\ tree = [p \in Path \cup {Root} |-> IF p \in File THEN First[p] ELSE "dir"]
  /\ source = 0
  /\ entry = [k \in Key |-> NoEntry]
  /\ scan = [s \in Scan |-> NoScan]
  /\ walker = Idle
  /\ task = [r \in Request |-> None]
  /\ changes = 0
  /\ seenAll = [s \in Scan |-> NothingSeen]

Running(s) == scan[s].status = "SCANNING"
Unused == {s \in Scan : scan[s].status = "NONE"}

-----------------------------------------------------------------------------
(* begin_catalog_scan: the source is read first, the transaction follows. *)

ReadSource(r) ==
  /\ task[r] = None
  /\ task' = [task EXCEPT ![r] = source]
  /\ UNCHANGED <<tree, source, entry, scan, walker, changes, seenAll>>

RefuseScan(r) ==
  /\ task[r] # None
  /\ \E s \in Scan : Running(s)
  /\ task' = [task EXCEPT ![r] = None]
  /\ UNCHANGED <<tree, source, entry, scan, walker, changes, seenAll>>

\* The walk of a scan that has just begun.
Walk(s, g, cursor) ==
  [pc |-> "start", scan |-> s, gen |-> g, pending |-> cursor, dir |-> Root,
   left |-> {}, seen |-> {}, batch |-> {}, rejected |-> {}, known |-> {}]

Steady == {p \in File : Regular(p)}
Gone == {k \in Key : \A p \in Path : Norm[p] = k => ~Exists(p)}
Fresh(g) == \A k \in Key : entry[k].gen < g

\* Mutant: the check for a running scan is not repeated in the transaction.
MayBeginUnchecked(r) == task[r] # None

MayBegin(r) == task[r] # None /\ \A s \in Scan : ~Running(s)

NewScan(r) ==
  /\ MayBegin(r)
  /\ Unused # {}
  /\ LET s == CHOOSE x \in Unused : \A y \in Unused : x <= y
         g == task[r] + 1
     IN  /\ source' = g
         /\ scan' = [scan EXCEPT ![s] = [NoScan EXCEPT !.status = "SCANNING", !.gen = g,
                                                       !.cursor = <<Root>>]]
         /\ walker' = Walk(s, g, <<Root>>)
         /\ seenAll' = [seenAll EXCEPT ![s] = [steady |-> Steady, gone |-> Gone,
                                               fresh |-> Fresh(g)]]
  /\ task' = [task EXCEPT ![r] = None]
  /\ UNCHANGED <<tree, entry, changes>>

Interrupted == {s \in Scan : scan[s].status = "INTERRUPTED"}

\* The scan that started last of the interrupted ones, under its own generation.
ResumeScan(r) ==
  /\ MayBegin(r)
  /\ Interrupted # {}
  /\ LET s == CHOOSE x \in Interrupted : \A y \in Interrupted : x >= y
     IN  /\ Len(scan[s].cursor) <= MaxCursor
         /\ scan' = [scan EXCEPT ![s].status = "SCANNING", ![s].cancel = FALSE]
         /\ walker' = Walk(s, scan[s].gen, scan[s].cursor)
  /\ task' = [task EXCEPT ![r] = None]
  /\ UNCHANGED <<tree, source, entry, changes, seenAll>>

\* request_catalog_scan_cancel
Cancel ==
  /\ \E s \in Scan : Running(s) /\ ~scan[s].cancel
  /\ scan' = [s \in Scan |-> IF Running(s) THEN [scan[s] EXCEPT !.cancel = TRUE] ELSE scan[s]]
  /\ UNCHANGED <<tree, source, entry, walker, task, changes, seenAll>>

-----------------------------------------------------------------------------
(* Batches.  In a walk each key is at most once in the batch. *)

Reject == [status |-> "REJECTED", gen |-> walker.gen, sig |-> None]

Record(k, sig) ==
  [status |-> IF entry[k].status = "NONE" THEN "ADDED"
              ELSE IF entry[k].sig = sig THEN "UNCHANGED" ELSE "MODIFIED",
   gen |-> walker.gen, sig |-> sig]

\* apply_catalog_batch: the records first, then the rejections.
Applied(batch, rejected) ==
  [k \in Key |-> IF k \in rejected THEN Reject
                 ELSE IF \E b \in batch : b.key = k
                      THEN Record(k, (CHOOSE b \in batch : b.key = k).sig)
                      ELSE entry[k]]

\* Mutant: whatever is older stays as it was.
MissingIgnored(rows) == rows

\* What a completed generation did not encounter.
MissingMarked(rows) ==
  [k \in Key |-> IF rows[k].gen < walker.gen /\ rows[k].status \notin {"NONE", "REJECTED"}
                 THEN [rows[k] EXCEPT !.status = "MISSING"] ELSE rows[k]]

\* A new path with the metadata of a missing one.
MovedMarked(rows) ==
  [k \in Key |->
     IF /\ rows[k].status = "ADDED" /\ rows[k].gen = walker.gen
        /\ \E m \in Key : /\ rows[m].status = "MISSING" /\ rows[m].gen < walker.gen
                          /\ rows[m].sig = rows[k].sig
     THEN [rows[k] EXCEPT !.status = "MOVED_CANDIDATE"] ELSE rows[k]]

\* flush and finish_catalog_scan at the end of the walker w: two transactions
\* of one thread that nothing else writes between.
Finish(w, status, cursor) ==
  LET rows == Applied(w.batch, w.rejected)
  IN  /\ entry' = IF status = "COMPLETED" THEN MovedMarked(MissingMarked(rows)) ELSE rows
      /\ scan' = [scan EXCEPT ![w.scan].status = status, ![w.scan].cursor = cursor]
      /\ walker' = Idle
      /\ seenAll' = IF status = "INTERRUPTED" THEN seenAll
                    ELSE [seenAll EXCEPT ![w.scan] = NothingSeen]
      /\ UNCHANGED <<tree, source, task, changes>>

-----------------------------------------------------------------------------
(* CatalogService.scan. *)

Cancelled == scan[walker.scan].cancel

\* The root is validated after the row was committed and outside of the try.
RootRefused ==
  /\ walker.pc = "start"
  /\ tree[Root] # "dir"
  /\ walker' = Idle
  /\ UNCHANGED <<tree, source, entry, scan, task, changes, seenAll>>

Start ==
  /\ walker.pc = "start"
  /\ tree[Root] = "dir"
  /\ walker' = [walker EXCEPT !.pc = "walk",
                              !.known = {k \in Key : entry[k].gen = walker.gen}]
  /\ UNCHANGED <<tree, source, entry, scan, task, changes, seenAll>>

StopBetween ==
  /\ walker.pc = "walk"
  /\ walker.pending # <<>>
  /\ Cancelled
  /\ Finish(walker, "INTERRUPTED", walker.pending)

OpenDirectory ==
  /\ walker.pc = "walk"
  /\ walker.pending # <<>>
  /\ ~Cancelled
  /\ Open(Head(walker.pending))
  /\ walker' = [walker EXCEPT !.pc = "list", !.dir = Head(walker.pending), !.pending = Tail(@),
                  !.left = {p \in Path : In[p] = Head(walker.pending) /\ Exists(p)}]
  /\ UNCHANGED <<tree, source, entry, scan, task, changes, seenAll>>

FailScan ==
  /\ walker.pc = "walk"
  /\ walker.pending # <<>>
  /\ ~Cancelled
  /\ ~Open(Head(walker.pending))
  /\ Finish(walker, "FAILED", Tail(walker.pending))

\* Mutant: the directory that was interrupted is not put back.
CursorWithout == walker.pending

CursorBack == <<walker.dir>> \o walker.pending

StopWithin ==
  /\ walker.pc = "list"
  /\ walker.left # {}
  /\ Cancelled
  /\ Finish(walker, "INTERRUPTED", CursorBack)

\* The walker after the entry p: a directory to visit later, a path to reject
\* (a link, a file that is gone again, a key seen before), or a record.
Visited(p) ==
  LET w == [walker EXCEPT !.left = @ \ {p}]
  IN  IF p \in SubDir /\ tree[p] # "link"
      THEN [w EXCEPT !.pending = Append(@, p)]
      ELSE IF ~Regular(p) \/ Norm[p] \in w.seen
      THEN [w EXCEPT !.rejected = @ \cup {Norm[p]}]
      ELSE [w EXCEPT !.seen = @ \cup {Norm[p]},
                     !.batch = @ \cup {[key |-> Norm[p], sig |-> tree[p]]}]

\* A record of a file new to this generation counts, and may reach max_files,
\* which is any number.
MayBeLast(w) == ~ (w.seen \ walker.seen \subseteq w.known)

\* Only a record flushes; rejections wait for one.
Full(w) == w.seen # walker.seen /\ Cardinality(w.batch) + Cardinality(w.rejected) >= BatchSize

Visit(p) ==
  /\ walker.pc = "list"
  /\ p \in walker.left
  /\ ~Cancelled
  /\ LET w == Visited(p)
     IN  /\ entry' = IF Full(w) THEN Applied(w.batch, w.rejected) ELSE entry
         /\ walker' = IF Full(w) THEN [w EXCEPT !.batch = {}, !.rejected = {}] ELSE w
         /\ UNCHANGED <<tree, source, scan, task, changes, seenAll>>

VisitLast(p) ==
  /\ walker.pc = "list"
  /\ p \in walker.left
  /\ ~Cancelled
  /\ MayBeLast(Visited(p))
  /\ Finish(Visited(p), "INTERRUPTED", CursorBack)

CloseDirectory ==
  /\ walker.pc = "list"
  /\ walker.left = {}
  /\ walker' = [walker EXCEPT !.pc = "walk"]
  /\ UNCHANGED <<tree, source, entry, scan, task, changes, seenAll>>

Complete ==
  /\ walker.pc = "walk"
  /\ walker.pending = <<>>
  /\ Finish(walker, "COMPLETED", <<>>)

-----------------------------------------------------------------------------
(* The world. *)

\* What may stand at a path: the root is a drive that comes and goes.
Kinds(p) == IF p = Root THEN {"dir", "absent"}
            ELSE IF p \in SubDir THEN {"dir", "link", "absent"}
            ELSE Sig \cup {"link", "absent"}

ChangeTree(p, v) ==
  /\ changes < MaxChange
  /\ changes' = changes + 1
  /\ v \in Kinds(p) \ {tree[p]}
  /\ tree' = [tree EXCEPT ![p] = v]
  /\ seenAll' = [s \in Scan |->
                   [seenAll[s] EXCEPT !.steady = @ \cap Steady', !.gone = @ \cap Gone']]
  /\ UNCHANGED <<source, entry, scan, walker, task>>

\* The server stops and starts; the lifespan hook has nothing for scans.
Restart ==
  /\ walker # Idle \/ \E r \in Request : task[r] # None
  /\ walker' = Idle
  /\ task' = [r \in Request |-> None]
  /\ UNCHANGED <<tree, source, entry, scan, changes, seenAll>>

Handle(r) ==
  \/ ReadSource(r) \/ RefuseScan(r)
  \/ NewScan(r) \/ ResumeScan(r)

WalkOn ==
  \/ RootRefused \/ Start \/ StopBetween \/ OpenDirectory \/ FailScan
  \/ StopWithin \/ (\E p \in Path : Visit(p) \/ VisitLast(p)) \/ CloseDirectory \/ Complete

Next ==
  \/ (\E r \in Request : Handle(r)) \/ Cancel \/ WalkOn
  \/ (\E p \in Path \cup {Root}, v \in Sig \cup {"dir", "link", "absent"} : ChangeTree(p, v))
  \/ Restart

Spec == Init /\ [][Next]_vars

-----------------------------------------------------------------------------
(* Properties. *)

TypeOK ==
  /\ tree \in [Path \cup {Root} -> Sig \cup {"dir", "link", "absent"}]
  /\ source \in Nat
  /\ entry \in [Key -> [status: EntryStatus, gen: Nat, sig: Sig \cup {None}]]
  /\ \A s \in Scan :
       /\ scan[s].status \in {"NONE", "SCANNING", "COMPLETED", "INTERRUPTED", "FAILED"}
       /\ scan[s].cursor \in Seq(SubDir \cup {Root})
  /\ walker # Idle => Running(walker.scan)
  /\ task \in [Request -> Nat \cup {None}]

\* README: one scan at a time per source.  No request that read the source
\* before another one began takes the walk away from it.
OneScanAtATime ==
  /\ Cardinality({s \in Scan : Running(s)}) <= 1
  /\ walker # Idle => Running(walker.scan) /\ scan[walker.scan].gen = walker.gen

\* The scan rows, the walk and the requests are of their types, and one scan at
\* a time is under way, whatever request cancelled or resumed it.
ScansInOrder == TypeOK /\ OneScanAtATime

\* The scans that began since s, it included, did so under generations that
\* never fell.  A request that read the source long ago breaks that.
InTurn(s) ==
  \A t, u \in Scan :
    s <= t /\ t < u /\ scan[u].status # "NONE" => scan[t].gen <= scan[u].gen

\* A completed generation has met every file that was there all the time,
\* across cancels, limits, resumes and the other scans in between, and never
\* calls one missing, as long as the generations are in turn.
CompletedMeetsAll ==
  [][\A s \in Scan :
       Running(s) /\ scan'[s].status = "COMPLETED" /\ InTurn(s) =>
         \A p \in seenAll[s].steady :
           entry'[Norm[p]].gen >= scan[s].gen /\ entry'[Norm[p]].status # "MISSING"]_vars

\* finish_catalog_scan: what a full generation did not encounter is MISSING.
\* It needs a generation that is newer than every row it starts from.
VanishedIsMissing ==
  [][\A s \in Scan :
       Running(s) /\ scan'[s].status = "COMPLETED" /\ seenAll[s].fresh =>
         \A k \in seenAll[s].gone : entry'[k].status \notin Listed]_vars

\* README: an entry that vanished is marked MISSING.  A file that was there all
\* the time did not vanish.
MissingHasVanished ==
  [][\A s \in Scan :
       Running(s) /\ scan'[s].status = "COMPLETED" =>
         \A p \in seenAll[s].steady : entry'[Norm[p]].status # "MISSING"]_vars

\* README: case collisions, links and unreadable paths are REJECTED.  A regular
\* file that was there all the time and has its name for itself is not.
RejectedIsReal ==
  [][\A s \in Scan :
       Running(s) /\ scan'[s].status = "COMPLETED" =>
         \A p \in seenAll[s].steady :
           (\A q \in Path \ {p} : Norm[q] # Norm[p]) => entry'[Norm[p]].status # "REJECTED"]_vars
=============================================================================
