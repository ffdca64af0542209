---------------------------- MODULE CatalogProofs ----------------------------
(***************************************************************************)
(* What is proved of Catalog, for any tree, any requests and any number of *)
(* scans, changes and batches, and of FormatProbe, which probes what it    *)
(* catalogued, for any entries, calls and contents.                        *)
(*                                                                         *)
(* A scan has met a file, or holds it in its batch, or will list the       *)
(* directory it is in; what it met stays met, because a scan that runs     *)
(* between two parts of it saw all it saw and its generation is no older.  *)
(* A call that finishes a row is the only one that does, and knows what    *)
(* the row tells; a sample that is kept is one of the version the catalog  *)
(* has, because nothing brings a version back that was written over.       *)
(***************************************************************************)
EXTENDS Catalog, FormatProbe, WellFoundedInduction, FiniteSetTheorems, TLAPS

--------------------------------------------------------------------------------
(* Numbers. *)

\* Of some numbers one is the least, and one of boundedly many the greatest.
LEMMA LeastNumber ==
  ASSUME NEW S \in SUBSET Nat, S # {}
  PROVE  \E s \in S : \A t \in S : s <= t
<1>1. IsWellFoundedOn(OpToRel(<, Nat), Nat)
  BY NatLessThanWellFounded
<1>2. PICK s \in S : \A t \in S : <<t, s>> \notin OpToRel(<, Nat)
  BY <1>1, WFMin
<1>3. \A t \in S : ~ (t < s)
  BY <1>2 DEF OpToRel
<1> QED
  BY <1>3

LEMMA GreatestNumber ==
  ASSUME NEW N \in Nat, NEW S \in SUBSET (1 .. N), S # {}
  PROVE  \E s \in S : \A t \in S : s >= t
<1> DEFINE T == {N + 1 - s : s \in S}
<1>1. T \in SUBSET Nat /\ T # {}
  <2>1. \A s \in S : N + 1 - s \in Nat
    OBVIOUS
  <2> QED
    BY <2>1
<1>2. PICK t \in T : \A u \in T : t <= u
  BY <1>1, LeastNumber
<1>3. PICK s \in S : t = N + 1 - s
  OBVIOUS
<1>4. \A r \in S : t <= N + 1 - r
  BY <1>2
<1> HIDE DEF T
<1> QED
  BY <1>3, <1>4

--------------------------------------------------------------------------------
(* The inductive invariant of the scans. *)

Directory == SubDir \cup {Root}
ScanStatus == {"NONE", "SCANNING", "COMPLETED", "INTERRUPTED", "FAILED"}
EntryRow == [status : EntryStatus, gen : Nat, sig : Sig \cup {None}]
ScanRow == [status : ScanStatus, gen : Nat, cursor : Seq(Directory), cancel : BOOLEAN]
Seen == [steady : SUBSET File, gone : SUBSET Key, fresh : BOOLEAN]
BatchRow == [key : Key, sig : Sig]
Walker == [pc : {"start", "walk", "list"}, scan : Scan, gen : Nat, pending : Seq(Directory),
           dir : Directory, left : SUBSET Path, seen : SUBSET Key,
           batch : SUBSET BatchRow, rejected : SUBSET Key, known : SUBSET Key]

TypeKept ==
  /\ TypeOK
  /\ entry \in [Key -> EntryRow] /\ scan \in [Scan -> ScanRow]
  /\ walker \in Walker \cup {Idle} /\ seenAll \in [Scan -> Seen]

Live(s) == scan[s].status \in {"SCANNING", "INTERRUPTED"}

\* The rows are used in order, the scan under way is the last live one, and the
\* walk is its.
RowsInTurn ==
  /\ \A s, t \in Scan : s < t /\ scan[t].status # "NONE" => scan[s].status # "NONE"
  /\ \A s, t \in Scan : Running(s) /\ Live(t) => t <= s
  /\ walker # Idle => Running(walker.scan) /\ scan[walker.scan].gen = walker.gen

\* What a scan has seen all along is still so, and a later one has seen it too.
SeenIsSo ==
  /\ \A s \in Scan : ~Live(s) =>
       seenAll[s].steady = {} /\ seenAll[s].gone = {} /\ ~seenAll[s].fresh
  /\ \A s \in Scan : seenAll[s].steady \subseteq Steady /\ seenAll[s].gone \subseteq Gone
  /\ \A s, t \in Scan : s < t /\ Live(t) =>
       seenAll[s].steady \subseteq seenAll[t].steady /\ seenAll[s].gone \subseteq seenAll[t].gone

\* The walk lists one directory.
InOneDirectory(w) == w # Idle => \A p \in w.left : In[p] = w.dir

MetIn(rows, s, p) == rows[Norm[p]].gen >= scan[s].gen /\ rows[Norm[p]].status # "MISSING"
Ahead(q, p) == \E i \in 1 .. Len(q) : q[i] \in {In[p], Root}
InHand(w, p) == Norm[p] \in w.rejected \/ \E b \in w.batch : b.key = Norm[p]
InDirectory(w, p) == w.pc = "list" /\ (p \in w.left \/ In[p] \in w.left)
Reached(w, p) == InHand(w, p) \/ Ahead(w.pending, p) \/ InDirectory(w, p)

\* With these rows and this walk, a live scan has met what it saw all along or
\* will list its directory, or holds it.
Covers(rows, w) ==
  \A s \in Scan : InTurn(s) =>
    \A p \in seenAll[s].steady :
      /\ scan[s].status = "INTERRUPTED" => MetIn(rows, s, p) \/ Ahead(scan[s].cursor, p)
      /\ w # Idle /\ w.scan = s => MetIn(rows, s, p) \/ Reached(w, p)

\* The walk touches nothing that was gone all along.
Spares(w) ==
  w # Idle =>
    /\ \A p \in w.left : Norm[p] \notin seenAll[w.scan].gone
    /\ \A k \in w.rejected : k \notin seenAll[w.scan].gone
    /\ \A b \in w.batch : b.key \notin seenAll[w.scan].gone

\* Nobody wrote to a row that was gone all along.
GoneIsOlder(rows) ==
  \A s \in Scan : seenAll[s].fresh => \A k \in seenAll[s].gone : rows[k].gen < scan[s].gen

IInv ==
  /\ TypeKept /\ RowsInTurn /\ SeenIsSo
  /\ InOneDirectory(walker) /\ Covers(entry, walker) /\ Spares(walker) /\ GoneIsOlder(entry)

--------------------------------------------------------------------------------
(* Scans, paths and rows. *)

LEMMA LeastScan ==
  ASSUME NEW S \in SUBSET Scan, S # {}
  PROVE  \E s \in S : \A t \in S : s <= t
<1>1. S \in SUBSET Nat
  BY DEF Scan
<1> QED
  BY <1>1, LeastNumber

LEMMA GreatestScan ==
  ASSUME NEW S \in SUBSET Scan, S # {}
  PROVE  \E s \in S : \A t \in S : s >= t
<1>1. MaxScan \in Nat /\ S \in SUBSET (1 .. MaxScan)
  BY CatalogAssumption DEF Scan
<1> QED
  BY <1>1, GreatestNumber

\* What a steady file is: it is there, and so is the directory it is in.
LEMMA SteadyIs ==
  ASSUME NEW p \in Steady
  PROVE  /\ p \in File /\ Norm[p] \in Key /\ In[p] \in Directory /\ p \notin SubDir
         /\ Regular(p) /\ tree[p] \in Sig /\ tree[p] # "absent"
         /\ tree[Root] = "dir" /\ tree[In[p]] = "dir" /\ Exists(p)
         /\ In[p] \in SubDir => In[In[p]] = Root /\ Exists(In[p])
<1>1. /\ p \in File /\ p \notin SubDir /\ Regular(p) /\ Exists(p) /\ tree[p] \in Sig
      /\ Norm[p] \in Key /\ In[p] \in Directory
  BY CatalogAssumption DEF Steady, Regular, Path, Directory
<1>2. tree[Root] = "dir" /\ tree[In[p]] = "dir" /\ tree[p] # "absent"
  BY <1>1 DEF Exists, Open
<1>3. ASSUME In[p] \in SubDir PROVE In[In[p]] = Root /\ Exists(In[p])
  BY <1>2, <1>3, CatalogAssumption DEF Exists, Open
<1> QED
  BY <1>1, <1>2, <1>3

\* A walk that is somewhere is a walk.
LEMMA WalkIs ==
  ASSUME TypeKept, walker.pc \in {"start", "walk", "list"}
  PROVE  walker # Idle /\ walker \in Walker
BY DEF TypeKept, Idle

\* The batch and the rejections are written with the generation of the walk.
LEMMA AppliedIs ==
  ASSUME TypeKept, walker # Idle, NEW batch \in SUBSET BatchRow, NEW rejected \in SUBSET Key
  PROVE  /\ Applied(batch, rejected) \in [Key -> EntryRow]
         /\ \A k \in Key :
              \/ /\ k \in rejected \/ \E b \in batch : b.key = k
                 /\ Applied(batch, rejected)[k].gen = walker.gen
                 /\ Applied(batch, rejected)[k].status # "MISSING"
              \/ /\ ~ (k \in rejected \/ \E b \in batch : b.key = k)
                 /\ Applied(batch, rejected)[k] = entry[k]
<1>1. walker.gen \in Nat
  BY DEF TypeKept, Walker
<1>2. Reject \in EntryRow /\ Reject.gen = walker.gen /\ Reject.status # "MISSING"
  BY <1>1 DEF Reject, EntryRow, EntryStatus
<1>3. ASSUME NEW k \in Key, NEW sig \in Sig
      PROVE  /\ Record(k, sig) \in EntryRow /\ Record(k, sig).gen = walker.gen
             /\ Record(k, sig).status # "MISSING"
  BY <1>1 DEF Record, EntryRow, EntryStatus, Listed
<1>4. ASSUME NEW k \in Key, \E b \in batch : b.key = k
      PROVE  (CHOOSE b \in batch : b.key = k).sig \in Sig
  BY <1>4 DEF BatchRow
<1>5. ASSUME NEW k \in Key
      PROVE  /\ Applied(batch, rejected)[k] \in EntryRow
             /\ \/ /\ k \in rejected \/ \E b \in batch : b.key = k
                   /\ Applied(batch, rejected)[k].gen = walker.gen
                   /\ Applied(batch, rejected)[k].status # "MISSING"
                \/ /\ ~ (k \in rejected \/ \E b \in batch : b.key = k)
                   /\ Applied(batch, rejected)[k] = entry[k]
  <2>1. entry[k] \in EntryRow
    BY DEF TypeKept
  <2>2. CASE k \in rejected
    BY <1>2, <2>2 DEF Applied
  <2>3. CASE k \notin rejected /\ \E b \in batch : b.key = k
    <3> DEFINE sig == (CHOOSE b \in batch : b.key = k).sig
    <3>1. Applied(batch, rejected)[k] = Record(k, sig)
      BY <2>3 DEF Applied
    <3>2. sig \in Sig
      BY <1>4, <2>3
    <3> HIDE DEF sig
    <3> QED
      BY <1>3, <2>3, <3>1, <3>2
  <2>4. CASE ~ (k \in rejected \/ \E b \in batch : b.key = k)
    BY <2>1, <2>4 DEF Applied
  <2> QED
    BY <2>2, <2>3, <2>4
<1>6. Applied(batch, rejected) = [k \in Key |-> Applied(batch, rejected)[k]]
  BY DEF Applied
<1> QED
  BY <1>5, <1>6

\* What finish_catalog_scan does to the rows of a generation.
LEMMA MarkedIs ==
  ASSUME NEW rows \in [Key -> EntryRow], walker.gen \in Nat
  PROVE  /\ MovedMarked(MissingMarked(rows)) \in [Key -> EntryRow]
         /\ \A k \in Key :
              /\ MovedMarked(MissingMarked(rows))[k].gen = rows[k].gen
              /\ rows[k].gen >= walker.gen /\ rows[k].status # "MISSING" =>
                   MovedMarked(MissingMarked(rows))[k].status # "MISSING"
              /\ rows[k].gen < walker.gen =>
                   MovedMarked(MissingMarked(rows))[k].status \notin Listed
<1> DEFINE some == MissingMarked(rows)
           all == MovedMarked(some)
<1>1. ASSUME NEW k \in Key
      PROVE  /\ some[k] \in EntryRow /\ some[k].gen = rows[k].gen
             /\ rows[k].gen >= walker.gen => some[k] = rows[k]
             /\ rows[k].gen < walker.gen => some[k].status \in {"NONE", "REJECTED", "MISSING"}
  <2>1. rows[k] \in EntryRow
    OBVIOUS
  <2>2. some[k] = IF rows[k].gen < walker.gen /\ rows[k].status \notin {"NONE", "REJECTED"}
                  THEN [rows[k] EXCEPT !.status = "MISSING"] ELSE rows[k]
    BY DEF MissingMarked
  <2> HIDE DEF some
  <2> QED
    BY <2>1, <2>2 DEF EntryRow, EntryStatus
<1>2. ASSUME NEW k \in Key
      PROVE  /\ all[k] \in EntryRow /\ all[k].gen = some[k].gen
             /\ \/ all[k] = some[k]
                \/ some[k].status = "ADDED" /\ all[k].status = "MOVED_CANDIDATE"
  <2>1. some[k] \in EntryRow
    BY <1>1
  <2>2. \/ all[k] = some[k]
        \/ some[k].status = "ADDED" /\ all[k] = [some[k] EXCEPT !.status = "MOVED_CANDIDATE"]
    BY DEF MovedMarked
  <2> HIDE DEF some, all
  <2> QED
    BY <2>1, <2>2 DEF EntryRow, EntryStatus, Listed
<1>3. all = [k \in Key |-> all[k]]
  BY DEF MovedMarked
<1> HIDE DEF some, all
<1>4. all \in [Key -> EntryRow]
  BY <1>2, <1>3
<1>5. \A k \in Key : /\ all[k].gen = rows[k].gen
                     /\ rows[k].gen >= walker.gen /\ rows[k].status # "MISSING" =>
                          all[k].status # "MISSING"
                     /\ rows[k].gen < walker.gen => all[k].status \notin Listed
  BY <1>1, <1>2 DEF Listed
<1> QED
  BY <1>4, <1>5 DEF some, all

--------------------------------------------------------------------------------
(* When the invariant is kept. *)

\* The scan that walks has seen no more than a live one.
LEMMA WalkIsLast ==
  ASSUME IInv, walker # Idle
  PROVE  /\ walker.scan \in Scan /\ walker.gen \in Nat /\ scan[walker.scan].gen = walker.gen
         /\ Running(walker.scan)
         /\ \A s \in Scan : Live(s) =>
              /\ s <= walker.scan
              /\ seenAll[s].steady \subseteq seenAll[walker.scan].steady
              /\ seenAll[s].gone \subseteq seenAll[walker.scan].gone
              /\ InTurn(s) => InTurn(walker.scan) /\ scan[s].gen <= walker.gen
<1>1. walker \in Walker /\ walker.scan \in Scan /\ walker.gen \in Nat
  BY DEF IInv, TypeKept, Walker
<1>2. Running(walker.scan) /\ scan[walker.scan].gen = walker.gen /\ Live(walker.scan)
  BY <1>1 DEF IInv, RowsInTurn, Live, Running
<1>3. ASSUME NEW s \in Scan, Live(s)
      PROVE  /\ s <= walker.scan
             /\ seenAll[s].steady \subseteq seenAll[walker.scan].steady
             /\ seenAll[s].gone \subseteq seenAll[walker.scan].gone
             /\ InTurn(s) => InTurn(walker.scan) /\ scan[s].gen <= walker.gen
  <2>1. s <= walker.scan /\ s \in Nat /\ walker.scan \in Nat
    BY <1>1, <1>2, <1>3 DEF IInv, RowsInTurn, Scan
  <2>2. /\ seenAll[s].steady \subseteq seenAll[walker.scan].steady
        /\ seenAll[s].gone \subseteq seenAll[walker.scan].gone
    <3>1. CASE s = walker.scan
      BY <3>1
    <3>2. CASE s < walker.scan
      BY <1>1, <1>2, <3>2 DEF IInv, SeenIsSo
    <3> QED
      BY <2>1, <3>1, <3>2
  <2>3. ASSUME InTurn(s) PROVE InTurn(walker.scan)
    <3>1. \A t, u \in Scan : walker.scan <= t => s <= t
      BY <2>1 DEF Scan
    <3> QED
      BY <2>3, <3>1 DEF InTurn
  <2>4. ASSUME InTurn(s) PROVE scan[s].gen <= walker.gen
    <3>1. CASE s = walker.scan
      BY <1>1, <1>2, <3>1
    <3>2. CASE s < walker.scan
      BY <1>1, <1>2, <2>1, <2>4, <3>2 DEF InTurn, Running
    <3> QED
      BY <2>1, <3>1, <3>2
  <2> QED
    BY <2>1, <2>2, <2>3, <2>4
<1> QED
  BY <1>1, <1>2, <1>3

LEMMA SeenIsLive ==
  ASSUME IInv, NEW s \in Scan
  PROVE  /\ seenAll[s] \in Seen /\ scan[s] \in ScanRow
         /\ \A p \in seenAll[s].steady : p \in Steady /\ Live(s) /\ Norm[p] \in Key
         /\ \A k \in seenAll[s].gone : k \in Gone /\ Live(s) /\ k \in Key
         /\ seenAll[s].fresh => Live(s)
<1>1. seenAll[s] \in Seen /\ scan[s] \in ScanRow
  BY DEF IInv, TypeKept
<1>2. ~Live(s) => seenAll[s].steady = {} /\ seenAll[s].gone = {} /\ ~seenAll[s].fresh
  BY DEF IInv, SeenIsSo
<1>3. \A p \in seenAll[s].steady : p \in Steady /\ Norm[p] \in Key
  <2>1. \A p \in seenAll[s].steady : p \in Steady
    BY DEF IInv, SeenIsSo
  <2> QED
    BY <2>1, SteadyIs
<1>4. \A k \in seenAll[s].gone : k \in Gone /\ k \in Key
  BY DEF IInv, SeenIsSo, Gone
<1> QED
  BY <1>1, <1>2, <1>3, <1>4

Written(rows, p) == rows[Norm[p]].gen = walker.gen /\ rows[Norm[p]].status # "MISSING"

\* A walk that loses sight of nothing, but for what it writes, covers what it did.
LEMMA WritesCover ==
  ASSUME IInv, walker # Idle, NEW w \in Walker, w.scan = walker.scan,
         NEW rows \in [Key -> EntryRow],
         \A k \in Key : \/ rows[k] = entry[k]
                        \/ rows[k].gen = walker.gen /\ rows[k].status # "MISSING",
         \A p \in Steady : Reached(walker, p) => Reached(w, p) \/ Written(rows, p)
  PROVE  Covers(rows, w)
<1> SUFFICES ASSUME NEW s \in Scan, InTurn(s), NEW p \in seenAll[s].steady
             PROVE  /\ scan[s].status = "INTERRUPTED" =>
                         MetIn(rows, s, p) \/ Ahead(scan[s].cursor, p)
                    /\ w # Idle /\ w.scan = s => MetIn(rows, s, p) \/ Reached(w, p)
  BY DEF Covers
<1>1. p \in Steady /\ Live(s) /\ Norm[p] \in Key /\ scan[s].gen \in Nat /\ walker.gen \in Nat
  BY SeenIsLive, WalkIsLast DEF ScanRow
<1>2. scan[s].gen <= walker.gen
  BY <1>1, WalkIsLast
<1>3. MetIn(entry, s, p) => MetIn(rows, s, p)
  BY <1>1, <1>2 DEF MetIn
<1>4. Written(rows, p) => MetIn(rows, s, p)
  BY <1>1, <1>2 DEF MetIn, Written
<1>5. scan[s].status = "INTERRUPTED" => MetIn(entry, s, p) \/ Ahead(scan[s].cursor, p)
  BY DEF IInv, Covers
<1>6. walker.scan = s => MetIn(entry, s, p) \/ Reached(walker, p)
  BY DEF IInv, Covers
<1> QED
  BY <1>1, <1>3, <1>4, <1>5, <1>6

\* Rows that were gone are written to by nobody.
LEMMA WritesSpare ==
  ASSUME IInv, walker # Idle, NEW rows \in [Key -> EntryRow],
         \A k \in Key : rows[k].gen = entry[k].gen \/ k \notin seenAll[walker.scan].gone
  PROVE  GoneIsOlder(rows)
<1> SUFFICES ASSUME NEW s \in Scan, seenAll[s].fresh, NEW k \in seenAll[s].gone
             PROVE  rows[k].gen < scan[s].gen
  BY DEF GoneIsOlder
<1>1. Live(s) /\ k \in Key
  BY SeenIsLive
<1>2. k \in seenAll[walker.scan].gone
  BY <1>1, WalkIsLast
<1>3. entry[k].gen < scan[s].gen
  BY DEF IInv, GoneIsOlder
<1> QED
  BY <1>1, <1>2, <1>3

\* A step of a walk that goes on.
LEMMA WalkKeeps ==
  ASSUME IInv, walker # Idle, UNCHANGED <<tree, source, scan, task, seenAll>>,
         walker' \in Walker, walker'.scan = walker.scan, walker'.gen = walker.gen,
         entry' \in [Key -> EntryRow],
         \A k \in Key : \/ entry'[k] = entry[k]
                        \/ /\ entry'[k].gen = walker.gen /\ entry'[k].status # "MISSING"
                           /\ k \notin seenAll[walker.scan].gone,
         \A p \in Steady : Reached(walker, p) => Reached(walker', p) \/ Written(entry', p),
         InOneDirectory(walker'), Spares(walker')
  PROVE  IInv'
<1>1. TypeOK /\ Running(walker.scan)
  BY WalkIsLast DEF IInv, TypeKept
<1>2. TypeKept'
  BY <1>1 DEF IInv, TypeKept, TypeOK, Running, EntryRow
<1>3. RowsInTurn' /\ SeenIsSo'
  BY <1>1, WalkIsLast DEF IInv, RowsInTurn, SeenIsSo, Running, Live, Steady, Gone, Regular, Exists, Open
<1>4. Covers(entry', walker') /\ GoneIsOlder(entry')
  <2>1. PICK w \in Walker, rows \in [Key -> EntryRow] : w = walker' /\ rows = entry'
    OBVIOUS
  <2>2. Covers(rows, w)
    <3>1. \A k \in Key : \/ rows[k] = entry[k]
                         \/ rows[k].gen = walker.gen /\ rows[k].status # "MISSING"
      BY <2>1
    <3>2. \A p \in Steady : Reached(walker, p) => Reached(w, p) \/ Written(rows, p)
      BY <2>1 DEF Reached, InHand, Ahead, InDirectory, Written
    <3> QED
      BY <2>1, <3>1, <3>2, WritesCover
  <2>3. GoneIsOlder(rows)
    <3>1. \A k \in Key : rows[k].gen = entry[k].gen \/ k \notin seenAll[walker.scan].gone
      BY <2>1
    <3> QED
      BY <2>1, <3>1, WritesSpare
  <2> QED
    BY <2>1, <2>2, <2>3
<1>5. Covers(entry, walker)' /\ GoneIsOlder(entry)' /\ Spares(walker)' /\ InOneDirectory(walker)'
  BY <1>4 DEF Covers, GoneIsOlder, Spares, InOneDirectory, InTurn, MetIn
<1> QED
  BY <1>2, <1>3, <1>5 DEF IInv

--------------------------------------------------------------------------------
(* Requests, the start of a scan, and the world. *)

LEMMA ScanStarts == Init => IInv
<1> SUFFICES ASSUME Init PROVE IInv
  OBVIOUS
<1>1. TypeKept
  <2>1. NoEntry \in EntryRow /\ NothingSeen \in Seen
    BY DEF NoEntry, EntryRow, EntryStatus, NothingSeen, Seen
  <2>2. NoScan \in ScanRow /\ <<>> \in Seq(Directory)
    BY DEF NoScan, ScanRow, ScanStatus
  <2>3. tree \in [Path \cup {Root} -> Sig \cup {"dir", "link", "absent"}]
    BY CatalogAssumption DEF Init, Path
  <2>4. walker = Idle /\ source = 0 /\ task \in [Request -> Nat \cup {None}]
    BY DEF Init
  <2>5. \A t \in Scan : scan[t] = NoScan
    BY DEF Init
  <2> QED
    BY <2>1, <2>2, <2>3, <2>4, <2>5 DEF Init, TypeKept, TypeOK, EntryRow, ScanRow, ScanStatus, Directory
<1>2. \A t \in Scan : scan[t].status = "NONE" /\ seenAll[t] = NothingSeen
  BY DEF Init, NoScan
<1>3. RowsInTurn /\ walker = Idle
  BY <1>2 DEF Init, RowsInTurn, Running, Live
<1>4. SeenIsSo
  BY <1>2 DEF SeenIsSo, Live, NothingSeen
<1> QED
  BY <1>1, <1>2, <1>3, <1>4 DEF IInv, InOneDirectory, Covers, Spares, GoneIsOlder, NothingSeen

\* A step that changes no entry and, of a scan row, at most the request to cancel.
LEMMA QuietKeeps ==
  ASSUME IInv, UNCHANGED <<tree, source, entry, seenAll>>,
         scan' \in [Scan -> ScanRow],
         \A s \in Scan : /\ scan'[s].status = scan[s].status /\ scan'[s].gen = scan[s].gen
                         /\ scan'[s].cursor = scan[s].cursor,
         task' \in [Request -> Nat \cup {None}], walker' \in {walker, Idle}
  PROVE  IInv'
<1>1. walker' # Idle => walker' = walker /\ walker # Idle /\ walker.scan \in Scan
  BY WalkIsLast
<1>2. TypeKept'
  <2>1. walker' # Idle => scan'[walker'.scan].status = "SCANNING"
    BY <1>1, WalkIsLast DEF Running
  <2> QED
    BY <2>1 DEF IInv, TypeKept, TypeOK, ScanRow, ScanStatus, Directory, Running
<1>3. RowsInTurn'
  BY <1>1 DEF IInv, RowsInTurn, Running, Live
<1>4. SeenIsSo'
  BY DEF IInv, SeenIsSo, Live, Steady, Gone, Regular, Exists, Open
<1>5. \A s \in Scan : InTurn(s)' => InTurn(s)
  BY DEF InTurn
<1>6. Covers(entry, walker)'
  BY <1>1, <1>5 DEF IInv, Covers, MetIn
<1>7. InOneDirectory(walker)' /\ Spares(walker)' /\ GoneIsOlder(entry)'
  BY <1>1 DEF IInv, InOneDirectory, Spares, GoneIsOlder
<1> QED
  BY <1>2, <1>3, <1>4, <1>6, <1>7 DEF IInv

LEMMA AskingKeeps ==
  ASSUME IInv, (\E r \in Request : ReadSource(r) \/ RefuseScan(r)) \/ Cancel \/ Restart \/ RootRefused
  PROVE  IInv'
<1>1. TypeOK /\ scan \in [Scan -> ScanRow] /\ source \in Nat /\ task \in [Request -> Nat \cup {None}]
  BY DEF IInv, TypeKept, TypeOK
<1>2. ASSUME NEW r \in Request, ReadSource(r) \/ RefuseScan(r) PROVE IInv'
  <2>1. /\ UNCHANGED <<tree, source, entry, scan, walker, seenAll>>
        /\ task' = [task EXCEPT ![r] = source] \/ task' = [task EXCEPT ![r] = None]
    BY <1>2 DEF ReadSource, RefuseScan
  <2>2. task' \in [Request -> Nat \cup {None}]
    BY <1>1, <2>1
  <2> QED
    BY <1>1, <2>1, <2>2, QuietKeeps
<1>3. CASE Cancel
  <2>1. /\ UNCHANGED <<tree, source, entry, walker, task, seenAll>>
        /\ scan' = [s \in Scan |-> IF Running(s) THEN [scan[s] EXCEPT !.cancel = TRUE] ELSE scan[s]]
    BY <1>3 DEF Cancel
  <2>2. \A s \in Scan : scan'[s] \in ScanRow /\ /\ scan'[s].status = scan[s].status
                                               /\ scan'[s].gen = scan[s].gen
                                               /\ scan'[s].cursor = scan[s].cursor
    BY <1>1, <2>1 DEF ScanRow
  <2>3. scan' \in [Scan -> ScanRow]
    BY <2>1, <2>2
  <2> QED
    BY <1>1, <2>1, <2>2, <2>3, QuietKeeps
<1>4. CASE Restart
  <2>1. /\ UNCHANGED <<tree, source, entry, scan, seenAll>> /\ walker' = Idle
        /\ task' = [r \in Request |-> None]
    BY <1>4 DEF Restart
  <2> QED
    BY <1>1, <2>1, QuietKeeps
<1>5. CASE RootRefused
  <2>1. UNCHANGED <<tree, source, entry, scan, task, seenAll>> /\ walker' = Idle
    BY <1>5 DEF RootRefused
  <2> QED
    BY <1>1, <2>1, QuietKeeps
<1> QED
  BY <1>2, <1>3, <1>4, <1>5

LEMMA ChangeKeeps ==
  ASSUME IInv, NEW p \in Path \cup {Root}, NEW v \in Sig \cup {"dir", "link", "absent"},
         ChangeTree(p, v)
  PROVE  IInv'
<1>1. /\ tree' = [tree EXCEPT ![p] = v]
      /\ seenAll' = [s \in Scan |-> [seenAll[s] EXCEPT !.steady = @ \cap Steady', !.gone = @ \cap Gone']]
      /\ UNCHANGED <<source, entry, scan, walker, task>>
  BY DEF ChangeTree
<1>2. ASSUME NEW s \in Scan
      PROVE  /\ seenAll'[s] \in Seen /\ seenAll'[s].fresh = seenAll[s].fresh
             /\ seenAll'[s].steady = seenAll[s].steady \cap Steady'
             /\ seenAll'[s].gone = seenAll[s].gone \cap Gone'
  <2>1. seenAll[s] \in Seen
    BY DEF IInv, TypeKept
  <2>2. PICK a, b : a = Steady' /\ b = Gone'
    OBVIOUS
  <2>3. seenAll'[s] = [seenAll[s] EXCEPT !.steady = @ \cap a, !.gone = @ \cap b]
    BY <1>1, <2>2
  <2>4. /\ seenAll'[s].fresh = seenAll[s].fresh /\ seenAll'[s].steady = seenAll[s].steady \cap a
        /\ seenAll'[s].gone = seenAll[s].gone \cap b /\ seenAll'[s] \in Seen
    BY <2>1, <2>3 DEF Seen
  <2> QED
    BY <2>2, <2>4
<1>3. TypeKept'
  <2>1. seenAll' \in [Scan -> Seen]
    BY <1>1, <1>2
  <2>2. tree' \in [Path \cup {Root} -> Sig \cup {"dir", "link", "absent"}]
    BY <1>1 DEF IInv, TypeKept, TypeOK
  <2> QED
    BY <1>1, <2>1, <2>2 DEF IInv, TypeKept, TypeOK, Running
<1>4. RowsInTurn'
  BY <1>1 DEF IInv, RowsInTurn, Running, Live
<1>5. SeenIsSo'
  <2>1. \A s \in Scan : ~Live(s) =>
          seenAll'[s].steady = {} /\ seenAll'[s].gone = {} /\ ~seenAll'[s].fresh
    BY <1>2 DEF IInv, SeenIsSo
  <2>2. \A s \in Scan : seenAll'[s].steady \subseteq Steady' /\ seenAll'[s].gone \subseteq Gone'
    BY <1>2
  <2>3. \A s, t \in Scan : s < t /\ Live(t) =>
          seenAll'[s].steady \subseteq seenAll'[t].steady /\ seenAll'[s].gone \subseteq seenAll'[t].gone
    <3> SUFFICES ASSUME NEW s \in Scan, NEW t \in Scan, s < t, Live(t)
                 PROVE  /\ seenAll'[s].steady \subseteq seenAll'[t].steady
                        /\ seenAll'[s].gone \subseteq seenAll'[t].gone
      OBVIOUS
    <3>1. seenAll[s].steady \subseteq seenAll[t].steady /\ seenAll[s].gone \subseteq seenAll[t].gone
      BY DEF IInv, SeenIsSo
    <3> QED
      BY <1>2, <3>1
  <2>4. \A s \in Scan : Live(s)' <=> Live(s)
    BY <1>1 DEF Live
  <2> QED
    BY <2>1, <2>2, <2>3, <2>4 DEF SeenIsSo
<1>6. Covers(entry, walker)'
  <2>1. \A s \in Scan : seenAll'[s].steady \subseteq seenAll[s].steady
    BY <1>2
  <2> QED
    BY <1>1, <2>1 DEF IInv, Covers, MetIn, InTurn
<1>7. InOneDirectory(walker)' /\ Spares(walker)' /\ GoneIsOlder(entry)'
  <2>1. \A s \in Scan : seenAll'[s].gone \subseteq seenAll[s].gone /\ seenAll'[s].fresh = seenAll[s].fresh
    BY <1>2
  <2>2. walker # Idle => walker.scan \in Scan
    BY WalkIsLast
  <2> QED
    BY <1>1, <2>1, <2>2 DEF IInv, InOneDirectory, Spares, GoneIsOlder
<1> QED
  BY <1>3, <1>4, <1>5, <1>6, <1>7 DEF IInv

\* The walk of a scan that begins.
LEMMA WalkStarts ==
  ASSUME NEW s \in Scan, NEW g \in Nat, NEW cursor \in Seq(Directory)
  PROVE  /\ Walk(s, g, cursor) \in Walker /\ Walk(s, g, cursor) # Idle
         /\ Walk(s, g, cursor).scan = s /\ Walk(s, g, cursor).gen = g
         /\ Walk(s, g, cursor).pending = cursor /\ Walk(s, g, cursor).left = {}
         /\ Walk(s, g, cursor).batch = {} /\ Walk(s, g, cursor).rejected = {}
<1>1. Root \in Directory
  BY DEF Directory
<1>2. Walk(s, g, cursor).pc = "start" /\ Idle.pc = "idle"
  BY DEF Walk, Idle
<1> QED
  BY <1>1, <1>2 DEF Walk, Walker

LEMMA NewScanKeeps ==
  ASSUME IInv, NEW r \in Request, NewScan(r)
  PROVE  IInv'
<1>1. Unused # {} /\ \A s \in Scan : ~Running(s)
  BY DEF NewScan, MayBegin
<1> DEFINE s == CHOOSE x \in Unused : \A y \in Unused : x <= y
           g == task[r] + 1
<1>2. s \in Scan /\ scan[s].status = "NONE" /\ \A t \in Scan : scan[t].status = "NONE" => s <= t
  <2>1. \E x \in Unused : \A y \in Unused : x <= y
    BY <1>1, LeastScan DEF Unused
  <2>2. s \in Unused /\ \A y \in Unused : s <= y
    BY <2>1
  <2> HIDE DEF s
  <2> QED
    BY <2>2 DEF Unused
<1>3. g \in Nat /\ source' = g
  BY DEF NewScan, MayBegin, IInv, TypeKept, TypeOK
<1>4. /\ scan' = [scan EXCEPT ![s] = [NoScan EXCEPT !.status = "SCANNING", !.gen = g, !.cursor = <<Root>>]]
      /\ walker' = Walk(s, g, <<Root>>)
      /\ seenAll' = [seenAll EXCEPT ![s] = [steady |-> Steady, gone |-> Gone, fresh |-> Fresh(g)]]
      /\ task' = [task EXCEPT ![r] = None] /\ UNCHANGED <<tree, entry>>
  BY DEF NewScan
<1> HIDE DEF s, g
<1>5. <<Root>> \in Seq(Directory) /\ Len(<<Root>>) = 1 /\ <<Root>>[1] = Root
  BY DEF Directory
<1>6. /\ walker' \in Walker /\ walker' # Idle /\ walker'.scan = s /\ walker'.gen = g
      /\ walker'.pending = <<Root>> /\ walker'.left = {}
      /\ walker'.batch = {} /\ walker'.rejected = {}
  BY <1>2, <1>3, <1>4, <1>5, WalkStarts
<1>7. /\ scan'[s] \in ScanRow /\ scan'[s].status = "SCANNING" /\ scan'[s].gen = g
      /\ scan' \in [Scan -> ScanRow]
      /\ \A t \in Scan : t # s => scan'[t] = scan[t]
  <2>1. scan \in [Scan -> ScanRow]
    BY DEF IInv, TypeKept
  <2>2. scan'[s] = [status |-> "SCANNING", gen |-> g, cursor |-> <<Root>>, cancel |-> FALSE]
    BY <1>2, <1>4, <2>1 DEF NoScan
  <2>3. scan'[s] \in ScanRow
    BY <1>3, <1>5, <2>2 DEF ScanRow, ScanStatus
  <2> QED
    BY <1>2, <1>4, <2>1, <2>2, <2>3
<1>8. /\ seenAll' \in [Scan -> Seen]
      /\ seenAll'[s].steady = Steady /\ seenAll'[s].gone = Gone /\ seenAll'[s].fresh = Fresh(g)
      /\ \A t \in Scan : t # s => seenAll'[t] = seenAll[t]
  <2>1. [steady |-> Steady, gone |-> Gone, fresh |-> Fresh(g)] \in Seen
    <3>1. Steady \subseteq File /\ Gone \subseteq Key
      BY DEF Steady, Gone
    <3>2. Fresh(g) \in BOOLEAN
      BY DEF Fresh
    <3> QED
      BY <3>1, <3>2 DEF Seen
  <2> QED
    BY <1>2, <1>4, <2>1 DEF IInv, TypeKept
<1>9. TypeKept'
  <2>1. task' \in [Request -> Nat \cup {None}]
    BY <1>4 DEF IInv, TypeKept, TypeOK
  <2> QED
    BY <1>2, <1>3, <1>4, <1>6, <1>7, <1>8, <2>1
    DEF IInv, TypeKept, TypeOK, Running, ScanRow, ScanStatus, Directory
<1>10. \A t \in Scan : t > s => scan[t].status = "NONE"
  BY <1>2 DEF IInv, RowsInTurn
<1>11. RowsInTurn'
  <2>1. \A t, u \in Scan : t < u /\ scan'[u].status # "NONE" => scan'[t].status # "NONE"
    BY <1>2, <1>7 DEF IInv, RowsInTurn, Scan
  <2>2. \A t, u \in Scan : Running(t)' /\ Live(u)' => u <= t
    BY <1>1, <1>2, <1>7, <1>10 DEF Running, Live, Scan
  <2> QED
    BY <1>6, <1>7, <2>1, <2>2 DEF RowsInTurn, Running
<1>12. SeenIsSo'
  <2>1. Steady' = Steady /\ Gone' = Gone
    BY <1>4 DEF Steady, Gone, Regular, Exists, Open
  <2>2. \A t \in Scan : t # s => (Live(t)' <=> Live(t))
    BY <1>7 DEF Live
  <2>3. \A t \in Scan : t = s => Live(t)' /\ ~Live(t)
    BY <1>2, <1>7 DEF Live
  <2>4. \A t \in Scan : ~Live(t)' =>
          seenAll'[t].steady = {} /\ seenAll'[t].gone = {} /\ ~seenAll'[t].fresh
    BY <1>8, <2>2, <2>3 DEF IInv, SeenIsSo
  <2>5. \A t \in Scan : seenAll'[t].steady \subseteq Steady /\ seenAll'[t].gone \subseteq Gone
    BY <1>8 DEF IInv, SeenIsSo
  <2>6. \A t, u \in Scan : t < u /\ Live(u)' =>
          seenAll'[t].steady \subseteq seenAll'[u].steady /\ seenAll'[t].gone \subseteq seenAll'[u].gone
    <3> SUFFICES ASSUME NEW t \in Scan, NEW u \in Scan, t < u, Live(u)'
                 PROVE  /\ seenAll'[t].steady \subseteq seenAll'[u].steady
                        /\ seenAll'[t].gone \subseteq seenAll'[u].gone
      OBVIOUS
    <3>1. CASE u = s
      BY <1>8, <2>5, <3>1
    <3>2. CASE u # s
      <4>1. Live(u) /\ t # s
        BY <1>10, <2>2, <3>2 DEF Live
      <4> QED
        BY <1>8, <3>2, <4>1 DEF IInv, SeenIsSo
    <3> QED
      BY <3>1, <3>2
  <2> QED
    BY <2>1, <2>4, <2>5, <2>6 DEF SeenIsSo
<1>13. Covers(entry, walker)'
  <2> SUFFICES ASSUME NEW t \in Scan, InTurn(t)', NEW p \in seenAll'[t].steady
               PROVE  /\ scan'[t].status = "INTERRUPTED" =>
                           MetIn(entry, t, p)' \/ Ahead(scan'[t].cursor, p)
                      /\ walker'.scan = t => MetIn(entry, t, p)' \/ Reached(walker', p)
    BY DEF Covers
  <2>1. CASE t = s
    BY <1>5, <1>6, <1>7, <2>1 DEF Reached, Ahead
  <2>2. CASE t # s
    <3>1. InTurn(t)
      BY <1>2, <1>7, <1>10, <2>2 DEF InTurn
    <3>2. scan[t].status = "INTERRUPTED" => MetIn(entry, t, p) \/ Ahead(scan[t].cursor, p)
      BY <1>8, <2>2, <3>1 DEF IInv, Covers
    <3> QED
      BY <1>4, <1>6, <1>7, <2>2, <3>2 DEF MetIn
  <2> QED
    BY <2>1, <2>2
<1>14. GoneIsOlder(entry)'
  <2> SUFFICES ASSUME NEW t \in Scan, seenAll'[t].fresh, NEW k \in seenAll'[t].gone
               PROVE  entry[k].gen < scan'[t].gen
    BY <1>4 DEF GoneIsOlder
  <2>1. CASE t = s
    BY <1>7, <1>8, <2>1 DEF Fresh, Gone
  <2>2. CASE t # s
    BY <1>7, <1>8, <2>2 DEF IInv, GoneIsOlder
  <2> QED
    BY <2>1, <2>2
<1>15. InOneDirectory(walker)' /\ Spares(walker)'
  BY <1>6 DEF InOneDirectory, Spares
<1> QED
  BY <1>9, <1>11, <1>12, <1>13, <1>14, <1>15 DEF IInv

LEMMA ResumeKeeps ==
  ASSUME IInv, NEW r \in Request, ResumeScan(r)
  PROVE  IInv'
<1>1. Interrupted # {} /\ \A s \in Scan : ~Running(s)
  BY DEF ResumeScan, MayBegin
<1> DEFINE s == CHOOSE x \in Interrupted : \A y \in Interrupted : x >= y
<1>2. s \in Scan /\ scan[s].status = "INTERRUPTED"
      /\ \A t \in Scan : scan[t].status = "INTERRUPTED" => s >= t
  <2>1. \E x \in Interrupted : \A y \in Interrupted : x >= y
    BY <1>1, GreatestScan DEF Interrupted
  <2>2. s \in Interrupted /\ \A y \in Interrupted : s >= y
    BY <2>1
  <2> HIDE DEF s
  <2> QED
    BY <2>2 DEF Interrupted
<1>3. /\ scan' = [scan EXCEPT ![s].status = "SCANNING", ![s].cancel = FALSE]
      /\ walker' = Walk(s, scan[s].gen, scan[s].cursor)
      /\ task' = [task EXCEPT ![r] = None] /\ UNCHANGED <<tree, source, entry, seenAll>>
  BY DEF ResumeScan
<1> HIDE DEF s
<1>4. scan \in [Scan -> ScanRow] /\ scan[s].gen \in Nat /\ scan[s].cursor \in Seq(Directory)
  BY <1>2 DEF IInv, TypeKept, ScanRow
<1>5. /\ walker' \in Walker /\ walker' # Idle /\ walker'.scan = s /\ walker'.gen = scan[s].gen
      /\ walker'.pending = scan[s].cursor /\ walker'.left = {}
      /\ walker'.batch = {} /\ walker'.rejected = {}
  BY <1>2, <1>3, <1>4, WalkStarts
<1>6. /\ scan' \in [Scan -> ScanRow] /\ scan'[s].status = "SCANNING" /\ scan'[s].gen = scan[s].gen
      /\ \A t \in Scan : t # s => scan'[t] = scan[t]
  BY <1>2, <1>3, <1>4 DEF ScanRow, ScanStatus
<1>7. TypeKept'
  <2>1. task' \in [Request -> Nat \cup {None}]
    BY <1>3 DEF IInv, TypeKept, TypeOK
  <2> QED
    BY <1>2, <1>3, <1>5, <1>6, <2>1
    DEF IInv, TypeKept, TypeOK, Running, ScanRow, ScanStatus, Directory
<1>8. RowsInTurn'
  BY <1>1, <1>2, <1>5, <1>6 DEF IInv, RowsInTurn, Running, Live, Scan
<1>9. \A t \in Scan : Live(t)' <=> Live(t)
  BY <1>2, <1>6 DEF Live
<1>10. SeenIsSo'
  BY <1>3, <1>9 DEF IInv, SeenIsSo, Steady, Gone, Regular, Exists, Open
<1>11. Covers(entry, walker)'
  <2> SUFFICES ASSUME NEW t \in Scan, InTurn(t)', NEW p \in seenAll[t].steady
               PROVE  /\ scan'[t].status = "INTERRUPTED" =>
                           MetIn(entry, t, p)' \/ Ahead(scan'[t].cursor, p)
                      /\ walker'.scan = t => MetIn(entry, t, p)' \/ Reached(walker', p)
    BY <1>3 DEF Covers
  <2>1. InTurn(t)
    BY <1>2, <1>6 DEF InTurn
  <2>2. scan[t].status = "INTERRUPTED" => MetIn(entry, t, p) \/ Ahead(scan[t].cursor, p)
    BY <2>1 DEF IInv, Covers
  <2>3. MetIn(entry, t, p)' <=> MetIn(entry, t, p)
    BY <1>3, <1>6 DEF MetIn
  <2>4. CASE t = s
    BY <1>2, <1>5, <1>6, <2>2, <2>3, <2>4 DEF Reached
  <2>5. CASE t # s
    BY <1>5, <1>6, <2>2, <2>3, <2>5
  <2> QED
    BY <2>4, <2>5
<1>12. GoneIsOlder(entry)'
  BY <1>3, <1>6 DEF IInv, GoneIsOlder
<1>13. InOneDirectory(walker)' /\ Spares(walker)'
  BY <1>5 DEF InOneDirectory, Spares
<1> QED
  BY <1>7, <1>8, <1>10, <1>11, <1>12, <1>13 DEF IInv

--------------------------------------------------------------------------------
(* A walk. *)

Emptied(w) == [w EXCEPT !.batch = {}, !.rejected = {}]

LEMMA EmptiedIs ==
  ASSUME NEW w \in Walker
  PROVE  /\ Emptied(w) \in Walker /\ Emptied(w).scan = w.scan /\ Emptied(w).gen = w.gen
         /\ Emptied(w).pc = w.pc /\ Emptied(w).left = w.left /\ Emptied(w).pending = w.pending
         /\ Emptied(w).dir = w.dir /\ Emptied(w).batch = {} /\ Emptied(w).rejected = {}
BY DEF Emptied, Walker

\* What a walk holds, it writes; and it holds nothing that was gone all along.
LEMMA FlushIs ==
  ASSUME IInv, walker # Idle, NEW w \in Walker, w.scan = walker.scan, Spares(w)
  PROVE  LET rows == Applied(w.batch, w.rejected)
         IN  /\ rows \in [Key -> EntryRow]
             /\ \A k \in Key : \/ rows[k] = entry[k]
                               \/ /\ rows[k].gen = walker.gen /\ rows[k].status # "MISSING"
                                  /\ k \notin seenAll[walker.scan].gone
             /\ \A p \in Steady : InHand(w, p) => Written(rows, p)
<1> DEFINE rows == Applied(w.batch, w.rejected)
<1>1. w.batch \in SUBSET BatchRow /\ w.rejected \in SUBSET Key /\ w # Idle
  BY DEF Walker, Idle
<1>2. /\ rows \in [Key -> EntryRow]
      /\ \A k \in Key :
           \/ /\ k \in w.rejected \/ \E b \in w.batch : b.key = k
              /\ rows[k].gen = walker.gen /\ rows[k].status # "MISSING"
           \/ /\ ~ (k \in w.rejected \/ \E b \in w.batch : b.key = k)
              /\ rows[k] = entry[k]
  BY <1>1, AppliedIs DEF IInv
<1> HIDE DEF rows
<1>3. \A k \in Key : (k \in w.rejected \/ \E b \in w.batch : b.key = k) =>
        k \notin seenAll[walker.scan].gone
  BY <1>1 DEF Spares
<1>4. \A k \in Key : \/ rows[k] = entry[k]
                     \/ /\ rows[k].gen = walker.gen /\ rows[k].status # "MISSING"
                        /\ k \notin seenAll[walker.scan].gone
  BY <1>2, <1>3
<1>5. \A p \in Steady : InHand(w, p) => Written(rows, p)
  BY <1>2, SteadyIs DEF InHand, Written
<1> QED
  BY <1>2, <1>4, <1>5 DEF rows

LEMMA TailIs ==
  ASSUME NEW S, NEW q \in Seq(S), q # <<>>
  PROVE  \A i \in 1 .. Len(q) : i # 1 => i - 1 \in 1 .. Len(Tail(q)) /\ Tail(q)[i - 1] = q[i]
<1>1. Len(q) \in Nat /\ Tail(q) \in Seq(S) /\ Len(Tail(q)) = Len(q) - 1
  OBVIOUS
<1> SUFFICES ASSUME NEW i \in 1 .. Len(q), i # 1
             PROVE  i - 1 \in 1 .. Len(Tail(q)) /\ Tail(q)[i - 1] = q[i]
  OBVIOUS
<1>2. i \in Nat /\ i - 1 \in 1 .. Len(Tail(q)) /\ i - 1 + 1 = i
  BY <1>1
<1>3. Tail(q)[i - 1] = q[i - 1 + 1]
  BY <1>1, <1>2
<1> QED
  BY <1>2, <1>3

LEMMA StepKeeps ==
  ASSUME IInv, Start \/ OpenDirectory \/ CloseDirectory
  PROVE  IInv'
<1>1. /\ walker # Idle /\ walker \in Walker
      /\ UNCHANGED <<tree, source, entry, scan, task, seenAll>>
  <2>1. walker.pc \in {"start", "walk", "list"}
    BY DEF Start, OpenDirectory, CloseDirectory
  <2> QED
    BY <2>1, WalkIs DEF IInv, Start, OpenDirectory, CloseDirectory
<1>2. entry' \in [Key -> EntryRow]
  BY <1>1 DEF IInv, TypeKept
<1>3. InOneDirectory(walker) /\ Spares(walker)
  BY DEF IInv
<1>4. CASE Start
  <2>1. /\ walker' \in Walker /\ walker'.pc = "walk" /\ walker.pc = "start"
        /\ walker'.scan = walker.scan /\ walker'.gen = walker.gen
        /\ walker'.pending = walker.pending /\ walker'.left = walker.left
        /\ walker'.dir = walker.dir /\ walker'.batch = walker.batch
        /\ walker'.rejected = walker.rejected
    BY <1>1, <1>4 DEF Start, Walker
  <2>2. InOneDirectory(walker') /\ Spares(walker')
    BY <1>1, <1>3, <2>1 DEF InOneDirectory, Spares
  <2>3. \A p \in Steady : Reached(walker, p) => Reached(walker', p)
    BY <2>1 DEF Reached, InHand, InDirectory
  <2> QED
    BY <1>1, <1>2, <2>1, <2>2, <2>3, WalkKeeps
<1>5. CASE CloseDirectory
  <2>1. /\ walker' \in Walker /\ walker'.pc = "walk" /\ walker.left = {}
        /\ walker'.scan = walker.scan /\ walker'.gen = walker.gen
        /\ walker'.pending = walker.pending /\ walker'.left = walker.left
        /\ walker'.dir = walker.dir /\ walker'.batch = walker.batch
        /\ walker'.rejected = walker.rejected
    BY <1>1, <1>5 DEF CloseDirectory, Walker
  <2>2. InOneDirectory(walker') /\ Spares(walker')
    BY <1>1, <1>3, <2>1 DEF InOneDirectory, Spares
  <2>3. \A p \in Steady : Reached(walker, p) => Reached(walker', p)
    BY <2>1 DEF Reached, InHand, InDirectory
  <2> QED
    BY <1>1, <1>2, <2>1, <2>2, <2>3, WalkKeeps
<1>6. CASE OpenDirectory
  <2>1. /\ walker.pc = "walk" /\ walker.pending # <<>> /\ walker.pending \in Seq(Directory)
        /\ walker' = [walker EXCEPT !.pc = "list", !.dir = Head(walker.pending), !.pending = Tail(@),
                        !.left = {p \in Path : In[p] = Head(walker.pending) /\ Exists(p)}]
    BY <1>1, <1>6 DEF OpenDirectory, Walker
  <2>2. Head(walker.pending) \in Directory /\ Tail(walker.pending) \in Seq(Directory)
    BY <2>1
  <2>3. /\ walker' \in Walker /\ walker'.pc = "list"
        /\ walker'.scan = walker.scan /\ walker'.gen = walker.gen
        /\ walker'.pending = Tail(walker.pending) /\ walker'.dir = Head(walker.pending)
        /\ walker'.left = {p \in Path : In[p] = Head(walker.pending) /\ Exists(p)}
        /\ walker'.batch = walker.batch /\ walker'.rejected = walker.rejected
    BY <1>1, <2>1, <2>2 DEF Walker
  <2>4. InOneDirectory(walker')
    BY <2>3 DEF InOneDirectory
  <2>5. Spares(walker')
    <3>1. \A p \in walker'.left : Norm[p] \notin seenAll[walker.scan].gone
      <4>1. \A k \in seenAll[walker.scan].gone : k \in Gone
        BY <1>1, WalkIsLast, SeenIsLive
      <4>2. \A p \in walker'.left : p \in Path /\ Exists(p)
        BY <2>3
      <4> QED
        BY <4>1, <4>2 DEF Gone
    <3> QED
      BY <1>1, <1>3, <2>3, <3>1 DEF Spares
  <2>6. \A p \in Steady : Reached(walker, p) => Reached(walker', p)
    <3> SUFFICES ASSUME NEW p \in Steady, Ahead(walker.pending, p)
                 PROVE  Ahead(walker'.pending, p) \/ InDirectory(walker', p)
      BY <2>1, <2>3 DEF Reached, InHand, InDirectory
    <3>1. PICK i \in 1 .. Len(walker.pending) : walker.pending[i] \in {In[p], Root}
      BY DEF Ahead
    <3>2. CASE i = 1
      <4>1. Head(walker.pending) \in {In[p], Root}
        BY <2>1, <3>1, <3>2
      <4>2. CASE Head(walker.pending) = In[p]
        BY <2>3, <4>2, SteadyIs DEF InDirectory, Path
      <4>3. CASE Head(walker.pending) = Root /\ In[p] # Root
        BY <2>3, <4>3, SteadyIs DEF InDirectory, Path, Directory
      <4> QED
        BY <4>1, <4>2, <4>3
    <3>3. CASE i # 1
      <4>1. i - 1 \in 1 .. Len(Tail(walker.pending)) /\ Tail(walker.pending)[i - 1] = walker.pending[i]
        <5>1. \A j \in 1 .. Len(walker.pending) : j # 1 =>
                /\ j - 1 \in 1 .. Len(Tail(walker.pending))
                /\ Tail(walker.pending)[j - 1] = walker.pending[j]
          BY <2>1, TailIs
        <5> QED
          BY <3>1, <3>3, <5>1
      <4> QED
        BY <2>3, <3>1, <4>1 DEF Ahead
    <3> QED
      BY <3>2, <3>3
  <2> QED
    BY <1>1, <1>2, <2>3, <2>4, <2>5, <2>6, WalkKeeps
<1> QED
  BY <1>4, <1>5, <1>6

\* What a walk knows after one more entry of its directory.
LEMMA VisitedIs ==
  ASSUME IInv, walker.pc = "list", NEW p \in walker.left
  PROVE  /\ Visited(p) \in Walker /\ Visited(p).pc = "list"
         /\ Visited(p).scan = walker.scan /\ Visited(p).gen = walker.gen
         /\ Visited(p).dir = walker.dir /\ Visited(p).left \subseteq walker.left
         /\ \/ Visited(p).pending = walker.pending
            \/ p \in SubDir /\ Visited(p).pending = Append(walker.pending, p)
         /\ Spares(Visited(p))
         /\ \A q \in Steady : Reached(walker, q) => Reached(Visited(p), q)
<1>1. walker \in Walker /\ walker # Idle
  BY WalkIs DEF IInv
<1>2. /\ p \in Path /\ walker.pending \in Seq(Directory) /\ walker.left \in SUBSET Path
      /\ walker.seen \in SUBSET Key /\ walker.batch \in SUBSET BatchRow
      /\ walker.rejected \in SUBSET Key
  BY <1>1 DEF Walker
<1>3. Spares(walker)
  BY DEF IInv
<1> DEFINE w == [walker EXCEPT !.left = @ \ {p}]
<1>4. /\ w \in Walker /\ w.pc = "list" /\ w.scan = walker.scan /\ w.gen = walker.gen
      /\ w.dir = walker.dir /\ w.left = walker.left \ {p} /\ w.pending = walker.pending
      /\ w.seen = walker.seen /\ w.batch = walker.batch /\ w.rejected = walker.rejected
  BY <1>1 DEF Walker
<1>5. Visited(p) = IF p \in SubDir /\ tree[p] # "link"
                   THEN [w EXCEPT !.pending = Append(@, p)]
                   ELSE IF ~Regular(p) \/ Norm[p] \in w.seen
                   THEN [w EXCEPT !.rejected = @ \cup {Norm[p]}]
                   ELSE [w EXCEPT !.seen = @ \cup {Norm[p]},
                                  !.batch = @ \cup {[key |-> Norm[p], sig |-> tree[p]]}]
  BY DEF Visited
<1> HIDE DEF w
<1>6. \A q \in Steady : q # p => (InDirectory(walker, q) => q \in w.left \/ In[q] \in w.left \/ In[q] = p)
  BY <1>4 DEF InDirectory
<1>7. CASE p \in SubDir /\ tree[p] # "link"
  <2>1. Visited(p) = [w EXCEPT !.pending = Append(@, p)]
    BY <1>5, <1>7
  <2>2. Append(walker.pending, p) \in Seq(Directory)
    BY <1>2, <1>7 DEF Directory
  <2>3. /\ Visited(p) \in Walker /\ Visited(p).pc = "list" /\ Visited(p).scan = walker.scan
        /\ Visited(p).gen = walker.gen /\ Visited(p).dir = walker.dir
        /\ Visited(p).left = w.left /\ Visited(p).pending = Append(walker.pending, p)
        /\ Visited(p).batch = walker.batch /\ Visited(p).rejected = walker.rejected
    <3>1. Visited(p) \in Walker
      <4>1. PICK q \in Seq(Directory) : q = Append(walker.pending, p)
        BY <2>2
      <4>2. w \in Walker /\ Visited(p) = [w EXCEPT !.pending = q]
        BY <1>4, <2>1, <4>1
      <4> QED
        BY <4>2 DEF Walker
    <3>2. /\ Visited(p).pc = "list" /\ Visited(p).scan = walker.scan
          /\ Visited(p).gen = walker.gen /\ Visited(p).dir = walker.dir
          /\ Visited(p).left = w.left /\ Visited(p).pending = Append(walker.pending, p)
          /\ Visited(p).batch = walker.batch /\ Visited(p).rejected = walker.rejected
      BY <1>4, <2>1 DEF Walker
    <3> QED
      BY <3>1, <3>2
  <2>4. Spares(Visited(p))
    BY <1>1, <1>3, <1>4, <2>3 DEF Spares
  <2>5. ASSUME NEW q \in Steady, Reached(walker, q) PROVE Reached(Visited(p), q)
    <3>1. CASE InHand(walker, q)
      BY <2>3, <3>1 DEF Reached, InHand
    <3>2. CASE Ahead(walker.pending, q)
      <4>1. PICK i \in 1 .. Len(walker.pending) : walker.pending[i] \in {In[q], Root}
        BY <3>2 DEF Ahead
      <4>2. /\ i \in 1 .. Len(Append(walker.pending, p))
            /\ Append(walker.pending, p)[i] = walker.pending[i]
        BY <1>2
      <4> QED
        BY <2>3, <4>1, <4>2 DEF Reached, Ahead
    <3>3. CASE InDirectory(walker, q) /\ In[q] = p
      <4>1. /\ Len(walker.pending) + 1 \in 1 .. Len(Append(walker.pending, p))
            /\ Append(walker.pending, p)[Len(walker.pending) + 1] = p
        BY <1>2
      <4> QED
        BY <2>3, <3>3, <4>1 DEF Reached, Ahead
    <3>4. CASE InDirectory(walker, q) /\ In[q] # p
      BY <1>6, <1>7, <2>3, <3>4, SteadyIs DEF Reached, InDirectory
    <3> QED
      BY <2>5, <3>1, <3>2, <3>3, <3>4 DEF Reached
  <2> QED
    BY <1>4, <1>7, <2>3, <2>4, <2>5
<1>8. CASE ~ (p \in SubDir /\ tree[p] # "link")
  <2>1. p \in Path /\ Norm[p] \in Key /\ Norm[p] \notin seenAll[walker.scan].gone
    BY <1>1, <1>2, <1>3, CatalogAssumption DEF Spares
  <2>2. \A q \in Steady : In[q] # p
    BY <1>8, <2>1, CatalogAssumption, SteadyIs DEF Directory, Path
  <2>3. CASE ~Regular(p) \/ Norm[p] \in w.seen
    <3>1. Visited(p) = [w EXCEPT !.rejected = @ \cup {Norm[p]}]
      BY <1>5, <1>8, <2>3
    <3>2. /\ Visited(p) \in Walker /\ Visited(p).pc = "list" /\ Visited(p).scan = walker.scan
          /\ Visited(p).gen = walker.gen /\ Visited(p).dir = walker.dir
          /\ Visited(p).left = w.left /\ Visited(p).pending = walker.pending
          /\ Visited(p).batch = walker.batch
          /\ Visited(p).rejected = walker.rejected \cup {Norm[p]}
      <4>1. walker.rejected \cup {Norm[p]} \in SUBSET Key
        BY <1>2, <2>1
      <4>2. Visited(p) \in Walker
        BY <1>4, <3>1, <4>1 DEF Walker
      <4>3. /\ Visited(p).pc = "list" /\ Visited(p).scan = walker.scan
            /\ Visited(p).gen = walker.gen /\ Visited(p).dir = walker.dir
            /\ Visited(p).left = w.left /\ Visited(p).pending = walker.pending
            /\ Visited(p).batch = walker.batch /\ Visited(p).rejected = walker.rejected \cup {Norm[p]}
        BY <1>4, <3>1 DEF Walker
      <4> QED
        BY <4>2, <4>3
    <3>3. Spares(Visited(p))
      BY <1>1, <1>3, <1>4, <2>1, <3>2 DEF Spares
    <3>4. \A q \in Steady : Reached(walker, q) => Reached(Visited(p), q)
      BY <1>6, <2>2, <3>2 DEF Reached, InHand, InDirectory
    <3> QED
      BY <1>4, <3>2, <3>3, <3>4
  <2>4. CASE Regular(p) /\ Norm[p] \notin w.seen
    <3>1. Visited(p) = [w EXCEPT !.seen = @ \cup {Norm[p]},
                                 !.batch = @ \cup {[key |-> Norm[p], sig |-> tree[p]]}]
      BY <1>5, <1>8, <2>4
    <3>2. PICK b \in BatchRow : b = [key |-> Norm[p], sig |-> tree[p]] /\ b.key = Norm[p]
      <4>1. [key |-> Norm[p], sig |-> tree[p]] \in BatchRow
        BY <2>1, <2>4 DEF Regular, BatchRow
      <4> QED
        BY <4>1
    <3>3. /\ Visited(p) \in Walker /\ Visited(p).pc = "list" /\ Visited(p).scan = walker.scan
          /\ Visited(p).gen = walker.gen /\ Visited(p).dir = walker.dir
          /\ Visited(p).left = w.left /\ Visited(p).pending = walker.pending
          /\ Visited(p).batch = walker.batch \cup {b}
          /\ Visited(p).rejected = walker.rejected
      <4>1. Visited(p) = [w EXCEPT !.seen = @ \cup {Norm[p]}, !.batch = @ \cup {b}]
        BY <3>1, <3>2
      <4>2. walker.seen \cup {Norm[p]} \in SUBSET Key /\ walker.batch \cup {b} \in SUBSET BatchRow
        BY <1>2, <2>1
      <4>3. Visited(p) \in Walker
        BY <1>4, <4>1, <4>2 DEF Walker
      <4>4. /\ Visited(p).pc = "list" /\ Visited(p).scan = walker.scan
            /\ Visited(p).gen = walker.gen /\ Visited(p).dir = walker.dir
            /\ Visited(p).left = w.left /\ Visited(p).pending = walker.pending
            /\ Visited(p).batch = walker.batch \cup {b} /\ Visited(p).rejected = walker.rejected
        BY <1>4, <4>1 DEF Walker
      <4> QED
        BY <4>3, <4>4
    <3>4. Spares(Visited(p))
      BY <1>1, <1>3, <1>4, <2>1, <3>2, <3>3 DEF Spares
    <3>5. ASSUME NEW q \in Steady, Reached(walker, q) PROVE Reached(Visited(p), q)
      <4>1. CASE q = p
        BY <3>2, <3>3, <4>1 DEF Reached, InHand
      <4>2. CASE q # p
        BY <1>6, <2>2, <3>3, <3>5, <4>2 DEF Reached, InHand, InDirectory
      <4> QED
        BY <4>1, <4>2
    <3> QED
      BY <1>4, <3>3, <3>4, <3>5
  <2> QED
    BY <1>4, <2>3, <2>4
<1> QED
  BY <1>7, <1>8

LEMMA VisitKeeps ==
  ASSUME IInv, NEW p \in Path, Visit(p)
  PROVE  IInv'
<1>1. walker.pc = "list" /\ p \in walker.left /\ UNCHANGED <<tree, source, scan, task, seenAll>>
  BY DEF Visit
<1>2. walker \in Walker /\ walker # Idle /\ InOneDirectory(walker)
  BY <1>1, WalkIs DEF IInv
<1> DEFINE w == Visited(p)
<1>3. /\ w \in Walker /\ w.scan = walker.scan /\ w.gen = walker.gen
      /\ w.dir = walker.dir /\ w.left \subseteq walker.left /\ Spares(w)
      /\ \A q \in Steady : Reached(walker, q) => Reached(w, q)
  BY <1>1, VisitedIs
<1>4. /\ entry' = IF Full(w) THEN Applied(w.batch, w.rejected) ELSE entry
      /\ walker' = IF Full(w) THEN Emptied(w) ELSE w
  BY DEF Visit, Emptied
<1> HIDE DEF w
<1>5. InOneDirectory(w)
  BY <1>2, <1>3 DEF InOneDirectory
<1>6. CASE Full(w)
  <2>1. /\ walker' \in Walker /\ walker'.scan = walker.scan /\ walker'.gen = walker.gen
        /\ walker'.pc = w.pc /\ walker'.left = w.left /\ walker'.pending = w.pending
        /\ walker'.dir = w.dir /\ walker'.batch = {} /\ walker'.rejected = {}
    BY <1>3, <1>4, <1>6, EmptiedIs
  <2>2. /\ entry' \in [Key -> EntryRow]
        /\ \A k \in Key : \/ entry'[k] = entry[k]
                          \/ /\ entry'[k].gen = walker.gen /\ entry'[k].status # "MISSING"
                             /\ k \notin seenAll[walker.scan].gone
        /\ \A q \in Steady : InHand(w, q) => Written(entry', q)
    <3>1. entry' = Applied(w.batch, w.rejected)
      BY <1>4, <1>6
    <3> QED
      BY <1>2, <1>3, <3>1, FlushIs DEF Written
  <2>3. InOneDirectory(walker') /\ Spares(walker')
    BY <1>2, <1>3, <1>5, <2>1 DEF InOneDirectory, Spares, Walker, Idle
  <2>4. \A q \in Steady : Reached(walker, q) => Reached(walker', q) \/ Written(entry', q)
    BY <1>3, <2>1, <2>2 DEF Reached, InDirectory
  <2> QED
    BY <1>1, <1>2, <2>1, <2>2, <2>3, <2>4, WalkKeeps
<1>7. CASE ~Full(w)
  <2>1. walker' = w /\ entry' = entry
    BY <1>4, <1>7
  <2>2. entry' \in [Key -> EntryRow]
    BY <2>1 DEF IInv, TypeKept
  <2>3. InOneDirectory(walker') /\ Spares(walker')
    BY <1>3, <1>5, <2>1
  <2>4. \A q \in Steady : Reached(walker, q) => Reached(walker', q)
    BY <1>3, <2>1
  <2> QED
    BY <1>1, <1>2, <1>3, <2>1, <2>2, <2>3, <2>4, WalkKeeps
<1> QED
  BY <1>6, <1>7

--------------------------------------------------------------------------------
(* The end of a walk. *)

\* What an end finds: a walk w that lost sight of nothing, and of nothing it still
\* has to list but what the cursor brings back.
Ends(w, status, cursor) ==
  /\ walker # Idle /\ w \in Walker /\ w.scan = walker.scan /\ w.gen = walker.gen /\ Spares(w)
  /\ status \in {"COMPLETED", "INTERRUPTED", "FAILED"} /\ cursor \in Seq(Directory)
  /\ \A q \in Steady : Reached(walker, q) => Reached(w, q)
  /\ status = "INTERRUPTED" => \A q \in Steady : Reached(w, q) => InHand(w, q) \/ Ahead(cursor, q)
  /\ status = "COMPLETED" => \A q \in Steady : Reached(w, q) => InHand(w, q)
  /\ Finish(w, status, cursor)

\* The rows an end leaves: nobody loses what he met, what the walk held is met,
\* and at the end of a generation what was gone all along is no longer listed.
LEMMA EndIs ==
  ASSUME IInv, NEW w, NEW status, NEW cursor, Ends(w, status, cursor)
  PROVE  /\ entry' \in [Key -> EntryRow] /\ GoneIsOlder(entry')
         /\ \A s \in Scan : InTurn(s) => \A p \in seenAll[s].steady :
              /\ MetIn(entry, s, p) => MetIn(entry', s, p)
              /\ s = walker.scan /\ InHand(w, p) => MetIn(entry', s, p)
         /\ status = "COMPLETED" /\ seenAll[walker.scan].fresh =>
              \A k \in seenAll[walker.scan].gone : entry'[k].status \notin Listed
<1>1. /\ walker # Idle /\ w \in Walker /\ w.scan = walker.scan /\ w.gen = walker.gen /\ Spares(w)
      /\ \A q \in Steady : Reached(walker, q) => Reached(w, q)
      /\ status = "COMPLETED" => \A q \in Steady : Reached(w, q) => InHand(w, q)
  BY DEF Ends
<1>2. walker.scan \in Scan /\ walker.gen \in Nat /\ scan[walker.scan].gen = walker.gen
  BY <1>1, WalkIsLast
<1> DEFINE rows == Applied(w.batch, w.rejected)
<1>3. /\ rows \in [Key -> EntryRow]
      /\ \A k \in Key : \/ rows[k] = entry[k]
                        \/ /\ rows[k].gen = walker.gen /\ rows[k].status # "MISSING"
                           /\ k \notin seenAll[walker.scan].gone
      /\ \A p \in Steady : InHand(w, p) => Written(rows, p)
  BY <1>1, FlushIs
<1>4. entry' = IF status = "COMPLETED" THEN MovedMarked(MissingMarked(rows)) ELSE rows
  BY DEF Ends, Finish
<1> HIDE DEF rows
<1>5. /\ entry' \in [Key -> EntryRow]
      /\ \A k \in Key :
           /\ entry'[k].gen = rows[k].gen
           /\ status # "COMPLETED" => entry'[k] = rows[k]
           /\ rows[k].gen >= walker.gen /\ rows[k].status # "MISSING" => entry'[k].status # "MISSING"
           /\ status = "COMPLETED" /\ rows[k].gen < walker.gen => entry'[k].status \notin Listed
  <2>1. CASE status = "COMPLETED"
    <3>1. entry' = MovedMarked(MissingMarked(rows))
      BY <1>4, <2>1
    <3> QED
      BY <1>2, <1>3, <2>1, <3>1, MarkedIs
  <2>2. CASE status # "COMPLETED"
    BY <1>3, <1>4, <2>2
  <2> QED
    BY <2>1, <2>2
<1>6. GoneIsOlder(entry')
  <2>1. \A k \in Key : rows[k].gen = entry[k].gen \/ k \notin seenAll[walker.scan].gone
    BY <1>3
  <2>2. GoneIsOlder(rows)
    BY <1>1, <1>3, <2>1, WritesSpare
  <2>3. \A s \in Scan : \A k \in seenAll[s].gone : k \in Key
    BY SeenIsLive
  <2> QED
    BY <1>5, <2>2, <2>3 DEF GoneIsOlder
<1>7. ASSUME NEW p \in seenAll[walker.scan].steady, InTurn(walker.scan), status = "COMPLETED"
      PROVE  rows[Norm[p]].gen >= walker.gen /\ rows[Norm[p]].status # "MISSING"
  <2>1. p \in Steady /\ Norm[p] \in Key
    BY <1>2, SeenIsLive
  <2>2. MetIn(entry, walker.scan, p) \/ Reached(walker, p)
    BY <1>1, <1>2, <1>7 DEF IInv, Covers
  <2>3. MetIn(entry, walker.scan, p) \/ Written(rows, p)
    BY <1>1, <1>3, <1>7, <2>1, <2>2
  <2> QED
    BY <1>2, <1>3, <2>1, <2>3 DEF MetIn, Written
<1>8. ASSUME NEW s \in Scan, InTurn(s), NEW p \in seenAll[s].steady
      PROVE  /\ MetIn(entry, s, p) => MetIn(entry', s, p)
             /\ s = walker.scan /\ InHand(w, p) => MetIn(entry', s, p)
  <2>1. p \in Steady /\ Norm[p] \in Key /\ Live(s) /\ scan[s].gen \in Nat
    BY SeenIsLive DEF ScanRow
  <2>2. scan[s].gen <= walker.gen /\ InTurn(walker.scan) /\ p \in seenAll[walker.scan].steady
    BY <1>1, <1>8, <2>1, WalkIsLast
  <2>3. entry[Norm[p]].gen \in Nat /\ rows[Norm[p]].gen \in Nat
    BY <1>3, <2>1 DEF IInv, TypeKept, EntryRow
  <2>4. MetIn(entry, s, p) => rows[Norm[p]].gen >= scan[s].gen /\ rows[Norm[p]].status # "MISSING"
    BY <1>2, <1>3, <2>1, <2>2, <2>3 DEF MetIn
  <2>5. InHand(w, p) => rows[Norm[p]].gen = walker.gen /\ rows[Norm[p]].status # "MISSING"
    BY <1>3, <2>1 DEF Written
  <2>6. rows[Norm[p]].status # "MISSING" => entry'[Norm[p]].status # "MISSING"
    BY <1>5, <1>7, <2>1, <2>2
  <2> QED
    BY <1>2, <1>5, <2>1, <2>2, <2>3, <2>4, <2>5, <2>6 DEF MetIn
<1>9. ASSUME status = "COMPLETED", seenAll[walker.scan].fresh, NEW k \in seenAll[walker.scan].gone
      PROVE  entry'[k].status \notin Listed
  <2>1. k \in Key /\ entry[k].gen < walker.gen
    BY <1>2, <1>9, SeenIsLive DEF IInv, GoneIsOlder
  <2>2. rows[k].gen < walker.gen
    BY <1>2, <1>3, <2>1
  <2> QED
    BY <1>5, <1>9, <2>1, <2>2
<1> QED
  BY <1>5, <1>6, <1>8, <1>9

LEMMA EndKeeps ==
  ASSUME IInv, NEW w, NEW status, NEW cursor, Ends(w, status, cursor)
  PROVE  IInv'
<1> DEFINE t == walker.scan
<1>1. /\ t \in Scan /\ Running(t) /\ w.scan = t
      /\ status \in {"COMPLETED", "INTERRUPTED", "FAILED"} /\ cursor \in Seq(Directory)
      /\ status \in ScanStatus
  BY WalkIsLast DEF Ends, ScanStatus
<1>2. /\ scan' = [scan EXCEPT ![t].status = status, ![t].cursor = cursor] /\ walker' = Idle
      /\ seenAll' = IF status = "INTERRUPTED" THEN seenAll ELSE [seenAll EXCEPT ![t] = NothingSeen]
      /\ UNCHANGED <<tree, source, task>>
  BY <1>1 DEF Ends, Finish
<1> HIDE DEF t
<1>3. /\ scan' \in [Scan -> ScanRow] /\ scan'[t].status = status /\ scan'[t].cursor = cursor
      /\ \A s \in Scan : scan'[s].gen = scan[s].gen /\ (s # t => scan'[s] = scan[s])
  <2>1. scan \in [Scan -> ScanRow]
    BY DEF IInv, TypeKept
  <2>2. /\ scan'[t] = [scan[t] EXCEPT !.status = status, !.cursor = cursor]
        /\ \A s \in Scan : s # t => scan'[s] = scan[s]
    BY <1>1, <1>2, <2>1
  <2>3. /\ scan'[t] \in ScanRow /\ scan'[t].status = status /\ scan'[t].cursor = cursor
        /\ scan'[t].gen = scan[t].gen
    <3>1. PICK r \in ScanRow : r = scan[t]
      BY <1>1, <2>1
    <3>2. scan'[t] = [r EXCEPT !.status = status, !.cursor = cursor]
      BY <2>2, <3>1
    <3> DEFINE new == [r EXCEPT !.status = status, !.cursor = cursor]
    <3>3. new \in ScanRow /\ new.status = status /\ new.cursor = cursor /\ new.gen = r.gen
      BY <1>1 DEF ScanRow
    <3>4. scan'[t] = new
      BY <3>2
    <3> HIDE DEF new
    <3> QED
      BY <3>1, <3>3, <3>4
  <2>4. scan' = [s \in Scan |-> scan'[s]]
    BY <1>1, <1>2, <2>1
  <2>5. \A s \in Scan : scan'[s] \in ScanRow
    BY <2>1, <2>2, <2>3
  <2> QED
    BY <2>2, <2>3, <2>4, <2>5
<1>4. /\ seenAll' \in [Scan -> Seen]
      /\ \A s \in Scan : s # t \/ status = "INTERRUPTED" => seenAll'[s] = seenAll[s]
      /\ status # "INTERRUPTED" => /\ seenAll'[t].steady = {} /\ seenAll'[t].gone = {}
                                   /\ ~seenAll'[t].fresh
  <2>1. NothingSeen \in Seen /\ NothingSeen.steady = {} /\ NothingSeen.gone = {} /\ ~NothingSeen.fresh
    BY DEF NothingSeen, Seen
  <2>2. seenAll \in [Scan -> Seen]
    BY DEF IInv, TypeKept
  <2> QED
    BY <1>1, <1>2, <2>1, <2>2
<1>5. entry' \in [Key -> EntryRow] /\ GoneIsOlder(entry')
  BY EndIs
<1>6. TypeKept'
  BY <1>2, <1>3, <1>4, <1>5 DEF IInv, TypeKept, TypeOK, ScanRow, ScanStatus, Directory, EntryRow
<1>7. RowsInTurn'
  <2>1. \A s \in Scan : Running(s)' => s # t /\ Running(s)
    BY <1>1, <1>3 DEF Running
  <2>2. \A s \in Scan : ~Running(s)'
    BY <1>1, <2>1 DEF IInv, RowsInTurn, Live, Running, Scan
  <2>3. \A s, u \in Scan : s < u /\ scan'[u].status # "NONE" => scan'[s].status # "NONE"
    BY <1>1, <1>3 DEF IInv, RowsInTurn, Running
  <2> QED
    BY <1>2, <2>2, <2>3 DEF RowsInTurn
<1>8. \A s \in Scan : Live(s)' => Live(s)
  BY <1>1, <1>3 DEF Live, Running
<1>9. SeenIsSo'
  <2>1. Steady' = Steady /\ Gone' = Gone
    BY <1>2 DEF Steady, Gone, Regular, Exists, Open
  <2>2. \A s \in Scan : ~Live(s)' =>
          seenAll'[s].steady = {} /\ seenAll'[s].gone = {} /\ ~seenAll'[s].fresh
    BY <1>1, <1>3, <1>4 DEF IInv, SeenIsSo, Live, Running
  <2>3. \A s \in Scan : seenAll'[s].steady \subseteq Steady /\ seenAll'[s].gone \subseteq Gone
    BY <1>4 DEF IInv, SeenIsSo
  <2>4. ASSUME NEW s \in Scan, NEW u \in Scan, s < u, Live(u)'
        PROVE  /\ seenAll'[s].steady \subseteq seenAll'[u].steady
               /\ seenAll'[s].gone \subseteq seenAll'[u].gone
    <3>1. Live(u) /\ (u = t => status = "INTERRUPTED")
      BY <1>1, <1>3, <1>8, <2>4 DEF Live
    <3>2. /\ seenAll[s].steady \subseteq seenAll[u].steady
          /\ seenAll[s].gone \subseteq seenAll[u].gone
      BY <2>4, <3>1 DEF IInv, SeenIsSo
    <3>3. seenAll'[u] = seenAll[u]
      BY <1>4, <3>1
    <3>4. CASE s = t /\ status # "INTERRUPTED"
      BY <1>4, <3>4
    <3>5. CASE s # t \/ status = "INTERRUPTED"
      BY <1>4, <3>2, <3>3, <3>5
    <3> QED
      BY <3>4, <3>5
  <2> QED
    BY <2>1, <2>2, <2>3, <2>4 DEF SeenIsSo
<1>10. Covers(entry, walker)'
  <2> SUFFICES ASSUME NEW s \in Scan, InTurn(s)', NEW p \in seenAll'[s].steady,
                      scan'[s].status = "INTERRUPTED"
               PROVE  MetIn(entry, s, p)' \/ Ahead(scan'[s].cursor, p)
    BY <1>2 DEF Covers
  <2>1. InTurn(s)
    BY <1>1, <1>3 DEF InTurn, Running
  <2>2. MetIn(entry, s, p)' <=> MetIn(entry', s, p)
    BY <1>3 DEF MetIn
  <2>3. p \in seenAll[s].steady
    BY <1>3, <1>4
  <2>4. CASE s # t
    <3>1. MetIn(entry, s, p) \/ Ahead(scan[s].cursor, p)
      BY <1>3, <2>1, <2>3, <2>4 DEF IInv, Covers
    <3> QED
      BY <1>3, <2>1, <2>2, <2>3, <2>4, <3>1, EndIs
  <2>5. CASE s = t
    <3>1. status = "INTERRUPTED" /\ p \in Steady
      BY <1>3, <2>3, <2>5, SeenIsLive
    <3>2. MetIn(entry, s, p) \/ Reached(w, p)
      <4>1. walker # Idle /\ (\A q \in Steady : Reached(walker, q) => Reached(w, q))
        BY DEF Ends
      <4>2. MetIn(entry, s, p) \/ Reached(walker, p)
        BY <2>1, <2>3, <2>5, <4>1 DEF IInv, Covers, t
      <4> QED
        BY <3>1, <4>1, <4>2
    <3>3. MetIn(entry, s, p) \/ InHand(w, p) \/ Ahead(cursor, p)
      BY <3>1, <3>2 DEF Ends
    <3>4. MetIn(entry', s, p) \/ Ahead(cursor, p)
      BY <2>1, <2>3, <2>5, <3>3, EndIs DEF t
    <3> QED
      BY <1>3, <2>2, <2>5, <3>4
  <2> QED
    BY <2>4, <2>5
<1>11. GoneIsOlder(entry)'
  <2> SUFFICES ASSUME NEW s \in Scan, seenAll'[s].fresh, NEW k \in seenAll'[s].gone
               PROVE  entry'[k].gen < scan'[s].gen
    BY DEF GoneIsOlder
  <2>1. seenAll'[s] = seenAll[s]
    BY <1>1, <1>4
  <2> QED
    BY <1>3, <1>5, <2>1 DEF GoneIsOlder
<1>12. InOneDirectory(walker)' /\ Spares(walker)'
  BY <1>2 DEF InOneDirectory, Spares
<1> QED
  BY <1>6, <1>7, <1>9, <1>10, <1>11, <1>12 DEF IInv

\* The directory that was being listed is the first of the cursor.
LEMMA CursorCovers ==
  ASSUME IInv, walker.pc = "list"
  PROVE  /\ CursorBack \in Seq(Directory)
         /\ \A q \in Steady :
              Ahead(walker.pending, q) \/ InDirectory(walker, q) \/ walker.dir = Root =>
                Ahead(CursorBack, q)
<1>1. /\ walker \in Walker /\ walker # Idle
      /\ walker.dir \in Directory /\ walker.pending \in Seq(Directory)
      /\ walker.left \in SUBSET Path /\ \A p \in walker.left : In[p] = walker.dir
  BY WalkIs DEF IInv, Walker, InOneDirectory
<1>2. /\ CursorBack \in Seq(Directory) /\ Len(CursorBack) = Len(walker.pending) + 1
      /\ CursorBack[1] = walker.dir
      /\ \A i \in 1 .. Len(walker.pending) : CursorBack[i + 1] = walker.pending[i]
  BY <1>1 DEF CursorBack
<1>3. ASSUME NEW q \in Steady, Ahead(walker.pending, q) PROVE Ahead(CursorBack, q)
  <2>1. PICK i \in 1 .. Len(walker.pending) : walker.pending[i] \in {In[q], Root}
    BY <1>3 DEF Ahead
  <2>2. i + 1 \in 1 .. Len(CursorBack) /\ CursorBack[i + 1] \in {In[q], Root}
    BY <1>1, <1>2, <2>1
  <2> QED
    BY <2>2 DEF Ahead
<1>4. ASSUME NEW q \in Steady, InDirectory(walker, q) \/ walker.dir = Root PROVE Ahead(CursorBack, q)
  <2>1. CASE walker.dir = Root \/ walker.dir = In[q]
    BY <1>1, <1>2, <2>1 DEF Ahead
  <2>2. CASE q \in walker.left
    BY <1>1, <2>1, <2>2
  <2>3. CASE In[q] \in walker.left
    BY <1>1, <2>1, <2>3, CatalogAssumption, SteadyIs DEF Directory, Path
  <2> QED
    BY <1>4, <2>1, <2>2, <2>3 DEF InDirectory
<1> QED
  BY <1>2, <1>3, <1>4

\* Every way a walk ends.
LEMMA StopEnds ==
  ASSUME IInv, StopBetween \/ FailScan \/ StopWithin
  PROVE  \E cursor : \/ Ends(walker, "INTERRUPTED", cursor)
                     \/ Ends(walker, "FAILED", cursor)
<1>1. walker.pc \in {"walk", "list"} /\ walker \in Walker /\ walker # Idle /\ Spares(walker)
  <2>1. walker.pc \in {"walk", "list"}
    BY DEF StopBetween, FailScan, StopWithin
  <2> QED
    BY <2>1, WalkIs DEF IInv
<1>2. walker.pending \in Seq(Directory)
  BY <1>1 DEF Walker
<1>3. CASE StopBetween
  <2>1. walker.pc = "walk" /\ Finish(walker, "INTERRUPTED", walker.pending)
    BY <1>3 DEF StopBetween
  <2>2. \A q \in Steady : Reached(walker, q) => InHand(walker, q) \/ Ahead(walker.pending, q)
    BY <2>1 DEF Reached, InDirectory
  <2> QED
    BY <1>1, <1>2, <2>1, <2>2 DEF Ends
<1>4. CASE FailScan
  <2>1. walker.pending # <<>> /\ Finish(walker, "FAILED", Tail(walker.pending))
    BY <1>4 DEF FailScan
  <2>2. Tail(walker.pending) \in Seq(Directory)
    BY <1>2, <2>1
  <2> QED
    BY <1>1, <2>1, <2>2 DEF Ends
<1>5. CASE StopWithin
  <2>1. walker.pc = "list" /\ Finish(walker, "INTERRUPTED", CursorBack)
    BY <1>5 DEF StopWithin
  <2>2. /\ CursorBack \in Seq(Directory)
        /\ \A q \in Steady : Reached(walker, q) => InHand(walker, q) \/ Ahead(CursorBack, q)
    BY <2>1, CursorCovers DEF Reached
  <2> QED
    BY <1>1, <2>1, <2>2 DEF Ends
<1> QED
  BY <1>3, <1>4, <1>5

LEMMA LimitEnds ==
  ASSUME IInv, NEW p \in Path, VisitLast(p)
  PROVE  Ends(Visited(p), "INTERRUPTED", CursorBack)
<1>1. /\ walker.pc = "list" /\ p \in walker.left
      /\ Finish(Visited(p), "INTERRUPTED", CursorBack)
  BY DEF VisitLast
<1>2. /\ walker # Idle /\ walker.pending \in Seq(Directory)
      /\ p \in SubDir => walker.dir = Root
  <2>1. walker \in Walker /\ walker # Idle
    BY <1>1, WalkIs DEF IInv
  <2> QED
    BY <1>1, <2>1, CatalogAssumption DEF IInv, InOneDirectory, Walker
<1> DEFINE w == Visited(p)
<1>3. /\ w \in Walker /\ w.scan = walker.scan /\ w.gen = walker.gen /\ Spares(w) /\ w.pc = "list"
      /\ w.left \subseteq walker.left
      /\ \/ w.pending = walker.pending
         \/ p \in SubDir /\ w.pending = Append(walker.pending, p)
      /\ \A q \in Steady : Reached(walker, q) => Reached(w, q)
  BY <1>1, VisitedIs
<1> HIDE DEF w
<1>4. ASSUME NEW q \in Steady, Reached(w, q) PROVE InHand(w, q) \/ Ahead(CursorBack, q)
  <2>1. Ahead(walker.pending, q) \/ InDirectory(walker, q) \/ walker.dir = Root =>
          Ahead(CursorBack, q)
    BY <1>1, CursorCovers
  <2>2. InDirectory(w, q) => InDirectory(walker, q)
    BY <1>1, <1>3 DEF InDirectory
  <2>3. Ahead(w.pending, q) => Ahead(walker.pending, q) \/ walker.dir = Root
    BY <1>2, <1>3
  <2> QED
    BY <1>4, <2>1, <2>2, <2>3 DEF Reached
<1> QED
  BY <1>1, <1>2, <1>3, <1>4, CursorCovers DEF Ends, w

LEMMA CompleteEnds ==
  ASSUME IInv, Complete
  PROVE  Ends(walker, "COMPLETED", <<>>)
<1>1. walker.pc = "walk" /\ walker.pending = <<>> /\ Finish(walker, "COMPLETED", <<>>)
  BY DEF Complete
<1>2. walker \in Walker /\ walker # Idle /\ Spares(walker)
  BY <1>1, WalkIs DEF IInv
<1>3. \A q \in Steady : Reached(walker, q) => InHand(walker, q)
  BY <1>1 DEF Reached, Ahead, InDirectory
<1> QED
  BY <1>1, <1>2, <1>3 DEF Ends

LEMMA ScanKept == IInv /\ [Next]_vars => IInv'
<1> SUFFICES ASSUME IInv, [Next]_vars PROVE IInv'
  OBVIOUS
<1>1. ASSUME NEW r \in Request, Handle(r) PROVE IInv'
  BY <1>1, AskingKeeps, NewScanKeeps, ResumeKeeps DEF Handle
<1>2. CASE Cancel \/ Restart
  BY <1>2, AskingKeeps
<1>3. CASE WalkOn
  <2>1. CASE RootRefused
    BY <2>1, AskingKeeps
  <2>2. CASE Start \/ OpenDirectory \/ CloseDirectory
    BY <2>2, StepKeeps
  <2>3. CASE StopBetween \/ FailScan \/ StopWithin
    BY <2>3, StopEnds, EndKeeps
  <2>4. ASSUME NEW p \in Path, Visit(p) PROVE IInv'
    BY <2>4, VisitKeeps
  <2>5. ASSUME NEW p \in Path, VisitLast(p) PROVE IInv'
    BY <2>5, LimitEnds, EndKeeps
  <2>6. CASE Complete
    BY <2>6, CompleteEnds, EndKeeps
  <2> QED
    BY <1>3, <2>1, <2>2, <2>3, <2>4, <2>5, <2>6 DEF WalkOn
<1>4. ASSUME NEW p \in Path \cup {Root}, NEW v \in Sig \cup {"dir", "link", "absent"}, ChangeTree(p, v)
      PROVE  IInv'
  BY <1>4, ChangeKeeps
<1>5. CASE UNCHANGED vars
  <2>1. /\ UNCHANGED <<tree, source, entry, seenAll, scan, walker, task>>
        /\ scan \in [Scan -> ScanRow] /\ task \in [Request -> Nat \cup {None}]
    BY <1>5 DEF vars, IInv, TypeKept, TypeOK
  <2> QED
    BY <2>1, QuietKeeps
<1> QED
  BY <1>1, <1>2, <1>3, <1>4, <1>5 DEF Next

--------------------------------------------------------------------------------
(* The theorems. *)

LEMMA ScanAlways == Spec => []IInv
<1>1. Init => IInv
  BY ScanStarts
<1>2. IInv /\ [Next]_vars => IInv'
  BY ScanKept
<1> QED
  BY <1>1, <1>2, PTL DEF Spec

\* The scan rows, the walk and the requests are of their types, and the theorem
\* below holds.
THEOREM ScansAreInOrder == Spec => []ScansInOrder
<1>1. IInv => ScansInOrder
  <2> SUFFICES ASSUME IInv PROVE ScansInOrder
    OBVIOUS
  <2> DEFINE R == {s \in Scan : Running(s)}
  <2>1. \A s, t \in R : s = t
    <3>1. \A s \in R : s \in Scan /\ Running(s) /\ Live(s)
      BY DEF Running, Live
    <3>2. \A s, t \in R : s <= t /\ t <= s
      BY <3>1 DEF IInv, RowsInTurn
    <3> QED
      BY <3>1, <3>2 DEF Scan
  <2>2. Cardinality(R) <= 1
    <3>1. CASE R = {}
      BY <3>1, FS_EmptySet
    <3>2. CASE R # {}
      <4>1. PICK s : s \in R
        BY <3>2
      <4>2. R = {s}
        BY <2>1, <4>1
      <4> QED
        BY <4>2, FS_Singleton
    <3> QED
      BY <3>1, <3>2
  <2> QED
    BY <2>2 DEF IInv, TypeKept, RowsInTurn, ScansInOrder, OneScanAtATime
<1> QED
  BY <1>1, ScanAlways, PTL

\* begin_catalog_scan: at most one scan is under way and the walk is that scan's,
\* under its generation, however requests that read the source before interleave
\* with cancels, limits, resumes and restarts.
THEOREM OneScanUnderWay == Spec => []OneScanAtATime
<1>1. ScansInOrder => OneScanAtATime
  BY DEF ScansInOrder
<1> QED
  BY <1>1, ScansAreInOrder, PTL

\* Only the end of its walk completes a scan.
LEMMA CompletedBy ==
  ASSUME IInv, [Next]_vars, NEW s \in Scan, Running(s), scan'[s].status = "COMPLETED"
  PROVE  Complete /\ walker # Idle /\ walker.scan = s /\ Ends(walker, "COMPLETED", <<>>)
<1>1. scan # scan'
  BY DEF Running
<1>2. scan \in [Scan -> ScanRow]
  BY DEF IInv, TypeKept
<1>3. ~ \E r \in Request : Handle(r)
  BY <1>1 DEF Handle, ReadSource, RefuseScan, NewScan, ResumeScan, MayBegin
<1>4. ~Cancel
  <2> SUFFICES ASSUME Cancel PROVE FALSE
    OBVIOUS
  <2>1. scan'[s] = [scan[s] EXCEPT !.cancel = TRUE]
    BY DEF Cancel
  <2>2. scan[s] \in ScanRow
    BY <1>2
  <2> QED
    BY <2>1, <2>2 DEF ScanRow, Running
<1>5. ASSUME NEW w, NEW status, NEW cursor, Ends(w, status, cursor), status # "COMPLETED"
      PROVE  FALSE
  <2>1. w.scan = walker.scan /\ walker.scan \in Scan
    BY <1>5, WalkIsLast DEF Ends
  <2>2. scan' = [scan EXCEPT ![w.scan].status = status, ![w.scan].cursor = cursor]
    BY <1>5 DEF Ends, Finish
  <2>3. CASE s = w.scan
    <3>1. scan'[s] = [scan[s] EXCEPT !.status = status, !.cursor = cursor] /\ scan[s] \in ScanRow
      BY <1>2, <2>2, <2>3
    <3> QED
      BY <1>5, <3>1 DEF ScanRow
  <2>4. CASE s # w.scan
    BY <1>2, <2>1, <2>2, <2>4 DEF Running
  <2> QED
    BY <2>3, <2>4
<1>6. ~ (StopBetween \/ FailScan \/ StopWithin)
  BY <1>5, StopEnds
<1>7. ~ \E p \in Path : Visit(p) \/ VisitLast(p)
  BY <1>1, <1>5, LimitEnds DEF Visit
<1>8. ~ (\E p \in Path \cup {Root}, v \in Sig \cup {"dir", "link", "absent"} : ChangeTree(p, v))
      /\ ~Restart /\ vars' # vars
  BY <1>1 DEF ChangeTree, Restart, vars
<1>9. Complete
  BY <1>1, <1>3, <1>4, <1>6, <1>7, <1>8
  DEF Next, WalkOn, RootRefused, Start, OpenDirectory, CloseDirectory
<1>10. Ends(walker, "COMPLETED", <<>>) /\ walker # Idle /\ walker.scan \in Scan
  BY <1>9, CompleteEnds, WalkIsLast DEF Ends
<1>11. walker.scan = s
  <2>1. scan' = [scan EXCEPT ![walker.scan].status = "COMPLETED", ![walker.scan].cursor = <<>>]
    BY <1>10 DEF Ends, Finish
  <2> QED
    BY <1>2, <1>10, <2>1 DEF Running
<1> QED
  BY <1>9, <1>10, <1>11

\* A completed generation has met every file that was there all along and calls
\* none missing, as long as no scan since began under an older generation.
THEOREM CompletedScansMeetAll == Spec => CompletedMeetsAll
<1>1. ASSUME IInv, [Next]_vars, NEW s \in Scan,
             Running(s), scan'[s].status = "COMPLETED", InTurn(s), NEW p \in seenAll[s].steady
      PROVE  entry'[Norm[p]].gen >= scan[s].gen /\ entry'[Norm[p]].status # "MISSING"
  <2>1. walker # Idle /\ walker.scan = s /\ Ends(walker, "COMPLETED", <<>>)
    BY <1>1, CompletedBy
  <2>2. p \in Steady
    BY <1>1, SeenIsLive
  <2>3. MetIn(entry, s, p) \/ Reached(walker, p)
    BY <1>1, <2>1 DEF IInv, Covers
  <2>4. Reached(walker, p) => InHand(walker, p)
    BY <2>1, <2>2 DEF Ends
  <2>5. MetIn(entry', s, p)
    BY <1>1, <2>1, <2>3, <2>4, EndIs
  <2> QED
    BY <2>5 DEF MetIn
<1>2. IInv /\ [Next]_vars =>
        [\A s \in Scan :
           Running(s) /\ scan'[s].status = "COMPLETED" /\ InTurn(s) =>
             \A p \in seenAll[s].steady :
               entry'[Norm[p]].gen >= scan[s].gen /\ entry'[Norm[p]].status # "MISSING"]_vars
  BY <1>1
<1> QED
  BY <1>2, ScanAlways, PTL DEF Spec, CompletedMeetsAll

\* What was gone all along is no longer listed once a generation that was newer
\* than every row when it began is complete, across cancels, limits and resumes.
THEOREM VanishedIsNotListed == Spec => VanishedIsMissing
<1>1. ASSUME IInv, [Next]_vars, NEW s \in Scan,
             Running(s), scan'[s].status = "COMPLETED", seenAll[s].fresh,
             NEW k \in seenAll[s].gone
      PROVE  entry'[k].status \notin Listed
  <2>1. walker.scan = s /\ Ends(walker, "COMPLETED", <<>>)
    BY <1>1, CompletedBy
  <2> QED
    BY <1>1, <2>1, EndIs
<1>2. IInv /\ [Next]_vars =>
        [\A s \in Scan :
           Running(s) /\ scan'[s].status = "COMPLETED" /\ seenAll[s].fresh =>
             \A k \in seenAll[s].gone : entry'[k].status \notin Listed]_vars
  BY <1>1
<1> QED
  BY <1>2, ScanAlways, PTL DEF Spec, VanishedIsMissing

--------------------------------------------------------------------------------
(* The inductive invariant of the format probes. *)

Format == Magic \cup {"UNKNOWN"}
Kind == {"unread", "stat-error", "io-error", "read-error", "sampled"}
ProbeIdentity == [sig : Version, kind : Kind, sample : SampleType]
ProbeRow == [entry : Entry, attempt : Nat, identity : ProbeIdentity,
             status : Active \cup Terminal, format : Format, snap : Version]
Waiting == [pc : {"read"}, todo : Seq(Entry)]
Work == [pc : {"stat", "open", "sample", "compare", "begin", "mark", "finish"},
         todo : Seq(Entry), snap : Version, before : Version, sample : SampleType,
         kind : Kind, verdict : Terminal, probe : Nat]

ProbeTypeKept ==
  /\ file \in [Entry -> Version \cup {NoFile}]
  /\ newest \in [Entry -> Version]
  /\ dead \in [Entry -> SUBSET Version]
  /\ listed \in [Entry -> [status : Allowed \cup {"MISSING"}, sig : Version]]
  /\ probe \in Seq(ProbeRow) /\ Len(probe) <= MaxProbe
  /\ call \in [Call -> Work \cup Waiting \cup {IdleCall}]

\* A version that was written over is not the file's, nor a version to come.
FilesInOrder ==
  \A e \in Entry : /\ file[e] \notin dead[e] /\ file[e] <= newest[e]
                   /\ \A v \in dead[e] : v <= newest[e]

Finishing(c) == call[c].pc \in {"mark", "finish"}

\* What a call that finishes a row knows about it.
RowOf(c) ==
  /\ call[c].probe \in 1 .. Len(probe)
  /\ probe[call[c].probe].entry = Now(c)
  /\ probe[call[c].probe].snap = call[c].snap
  /\ probe[call[c].probe].identity = Identity(c)
  /\ probe[call[c].probe].status =
       IF call[c].verdict = "COMPLETED" /\ call[c].pc = "finish" THEN "PROBING" ELSE "PENDING"

CallInOrder(c) ==
  /\ call[c] \in Work => call[c].todo # <<>>
  /\ call[c].pc = "compare" =>
       call[c].before \in dead[Now(c)] \/ call[c].sample = Content[call[c].before]
  /\ call[c].pc \in {"begin", "mark", "finish"} /\ call[c].verdict = "COMPLETED" =>
       /\ call[c].kind = "sampled" /\ call[c].before = call[c].snap
       /\ call[c].sample = Content[call[c].snap]
  /\ call[c].pc = "mark" => call[c].verdict = "COMPLETED"
  /\ Finishing(c) => RowOf(c)

Served(i) ==
  \/ \E c \in Call : Finishing(c) /\ call[c].probe = i
  \/ probe[i].status = "PROBING" /\ Raises(probe[i].identity.sample)

RowInOrder(i) ==
  /\ probe[i].attempt \in 1 .. i
  /\ probe[i].status \in Active => Served(i)
  /\ probe[i].status = "COMPLETED" =>
       /\ probe[i].identity.sig = probe[i].snap
       /\ probe[i].format = Detected(Content[probe[i].snap])

\* Two calls never finish the same row.
FinishersApart ==
  \A c, d \in Call : Finishing(c) /\ Finishing(d) /\ call[c].probe = call[d].probe => c = d

ProbeIInv ==
  /\ ProbeTypeKept /\ FilesInOrder /\ OneProbeAtATime /\ FinishersApart
  /\ \A c \in Call : CallInOrder(c)
  /\ \A i \in 1 .. Len(probe) : RowInOrder(i)

--------------------------------------------------------------------------------
(* Rows, samples and calls. *)

LEMMA WorkIs ==
  ASSUME NEW w \in Work \cup Waiting \cup {IdleCall}
  PROVE  /\ w.pc \notin {"idle", "read"} => w \in Work
         /\ w \in Work => /\ w.pc \notin {"idle", "read"} /\ w # IdleCall
                          /\ w.todo \in Seq(Entry) /\ w.snap \in Version /\ w.before \in Version
                          /\ w.sample \in SampleType /\ w.kind \in Kind
                          /\ w.verdict \in Terminal /\ w.probe \in Nat
         /\ w.todo \in Seq(Entry)
<1>1. ASSUME w \in Work
      PROVE  /\ w.pc \notin {"idle", "read"}
             /\ w.todo \in Seq(Entry) /\ w.snap \in Version /\ w.before \in Version
             /\ w.sample \in SampleType /\ w.kind \in Kind
             /\ w.verdict \in Terminal /\ w.probe \in Nat
  BY <1>1 DEF Work
<1>2. ASSUME w \in Waiting PROVE w.pc = "read" /\ w.todo \in Seq(Entry)
  BY <1>2 DEF Waiting
<1>3. IdleCall.pc = "idle" /\ IdleCall.todo \in Seq(Entry)
  BY DEF IdleCall
<1> QED
  BY <1>1, <1>2, <1>3

\* The pick of a format is one of the detectors' or unknown.
LEMMA DetectedIs ==
  ASSUME NEW s \in SampleType
  PROVE  Detected(s) \in Format
<1>1. s.magic \in Magic
  BY DEF SampleType
<1>2. \A c \in Candidates(s) : c.format \in Magic
  BY <1>1 DEF Candidates
<1>3. CASE \E c \in High(Candidates(s)) : High(Candidates(s)) = {c}
  <2>1. (CHOOSE c \in High(Candidates(s)) : TRUE) \in High(Candidates(s))
    BY <1>3
  <2>2. (CHOOSE c \in High(Candidates(s)) : TRUE).format \in Magic
    BY <1>2, <2>1 DEF High
  <2> QED
    BY <1>3, <2>2 DEF Detected, Picked, Format
<1>4. CASE ~ \E c \in High(Candidates(s)) : High(Candidates(s)) = {c}
  BY <1>4 DEF Detected, Picked, Format
<1> QED
  BY <1>3, <1>4

\* The last attempt of an entry is the greatest, and no row is numbered beyond
\* its place.
LEMMA LastAttemptIs ==
  ASSUME ProbeIInv, NEW e \in Entry
  PROVE  /\ LastAttempt(e) \in 0 .. Len(probe)
         /\ \A i \in RowsOf(e) : probe[i].attempt <= LastAttempt(e)
<1>1. /\ Len(probe) \in Nat
      /\ \A i \in 1 .. Len(probe) : probe[i].attempt \in 1 .. Len(probe)
  BY DEF ProbeIInv, ProbeTypeKept, RowInOrder
<1>2. RowsOf(e) \subseteq 1 .. Len(probe)
  BY DEF RowsOf
<1>3. CASE RowsOf(e) = {}
  BY <1>1, <1>3 DEF LastAttempt
<1>4. CASE RowsOf(e) # {}
  <2> DEFINE A == {probe[i].attempt : i \in RowsOf(e)}
             Greatest(x) == \A y \in RowsOf(e) : probe[x].attempt >= probe[y].attempt
  <2>1. A \in SUBSET (1 .. Len(probe)) /\ A # {}
    BY <1>1, <1>2, <1>4
  <2>2. PICK a \in A : \A b \in A : a >= b
    BY <1>1, <2>1, GreatestNumber
  <2>3. \E x \in RowsOf(e) : Greatest(x)
    BY <2>2
  <2>4. PICK x \in RowsOf(e) : x = (CHOOSE y \in RowsOf(e) : Greatest(y)) /\ Greatest(x)
    <3> HIDE DEF Greatest
    <3> QED
      BY <2>3
  <2>5. LastAttempt(e) = probe[x].attempt
    BY <1>4, <2>4 DEF LastAttempt
  <2>6. \A y \in RowsOf(e) : probe[y].attempt <= probe[x].attempt
    BY <1>1, <1>2, <2>4
  <2> QED
    BY <1>1, <1>2, <2>5, <2>6
<1> QED
  BY <1>3, <1>4

\* The identity a working call stores.
LEMMA IdentityIs ==
  ASSUME NEW c \in Call, call[c] \in Work
  PROVE  Identity(c) \in ProbeIdentity
<1>1. call[c] \in Work \cup Waiting \cup {IdleCall}
  OBVIOUS
<1>2. NoSample \in SampleType /\ "sampled" \in Kind
  BY DEF NoSample, SampleType, Magic, Kind
<1> QED
  BY <1>1, <1>2, WorkIs DEF Identity, ProbeIdentity

\* A row with another status, or format, is a row.
LEMMA ProbeRowIs ==
  ASSUME NEW r \in ProbeRow, NEW s \in Active \cup Terminal, NEW f \in Format
  PROVE  /\ [r EXCEPT !.status = s] \in ProbeRow
         /\ [r EXCEPT !.status = s, !.format = f] \in ProbeRow
BY DEF ProbeRow

--------------------------------------------------------------------------------
(* When the invariant is kept. *)

LEMMA ProbesStart == ProbeInit => ProbeIInv
<1> SUFFICES ASSUME ProbeInit PROVE ProbeIInv
  OBVIOUS
<1>1. 1 \in Version /\ MaxProbe \in Nat
  BY ProbeAssumption DEF Version
<1>2. probe = <<>> /\ Len(probe) = 0 /\ \A c \in Call : call[c] = IdleCall
  BY DEF ProbeInit
<1>3. ProbeTypeKept
  <2>1. probe \in Seq(ProbeRow) /\ Len(probe) <= MaxProbe
    BY <1>1, <1>2
  <2>2. listed \in [Entry -> [status : Allowed \cup {"MISSING"}, sig : Version]]
    BY <1>1 DEF ProbeInit, Allowed
  <2>3. call \in [Call -> Work \cup Waiting \cup {IdleCall}]
    BY DEF ProbeInit
  <2>4. /\ file \in [Entry -> Version \cup {NoFile}] /\ newest \in [Entry -> Version]
        /\ dead \in [Entry -> SUBSET Version]
    BY <1>1 DEF ProbeInit
  <2> QED
    BY <2>1, <2>2, <2>3, <2>4 DEF ProbeTypeKept
<1>4. FilesInOrder
  <2>1. \A e \in Entry : file[e] = 1 /\ newest[e] = 1 /\ dead[e] = {}
    BY DEF ProbeInit
  <2> SUFFICES ASSUME NEW e \in Entry
               PROVE  /\ file[e] \notin dead[e] /\ file[e] <= newest[e]
                      /\ \A v \in dead[e] : v <= newest[e]
    BY DEF FilesInOrder
  <2>2. \A v \in dead[e] : FALSE
    BY <2>1
  <2> QED
    BY <2>1, <2>2
<1>5. \A c \in Call : call[c].pc = "idle" /\ call[c] \notin Work
  BY <1>2 DEF IdleCall, Work
<1>6. \A c \in Call : CallInOrder(c)
  BY <1>5 DEF CallInOrder, Finishing
<1>7. FinishersApart
  BY <1>5 DEF FinishersApart, Finishing
<1>8. OneProbeAtATime /\ \A i \in 1 .. Len(probe) : RowInOrder(i)
  BY <1>2 DEF OneProbeAtATime
<1> QED
  BY <1>3, <1>4, <1>6, <1>7, <1>8 DEF ProbeIInv

\* A call that goes on without touching its row.  One that finishes a row goes
\* on only when its sample makes a detector raise.
LEMMA CallKeeps ==
  ASSUME ProbeIInv, NEW c \in Call, NEW w \in Work \cup Waiting \cup {IdleCall},
         call' = [call EXCEPT ![c] = w], UNCHANGED <<world, probe>>,
         w.pc \notin {"mark", "finish"}, CallInOrder(c)',
         Finishing(c) => call[c].pc = "finish" /\ call[c].verdict = "COMPLETED"
                         /\ Raises(call[c].sample)
  PROVE  ProbeIInv'
<1>1. ProbeTypeKept'
  BY DEF ProbeIInv, ProbeTypeKept, world
<1>2. FilesInOrder' /\ OneProbeAtATime'
  BY DEF ProbeIInv, FilesInOrder, OneProbeAtATime, world
<1>3. call'[c] = w /\ \A d \in Call \ {c} : call'[d] = call[d]
  BY DEF ProbeIInv, ProbeTypeKept
<1>4. ~Finishing(c)' /\ \A d \in Call \ {c} : Finishing(d)' <=> Finishing(d)
  BY <1>3 DEF Finishing
<1>5. FinishersApart'
  BY <1>3, <1>4 DEF ProbeIInv, FinishersApart
<1>6. ASSUME NEW d \in Call PROVE CallInOrder(d)'
  <2>1. CASE d = c
    BY <2>1
  <2>2. CASE d # c
    <3>1. CallInOrder(d)
      BY DEF ProbeIInv
    <3>2. call'[d] = call[d] /\ Now(d)' = Now(d) /\ Identity(d)' = Identity(d)
          /\ (Finishing(d)' <=> Finishing(d)) /\ UNCHANGED <<dead, probe>>
      BY <1>3, <1>4, <2>2 DEF Now, Identity, world
    <3> QED
      BY <3>1, <3>2 DEF CallInOrder, RowOf
  <2> QED
    BY <2>1, <2>2
<1>7. ASSUME NEW i \in 1 .. Len(probe) PROVE RowInOrder(i)'
  <2>1. RowInOrder(i)
    BY DEF ProbeIInv
  <2>2. ASSUME probe[i].status \in Active PROVE Served(i)'
    <3>1. CASE probe[i].status = "PROBING" /\ Raises(probe[i].identity.sample)
      BY <3>1 DEF Served
    <3>2. CASE \E d \in Call \ {c} : Finishing(d) /\ call[d].probe = i
      BY <1>3, <1>4, <3>2 DEF Served
    <3>3. CASE Finishing(c) /\ call[c].probe = i
      <4>1. CallInOrder(c)
        BY DEF ProbeIInv
      <4>2. probe[i].status = "PROBING" /\ probe[i].identity = Identity(c) /\ call[c].kind = "sampled"
        BY <3>3, <4>1 DEF CallInOrder, RowOf
      <4>3. probe[i].identity.sample = call[c].sample
        BY <4>2 DEF Identity
      <4> QED
        BY <3>1, <3>3, <4>2, <4>3
    <3> QED
      BY <2>1, <2>2, <3>1, <3>2, <3>3 DEF RowInOrder, Served
  <2> QED
    BY <2>1, <2>2 DEF RowInOrder
<1> QED
  BY <1>1, <1>2, <1>5, <1>6, <1>7 DEF ProbeIInv

\* The head of a file is sampled: what a call does up to begin_format_probe.
LEMMA SamplingKeeps ==
  ASSUME ProbeIInv, NEW c \in Call,
         \/ ReadEntry(c) \/ Stat(c) \/ StatFails(c) \/ OpenFile(c)
         \/ (\E v \in Version : Sample(c, v)) \/ Compare(c)
  PROVE  ProbeIInv'
<1>1. /\ call[c] \in Work \cup Waiting \cup {IdleCall} /\ CallInOrder(c)
      /\ FilesInOrder
      /\ call \in [Call -> Work \cup Waiting \cup {IdleCall}]
      /\ dead \in [Entry -> SUBSET Version] /\ newest \in [Entry -> Version]
      /\ file \in [Entry -> Version \cup {NoFile}]
  BY DEF ProbeIInv, ProbeTypeKept
<1>2. call[c].pc \in {"read", "stat", "open", "sample", "compare"} /\ UNCHANGED <<world, probe>>
  BY DEF ReadEntry, Stat, StatFails, OpenFile, Sample, Compare
<1>3. ~Finishing(c)
  BY <1>2 DEF Finishing
<1>4. call[c].todo # <<>> /\ Now(c) \in Entry
  <2>1. call[c].todo # <<>>
    BY <1>1, <1>2, WorkIs DEF CallInOrder, ReadEntry, Stat, StatFails, OpenFile, Sample, Compare
  <2> QED
    BY <1>1, <2>1, WorkIs DEF Now
\* It is enough to know the call's next record.
<1>5. ASSUME NEW w \in Work, call' = [call EXCEPT ![c] = w], w.todo = call[c].todo,
             w.pc \notin {"mark", "finish"},
             w.pc = "compare" => w.before \in dead[Now(c)] \/ w.sample = Content[w.before],
             w.pc = "begin" /\ w.verdict = "COMPLETED" =>
               w.kind = "sampled" /\ w.before = w.snap /\ w.sample = Content[w.snap]
      PROVE  ProbeIInv'
  <2>1. call'[c] = w
    BY <1>1, <1>5
  <2>2. Now(c)' = Now(c) /\ dead' = dead /\ ~Finishing(c)'
    BY <1>2, <1>5, <2>1 DEF Now, Finishing, world
  <2>3. CallInOrder(c)'
    BY <1>4, <1>5, <2>1, <2>2 DEF CallInOrder
  <2> QED
    BY <1>2, <1>3, <1>5, <2>3, CallKeeps
<1>6. CASE ReadEntry(c)
  <2> DEFINE e == listed[Now(c)]
             w == IF e.status \in Allowed
                  THEN Working(c, "stat", e.sig, e.sig, NoSample, "unread", "COMPLETED")
                  ELSE Working(c, "begin", e.sig, e.sig, NoSample, "unread", "REJECTED")
  <2>1. e.sig \in Version
    BY <1>4 DEF ProbeIInv, ProbeTypeKept
  <2>2. NoSample \in SampleType
    BY DEF NoSample, SampleType, Magic
  <2>3. call[c].todo \in Seq(Entry)
    BY <1>1, WorkIs
  <2> HIDE DEF e
  <2>4. /\ w \in Work /\ w.todo = call[c].todo /\ w.pc \in {"stat", "begin"}
        /\ w.pc = "begin" => w.verdict = "REJECTED"
    BY <2>1, <2>2, <2>3 DEF Working, Work, Kind, Terminal
  <2>5. call' = [call EXCEPT ![c] = w]
    BY <1>6 DEF ReadEntry, e
  <2> QED
    BY <1>5, <2>4, <2>5
<1>7. ASSUME call[c].pc # "read" PROVE call[c] \in Work
  BY <1>1, <1>2, <1>7, WorkIs
<1>8. CASE Stat(c)
  <2>1. call[c] \in Work
    BY <1>7, <1>8 DEF Stat
  <2>2. CASE file[Now(c)] = NoFile
    <3> DEFINE w == [call[c] EXCEPT !.pc = "begin", !.verdict = "REJECTED"]
    <3>1. w \in Work /\ w.todo = call[c].todo /\ w.pc = "begin" /\ w.verdict = "REJECTED"
      BY <2>1 DEF Work, Terminal
    <3>2. call' = [call EXCEPT ![c] = w]
      BY <1>8, <2>2 DEF Stat
    <3> QED
      BY <1>5, <3>1, <3>2
  <2>3. CASE file[Now(c)] # NoFile
    <3> DEFINE w == [call[c] EXCEPT !.pc = "open", !.before = file[Now(c)]]
    <3>1. file[Now(c)] \in Version
      BY <1>1, <1>4, <2>3
    <3>2. w \in Work /\ w.todo = call[c].todo /\ w.pc = "open"
      BY <2>1, <3>1 DEF Work
    <3>3. call' = [call EXCEPT ![c] = w]
      BY <1>8, <2>3 DEF Stat
    <3> QED
      BY <1>5, <3>2, <3>3
  <2> QED
    BY <2>2, <2>3
\* A call that gives up its sample.
<1>9. ASSUME NEW k \in Kind, NEW r \in Terminal, r # "COMPLETED", call[c] \in Work,
             call' = [call EXCEPT ![c] = [call[c] EXCEPT !.pc = "begin", !.kind = k, !.verdict = r]]
      PROVE  ProbeIInv'
  <2> DEFINE w == [call[c] EXCEPT !.pc = "begin", !.kind = k, !.verdict = r]
  <2>1. w \in Work /\ w.todo = call[c].todo /\ w.pc = "begin" /\ w.verdict = r
    BY <1>9 DEF Work
  <2>2. call' = [call EXCEPT ![c] = w]
    BY <1>9
  <2> QED
    BY <1>5, <1>9, <2>1, <2>2
<1>10. /\ {"stat-error", "io-error", "read-error", "sampled"} \subseteq Kind
       /\ {"FAILED", "STALE", "COMPLETED"} \subseteq Terminal
  BY DEF Kind, Terminal
<1>11. CASE StatFails(c)
  <2>1. call[c] \in Work
    BY <1>7, <1>11 DEF StatFails
  <2>2. call' = [call EXCEPT ![c] = [call[c] EXCEPT !.pc = "begin", !.kind = "stat-error",
                                                    !.verdict = "FAILED"]]
    BY <1>1, <1>11, <2>1 DEF StatFails, Work
  <2> QED
    BY <1>9, <1>10, <2>1, <2>2
<1>12. CASE OpenFile(c)
  <2>1. call[c] \in Work
    BY <1>7, <1>12 DEF OpenFile
  <2>2. CASE file[Now(c)] = NoFile
    BY <1>9, <1>10, <1>12, <2>1, <2>2 DEF OpenFile
  <2>3. CASE file[Now(c)] # NoFile /\ file[Now(c)] # call[c].before
    BY <1>9, <1>10, <1>12, <2>1, <2>3 DEF OpenFile
  <2>4. CASE file[Now(c)] # NoFile /\ file[Now(c)] = call[c].before
    <3> DEFINE w == [call[c] EXCEPT !.pc = "sample"]
    <3>1. w \in Work /\ w.todo = call[c].todo /\ w.pc = "sample"
      BY <2>1 DEF Work
    <3>2. call' = [call EXCEPT ![c] = w]
      BY <1>12, <2>4 DEF OpenFile
    <3> QED
      BY <1>5, <3>1, <3>2
  <2> QED
    BY <2>2, <2>3, <2>4
<1>13. ASSUME NEW v \in Version, Sample(c, v) PROVE ProbeIInv'
  <2>1. call[c] \in Work /\ Content[v] \in SampleType
    BY <1>7, <1>13, ProbeAssumption DEF Sample
  <2> DEFINE w == [call[c] EXCEPT !.pc = "compare", !.sample = Content[v]]
  <2>2. /\ w \in Work /\ w.todo = call[c].todo /\ w.pc = "compare"
        /\ w.before = call[c].before /\ w.sample = Content[v]
    BY <2>1 DEF Work
  <2>3. call' = [call EXCEPT ![c] = w]
    BY <1>1, <1>13, <2>1 DEF Sample, Work
  <2>4. call[c].before \in dead[Now(c)] \/ v = call[c].before
    BY <1>13 DEF Sample
  <2> QED
    BY <1>5, <2>2, <2>3, <2>4
<1>14. CASE Compare(c)
  <2>1. call[c] \in Work
    BY <1>7, <1>14 DEF Compare
  <2>2. CASE file[Now(c)] = NoFile
    BY <1>9, <1>10, <1>14, <2>1, <2>2 DEF Compare
  <2>3. CASE file[Now(c)] # NoFile /\ (call[c].before # call[c].snap \/ ChangedSince(c))
    BY <1>9, <1>10, <1>14, <2>1, <2>3 DEF Compare
  <2>4. CASE file[Now(c)] # NoFile /\ ~(call[c].before # call[c].snap \/ ChangedSince(c))
    <3> DEFINE w == [call[c] EXCEPT !.pc = "begin", !.kind = "sampled", !.verdict = "COMPLETED"]
    <3>1. /\ w \in Work /\ w.todo = call[c].todo /\ w.pc = "begin" /\ w.kind = "sampled"
          /\ w.before = call[c].before /\ w.snap = call[c].snap /\ w.sample = call[c].sample
      BY <1>10, <2>1 DEF Work
    <3>2. call' = [call EXCEPT ![c] = w]
      BY <1>14, <2>4 DEF Compare
    <3>3. call[c].before = call[c].snap /\ call[c].sample = Content[call[c].before]
      BY <1>1, <1>4, <1>14, <2>4 DEF Compare, CallInOrder, FilesInOrder, ChangedSince
    <3> QED
      BY <1>5, <3>1, <3>2, <3>3
  <2> QED
    BY <2>2, <2>3, <2>4
<1> QED
  BY <1>6, <1>8, <1>11, <1>12, <1>13, <1>14

\* The other steps of a call that write no row.
LEMMA TurningKeeps ==
  ASSUME ProbeIInv, NEW c \in Call,
         \/ (\E b \in Batch : Accept(c, b)) \/ Reuse(c) \/ RefuseProbe(c)
         \/ DetectorRaises(c) \/ Answer(c)
  PROVE  ProbeIInv'
<1>1. /\ call \in [Call -> Work \cup Waiting \cup {IdleCall}] /\ CallInOrder(c)
      /\ call[c] \in Work \cup Waiting \cup {IdleCall}
  BY DEF ProbeIInv, ProbeTypeKept
<1>2. ASSUME NEW w \in Waiting \cup {IdleCall}, call' = [call EXCEPT ![c] = w],
             UNCHANGED <<world, probe>>, call[c].pc # "mark",
             call[c].pc = "finish" => call[c].verdict = "COMPLETED" /\ Raises(call[c].sample)
      PROVE  ProbeIInv'
  <2>1. call'[c] = w
    BY <1>1, <1>2
  <2>2. w.pc \in {"idle", "read"} /\ w \notin Work
    BY DEF Waiting, IdleCall, Work
  <2>3. CallInOrder(c)'
    BY <2>1, <2>2 DEF CallInOrder, Finishing
  <2> QED
    BY <1>2, <2>2, <2>3, CallKeeps DEF Finishing
<1>3. ASSUME NEW b \in Batch, Accept(c, b) PROVE ProbeIInv'
  <2> DEFINE w == [IdleCall EXCEPT !.pc = "read", !.todo = b]
  <2>1. w \in Waiting
    BY ProbeAssumption DEF Waiting, IdleCall
  <2>2. call' = [call EXCEPT ![c] = w] /\ UNCHANGED <<world, probe>>
    BY <1>3 DEF Accept
  <2>3. call[c].pc = "idle"
    <3>1. call[c] = IdleCall
      BY <1>3 DEF Accept
    <3> QED
      BY <3>1 DEF IdleCall
  <2> QED
    BY <1>2, <2>1, <2>2, <2>3
<1>4. CASE Reuse(c)
  <2>1. call[c].todo \in Seq(Entry) /\ call[c].todo # <<>>
    BY <1>1, <1>4, WorkIs DEF Reuse, CallInOrder
  <2>2. Proceed(c) \in Waiting
    BY <2>1 DEF Proceed, Waiting
  <2> QED
    BY <1>2, <1>4, <2>2 DEF Reuse
<1>5. CASE RefuseProbe(c)
  BY <1>2, <1>5 DEF RefuseProbe
<1>6. CASE DetectorRaises(c)
  BY <1>2, <1>6 DEF DetectorRaises
<1>7. CASE Answer(c)
  BY <1>2, <1>7 DEF Answer, Through
<1> QED
  BY <1>3, <1>4, <1>5, <1>6, <1>7

\* begin_format_probe with a row of its own.
LEMMA BeginKeeps ==
  ASSUME ProbeIInv, NEW c \in Call, Begin(c)
  PROVE  ProbeIInv'
<1> DEFINE n == Len(probe) + 1
           w == [call[c] EXCEPT !.probe = n,
                                !.pc = IF call[c].verdict = "COMPLETED" THEN "mark" ELSE "finish"]
<1>1. /\ call \in [Call -> Work \cup Waiting \cup {IdleCall}] /\ CallInOrder(c)
      /\ probe \in Seq(ProbeRow) /\ Len(probe) \in Nat
      /\ call[c] \in Work /\ call[c].pc = "begin" /\ MaxProbe \in Nat /\ n <= MaxProbe
  <2>1. call[c].pc = "begin" /\ Len(probe) < MaxProbe
    BY DEF Begin
  <2> QED
    BY <2>1, WorkIs, ProbeAssumption DEF ProbeIInv, ProbeTypeKept
<1>2. call[c].todo \in Seq(Entry) /\ call[c].todo # <<>> /\ Now(c) \in Entry
  BY <1>1, WorkIs DEF CallInOrder, Now
<1>3. /\ LastAttempt(Now(c)) \in 0 .. Len(probe)
      /\ \A i \in RowsOf(Now(c)) : probe[i].attempt <= LastAttempt(Now(c))
  BY <1>2, LastAttemptIs
<1>4. PICK row \in ProbeRow :
        /\ row.entry = Now(c) /\ row.attempt = LastAttempt(Now(c)) + 1
        /\ row.identity = Identity(c) /\ row.status = "PENDING" /\ row.snap = call[c].snap
        /\ probe' = Append(probe, row)
  <2>1. Identity(c) \in ProbeIdentity /\ call[c].snap \in Version
    BY <1>1, IdentityIs, WorkIs
  <2>2. NewRow(c) \in ProbeRow
    BY <1>2, <1>3, <2>1 DEF NewRow, ProbeRow, Active, Format
  <2> QED
    BY <2>2 DEF NewRow, Begin
<1>5. /\ Len(probe') = n /\ probe'[n] = row /\ probe' \in Seq(ProbeRow)
      /\ \A i \in 1 .. Len(probe) : probe'[i] = probe[i]
  BY <1>1, <1>4
<1>6. /\ w \in Work /\ w.todo = call[c].todo /\ w.snap = call[c].snap /\ w.before = call[c].before
      /\ w.sample = call[c].sample /\ w.kind = call[c].kind /\ w.verdict = call[c].verdict
      /\ w.probe = n /\ w.pc = IF call[c].verdict = "COMPLETED" THEN "mark" ELSE "finish"
  <2>1. PICK s \in {"mark", "finish"} : s = IF call[c].verdict = "COMPLETED" THEN "mark" ELSE "finish"
    OBVIOUS
  <2>2. w = [call[c] EXCEPT !.probe = n, !.pc = s] /\ n \in Nat
    BY <1>1, <2>1
  <2> HIDE DEF w, n
  <2>3. w \in Work
    BY <1>1, <2>2 DEF Work
  <2>4. /\ w.todo = call[c].todo /\ w.snap = call[c].snap /\ w.before = call[c].before
        /\ w.sample = call[c].sample /\ w.kind = call[c].kind /\ w.verdict = call[c].verdict
        /\ w.probe = n /\ w.pc = s
    BY <1>1, <2>2 DEF Work
  <2> QED
    BY <2>1, <2>3, <2>4
<1>7. call' = [call EXCEPT ![c] = w] /\ UNCHANGED world
  BY <1>1 DEF Begin, Work
<1> HIDE DEF w
<1>8. /\ call'[c] = w /\ \A d \in Call \ {c} : call'[d] = call[d]
      /\ Finishing(c)' /\ ~Finishing(c) /\ Now(c)' = Now(c) /\ Identity(c)' = Identity(c)
      /\ \A d \in Call \ {c} : /\ Finishing(d)' <=> Finishing(d)
                               /\ Now(d)' = Now(d) /\ Identity(d)' = Identity(d)
  <2>1. call'[c] = w /\ \A d \in Call \ {c} : call'[d] = call[d]
    BY <1>1, <1>7
  <2>2. Finishing(c)' /\ ~Finishing(c) /\ Now(c)' = Now(c) /\ Identity(c)' = Identity(c)
    BY <1>1, <1>6, <2>1 DEF Finishing, Now, Identity
  <2>3. \A d \in Call \ {c} : /\ Finishing(d)' <=> Finishing(d)
                              /\ Now(d)' = Now(d) /\ Identity(d)' = Identity(d)
    BY <2>1 DEF Finishing, Now, Identity
  <2> QED
    BY <2>1, <2>2, <2>3
<1>9. ProbeTypeKept'
  BY <1>1, <1>5, <1>6, <1>7 DEF ProbeIInv, ProbeTypeKept, world
<1>10. FilesInOrder'
  BY <1>7 DEF ProbeIInv, FilesInOrder, world
<1>11. OneProbeAtATime'
  <2>1. ASSUME NEW i \in 1 .. Len(probe), probe[i].entry = Now(c)
        PROVE  probe[i].status \notin Active /\ probe[i].attempt < row.attempt
    <3>1. i \in RowsOf(Now(c))
      BY <2>1 DEF RowsOf
    <3>2. probe[i].status \notin Active
      BY <3>1 DEF Begin, Busy, ActiveRows
    <3>3. probe[i].attempt \in Nat
      <4>1. probe[i] \in ProbeRow
        BY <1>1
      <4> QED
        BY <4>1 DEF ProbeRow
    <3> QED
      BY <1>1, <1>3, <1>4, <3>1, <3>2, <3>3
  <2>3. ASSUME NEW i \in 1 .. n, NEW j \in 1 .. n, i # j, probe'[i].entry = probe'[j].entry
        PROVE  /\ probe'[i].attempt # probe'[j].attempt
               /\ probe'[i].status \in Active => probe'[j].status \notin Active
    <3>1. CASE i = n
      <4>1. j \in 1 .. Len(probe) /\ probe[j].entry = Now(c)
        BY <1>1, <1>4, <1>5, <2>3, <3>1
      <4> QED
        BY <1>3, <1>4, <1>5, <2>1, <3>1, <4>1
    <3>2. CASE j = n
      <4>1. i \in 1 .. Len(probe) /\ probe[i].entry = Now(c)
        BY <1>1, <1>4, <1>5, <2>3, <3>2
      <4> QED
        BY <1>3, <1>4, <1>5, <2>1, <3>2, <4>1
    <3>3. CASE i # n /\ j # n
      <4>1. i \in 1 .. Len(probe) /\ j \in 1 .. Len(probe)
        BY <1>1, <3>3
      <4> QED
        BY <1>5, <2>3, <4>1 DEF ProbeIInv, OneProbeAtATime
    <3> QED
      BY <3>1, <3>2, <3>3
  <2> QED
    BY <1>5, <2>3 DEF OneProbeAtATime
<1>12. \A d \in Call \ {c} : Finishing(d) => call[d].probe \in 1 .. Len(probe) /\ call[d].probe # n
  BY <1>1 DEF ProbeIInv, CallInOrder, RowOf
<1>13. FinishersApart'
  BY <1>6, <1>8, <1>12 DEF ProbeIInv, FinishersApart
<1>14. ASSUME NEW d \in Call PROVE CallInOrder(d)'
  <2>1. CASE d = c
    <3>1. n \in 1 .. n
      BY <1>1
    <3>2. RowOf(c)'
      BY <1>4, <1>5, <1>6, <1>8, <3>1 DEF RowOf
    <3>3. call[c].verdict = "COMPLETED" =>
            /\ call[c].kind = "sampled" /\ call[c].before = call[c].snap
            /\ call[c].sample = Content[call[c].snap]
      BY <1>1 DEF CallInOrder
    <3>4. CallInOrder(c)'
      BY <1>2, <1>6, <1>8, <3>2, <3>3 DEF CallInOrder
    <3> QED
      BY <2>1, <3>4
  <2>2. CASE d # c
    <3>1. CallInOrder(d) /\ dead' = dead /\ call'[d] = call[d]
      BY <1>7, <1>8, <2>2 DEF ProbeIInv, world
    <3>2. RowOf(d) => RowOf(d)'
      BY <1>1, <1>5, <1>8, <2>2, <3>1 DEF RowOf
    <3> QED
      BY <1>8, <2>2, <3>1, <3>2 DEF CallInOrder
  <2> QED
    BY <2>1, <2>2
<1>15. ASSUME NEW i \in 1 .. n PROVE RowInOrder(i)'
  <2>1. CASE i = n
    <3>1. Served(i)'
      BY <1>6, <1>8, <2>1 DEF Served
    <3> QED
      BY <1>1, <1>3, <1>4, <1>5, <2>1, <3>1 DEF RowInOrder
  <2>2. CASE i # n
    <3>1. i \in 1 .. Len(probe) /\ probe'[i] = probe[i]
      BY <1>1, <1>5, <2>2
    <3>2. RowInOrder(i)
      BY <3>1 DEF ProbeIInv
    <3>3. Served(i) => Served(i)'
      BY <1>8, <3>1 DEF Served
    <3> QED
      BY <3>1, <3>2, <3>3 DEF RowInOrder
  <2> QED
    BY <2>1, <2>2
<1> QED
  BY <1>5, <1>9, <1>10, <1>11, <1>13, <1>14, <1>15 DEF ProbeIInv

\* mark_format_probe_probing and complete_format_probe: the call writes its row.
LEMMA WritingKeeps ==
  ASSUME ProbeIInv, NEW c \in Call, Finishing(c), NEW r \in ProbeRow,
         NEW w \in Work \cup Waiting \cup {IdleCall},
         probe' = [probe EXCEPT ![call[c].probe] = r],
         r.entry = probe[call[c].probe].entry, r.attempt = probe[call[c].probe].attempt,
         r.status \in Active => Finishing(c)' /\ w.probe = call[c].probe,
         Finishing(c)' => w.probe = call[c].probe,
         r.status = "COMPLETED" => r.identity.sig = r.snap /\ r.format = Detected(Content[r.snap]),
         call' = [call EXCEPT ![c] = w], UNCHANGED world, CallInOrder(c)'
  PROVE  ProbeIInv'
<1> DEFINE n == call[c].probe
<1>1. /\ probe \in Seq(ProbeRow) /\ Len(probe) \in Nat /\ CallInOrder(c)
      /\ call \in [Call -> Work \cup Waiting \cup {IdleCall}]
  BY DEF ProbeIInv, ProbeTypeKept
<1>2. RowOf(c) /\ n \in 1 .. Len(probe) /\ probe[n].status \in Active
  BY <1>1 DEF CallInOrder, RowOf, Active
<1>3. /\ Len(probe') = Len(probe) /\ probe'[n] = r /\ probe' \in Seq(ProbeRow)
      /\ \A i \in 1 .. Len(probe) : i # n => probe'[i] = probe[i]
  BY <1>1, <1>2
<1>4. /\ call'[c] = w /\ \A d \in Call \ {c} : call'[d] = call[d]
      /\ \A d \in Call \ {c} : /\ Finishing(d)' <=> Finishing(d)
                               /\ Now(d)' = Now(d) /\ Identity(d)' = Identity(d)
  <2>1. call'[c] = w /\ \A d \in Call \ {c} : call'[d] = call[d]
    BY <1>1
  <2> QED
    BY <2>1 DEF Finishing, Now, Identity
<1>5. \A d \in Call \ {c} : Finishing(d) => call[d].probe # n
  BY DEF ProbeIInv, FinishersApart
<1>6. ProbeTypeKept' /\ FilesInOrder'
  <2>1. ProbeTypeKept'
    BY <1>3 DEF ProbeIInv, ProbeTypeKept, world
  <2> QED
    BY <2>1 DEF ProbeIInv, FilesInOrder, world
<1>7. OneProbeAtATime'
  <2>1. \A i \in 1 .. Len(probe) :
          /\ probe'[i].entry = probe[i].entry /\ probe'[i].attempt = probe[i].attempt
          /\ probe'[i].status \in Active => probe[i].status \in Active
    BY <1>2, <1>3
  <2> QED
    BY <1>3, <2>1 DEF ProbeIInv, OneProbeAtATime
<1>8. FinishersApart'
  BY <1>4, <1>5 DEF ProbeIInv, FinishersApart
<1>9. ASSUME NEW d \in Call PROVE CallInOrder(d)'
  <2>1. CASE d = c
    BY <2>1
  <2>2. CASE d # c
    <3>1. CallInOrder(d) /\ dead' = dead /\ call'[d] = call[d]
      BY <1>4, <2>2 DEF ProbeIInv, world
    <3>2. Finishing(d) /\ RowOf(d) => RowOf(d)'
      BY <1>3, <1>4, <1>5, <2>2, <3>1 DEF RowOf
    <3> QED
      BY <1>4, <2>2, <3>1, <3>2 DEF CallInOrder
  <2> QED
    BY <2>1, <2>2
<1>10. ASSUME NEW i \in 1 .. Len(probe) PROVE RowInOrder(i)'
  <2>1. RowInOrder(i)
    BY DEF ProbeIInv
  <2>2. CASE i = n
    <3>1. r.status \in Active => Served(i)'
      BY <1>4, <2>2 DEF Served
    <3> QED
      BY <1>3, <2>1, <2>2, <3>1 DEF RowInOrder
  <2>3. CASE i # n
    <3>1. probe'[i] = probe[i]
      BY <1>3, <2>3
    <3>2. Served(i) => Served(i)'
      BY <1>4, <2>3, <3>1 DEF Served
    <3> QED
      BY <2>1, <3>1, <3>2 DEF RowInOrder
  <2> QED
    BY <2>2, <2>3
<1> QED
  BY <1>3, <1>6, <1>7, <1>8, <1>9, <1>10 DEF ProbeIInv

\* What the call that finishes a row knows about it.
LEMMA FinishingIs ==
  ASSUME ProbeIInv, NEW c \in Call, call[c].pc \in {"mark", "finish"}
  PROVE  /\ Finishing(c) /\ CallInOrder(c) /\ RowOf(c) /\ call[c] \in Work
         /\ call[c].probe \in 1 .. Len(probe) /\ probe[call[c].probe] \in ProbeRow
         /\ call[c].todo \in Seq(Entry) /\ call[c].todo # <<>>
<1>1. call[c] \in Work \cup Waiting \cup {IdleCall} /\ CallInOrder(c) /\ probe \in Seq(ProbeRow)
  BY DEF ProbeIInv, ProbeTypeKept
<1>2. call[c] \in Work /\ call[c].todo \in Seq(Entry) /\ Finishing(c)
  BY <1>1, WorkIs DEF Finishing
<1>3. RowOf(c) /\ call[c].todo # <<>>
  BY <1>1, <1>2 DEF CallInOrder
<1>4. call[c].probe \in 1 .. Len(probe)
  BY <1>3 DEF RowOf
<1> QED
  BY <1>1, <1>2, <1>3, <1>4

LEMMA MarkKeeps ==
  ASSUME ProbeIInv, NEW c \in Call, Mark(c)
  PROVE  ProbeIInv'
<1> DEFINE n == call[c].probe
<1>1. /\ Finishing(c) /\ CallInOrder(c) /\ RowOf(c) /\ call[c] \in Work
      /\ n \in 1 .. Len(probe) /\ probe[n] \in ProbeRow /\ call[c].todo # <<>>
      /\ call[c].pc = "mark" /\ call[c].verdict = "COMPLETED" /\ probe \in Seq(ProbeRow)
      /\ call \in [Call -> Work \cup Waiting \cup {IdleCall}]
  BY FinishingIs DEF Mark, CallInOrder, ProbeIInv, ProbeTypeKept
<1>2. PICK r \in ProbeRow : r = [probe[n] EXCEPT !.status = "PROBING"]
  BY <1>1, ProbeRowIs DEF Active, ProbeRow
<1>3. PICK w \in Work : w = [call[c] EXCEPT !.pc = "finish"]
  BY <1>1 DEF Work
<1>4. /\ r.entry = probe[n].entry /\ r.attempt = probe[n].attempt /\ r.status = "PROBING"
      /\ r.identity = probe[n].identity /\ r.snap = probe[n].snap
  BY <1>1, <1>2 DEF ProbeRow
<1>5. /\ w.todo = call[c].todo /\ w.snap = call[c].snap /\ w.before = call[c].before
      /\ w.sample = call[c].sample /\ w.kind = call[c].kind /\ w.verdict = call[c].verdict
      /\ w.probe = n /\ w.pc = "finish"
  BY <1>1, <1>3 DEF Work
<1>6. probe' = [probe EXCEPT ![n] = r] /\ call' = [call EXCEPT ![c] = w] /\ UNCHANGED world
  <2>1. probe' = [probe EXCEPT ![n].status = "PROBING"] /\ call' = [call EXCEPT ![c].pc = "finish"]
        /\ UNCHANGED world
    BY DEF Mark
  <2> QED
    BY <1>1, <1>2, <1>3, <2>1
<1>7. call'[c] = w /\ probe'[n] = r /\ Len(probe') = Len(probe)
  BY <1>1, <1>6
<1>8. Finishing(c)' /\ Now(c)' = Now(c) /\ Identity(c)' = Identity(c)
  BY <1>5, <1>7 DEF Finishing, Now, Identity
<1>9. CallInOrder(c)'
  <2>1. RowOf(c)'
    BY <1>1, <1>4, <1>5, <1>7, <1>8 DEF RowOf
  <2> QED
    BY <1>1, <1>5, <1>7, <1>8, <2>1 DEF CallInOrder
<1> QED
  BY <1>1, <1>4, <1>5, <1>6, <1>8, <1>9, WritingKeeps

LEMMA CompleteKeeps ==
  ASSUME ProbeIInv, NEW c \in Call, CompleteProbe(c)
  PROVE  ProbeIInv'
<1> DEFINE n == call[c].probe
           verdict == call[c].verdict
<1>1. /\ Finishing(c) /\ CallInOrder(c) /\ RowOf(c) /\ call[c] \in Work
      /\ n \in 1 .. Len(probe) /\ probe[n] \in ProbeRow
      /\ call[c].todo \in Seq(Entry) /\ call[c].todo # <<>> /\ probe \in Seq(ProbeRow)
      /\ call \in [Call -> Work \cup Waiting \cup {IdleCall}]
      /\ verdict \in Terminal /\ call[c].sample \in SampleType
  BY FinishingIs, WorkIs DEF CompleteProbe, ProbeIInv, ProbeTypeKept
<1>2. PICK f \in Format :
        f = IF verdict = "COMPLETED" THEN Detected(call[c].sample) ELSE "UNKNOWN"
  BY <1>1, DetectedIs DEF Format
<1>3. PICK r \in ProbeRow : r = [probe[n] EXCEPT !.status = verdict, !.format = f]
  BY <1>1, <1>2 DEF ProbeRow
<1>4. /\ r.entry = probe[n].entry /\ r.attempt = probe[n].attempt /\ r.status = verdict
      /\ r.identity = probe[n].identity /\ r.snap = probe[n].snap /\ r.format = f
  BY <1>1, <1>3 DEF ProbeRow
<1>5. Proceed(c) \in Waiting
  BY <1>1 DEF Proceed, Waiting
<1>6. /\ probe' = [probe EXCEPT ![n] = r] /\ call' = [call EXCEPT ![c] = Proceed(c)]
      /\ UNCHANGED world
  <2>1. /\ probe' = [probe EXCEPT ![n].status = verdict, ![n].format = f]
        /\ call' = [call EXCEPT ![c] = Proceed(c)] /\ UNCHANGED world
    BY <1>2 DEF CompleteProbe
  <2> QED
    BY <1>1, <1>3, <2>1
<1>7. call'[c] = Proceed(c) /\ Proceed(c).pc = "read" /\ Proceed(c) \notin Work
  BY <1>1, <1>6 DEF Proceed, Work
<1>8. ~Finishing(c)' /\ CallInOrder(c)'
  BY <1>7 DEF Finishing, CallInOrder
<1>9. r.status \notin Active
  BY <1>1, <1>4 DEF Active, Terminal
<1>10. ASSUME r.status = "COMPLETED"
       PROVE  r.identity.sig = r.snap /\ r.format = Detected(Content[r.snap])
  <2>1. /\ call[c].kind = "sampled" /\ call[c].before = call[c].snap
        /\ call[c].sample = Content[call[c].snap]
    BY <1>1, <1>4, <1>10 DEF CallInOrder, Finishing
  <2>2. r.identity.sig = call[c].before /\ r.snap = call[c].snap
    BY <1>1, <1>4, <2>1 DEF RowOf, Identity
  <2> QED
    BY <1>2, <1>4, <1>10, <2>1, <2>2
<1> QED
  BY <1>1, <1>4, <1>5, <1>6, <1>8, <1>9, <1>10, WritingKeeps

\* The file system and the scans: a file's versions stay in order.
LEMMA FilesKeep ==
  ASSUME ProbeIInv, Environment
  PROVE  ProbeIInv'
<1>1. PICK e \in Entry :
        \/ Overwrite(e) \/ (\E v \in Version : Replace(e, v)) \/ Remove(e) \/ Rescan(e)
  BY DEF Environment
<1>2. UNCHANGED <<probe, call>>
  BY <1>1 DEF Overwrite, Replace, Remove, Rescan, Change
<1>3. /\ file \in [Entry -> Version \cup {NoFile}] /\ newest \in [Entry -> Version]
      /\ dead \in [Entry -> SUBSET Version]
      /\ listed \in [Entry -> [status : Allowed \cup {"MISSING"}, sig : Version]]
      /\ FilesInOrder /\ MaxVersion \in Nat /\ \A v \in Version : v \in Nat /\ v > 0
  BY ProbeAssumption DEF ProbeIInv, ProbeTypeKept, Version
\* A step on the file e.
<1>4. ASSUME NEW f \in Version \cup {NoFile}, NEW m \in Version, NEW D \in SUBSET Version,
             file' = [file EXCEPT ![e] = f], newest' = [newest EXCEPT ![e] = m],
             dead' = [dead EXCEPT ![e] = D], dead[e] \subseteq D,
             f \notin D, f <= m, \A v \in D : v <= m,
             listed' \in [Entry -> [status : Allowed \cup {"MISSING"}, sig : Version]]
      PROVE  ProbeIInv'
  <2>1. ProbeTypeKept'
    BY <1>2, <1>3, <1>4 DEF ProbeIInv, ProbeTypeKept
  <2>2. FilesInOrder'
    BY <1>3, <1>4 DEF FilesInOrder
  <2>3. OneProbeAtATime' /\ FinishersApart'
    BY <1>2 DEF ProbeIInv, OneProbeAtATime, FinishersApart, Finishing
  <2>4. \A i \in 1 .. Len(probe) : RowInOrder(i)'
    BY <1>2 DEF ProbeIInv, RowInOrder, Served, Finishing
  <2>5. ASSUME NEW c \in Call PROVE CallInOrder(c)'
    <3>1. CallInOrder(c) /\ call[c] \in Work \cup Waiting \cup {IdleCall}
      BY DEF ProbeIInv, ProbeTypeKept
    <3>2. \A x \in Entry : dead[x] \subseteq dead'[x]
      BY <1>3, <1>4
    <3>3. call[c].pc = "compare" => Now(c) \in Entry
      BY <3>1, WorkIs DEF CallInOrder, Now
    <3>4. Now(c)' = Now(c) /\ (RowOf(c) => RowOf(c)') /\ (Finishing(c)' <=> Finishing(c))
      BY <1>2 DEF Now, RowOf, Identity, Finishing
    <3> QED
      BY <1>2, <3>1, <3>2, <3>3, <3>4 DEF CallInOrder
  <2> QED
    BY <1>2, <2>1, <2>2, <2>3, <2>4, <2>5 DEF ProbeIInv
<1>5. /\ file[e] \notin dead[e] /\ file[e] <= newest[e]
      /\ \A v \in dead[e] : v <= newest[e]
      /\ file[e] \in Version \cup {NoFile} /\ newest[e] \in Version /\ dead[e] \in SUBSET Version
      /\ newest[e] \in Nat /\ \A v \in dead[e] : v \in Nat /\ v > 0
  BY <1>3 DEF FilesInOrder
<1>6. /\ file = [file EXCEPT ![e] = file[e]] /\ newest = [newest EXCEPT ![e] = newest[e]]
      /\ dead = [dead EXCEPT ![e] = dead[e]]
  BY <1>3
<1>7. CASE Overwrite(e)
  <2>1. newest[e] + 1 \in Version
    BY <1>3, <1>5, <1>7 DEF Overwrite, CanGrow, Version
  <2>2. file[e] \in Version
    BY <1>5, <1>7 DEF Overwrite
  <2>3. /\ newest' = [newest EXCEPT ![e] = newest[e] + 1]
        /\ file' = [file EXCEPT ![e] = newest[e] + 1]
        /\ dead' = [dead EXCEPT ![e] = dead[e] \cup {file[e]}] /\ listed' = listed
    BY <1>3, <1>7 DEF Overwrite
  <2>4. PICK m \in Version : m = newest[e] + 1
    BY <2>1
  <2>5. PICK D \in SUBSET Version : D = dead[e] \cup {file[e]}
    BY <1>5, <2>2
  <2>6. /\ m \in Nat /\ m <= m /\ dead[e] \subseteq D
        /\ \A v \in D : v \in Nat /\ v <= newest[e]
    BY <1>3, <1>5, <2>2, <2>4, <2>5
  <2>7. m \notin D /\ \A v \in D : v <= m
    BY <1>5, <2>4, <2>6
  <2> QED
    BY <1>3, <1>4, <2>3, <2>4, <2>5, <2>6, <2>7
<1>8. ASSUME NEW v \in Version, Replace(e, v) PROVE ProbeIInv'
  <2> DEFINE m == IF v > newest[e] THEN v ELSE newest[e]
  <2>1. newest' = [newest EXCEPT ![e] = m] /\ file' = [file EXCEPT ![e] = v]
        /\ UNCHANGED <<dead, listed>>
    BY <1>8 DEF Replace
  <2>2. v \notin dead[e]
    <3>1. ASSUME v = newest[e] + 1 PROVE ~(v <= newest[e])
      BY <1>5, <3>1
    <3> QED
      BY <1>5, <1>8, <3>1 DEF Replace
  <2>3. m \in Version /\ m \in Nat /\ v <= m /\ newest[e] <= m
    BY <1>3, <1>5
  <2>4. \A x \in dead[e] : x <= m
    BY <1>5, <2>3
  <2>5. dead' = [dead EXCEPT ![e] = dead[e]] /\ dead[e] \in SUBSET Version /\ dead[e] \subseteq dead[e]
        /\ listed' \in [Entry -> [status : Allowed \cup {"MISSING"}, sig : Version]]
    BY <1>3, <1>5, <1>6, <2>1
  <2>6. v \in Version \cup {NoFile}
    OBVIOUS
  <2> HIDE DEF m
  <2> QED
    BY <1>4, <2>1, <2>2, <2>3, <2>4, <2>5, <2>6
<1>9. CASE Remove(e)
  <2>1. NoFile \notin dead[e] /\ NoFile <= newest[e]
    BY <1>3, <1>5 DEF NoFile
  <2> QED
    BY <1>3, <1>4, <1>5, <1>6, <1>9, <2>1 DEF Remove
<1>10. CASE Rescan(e)
  <2>1. listed' \in [Entry -> [status : Allowed \cup {"MISSING"}, sig : Version]]
    <3>1. [listed[e] EXCEPT !.status = "MISSING"] \in [status : Allowed \cup {"MISSING"}, sig : Version]
      BY <1>3
    <3>2. file[e] # NoFile => [status |-> "MODIFIED", sig |-> file[e]] \in
                                [status : Allowed \cup {"MISSING"}, sig : Version]
      BY <1>5 DEF Allowed
    <3> QED
      BY <1>3, <1>10, <3>1, <3>2 DEF Rescan
  <2> QED
    BY <1>3, <1>4, <1>5, <1>6, <1>10, <2>1 DEF Rescan
<1> QED
  BY <1>1, <1>7, <1>8, <1>9, <1>10

\* recover_interrupted_format_probes
LEMMA RecoveryKeeps ==
  ASSUME ProbeIInv, RecoverProbes
  PROVE  ProbeIInv'
<1>1. /\ UNCHANGED world /\ call' = [c \in Call |-> IdleCall]
      /\ probe \in Seq(ProbeRow) /\ Len(probe) \in Nat /\ Len(probe) <= MaxProbe
  BY DEF RecoverProbes, ProbeIInv, ProbeTypeKept
<1>2. ASSUME NEW i \in 1 .. Len(probe)
      PROVE  /\ probe'[i] \in ProbeRow /\ probe'[i].entry = probe[i].entry
             /\ probe'[i].attempt = probe[i].attempt /\ probe'[i].status \notin Active
             /\ probe'[i].status = "COMPLETED" => probe'[i] = probe[i]
  <2>1. probe[i] \in ProbeRow
    BY <1>1
  <2>2. probe'[i] = IF probe[i].status \in Active THEN [probe[i] EXCEPT !.status = "FAILED"] ELSE probe[i]
    BY DEF RecoverProbes, InterruptedRow
  <2>3. "FAILED" \notin Active /\ "FAILED" \in Terminal
    BY DEF Active, Terminal
  <2>4. CASE probe[i].status \in Active
    BY <2>1, <2>2, <2>3, <2>4 DEF ProbeRow
  <2>5. CASE probe[i].status \notin Active
    BY <2>1, <2>2, <2>5
  <2> QED
    BY <2>4, <2>5
<1>3. Len(probe') = Len(probe) /\ probe' \in Seq(ProbeRow)
  BY <1>1, <1>2 DEF RecoverProbes
<1>4. \A c \in Call : call'[c].pc = "idle" /\ call'[c] \notin Work /\ ~Finishing(c)'
  BY <1>1 DEF IdleCall, Work, Finishing
<1>5. ProbeTypeKept' /\ FilesInOrder'
  BY <1>1, <1>3 DEF ProbeIInv, ProbeTypeKept, FilesInOrder, world
<1>6. OneProbeAtATime'
  BY <1>2, <1>3 DEF ProbeIInv, OneProbeAtATime
<1>7. FinishersApart' /\ \A c \in Call : CallInOrder(c)'
  BY <1>4 DEF FinishersApart, CallInOrder
<1>8. \A i \in 1 .. Len(probe) : RowInOrder(i)'
  BY <1>2 DEF ProbeIInv, RowInOrder
<1> QED
  BY <1>3, <1>5, <1>6, <1>7, <1>8 DEF ProbeIInv

LEMMA ProbesKept == ProbeIInv /\ [ProbeNext]_probeVars => ProbeIInv'
<1> SUFFICES ASSUME ProbeIInv, [ProbeNext]_probeVars PROVE ProbeIInv'
  OBVIOUS
<1>1. ASSUME NEW c \in Call, Step(c) PROVE ProbeIInv'
  BY <1>1, SamplingKeeps, TurningKeeps, BeginKeeps, MarkKeeps, CompleteKeeps DEF Step
<1>2. CASE UNCHANGED probeVars
  <2>1. UNCHANGED <<file, newest, dead, listed, probe, call>>
    BY <1>2 DEF probeVars
  <2>2. ProbeTypeKept' /\ FilesInOrder' /\ OneProbeAtATime' /\ FinishersApart'
    BY <2>1 DEF ProbeIInv, ProbeTypeKept, FilesInOrder, OneProbeAtATime, FinishersApart, Finishing
  <2>3. \A c \in Call : CallInOrder(c)'
    BY <2>1 DEF ProbeIInv, CallInOrder, Finishing, RowOf, Identity, Now
  <2>4. \A i \in 1 .. Len(probe) : RowInOrder(i)'
    BY <2>1 DEF ProbeIInv, RowInOrder, Served, Finishing
  <2> QED
    BY <2>1, <2>2, <2>3, <2>4 DEF ProbeIInv
<1> QED
  BY <1>1, <1>2, FilesKeep, RecoveryKeeps DEF ProbeNext

--------------------------------------------------------------------------------
(* Theorems. *)

\* The inductive invariant holds in every run.
THEOREM ProbesStayInOrder == ProbeSpec => []ProbeIInv
BY ProbesStart, ProbesKept, PTL DEF ProbeSpec

\* begin_format_probe: the rows are of their types, the attempts of an entry are
\* told apart, and one call works on it at a time.
THEOREM ProbesAreInOrder == ProbeSpec => []ProbesInOrder
<1>1. ProbeIInv => ProbesInOrder
  <2> SUFFICES ASSUME ProbeIInv PROVE ProbesInOrder
    OBVIOUS
  <2>1. ProbeTypeKept /\ MaxProbe \in Nat
    BY ProbeAssumption DEF ProbeIInv
  <2>2. ASSUME NEW i \in 1 .. Len(probe)
        PROVE  probe[i].status \in Active \cup Terminal /\ probe[i].attempt \in 1 .. MaxProbe
    <3>1. probe[i] \in ProbeRow /\ probe[i].attempt \in 1 .. i /\ Len(probe) <= MaxProbe
          /\ Len(probe) \in Nat
      BY <2>1 DEF ProbeIInv, ProbeTypeKept, RowInOrder
    <3> QED
      BY <2>1, <3>1 DEF ProbeRow
  <2> QED
    BY <2>1, <2>2 DEF ProbeIInv, ProbeTypeKept, ProbeTypeOK, ProbesInOrder
<1> QED
  BY <1>1, ProbesStayInOrder, PTL

\* A COMPLETED row tells the format of the catalogued version of the file.
THEOREM CompletedAreCatalogued == ProbeSpec => []CompletedIsCatalogued
<1>1. ProbeIInv => CompletedIsCatalogued
  BY DEF ProbeIInv, RowInOrder, CompletedIsCatalogued
<1> QED
  BY <1>1, ProbesStayInOrder, PTL

\* A row that is not finished is being finished, or made a detector raise.
THEOREM ActiveRowsAreServed == ProbeSpec => []ActiveIsServed
<1>1. ProbeIInv => ActiveIsServed
  BY DEF ProbeIInv, RowInOrder, Served, Finishing, ActiveIsServed
<1> QED
  BY <1>1, ProbesStayInOrder, PTL
================================================================================
