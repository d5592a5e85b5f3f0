----------------------------- MODULE Detection -----------------------------
(***************************************************************************)
(* The file passes of dup-detector (store_detect.go, detect.go) and the    *)
(* report they stream (no_interactive.go): with -c every size shared by    *)
(* two files or more is hashed by a pool of workers, largest size first,   *)
(* and each size's groups are handed on as one batch; without it files of  *)
(* equal size and mtime are grouped at once.  With --no-interactive every  *)
(* batch goes to a buffered CSV writer.  The process may be killed at any  *)
(* moment and a write of the report may fail.                              *)
(***************************************************************************)
EXTENDS Naturals, FiniteSets

CONSTANTS
  File,       \* the files in the scan store
  Size,       \* their sizes
  Mtime,      \* their modification times
  Source,     \* the root each was found under
  Content,    \* what its MD5 tells apart
  Unreadable, \* files whose hashing may fail
  Worker,
  Modes       \* the flag combinations of the run

Mode == [checksum : BOOLEAN, crossRoot : BOOLEAN, report : BOOLEAN]
Idle == {}   \* a worker that holds no file

ASSUME FileAssumption ==
  /\ IsFiniteSet(File) /\ IsFiniteSet(Worker)
  /\ Size \in [File -> Nat]
  /\ \A f, g \in File : Content[f] = Content[g] => Size[f] = Size[g]
  /\ Unreadable \subseteq File
  /\ Modes \subseteq Mode

VARIABLES
  mode,   \* the flags of this run
  pc,     \* where run stands
  sizes,  \* collision sizes still to process
  toSend, \* candidates of the size at hand the main goroutine has to send
  jobs,   \* the job channel
  busy,   \* the file each worker is hashing
  hashed, \* candidates of the size at hand that have a hash
  failed, \* every file whose hashing failed
  batch,  \* the groups handed to onBatch
  rows,   \* of these, the copies not written yet
  buffer, \* rows in the CSV writer's buffer
  torn,   \* the row whose head alone is on the report file, if there is one
  report, \* rows that are whole on the report file
  broken, \* a write of the report failed, and was reported on stderr
  groups, \* allGroups
  exit    \* "running", "killed", "error" or "ok"

pool == <<toSend, jobs, busy, hashed, failed>>
out  == <<rows, buffer, torn, report, broken>>
vars == <<mode, pc, sizes, pool, batch, out, groups, exit>>

PCs == {"open", "pass", "hash", "batch", "done"}

-----------------------------------------------------------------------------
(* Groups.                                                                 *)

WithSize(s) == {f \in File : Size[f] = s}

(* Mutant of Spans: one of the files must come from the first root.        *)
HasBothSides(S) == \E f, g \in S : Source[f] = 0 /\ Source[g] # 0

(* spansMultipleSources                                                    *)
Spans(S) == \E f, g \in S : Source[f] # Source[g]

(* Sizes with at least two files.                                          *)
CollisionSizes == {s \in {Size[f] : f \in File} : Cardinality(WithSize(s)) >= 2}

(* The sets of two or more of the files S that Key does not tell apart,    *)
(* of more than one root if the run compares roots.                        *)
GroupedBy(S, Key) ==
  LET same(f) == {g \in S : Key[g] = Key[f]} IN
  {c \in {same(f) : f \in S} : Cardinality(c) >= 2 /\ (mode.crossRoot => Spans(c))}

(* MtimeDupsStore                                                          *)
MtimeGroups ==
  UNION {GroupedBy(WithSize(s), Mtime) :
           s \in {s \in CollisionSizes : mode.crossRoot => Spans(WithSize(s))}}

(* A row of the report: one copy of one group.                             *)
RowsOf(gs) == UNION {{<<g, f>> : f \in g} : g \in gs}

-----------------------------------------------------------------------------
Init ==
  /\ mode \in Modes
  /\ pc = "open" /\ exit = "running"
  /\ sizes = IF mode.checksum THEN CollisionSizes ELSE {}
  /\ toSend = {} /\ jobs = {} /\ busy = [w \in Worker |-> Idle]
  /\ hashed = {} /\ failed = {}
  /\ batch = {} /\ rows = {} /\ buffer = {} /\ torn = {} /\ report = {}
  /\ broken = FALSE /\ groups = {}

Running(where) == exit = "running" /\ pc = where

(* The report's header goes out before the scan starts.                    *)
OpenReport ==
  /\ Running("open")
  /\ pc' = "pass"
  /\ exit' \in IF mode.report THEN {"running", "error"} ELSE {"running"}
  /\ UNCHANGED <<mode, sizes, pool, batch, out, groups>>

(* Mutant of IsLargest: the smallest size is taken first.                  *)
IsSmallest(s) == \A t \in sizes : s <= t

IsLargest(s) == \A t \in sizes : t <= s

(* A size whose files all come from one root is passed over when roots are *)
(* compared, the others are hashed.                                        *)
NextSize(s) ==
  /\ Running("pass") /\ s \in sizes /\ IsLargest(s)
  /\ sizes' = sizes \ {s}
  /\ IF mode.crossRoot /\ ~Spans(WithSize(s)) THEN UNCHANGED <<pc, toSend>>
     ELSE pc' = "hash" /\ toSend' = WithSize(s)
  /\ UNCHANGED <<mode, jobs, busy, hashed, failed, batch, out, groups, exit>>

(* The channel holds as many jobs as there are workers.                    *)
Send(f) ==
  /\ Running("hash") /\ f \in toSend
  /\ Cardinality(jobs) < Cardinality(Worker)
  /\ toSend' = toSend \ {f} /\ jobs' = jobs \cup {f}
  /\ UNCHANGED <<mode, pc, sizes, busy, hashed, failed, batch, out, groups, exit>>

Take(w, f) ==
  /\ Running("hash") /\ busy[w] = Idle /\ f \in jobs
  /\ jobs' = jobs \ {f} /\ busy' = [busy EXCEPT ![w] = {f}]
  /\ UNCHANGED <<mode, pc, sizes, toSend, hashed, failed, batch, out, groups, exit>>

HashDone(w) ==
  /\ Running("hash") /\ busy[w] # Idle
  /\ hashed' = hashed \cup busy[w] /\ busy' = [busy EXCEPT ![w] = Idle]
  /\ UNCHANGED <<mode, pc, sizes, toSend, jobs, failed, batch, out, groups, exit>>

(* The error is stored as the result and the worker takes the next job.    *)
HashFails(w) ==
  /\ Running("hash") /\ busy[w] # Idle /\ busy[w] \subseteq Unreadable
  /\ failed' = failed \cup busy[w] /\ busy' = [busy EXCEPT ![w] = Idle]
  /\ UNCHANGED <<mode, pc, sizes, toSend, jobs, hashed, batch, out, groups, exit>>

(* Mutant of PoolIsDry: the WaitGroup only counts successes.               *)
AllSucceeded ==
  toSend = {} /\ jobs = {} /\ failed = {} /\ \A w \in Worker : busy[w] = Idle

(* wg.Wait returns.                                                        *)
PoolIsDry == toSend = {} /\ jobs = {} /\ \A w \in Worker : busy[w] = Idle

HandOn(gs) ==
  /\ batch' = gs
  /\ rows' = IF mode.report THEN RowsOf(gs) ELSE {}
  /\ pc' = "batch"

(* checksumGroup: what was hashed is grouped by hash; no groups, no batch. *)
CollectHashes ==
  /\ Running("hash") /\ PoolIsDry
  /\ LET gs == GroupedBy(hashed, Content) IN
     IF gs = {} THEN pc' = "pass" /\ UNCHANGED <<batch, rows>> ELSE HandOn(gs)
  /\ hashed' = {}
  /\ UNCHANGED <<mode, sizes, toSend, jobs, busy, failed, buffer, torn, report, broken, groups, exit>>

(* Without -c all groups are one batch.                                    *)
FastPass ==
  /\ Running("pass") /\ ~mode.checksum /\ batch = {}
  /\ HandOn(MtimeGroups)
  /\ UNCHANGED <<mode, sizes, pool, buffer, torn, report, broken, groups, exit>>

-----------------------------------------------------------------------------
(* The report.                                                             *)

(* The row fits into the buffer.                                           *)
WriteRow(r) ==
  /\ Running("batch") /\ r \in rows
  /\ rows' = rows \ {r} /\ buffer' = buffer \cup {r}
  /\ UNCHANGED <<mode, pc, sizes, pool, batch, torn, report, broken, groups, exit>>

(* It does not: the buffer, with as much of the row as filled it up, goes  *)
(* to the file, and the rest of the row stays in the buffer.               *)
Spill(r) ==
  /\ Running("batch") /\ r \in rows
  /\ rows' = rows \ {r} /\ report' = report \cup torn \cup buffer
  /\ \/ buffer' = {} /\ torn' = {r}
     \/ buffer' = {r} /\ torn' = {}
  /\ UNCHANGED <<mode, pc, sizes, pool, batch, broken, groups, exit>>

(* Mutant of EndBatch: the buffer is left to the next batches.             *)
EndBatchUnflushed ==
  /\ Running("batch") /\ rows = {}
  /\ groups' = groups \cup batch
  /\ pc' = IF mode.checksum THEN "pass" ELSE "done"
  /\ UNCHANGED <<mode, sizes, pool, batch, out, exit>>

(* WriteGroups flushes and the batch is appended to allGroups.             *)
EndBatch ==
  /\ Running("batch") /\ rows = {}
  /\ report' = report \cup torn \cup buffer /\ buffer' = {} /\ torn' = {}
  /\ groups' = groups \cup batch
  /\ pc' = IF mode.checksum THEN "pass" ELSE "done"
  /\ UNCHANGED <<mode, sizes, pool, batch, rows, broken, exit>>

(* A write of the report fails, with some of what the buffer held on the   *)
(* file, cut anywhere.  onBatch answers false, which ends the checksum     *)
(* pass early but is no error of run; without -c run returns it.           *)
WriteFails ==
  /\ Running("batch") /\ mode.report
  /\ exit' = IF mode.checksum THEN "running" ELSE "error"
  /\ pc' = "done"
  /\ \/ UNCHANGED <<torn, report>>
     \/ \E whole \in SUBSET buffer :
          /\ report' = report \cup torn \cup whole
          /\ torn' \in {{}} \cup {{r} : r \in (buffer \cup rows) \ whole}
  /\ rows' = {} /\ buffer' = {} /\ broken' = TRUE
  /\ UNCHANGED <<mode, sizes, pool, batch, groups>>

PassEnds ==
  /\ Running("pass") /\ mode.checksum /\ sizes = {}
  /\ pc' = "done"
  /\ UNCHANGED <<mode, sizes, pool, batch, out, groups, exit>>

Exit ==
  /\ Running("done")
  /\ exit' = "ok"
  /\ UNCHANGED <<mode, pc, sizes, pool, batch, out, groups>>

(* SIGKILL, the OOM killer.                                                *)
Kill ==
  /\ exit = "running"
  /\ exit' = "killed"
  /\ UNCHANGED <<mode, pc, sizes, pool, batch, out, groups>>

Pool ==
  \/ \E f \in File : Send(f) \/ \E w \in Worker : Take(w, f)
  \/ \E w \in Worker : HashDone(w) \/ HashFails(w)
  \/ CollectHashes

Write == (\E r \in rows : WriteRow(r) \/ Spill(r)) \/ EndBatch \/ WriteFails

Run ==
  \/ OpenReport \/ FastPass \/ PassEnds \/ Exit
  \/ \E s \in sizes : NextSize(s)
  \/ Pool \/ Write

Next == Run \/ Kill

Spec == Init /\ [][Next]_vars

(* The main goroutine and the workers keep running unless they are killed. *)
FairSpec == Spec /\ WF_vars(Run)

-----------------------------------------------------------------------------
(* The state has the shape the Go values give it.                          *)
TypeOK ==
  /\ mode \in Modes /\ pc \in PCs /\ exit \in {"running", "killed", "error", "ok"}
  /\ sizes \subseteq CollisionSizes
  /\ toSend \subseteq File /\ jobs \subseteq File
  /\ hashed \subseteq File /\ failed \subseteq File
  /\ Cardinality(jobs) <= Cardinality(Worker)
  /\ busy \in [Worker -> {Idle} \cup {{f} : f \in File}]
  /\ batch \subseteq SUBSET File /\ groups \subseteq SUBSET File
  /\ rows \subseteq RowsOf(batch) /\ buffer \subseteq RowsOf(batch) /\ torn \subseteq RowsOf(batch)

(* The copies of one content, or of one size and mtime, among all the      *)
(* files that could be read, whatever their size: what the passes are for. *)
SameCopies(f, g) ==
  IF mode.checksum THEN Content[f] = Content[g]
  ELSE Size[f] = Size[g] /\ Mtime[f] = Mtime[g]

Duplicates ==
  LET readable == IF mode.checksum THEN File \ failed ELSE File
      copies(f) == {g \in readable : SameCopies(f, g)}
  IN {c \in {copies(f) : f \in readable} :
        Cardinality(c) >= 2
        /\ (mode.crossRoot => \E f, g \in c : Source[f] # Source[g])}

(* A run that ends by itself has found every set of copies, whole and once *)
(* (a set of sets holds none twice and two cannot share a file): neither   *)
(* the size filter, nor the cross-root filter before hashing, nor a file   *)
(* that cannot be read costs another file its group.                       *)
FindsAllDuplicates ==
  exit = "ok" /\ ~broken => groups = Duplicates

(* Sizes are taken "largest first": at every moment what the run has found *)
(* is larger than anything it has still to find.                           *)
LargestGroupsFirst ==
  mode.checksum =>
    \A g \in groups, h \in Duplicates \ groups : \A f \in g, e \in h : Size[e] < Size[f]

(* "An interrupted run leaves a short report, which is honest": at every   *)
(* moment the file holds all copies of every group handed on so far, and   *)
(* beyond them only copies of the groups being written.  Its last row may  *)
(* be cut short, but only while a batch is written or when a write of it   *)
(* failed, and it is a row of that batch.                                  *)
ReportIsHonest ==
  mode.report =>
    /\ RowsOf(groups) \subseteq report
    /\ report \subseteq RowsOf(groups \cup batch)
    /\ torn \subseteq RowsOf(batch) /\ \A r, q \in torn : r = q
    /\ torn # {} => pc = "batch" \/ broken

(* A run that is not killed ends, whichever files cannot be hashed and     *)
(* however many jobs there are per worker.                                 *)
Ends == <>(exit # "running")
=============================================================================
