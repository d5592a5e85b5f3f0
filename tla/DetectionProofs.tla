-------------------------- MODULE DetectionProofs --------------------------
(***************************************************************************)
(* For any finite set of files, sizes, flags and workers: the report on    *)
(* disk is true and complete up to the last batch, whenever the process is *)
(* killed; a run that ends by itself has found every set of copies; and    *)
(* with -c the largest come first.                                         *)
(***************************************************************************)
EXTENDS Detection, FiniteSetTheorems, TLAPS

(* Between batches nothing is buffered and the last batch is accounted     *)
(* for; within one, each of its rows is still to be written, buffered, cut *)
(* in two, or on file.                                                     *)
ReportInv ==
  /\ pc \in {"open", "pass", "hash"} =>
       batch \subseteq groups /\ buffer = {} /\ torn = {}
  /\ pc = "batch" =>
       /\ rows \subseteq RowsOf(batch) /\ buffer \subseteq RowsOf(batch)
       /\ mode.report => RowsOf(batch) \subseteq rows \cup buffer \cup torn \cup report
  /\ ReportIsHonest

LEMMA RowsOfUnion ==
  ASSUME NEW A, NEW B
  PROVE  RowsOf(A \cup B) = RowsOf(A) \cup RowsOf(B)
BY DEF RowsOf

LEMMA RowsOfSubset ==
  ASSUME NEW A, NEW B, A \subseteq B
  PROVE  RowsOf(A) \subseteq RowsOf(B)
BY DEF RowsOf

LEMMA InitReport == Init => ReportInv
BY DEF Init, ReportInv, ReportIsHonest, RowsOf

(* A step that touches neither report nor batch and stays clear of the     *)
(* writing.                                                                *)
LEMMA QuietReport ==
  ASSUME ReportInv, UNCHANGED <<mode, batch, out, groups>>,
         \/ pc' = pc
         \/ pc \in {"open", "pass", "hash"} /\ pc' \in {"pass", "hash", "done"}
  PROVE  ReportInv'
BY DEF ReportInv, ReportIsHonest, RowsOf, out

(* A batch is handed on.                                                   *)
LEMMA HandOnReport ==
  ASSUME ReportInv, NEW gs, HandOn(gs), pc \in {"pass", "hash"},
         UNCHANGED <<mode, buffer, torn, report, broken, groups>>
  PROVE  ReportInv'
<1>1. batch \subseteq groups /\ buffer = {} /\ torn = {}  BY DEF ReportInv
<1>2. batch' = gs /\ rows' = (IF mode.report THEN RowsOf(gs) ELSE {}) /\ pc' = "batch"
  BY DEF HandOn
<1>3. RowsOf(batch)' = RowsOf(gs) /\ RowsOf(groups)' = RowsOf(groups)
  BY <1>2 DEF RowsOf
<1>4. ASSUME mode.report PROVE RowsOf(groups) \subseteq report
                              /\ report \subseteq RowsOf(groups \cup batch')
  <2>1. RowsOf(groups) \subseteq report /\ report \subseteq RowsOf(groups \cup batch)
    BY <1>4 DEF ReportInv, ReportIsHonest
  <2>2. groups \cup batch \subseteq groups \cup batch'  BY <1>1
  <2> QED  BY <2>1, <2>2, RowsOfSubset
<1>5. ReportIsHonest'
  BY <1>1, <1>4 DEF ReportIsHonest, RowsOf
<1> QED  BY <1>1, <1>2, <1>3, <1>5 DEF ReportInv

LEMMA WriteRowReport == ASSUME NEW r PROVE ReportInv /\ WriteRow(r) => ReportInv'
BY DEF ReportInv, ReportIsHonest, WriteRow, Running, RowsOf

LEMMA SpillReport == ASSUME NEW r PROVE ReportInv /\ Spill(r) => ReportInv'
<1> SUFFICES ASSUME ReportInv, Spill(r) PROVE ReportInv'  OBVIOUS
<1>1. /\ pc = "batch" /\ r \in rows /\ rows' = rows \ {r}
      /\ report' = report \cup torn \cup buffer
      /\ \/ buffer' = {} /\ torn' = {r}
         \/ buffer' = {r} /\ torn' = {}
      /\ UNCHANGED <<mode, pc, batch, groups>>
  BY DEF Spill, Running
<1>2. RowsOf(groups)' = RowsOf(groups) /\ RowsOf(batch)' = RowsOf(batch)
      /\ RowsOf(groups \cup batch)' = RowsOf(groups \cup batch)
  BY <1>1 DEF RowsOf
<1>3. RowsOf(batch) \subseteq RowsOf(groups \cup batch)  BY RowsOfUnion
<1>4. ReportIsHonest'
  BY <1>1, <1>2, <1>3 DEF ReportInv, ReportIsHonest
<1> QED  BY <1>1, <1>2, <1>4 DEF ReportInv

LEMMA EndBatchReport == ReportInv /\ EndBatch => ReportInv'
<1> SUFFICES ASSUME ReportInv, EndBatch PROVE ReportInv'  OBVIOUS
<1>1. /\ pc = "batch" /\ rows = {} /\ report' = report \cup torn \cup buffer
      /\ buffer' = {} /\ torn' = {}
      /\ groups' = groups \cup batch /\ pc' \in {"pass", "done"}
      /\ UNCHANGED <<mode, batch, rows>>
  BY DEF EndBatch, Running
<1>2. RowsOf(groups)' = RowsOf(groups) \cup RowsOf(batch)
      /\ RowsOf(groups \cup batch)' = RowsOf(groups) \cup RowsOf(batch)
  <2>1. groups' \cup batch' = groups \cup batch  BY <1>1
  <2> QED  BY <1>1, <2>1, RowsOfUnion DEF RowsOf
<1>3. RowsOf(groups \cup batch) = RowsOf(groups) \cup RowsOf(batch)  BY RowsOfUnion
<1>4. ReportIsHonest'
  BY <1>1, <1>2, <1>3 DEF ReportInv, ReportIsHonest
<1> QED  BY <1>1, <1>4 DEF ReportInv

LEMMA WriteFailsReport == ReportInv /\ WriteFails => ReportInv'
<1> SUFFICES ASSUME ReportInv, WriteFails PROVE ReportInv'  OBVIOUS
<1>1. /\ pc = "batch" /\ pc' = "done" /\ broken' = TRUE
      /\ UNCHANGED <<mode, batch, groups>>
  BY DEF WriteFails, Running
<1>2. RowsOf(groups)' = RowsOf(groups) /\ RowsOf(batch)' = RowsOf(batch)
      /\ RowsOf(groups \cup batch)' = RowsOf(groups \cup batch)
  BY <1>1 DEF RowsOf
<1>3. RowsOf(batch) \subseteq RowsOf(groups \cup batch)  BY RowsOfUnion
<1>4. CASE UNCHANGED <<torn, report>>
  BY <1>1, <1>2, <1>4 DEF ReportInv, ReportIsHonest
<1>5. ASSUME NEW whole \in SUBSET buffer, report' = report \cup torn \cup whole,
             torn' \in {{}} \cup {{r} : r \in (buffer \cup rows) \ whole}
      PROVE  ReportInv'
  <2>1. torn' \subseteq RowsOf(batch) /\ \A r, q \in torn' : r = q
    BY <1>1, <1>5 DEF ReportInv
  <2> QED  BY <1>1, <1>2, <1>3, <1>5, <2>1 DEF ReportInv, ReportIsHonest
<1> QED  BY <1>4, <1>5 DEF WriteFails


LEMMA NextReport == ReportInv /\ [Next]_vars => ReportInv'
<1> SUFFICES ASSUME ReportInv, [Next]_vars PROVE ReportInv'  OBVIOUS
<1>1. CASE OpenReport \/ PassEnds \/ Exit \/ Kill
  BY <1>1, QuietReport DEF OpenReport, PassEnds, Exit, Kill, Running
<1>2. CASE FastPass
  BY <1>2, HandOnReport DEF FastPass, Running
<1>3. ASSUME NEW s \in sizes, NextSize(s) PROVE ReportInv'
  BY <1>3, QuietReport DEF NextSize, Running
<1>4. ASSUME NEW f, Send(f) PROVE ReportInv'
  BY <1>4, QuietReport DEF Send
<1>5. ASSUME NEW w, NEW f, Take(w, f) PROVE ReportInv'
  BY <1>5, QuietReport DEF Take
<1>6. ASSUME NEW w, HashDone(w) \/ HashFails(w) PROVE ReportInv'
  BY <1>6, QuietReport DEF HashDone, HashFails
<1>7. CASE CollectHashes
  <2>1. CASE GroupedBy(hashed, Content) = {}
    <3>1. pc = "hash" /\ pc' = "pass" /\ UNCHANGED <<mode, batch, rows, buffer, torn, report, broken, groups>>
      BY <1>7, <2>1 DEF CollectHashes, Running
    <3> QED  BY <3>1, QuietReport DEF out
  <2>2. CASE GroupedBy(hashed, Content) # {}
    <3>1. pc = "hash" /\ HandOn(GroupedBy(hashed, Content))
          /\ UNCHANGED <<mode, buffer, torn, report, broken, groups>>
      BY <1>7, <2>2 DEF CollectHashes, Running
    <3> QED  BY <3>1, HandOnReport
  <2> QED  BY <2>1, <2>2
<1>8. CASE Write
  BY <1>8, WriteRowReport, SpillReport, EndBatchReport, WriteFailsReport DEF Write
<1>9. CASE UNCHANGED vars
  BY <1>9, QuietReport DEF vars
<1> QED  BY <1>1, <1>2, <1>3, <1>4, <1>5, <1>6, <1>7, <1>8, <1>9 DEF Next, Run, Pool

(* Whenever the process is killed, whatever cannot be hashed or written:   *)
(* the report holds all copies of all groups handed on before, whole, and  *)
(* beyond them only copies of the batch being written, of which the last   *)
(* may be cut short (WriteGroups, onBatch).                                *)
THEOREM HonestReport == Spec => []ReportIsHonest
<1>1. ReportInv => ReportIsHonest  BY DEF ReportInv
<1> QED  BY <1>1, InitReport, NextReport, PTL DEF Spec
-----------------------------------------------------------------------------
(* What the pool holds of the size at hand, once each.                     *)
InPool(f) == f \in toSend \cup jobs \cup hashed \/ \E w \in Worker : f \in busy[w]

Once ==
  /\ toSend \cap jobs = {} /\ hashed \cap (toSend \cup jobs) = {}
  /\ \A w \in Worker : busy[w] \cap (toSend \cup jobs \cup hashed) = {}
  /\ \A w, v \in Worker : w # v => busy[w] \cap busy[v] = {}

PoolInv == Once /\ (pc # "hash" => \A f \in File : ~InPool(f))

Hashing(s) ==
  \A f \in File : /\ InPool(f) => Size[f] = s /\ f \notin failed
                  /\ Size[f] = s => InPool(f) \/ f \in failed

(* Found so far is what has neither a size to come nor the one at hand,    *)
(* and all of that is larger.                                              *)
Without(c, P) == \A f \in c : Size[f] \notin P

Found(cur) ==
  /\ cur \subseteq CollisionSizes \ sizes
  /\ \A t \in sizes, s \in cur : t < s
  /\ \A t \in sizes \cup cur, u \in CollisionSizes \ (sizes \cup cur) : t < u
  /\ groups = {c \in Duplicates : Without(c, sizes \cup cur)}

AtHand(cur) ==
  /\ pc \in {"open", "pass"} => cur = {}
  /\ pc = "hash" => \E s \in CollisionSizes : cur = {s} /\ Hashing(s)
  /\ pc = "batch" => \E s \in CollisionSizes :
       cur = {s} /\ batch = {c \in Duplicates : \A f \in c : Size[f] = s}
  /\ pc = "done" /\ ~broken => cur = {} /\ sizes = {}

ByHash ==
  /\ \A f \in failed : Size[f] \notin sizes
  /\ \E cur \in SUBSET CollisionSizes : Found(cur) /\ AtHand(cur)

ByMtime ==
  /\ pc # "hash" /\ sizes = {}
  /\ pc \in {"open", "pass", "batch"} => groups = {}
  /\ pc = "batch" => batch = MtimeGroups
  /\ pc = "done" /\ ~broken => groups = MtimeGroups

FoundInv ==
  /\ TypeOK /\ ReportInv /\ PoolInv
  /\ IF mode.checksum THEN ByHash ELSE ByMtime
  /\ exit = "ok" => pc = "done"

-----------------------------------------------------------------------------
LEMMA SizesAreNumbers == CollisionSizes \subseteq Nat /\ \A f \in File : Size[f] \in Nat
BY FileAssumption DEF CollisionSizes

LEMMA HashDuplicates ==
  ASSUME mode.checksum, NEW c
  PROVE  c \in Duplicates <=>
           /\ \E f \in File \ failed : c = {g \in File \ failed : Content[f] = Content[g]}
           /\ Cardinality(c) >= 2 /\ (mode.crossRoot => Spans(c))
BY DEF Duplicates, SameCopies, Spans

LEMMA MtimeDuplicates ==
  ASSUME ~mode.checksum, NEW c
  PROVE  c \in Duplicates <=>
           /\ \E f \in File : c = {g \in File : Size[f] = Size[g] /\ Mtime[f] = Mtime[g]}
           /\ Cardinality(c) >= 2 /\ (mode.crossRoot => Spans(c))
BY DEF Duplicates, SameCopies, Spans

(* The copies of one content have one size, which collides.                *)
LEMMA OneSize ==
  ASSUME NEW c \in Duplicates
  PROVE  \E s \in CollisionSizes : c # {} /\ c \subseteq WithSize(s) /\ Cardinality(c) >= 2
                                   /\ (mode.crossRoot => Spans(WithSize(s)))
<1>1. PICK f \in File : f \in c /\ c \subseteq WithSize(Size[f])
  <2>1. CASE mode.checksum
    <3>1. PICK f \in File \ failed : c = {g \in File \ failed : Content[f] = Content[g]}
      BY <2>1, HashDuplicates
    <3> QED  BY <3>1, FileAssumption DEF WithSize
  <2>2. CASE ~mode.checksum
    <3>1. PICK f \in File : c = {g \in File : Size[f] = Size[g] /\ Mtime[f] = Mtime[g]}
      BY <2>2, MtimeDuplicates
    <3> QED  BY <3>1 DEF WithSize
  <2> QED  BY <2>1, <2>2
<1>2. Cardinality(c) >= 2 /\ (mode.crossRoot => Spans(c))
  BY HashDuplicates, MtimeDuplicates
<1>3. IsFiniteSet(WithSize(Size[f]))  BY FileAssumption, FS_Subset DEF WithSize
<1>4. Cardinality(WithSize(Size[f])) >= 2
  <2>1. Cardinality(c) <= Cardinality(WithSize(Size[f]))  BY <1>1, <1>3, FS_Subset
  <2>2. Cardinality(c) \in Nat /\ Cardinality(WithSize(Size[f])) \in Nat
    BY <1>1, <1>3, FS_Subset, FS_CardinalityType
  <2> QED  BY <1>2, <2>1, <2>2
<1>5. mode.crossRoot => Spans(WithSize(Size[f]))  BY <1>1, <1>2 DEF Spans
<1> QED  BY <1>1, <1>2, <1>4, <1>5 DEF CollisionSizes

(* What groups hashed files of one size.                                   *)
LEMMA HashedGroups ==
  ASSUME mode.checksum, NEW s, NEW H, H = {f \in File \ failed : Size[f] = s}
  PROVE  GroupedBy(H, Content) = {c \in Duplicates : \A f \in c : Size[f] = s}
<1> DEFINE same(f) == {g \in H : Content[g] = Content[f]}
           copies(f) == {g \in File \ failed : Content[f] = Content[g]}
<1>1. \A f \in H : same(f) = copies(f)  BY FileAssumption
<1>2. \A f \in File \ failed : f \in copies(f)  OBVIOUS
<1>3. ASSUME NEW c
      PROVE  c \in GroupedBy(H, Content) <=> c \in Duplicates /\ \A f \in c : Size[f] = s
  <2>1. c \in GroupedBy(H, Content) <=> /\ \E f \in H : c = same(f)
                                        /\ Cardinality(c) >= 2 /\ (mode.crossRoot => Spans(c))
    BY DEF GroupedBy
  <2>2. c \in Duplicates <=> /\ \E f \in File \ failed : c = copies(f)
                             /\ Cardinality(c) >= 2 /\ (mode.crossRoot => Spans(c))
    BY HashDuplicates
  <2>3. (\E f \in H : c = same(f)) <=>
          (\E f \in File \ failed : c = copies(f)) /\ \A f \in c : Size[f] = s
    <3>1. ASSUME NEW f \in H, c = same(f)
          PROVE  (\E g \in File \ failed : c = copies(g)) /\ \A g \in c : Size[g] = s
      BY <1>1, <3>1
    <3>2. ASSUME NEW f \in File \ failed, c = copies(f), \A g \in c : Size[g] = s
          PROVE  \E g \in H : c = same(g)
      BY <1>1, <1>2, <3>2
    <3> QED  BY <3>1, <3>2
  <2> QED  BY <2>1, <2>2, <2>3
<1> QED  BY <1>3

LEMMA MtimeGroupsAreDuplicates == ASSUME ~mode.checksum PROVE MtimeGroups = Duplicates
<1> DEFINE copies(f) == {g \in File : Size[f] = Size[g] /\ Mtime[f] = Mtime[g]}
           Fits(c) == Cardinality(c) >= 2 /\ (mode.crossRoot => Spans(c))
<1>1. ASSUME NEW s, NEW f \in WithSize(s)
      PROVE  {g \in WithSize(s) : Mtime[g] = Mtime[f]} = copies(f)
  BY <1>1 DEF WithSize
<1>2. ASSUME NEW c
      PROVE  c \in MtimeGroups <=>
               \E s \in CollisionSizes : /\ mode.crossRoot => Spans(WithSize(s))
                                         /\ \E f \in WithSize(s) : c = copies(f)
                                         /\ Fits(c)
  BY <1>1 DEF MtimeGroups, GroupedBy
<1>3. ASSUME NEW c \in MtimeGroups PROVE c \in Duplicates
  <2>1. PICK s \in CollisionSizes : \E f \in WithSize(s) : c = copies(f) /\ Fits(c)
    BY <1>2
  <2> QED  BY <2>1, MtimeDuplicates DEF WithSize
<1>4. ASSUME NEW c \in Duplicates PROVE c \in MtimeGroups
  <2>1. PICK f \in File : c = copies(f) /\ Fits(c)  BY MtimeDuplicates
  <2>2. PICK s \in CollisionSizes : c \subseteq WithSize(s) /\ (mode.crossRoot => Spans(WithSize(s)))
    BY OneSize
  <2>3. f \in c  BY <2>1
  <2> QED  BY <1>2, <2>1, <2>2, <2>3
<1> QED  BY <1>3, <1>4

(* A failure to hash a file of a size not done yet changes nothing done.   *)
LEMMA FailuresToCome ==
  ASSUME mode.checksum, mode' = mode, NEW P, NEW F, failed' = failed \cup F,
         F \subseteq File, \A f \in F : Size[f] \in P
  PROVE  {c \in Duplicates : Without(c, P)}' = {c \in Duplicates : Without(c, P)}
<1> DEFINE copies(f) == {g \in File \ failed : Content[f] = Content[g]}
           left(f) == {g \in File \ failed' : Content[f] = Content[g]}
<1>1. ASSUME NEW f \in File, Size[f] \notin P PROVE copies(f) = left(f)
  BY <1>1, FileAssumption
<1>2. ASSUME NEW c
      PROVE  (c \in Duplicates)' <=>
               (\E f \in File \ failed' : c = left(f)) /\ Cardinality(c) >= 2
               /\ (mode.crossRoot => Spans(c))
  BY DEF Duplicates, SameCopies, Spans
<1>3. ASSUME NEW c, c \in Duplicates, Without(c, P) PROVE (c \in Duplicates)'
  <2>1. PICK f \in File \ failed : c = copies(f)  BY <1>3, HashDuplicates
  <2>2. f \in c /\ Size[f] \notin P  BY <1>3, <2>1 DEF Without
  <2>3. f \notin failed'  BY <2>2
  <2> QED  BY <1>1, <1>2, <1>3, <2>1, <2>2, <2>3, HashDuplicates
<1>4. ASSUME NEW c, (c \in Duplicates)', Without(c, P) PROVE c \in Duplicates
  <2>1. PICK f \in File \ failed' : c = left(f)  BY <1>2, <1>4
  <2>2. f \in c /\ Size[f] \notin P  BY <1>4, <2>1 DEF Without
  <2> QED  BY <1>1, <1>2, <1>4, <2>1, <2>2, HashDuplicates
<1> QED  BY <1>3, <1>4 DEF Without
-----------------------------------------------------------------------------
LEMMA InitFound == Init => FoundInv
<1> SUFFICES ASSUME Init PROVE FoundInv  OBVIOUS
<1>1. TypeOK
  <2>1. Cardinality({}) = 0 /\ Cardinality(Worker) \in Nat
    BY FileAssumption, FS_EmptySet, FS_CardinalityType
  <2>2. Cardinality(jobs) <= Cardinality(Worker)  BY <2>1 DEF Init
  <2> QED  BY <2>2 DEF Init, TypeOK, PCs, RowsOf
<1>2. PoolInv  BY DEF Init, PoolInv, Once, InPool, Idle
<1>3. CASE mode.checksum
  <2>1. \A c \in Duplicates : ~Without(c, CollisionSizes)
    <3> SUFFICES ASSUME NEW c \in Duplicates, Without(c, CollisionSizes) PROVE FALSE  OBVIOUS
    <3>1. PICK s \in CollisionSizes : c # {} /\ c \subseteq WithSize(s)  BY OneSize
    <3> QED  BY <3>1 DEF WithSize, Without
  <2>2. Found({})  BY <1>3, <2>1 DEF Init, Found
  <2>3. AtHand({})  BY DEF Init, AtHand
  <2>4. ByHash  BY <2>2, <2>3 DEF ByHash, Init
  <2> QED  BY <1>1, <1>2, <1>3, <2>4, InitReport DEF FoundInv, Init
<1>4. CASE ~mode.checksum
  BY <1>1, <1>2, <1>4, InitReport DEF FoundInv, Init, ByMtime
<1> QED  BY <1>3, <1>4

LEMMA GroupsType ==
  /\ \A S \in SUBSET File : \A Key : GroupedBy(S, Key) \subseteq SUBSET File
  /\ MtimeGroups \subseteq SUBSET File
<1>1. ASSUME NEW S \in SUBSET File, NEW Key PROVE GroupedBy(S, Key) \subseteq SUBSET File
  BY DEF GroupedBy
<1>2. \A s : WithSize(s) \in SUBSET File  BY DEF WithSize
<1>3. MtimeGroups \subseteq SUBSET File  BY <1>1, <1>2 DEF MtimeGroups
<1> QED  BY <1>1, <1>3

LEMMA JobsFit ==
  ASSUME TypeOK, NEW f \in File
  PROVE  /\ Cardinality(jobs) < Cardinality(Worker) => Cardinality(jobs \cup {f}) <= Cardinality(Worker)
         /\ Cardinality(jobs \ {f}) <= Cardinality(Worker)
<1>1. IsFiniteSet(jobs)  BY FileAssumption, FS_Subset DEF TypeOK
<1>2. Cardinality(jobs) \in Nat /\ Cardinality(Worker) \in Nat
  BY <1>1, FileAssumption, FS_CardinalityType
<1>3. /\ Cardinality(jobs \cup {f}) = IF f \in jobs THEN Cardinality(jobs) ELSE Cardinality(jobs) + 1
      /\ Cardinality(jobs \ {f}) = IF f \in jobs THEN Cardinality(jobs) - 1 ELSE Cardinality(jobs)
  BY <1>1, FS_AddElement, FS_RemoveElement, Zenon
<1>4. Cardinality(jobs) <= Cardinality(Worker)  BY DEF TypeOK
<1> DEFINE n == Cardinality(jobs)
           m == Cardinality(Worker)
           more == Cardinality(jobs \cup {f})
           less == Cardinality(jobs \ {f})
<1> HIDE DEF n, m, more, less
<1>5. /\ n \in Nat /\ m \in Nat /\ n <= m
      /\ more = n \/ more = n + 1
      /\ less = n \/ less = n - 1
  BY <1>2, <1>3, <1>4 DEF n, m, more, less
<1>6. (n < m => more <= m) /\ less <= m  BY <1>5
<1> QED  BY <1>6 DEF n, m, more, less

LEMMA NextTyped == TypeOK /\ ReportInv /\ [Next]_vars => TypeOK'
<1> SUFFICES ASSUME TypeOK, ReportInv, [Next]_vars PROVE TypeOK'  OBVIOUS
<1>0. RowsOf(batch)' = RowsOf(batch')  BY DEF RowsOf
<1>1. CASE OpenReport
  BY <1>1, <1>0 DEF TypeOK, OpenReport, pool, out, PCs, RowsOf
<1>2. CASE PassEnds \/ Exit \/ Kill
  BY <1>2, <1>0 DEF TypeOK, PassEnds, Exit, Kill, pool, out, PCs, RowsOf
<1>3. CASE FastPass
  <2>1. batch' = MtimeGroups /\ rows' \subseteq RowsOf(MtimeGroups) /\ pc' = "batch"
        /\ UNCHANGED <<mode, sizes, pool, buffer, torn, report, broken, groups, exit>>
    BY <1>3 DEF FastPass, HandOn
  <2>2. buffer = {} /\ torn = {}  BY <1>3 DEF FastPass, Running, ReportInv
  <2> QED  BY <1>0, <2>1, <2>2, GroupsType DEF TypeOK, pool, PCs
<1>4. ASSUME NEW s \in sizes, NextSize(s) PROVE TypeOK'
  BY <1>4, <1>0 DEF TypeOK, NextSize, out, PCs, WithSize, RowsOf
<1>5. ASSUME NEW f \in File, Send(f) PROVE TypeOK'
  BY <1>5, <1>0, JobsFit DEF TypeOK, Send, out, RowsOf
<1>6. ASSUME NEW w \in Worker, NEW f \in File, Take(w, f) PROVE TypeOK'
  BY <1>6, <1>0, JobsFit DEF TypeOK, Take, out, RowsOf
<1>7. ASSUME NEW w \in Worker, HashDone(w) \/ HashFails(w) PROVE TypeOK'
  <2>1. busy[w] \subseteq File  BY DEF TypeOK, Idle
  <2> QED  BY <1>7, <1>0, <2>1 DEF TypeOK, HashDone, HashFails, out, RowsOf
<1>8. CASE CollectHashes
  <2>1. /\ hashed' = {} /\ pc' \in {"pass", "batch"}
        /\ UNCHANGED <<mode, sizes, toSend, jobs, busy, failed, buffer, torn, report, broken, groups, exit>>
    BY <1>8 DEF CollectHashes, HandOn
  <2>2. buffer = {} /\ torn = {}  BY <1>8 DEF CollectHashes, Running, ReportInv
  <2>3. \/ UNCHANGED <<batch, rows>>
        \/ batch' = GroupedBy(hashed, Content) /\ rows' \subseteq RowsOf(GroupedBy(hashed, Content))
    BY <1>8 DEF CollectHashes, HandOn
  <2>4. GroupedBy(hashed, Content) \subseteq SUBSET File  BY GroupsType DEF TypeOK
  <2> QED  BY <1>0, <2>1, <2>2, <2>3, <2>4 DEF TypeOK, PCs
<1>9. CASE Write
  BY <1>9, <1>0 DEF Write, WriteRow, Spill, EndBatch, WriteFails, TypeOK, pool, PCs, RowsOf
<1>10. CASE UNCHANGED vars  BY <1>0, <1>10 DEF TypeOK, vars, pool, out, RowsOf
<1> QED  BY <1>1, <1>2, <1>3, <1>4, <1>5, <1>6, <1>7, <1>8, <1>9, <1>10 DEF Next, Run, Pool

-----------------------------------------------------------------------------
LEMMA SameDuplicates ==
  ASSUME UNCHANGED <<mode, failed>>
  PROVE  Duplicates' = Duplicates /\ MtimeGroups' = MtimeGroups
BY DEF Duplicates, SameCopies, MtimeGroups, GroupedBy

(* Steps that neither take a size nor fail to hash nor add to the groups.  *)
LEMMA QuietFound ==
  ASSUME FoundInv, [Next]_vars, UNCHANGED <<mode, sizes, failed, groups>>, PoolInv',
         mode.checksum => \A cur \in SUBSET CollisionSizes : Found(cur) /\ AtHand(cur) => AtHand(cur)',
         ~mode.checksum => /\ pc' # "hash" /\ (pc' \in {"open", "pass", "batch"} => pc # "done")
                           /\ pc' = "batch" => batch' = MtimeGroups
                           /\ pc' = "done" /\ ~broken' => pc = "done" /\ ~broken,
         exit' = "ok" => pc' = "done"
  PROVE  FoundInv'
<1>1. TypeOK' /\ ReportInv'  BY NextTyped, NextReport DEF FoundInv
<1>2. Duplicates' = Duplicates /\ MtimeGroups' = MtimeGroups  BY SameDuplicates
<1>3. CASE mode.checksum
  <2>1. PICK cur \in SUBSET CollisionSizes : Found(cur) /\ AtHand(cur)
    BY <1>3 DEF FoundInv, ByHash
  <2>2. Found(cur)'  BY <1>2, <2>1 DEF Found, Without
  <2>3. AtHand(cur)'  BY <1>3, <2>1
  <2>4. ByHash'  BY <1>3, <2>2, <2>3 DEF FoundInv, ByHash
  <2> QED  BY <1>1, <1>3, <2>4 DEF FoundInv
<1>4. CASE ~mode.checksum
  <2>1. ByMtime'
    <3>1. pc \in PCs  BY DEF FoundInv, TypeOK
    <3> QED  BY <1>2, <1>4, <3>1 DEF FoundInv, ByMtime, PCs
  <2> QED  BY <1>1, <1>4, <2>1 DEF FoundInv
<1> QED  BY <1>3, <1>4
LEMMA PoolStays ==
  ASSUME PoolInv, UNCHANGED <<toSend, jobs, busy, hashed>>, pc = "hash" => pc' = "hash"
  PROVE  PoolInv' /\ \A f : InPool(f)' <=> InPool(f)
BY DEF PoolInv, Once, InPool

(* A file goes from the sender to the channel to a worker to the results.  *)
LEMMA SendMoves ==
  ASSUME PoolInv, TypeOK, NEW f \in File, Send(f)
  PROVE  PoolInv' /\ \A g : InPool(g)' <=> InPool(g)
<1>1. /\ pc = "hash" /\ f \in toSend /\ toSend' = toSend \ {f} /\ jobs' = jobs \cup {f}
      /\ UNCHANGED <<pc, busy, hashed>>
  BY DEF Send, Running
<1> QED  BY <1>1 DEF PoolInv, Once, InPool

LEMMA TakeMoves ==
  ASSUME PoolInv, TypeOK, NEW w \in Worker, NEW f \in File, Take(w, f)
  PROVE  PoolInv' /\ \A g : InPool(g)' <=> InPool(g)
<1>1. /\ pc = "hash" /\ f \in jobs /\ busy[w] = {} /\ jobs' = jobs \ {f}
      /\ busy' = [busy EXCEPT ![w] = {f}] /\ UNCHANGED <<pc, toSend, hashed>>
  BY DEF Take, Running, Idle
<1>2. busy'[w] = {f} /\ \A v \in Worker : v # w => busy'[v] = busy[v]
  BY <1>1 DEF TypeOK
<1>3. \A g : InPool(g)' <=> InPool(g)
  <2>1. ASSUME NEW g, InPool(g) PROVE InPool(g)'
    BY <1>1, <1>2, <2>1 DEF InPool
  <2>2. ASSUME NEW g, InPool(g)' PROVE InPool(g)
    BY <1>1, <1>2, <2>2 DEF InPool
  <2> QED  BY <2>1, <2>2 DEF InPool
<1>4. Once'  BY <1>1, <1>2 DEF PoolInv, Once
<1> QED  BY <1>1, <1>3, <1>4 DEF PoolInv

(* A worker is done with its file: it counts as hashed or has failed.      *)
LEMMA LetGo ==
  ASSUME PoolInv, TypeOK, NEW w \in Worker, busy[w] # Idle,
         busy' = [busy EXCEPT ![w] = Idle], UNCHANGED <<pc, toSend, jobs>>,
         hashed' = hashed \cup busy[w] \/ hashed' = hashed
  PROVE  /\ PoolInv'
         /\ hashed' = hashed \cup busy[w] => \A g : InPool(g)' <=> InPool(g)
         /\ hashed' = hashed => \A g : InPool(g)' <=> InPool(g) /\ g \notin busy[w]
<1>1. busy'[w] = {} /\ \A v \in Worker : v # w => busy'[v] = busy[v]
  BY DEF TypeOK, Idle
<1>2. \A g : g \in busy[w] => InPool(g)  BY DEF InPool
<1>3. \A g : InPool(g)' => InPool(g)  BY <1>1 DEF InPool
<1>4. \A g : InPool(g) => InPool(g)' \/ g \in busy[w]  BY <1>1 DEF InPool
<1>5. ASSUME NEW g \in busy[w] PROVE InPool(g)' <=> g \in hashed'
  <2>1. g \notin toSend \cup jobs \cup hashed  BY DEF PoolInv, Once
  <2>2. \A v \in Worker : g \notin busy'[v]  BY <1>1 DEF PoolInv, Once
  <2> QED  BY <2>1, <2>2 DEF InPool
<1>6. Once'
  <2>1. /\ hashed' \cap (toSend \cup jobs) = {}
        /\ \A v \in Worker : busy'[v] \cap (toSend \cup jobs \cup hashed') = {}
    BY <1>1 DEF PoolInv, Once
  <2>2. \A u, v \in Worker : u # v => busy'[u] \cap busy'[v] = {}
    BY <1>1 DEF PoolInv, Once
  <2> QED  BY <2>1, <2>2 DEF PoolInv, Once
<1>7. PoolInv'  BY <1>3, <1>6 DEF PoolInv
<1>8. \A g \in busy[w] : g \notin hashed  BY DEF PoolInv, Once
<1>9. hashed' = hashed \cup busy[w] => \A g : InPool(g)' <=> InPool(g)
  BY <1>2, <1>3, <1>4, <1>5 DEF InPool
<1>10. hashed' = hashed => \A g : InPool(g)' <=> InPool(g) /\ g \notin busy[w]
  BY <1>3, <1>4, <1>5, <1>8 DEF InPool
<1> QED  BY <1>7, <1>9, <1>10

LEMMA HashingStays ==
  ASSUME UNCHANGED failed, \A f : InPool(f)' <=> InPool(f)
  PROVE  \A s : Hashing(s)' <=> Hashing(s)
BY DEF Hashing

LEMMA MovesFound ==
  ASSUME FoundInv, [Next]_vars, Running("hash"), PoolInv', \A f : InPool(f)' <=> InPool(f),
         UNCHANGED <<mode, pc, sizes, failed, batch, groups, broken, exit>>
  PROVE  FoundInv'
<1>1. mode.checksum  BY DEF FoundInv, ByMtime, Running
<1>2. ASSUME NEW cur, AtHand(cur) PROVE AtHand(cur)'
  BY <1>2, HashingStays DEF AtHand, Running
<1> QED  BY <1>1, <1>2, QuietFound DEF Running

LEMMA HashFailsFound ==
  ASSUME FoundInv, [Next]_vars, NEW w \in Worker, HashFails(w)
  PROVE  FoundInv'
<1>1. /\ pc = "hash" /\ exit = "running" /\ busy[w] # Idle /\ busy' = [busy EXCEPT ![w] = Idle]
      /\ failed' = failed \cup busy[w]
      /\ UNCHANGED <<mode, pc, sizes, toSend, jobs, hashed, batch, groups, broken, exit>>
  BY DEF HashFails, Running, out
<1>2. TypeOK' /\ ReportInv' /\ mode.checksum /\ TypeOK /\ PoolInv
  BY <1>1, NextTyped, NextReport DEF FoundInv, ByMtime
<1>3. PoolInv' /\ \A g : InPool(g)' <=> InPool(g) /\ g \notin busy[w]
  BY <1>1, <1>2, LetGo
<1>4. PICK cur \in SUBSET CollisionSizes : Found(cur) /\ AtHand(cur)
  BY <1>2 DEF FoundInv, ByHash
<1>5. PICK s \in CollisionSizes : cur = {s} /\ Hashing(s)  BY <1>1, <1>4 DEF AtHand
<1>6. busy[w] \subseteq File /\ \A f \in busy[w] : Size[f] = s
  <2>1. busy[w] \subseteq File  BY <1>2 DEF TypeOK, Idle
  <2>2. \A f \in busy[w] : InPool(f)  BY DEF InPool
  <2> QED  BY <1>5, <2>1, <2>2 DEF Hashing
<1>7. s \in cur /\ s \notin sizes  BY <1>4, <1>5 DEF Found
<1>8. Found(cur)'
  <2>1. \A f \in busy[w] : Size[f] \in sizes \cup cur  BY <1>6, <1>7
  <2>2. {c \in Duplicates : Without(c, sizes \cup cur)}' = {c \in Duplicates : Without(c, sizes \cup cur)}
    BY <1>1, <1>2, <1>6, <2>1, FailuresToCome
  <2> QED  BY <1>1, <1>4, <2>2 DEF Found, Without
<1>9. Hashing(s)'
  <2> SUFFICES ASSUME NEW f \in File
               PROVE  /\ InPool(f)' => Size[f] = s /\ f \notin failed'
                      /\ Size[f] = s => InPool(f)' \/ f \in failed'
    BY DEF Hashing
  <2> QED  BY <1>1, <1>3, <1>5 DEF Hashing
<1>10. AtHand(cur)'  BY <1>1, <1>5, <1>9 DEF AtHand
<1>11. \A f \in failed' : Size[f] \notin sizes'
  BY <1>1, <1>2, <1>6, <1>7 DEF FoundInv, ByHash
<1>12. ByHash'  BY <1>4, <1>8, <1>10, <1>11 DEF ByHash
<1> QED  BY <1>1, <1>2, <1>3, <1>12 DEF FoundInv
LEMMA QuietSteps ==
  ASSUME FoundInv, [Next]_vars,
         OpenReport \/ Exit \/ Kill \/ (\E r \in rows : WriteRow(r) \/ Spill(r)) \/ UNCHANGED vars
  PROVE  FoundInv'
<1>1. /\ UNCHANGED <<mode, sizes, toSend, jobs, busy, hashed, failed, batch, broken, groups>>
      /\ pc' = pc \/ (pc = "open" /\ pc' = "pass")
      /\ exit' = "ok" => pc' = "done"
  BY DEF FoundInv, OpenReport, Exit, Kill, WriteRow, Spill, vars, pool, out, Running
<1>2. PoolInv' /\ \A f : InPool(f)' <=> InPool(f)
  BY <1>1, PoolStays DEF FoundInv
<1>3. Duplicates' = Duplicates  BY <1>1, SameDuplicates
<1>4. ASSUME NEW cur, AtHand(cur) PROVE AtHand(cur)'
  BY <1>1, <1>2, <1>3, <1>4, HashingStays DEF AtHand
<1>6. ~mode.checksum => /\ pc' # "hash" /\ (pc' \in {"open", "pass", "batch"} => pc # "done")
                        /\ pc' = "batch" => batch' = MtimeGroups
                        /\ pc' = "done" /\ ~broken' => pc = "done" /\ ~broken
  BY <1>1 DEF FoundInv, ByMtime
<1> QED  BY <1>1, <1>2, <1>4, <1>6, QuietFound

LEMMA PassEndsFound == ASSUME FoundInv, [Next]_vars, PassEnds PROVE FoundInv'
<1>1. /\ pc = "pass" /\ pc' = "done" /\ exit = "running" /\ exit' = exit /\ mode.checksum /\ sizes = {}
      /\ UNCHANGED <<mode, sizes, toSend, jobs, busy, hashed, failed, batch, broken, groups>>
  BY DEF PassEnds, Running, pool, out
<1>2. PoolInv'  BY <1>1, PoolStays DEF FoundInv
<1>3. ASSUME NEW cur, AtHand(cur) PROVE AtHand(cur)'
  BY <1>1, <1>3 DEF AtHand
<1> QED  BY <1>1, <1>2, <1>3, QuietFound

(* The report cannot be written: the pass ends, what it found stays.       *)
LEMMA WriteFailsFound == ASSUME FoundInv, [Next]_vars, WriteFails PROVE FoundInv'
<1>1. /\ pc = "batch" /\ pc' = "done" /\ broken' = TRUE /\ exit' \in {"running", "error"}
      /\ UNCHANGED <<mode, sizes, toSend, jobs, busy, hashed, failed, batch, groups>>
  BY DEF WriteFails, Running, pool
<1>2. PoolInv'  BY <1>1, PoolStays DEF FoundInv
<1>3. ASSUME NEW cur, AtHand(cur) PROVE AtHand(cur)'
  BY <1>1, <1>3 DEF AtHand
<1> QED  BY <1>1, <1>2, <1>3, QuietFound

-----------------------------------------------------------------------------
(* A size is taken: passed over, it hides no duplicates; hashed, the pool  *)
(* has exactly its files to do.                                            *)
LEMMA NextSizeFound ==
  ASSUME FoundInv, [Next]_vars, NEW s \in sizes, NextSize(s)
  PROVE  FoundInv'
<1>1. /\ pc = "pass" /\ exit = "running" /\ IsLargest(s) /\ sizes' = sizes \ {s}
      /\ UNCHANGED <<mode, jobs, busy, hashed, failed, batch, broken, groups, exit>>
      /\ \/ mode.crossRoot /\ ~Spans(WithSize(s)) /\ UNCHANGED <<pc, toSend>>
         \/ pc' = "hash" /\ toSend' = WithSize(s)
  BY DEF NextSize, Running, out
<1>2. TypeOK' /\ ReportInv' /\ mode.checksum /\ PoolInv /\ sizes \subseteq CollisionSizes
  BY NextTyped, NextReport DEF FoundInv, ByMtime, TypeOK
<1>3. Found({})
  <2>1. PICK cur \in SUBSET CollisionSizes : Found(cur) /\ AtHand(cur)
    BY <1>2 DEF FoundInv, ByHash
  <2> QED  BY <1>1, <2>1 DEF AtHand
<1>4. \A f \in failed : Size[f] \notin sizes
  BY <1>2 DEF FoundInv, ByHash
<1>5. CollisionSizes \subseteq Nat /\ \A t \in sizes' : t < s
  BY <1>1, <1>2, SizesAreNumbers DEF IsLargest
<1>6. CollisionSizes' = CollisionSizes /\ Duplicates' = Duplicates
  BY <1>1, SameDuplicates DEF CollisionSizes, WithSize
<1>7. CASE mode.crossRoot /\ ~Spans(WithSize(s)) /\ UNCHANGED <<pc, toSend>>
  <2>1. PoolInv'  BY <1>1, <1>2, <1>7, PoolStays
  <2>2. ASSUME NEW c \in Duplicates PROVE Without(c, sizes) <=> Without(c, sizes')
    <3>1. PICK t \in CollisionSizes : c \subseteq WithSize(t) /\ Spans(WithSize(t))
      BY <1>7, OneSize
    <3>2. t # s  BY <1>7, <3>1
    <3> QED  BY <1>1, <3>1, <3>2 DEF Without, WithSize
  <2>3. \A t \in sizes', u \in CollisionSizes \ sizes' : t < u
    BY <1>1, <1>3, <1>5 DEF Found
  <2>4. groups' = {c \in Duplicates : Without(c, sizes')}
    BY <1>1, <1>3, <2>2 DEF Found
  <2>5. Found({})'  BY <1>6, <2>3, <2>4 DEF Found, Without
  <2>6. AtHand({})'  BY <1>1, <1>7 DEF AtHand
  <2>7. ByHash'  BY <1>1, <1>4, <2>5, <2>6 DEF ByHash
  <2> QED  BY <1>1, <1>2, <2>1, <2>7 DEF FoundInv
<1>8. CASE pc' = "hash" /\ toSend' = WithSize(s)
  <2>1. \A f \in File : ~InPool(f)  BY <1>1, <1>2 DEF PoolInv
  <2>2. jobs = {} /\ hashed = {} /\ \A w \in Worker : busy[w] = {}
    BY <2>1 DEF FoundInv, TypeOK, InPool, Idle
  <2>3. \A f : InPool(f)' <=> f \in WithSize(s)
    BY <1>1, <1>8, <2>2 DEF InPool
  <2>4. PoolInv'  BY <1>1, <1>8, <2>2 DEF PoolInv, Once
  <2>5. Hashing(s)'
    <3> SUFFICES ASSUME NEW f \in File
                 PROVE  /\ InPool(f)' => Size[f] = s /\ f \notin failed'
                        /\ Size[f] = s => InPool(f)' \/ f \in failed'
      BY DEF Hashing
    <3> QED  BY <1>1, <1>4, <2>3 DEF WithSize
  <2>6. sizes' \cup {s} = sizes  BY <1>1
  <2>7. s \in CollisionSizes \ sizes'  BY <1>1, <1>2
  <2>8. Found({s})'
    <3>1. \A t \in sizes, u \in CollisionSizes \ sizes : t < u  BY <1>3 DEF Found
    <3>2. groups' = {c \in Duplicates : Without(c, sizes' \cup {s})}
      BY <1>1, <1>3, <2>6 DEF Found
    <3> QED  BY <1>5, <1>6, <2>6, <2>7, <3>1, <3>2 DEF Found, Without
  <2>9. AtHand({s})'  BY <1>2, <1>6, <1>8, <2>5 DEF AtHand
  <2>10. ByHash'  BY <1>1, <1>2, <1>4, <1>6, <2>8, <2>9 DEF ByHash
  <2> QED  BY <1>1, <1>2, <2>4, <2>10 DEF FoundInv
<1> QED  BY <1>1, <1>7, <1>8

(* The pool is dry: what it hashed is every readable file of the size, so  *)
(* its groups are all the duplicates of that size.                         *)
LEMMA CollectFound ==
  ASSUME FoundInv, [Next]_vars, CollectHashes
  PROVE  FoundInv'
<1> DEFINE gs == GroupedBy(hashed, Content)
<1>1. /\ pc = "hash" /\ exit = "running" /\ hashed' = {}
      /\ toSend = {} /\ jobs = {} /\ \A w \in Worker : busy[w] = {}
      /\ UNCHANGED <<mode, sizes, toSend, jobs, busy, failed, broken, groups, exit>>
      /\ \/ gs = {} /\ pc' = "pass"
         \/ pc' = "batch" /\ batch' = gs
  BY DEF CollectHashes, Running, PoolIsDry, HandOn, Idle
<1>2. TypeOK' /\ ReportInv' /\ mode.checksum /\ PoolInv /\ hashed \subseteq File /\ failed \subseteq File
  BY <1>1, NextTyped, NextReport DEF FoundInv, ByMtime, TypeOK
<1>3. PICK cur \in SUBSET CollisionSizes : Found(cur) /\ AtHand(cur)
  BY <1>2 DEF FoundInv, ByHash
<1>4. PICK s \in CollisionSizes : cur = {s} /\ Hashing(s)  BY <1>1, <1>3 DEF AtHand
<1>5. hashed = {f \in File \ failed : Size[f] = s}
  <2>1. \A f : InPool(f) <=> f \in hashed  BY <1>1 DEF InPool
  <2> QED  BY <1>2, <1>4, <2>1 DEF Hashing
<1>6. gs = {c \in Duplicates : \A f \in c : Size[f] = s}
  BY <1>2, <1>5, HashedGroups
<1>7. PoolInv'  BY <1>1, <1>2 DEF PoolInv, Once, InPool
<1>8. CollisionSizes' = CollisionSizes /\ Duplicates' = Duplicates
  BY <1>1, SameDuplicates DEF CollisionSizes, WithSize
<1>9. \A f \in failed' : Size[f] \notin sizes'
  BY <1>1, <1>2 DEF FoundInv, ByHash
<1>10. CASE gs = {} /\ pc' = "pass"
  <2>1. ASSUME NEW c \in Duplicates
        PROVE  Without(c, sizes \cup {s}) <=> Without(c, sizes)
    <3>1. PICK t \in CollisionSizes : c \subseteq WithSize(t)  BY OneSize
    <3>2. t # s  BY <1>6, <1>10, <3>1 DEF WithSize
    <3> QED  BY <3>1, <3>2 DEF Without, WithSize
  <2>2. groups = {c \in Duplicates : Without(c, sizes)}
    BY <1>3, <1>4, <2>1 DEF Found
  <2>3. \A t \in sizes, u \in CollisionSizes \ sizes : t < u
    BY <1>3, <1>4 DEF Found
  <2>4. Found({})'  BY <1>1, <1>8, <2>2, <2>3 DEF Found, Without
  <2>5. AtHand({})'  BY <1>1, <1>10 DEF AtHand
  <2>6. ByHash'  BY <1>9, <2>4, <2>5 DEF ByHash
  <2> QED  BY <1>1, <1>2, <1>7, <2>6 DEF FoundInv
<1>11. CASE pc' = "batch" /\ batch' = gs
  <2>1. Found(cur)'  BY <1>1, <1>3, <1>8 DEF Found, Without
  <2>2. AtHand(cur)'  BY <1>1, <1>4, <1>6, <1>8, <1>11 DEF AtHand
  <2>3. ByHash'  BY <1>3, <1>8, <1>9, <2>1, <2>2 DEF ByHash
  <2> QED  BY <1>1, <1>2, <1>7, <2>3 DEF FoundInv
<1> QED  BY <1>1, <1>10, <1>11

LEMMA FastPassFound ==
  ASSUME FoundInv, [Next]_vars, FastPass
  PROVE  FoundInv'
<1>1. /\ pc = "pass" /\ pc' = "batch" /\ batch' = MtimeGroups /\ ~mode.checksum /\ exit = "running"
      /\ UNCHANGED <<mode, sizes, toSend, jobs, busy, hashed, failed, broken, groups, exit>>
  BY DEF FastPass, Running, HandOn, pool
<1>2. PoolInv'  BY <1>1, PoolStays DEF FoundInv
<1> QED  BY <1>1, <1>2, QuietFound

(* The batch joins the groups.                                             *)
LEMMA EndBatchFound ==
  ASSUME FoundInv, [Next]_vars, EndBatch
  PROVE  FoundInv'
<1>1. /\ pc = "batch" /\ exit = "running" /\ groups' = groups \cup batch
      /\ pc' = (IF mode.checksum THEN "pass" ELSE "done")
      /\ UNCHANGED <<mode, sizes, toSend, jobs, busy, hashed, failed, batch, broken, exit>>
  BY DEF EndBatch, Running, pool
<1>2. TypeOK' /\ ReportInv' /\ PoolInv
  BY NextTyped, NextReport DEF FoundInv
<1>3. PoolInv'  BY <1>1, <1>2, PoolStays
<1>4. CollisionSizes' = CollisionSizes /\ Duplicates' = Duplicates /\ MtimeGroups' = MtimeGroups
  BY <1>1, SameDuplicates DEF CollisionSizes, WithSize
<1>5. CASE mode.checksum
  <2>1. PICK cur \in SUBSET CollisionSizes : Found(cur) /\ AtHand(cur)
    BY <1>5 DEF FoundInv, ByHash
  <2>2. PICK s \in CollisionSizes :
          cur = {s} /\ batch = {c \in Duplicates : \A f \in c : Size[f] = s}
    BY <1>1, <2>1 DEF AtHand
  <2>3. s \notin sizes  BY <2>1, <2>2 DEF Found
  <2>4. ASSUME NEW c \in Duplicates
        PROVE  Without(c, sizes) <=> Without(c, sizes \cup {s}) \/ \A f \in c : Size[f] = s
    <3>1. PICK t \in CollisionSizes : c # {} /\ c \subseteq WithSize(t)  BY OneSize
    <3> QED  BY <2>3, <3>1 DEF Without, WithSize
  <2>5. groups' = {c \in Duplicates : Without(c, sizes)}
    BY <1>1, <2>1, <2>2, <2>4 DEF Found
  <2>6. \A t \in sizes, u \in CollisionSizes \ sizes : t < u
    BY <2>1, <2>2 DEF Found
  <2>7. Found({})'  BY <1>1, <1>4, <2>5, <2>6 DEF Found, Without
  <2>8. AtHand({})'  BY <1>1, <1>5 DEF AtHand
  <2>9. ByHash'  BY <1>1, <1>5, <2>7, <2>8 DEF FoundInv, ByHash
  <2> QED  BY <1>1, <1>2, <1>3, <1>5, <2>9 DEF FoundInv
<1>6. CASE ~mode.checksum
  <2>1. ByMtime'  BY <1>1, <1>4, <1>6 DEF FoundInv, ByMtime
  <2> QED  BY <1>1, <1>2, <1>3, <1>6, <2>1 DEF FoundInv
<1> QED  BY <1>5, <1>6

LEMMA NextFound == FoundInv /\ [Next]_vars => FoundInv'
<1> SUFFICES ASSUME FoundInv, [Next]_vars PROVE FoundInv'  OBVIOUS
<1>0. TypeOK /\ PoolInv  BY DEF FoundInv
<1>1. CASE OpenReport \/ Exit \/ Kill \/ UNCHANGED vars  BY <1>1, QuietSteps
<1>2. CASE PassEnds  BY <1>2, PassEndsFound
<1>3. CASE FastPass  BY <1>3, FastPassFound
<1>4. ASSUME NEW s \in sizes, NextSize(s) PROVE FoundInv'  BY <1>4, NextSizeFound
<1>5. ASSUME NEW f \in File, Send(f) PROVE FoundInv'
  <2>1. PoolInv' /\ \A g : InPool(g)' <=> InPool(g)  BY <1>0, <1>5, SendMoves
  <2>2. Running("hash") /\ UNCHANGED <<mode, pc, sizes, failed, batch, groups, broken, exit>>
    BY <1>5 DEF Send, out
  <2> QED  BY <2>1, <2>2, MovesFound
<1>6. ASSUME NEW w \in Worker, NEW f \in File, Take(w, f) PROVE FoundInv'
  <2>1. PoolInv' /\ \A g : InPool(g)' <=> InPool(g)  BY <1>0, <1>6, TakeMoves
  <2>2. Running("hash") /\ UNCHANGED <<mode, pc, sizes, failed, batch, groups, broken, exit>>
    BY <1>6 DEF Take, out
  <2> QED  BY <2>1, <2>2, MovesFound
<1>7. ASSUME NEW w \in Worker, HashDone(w) PROVE FoundInv'
  <2>1. /\ Running("hash") /\ busy[w] # Idle /\ hashed' = hashed \cup busy[w]
        /\ busy' = [busy EXCEPT ![w] = Idle]
        /\ UNCHANGED <<mode, pc, sizes, toSend, jobs, failed, batch, groups, broken, exit>>
    BY <1>7 DEF HashDone, out
  <2>2. PoolInv' /\ \A g : InPool(g)' <=> InPool(g)  BY <1>0, <2>1, LetGo
  <2> QED  BY <2>1, <2>2, MovesFound
<1>8. ASSUME NEW w \in Worker, HashFails(w) PROVE FoundInv'  BY <1>8, HashFailsFound
<1>9. CASE CollectHashes  BY <1>9, CollectFound
<1>10. CASE (\E r \in rows : WriteRow(r) \/ Spill(r))  BY <1>10, QuietSteps
<1>11. CASE EndBatch  BY <1>11, EndBatchFound
<1>12. CASE WriteFails  BY <1>12, WriteFailsFound
<1> QED  BY <1>1, <1>2, <1>3, <1>4, <1>5, <1>6, <1>7, <1>8, <1>9, <1>10, <1>11, <1>12
        DEF Next, Run, Pool, Write

-----------------------------------------------------------------------------
(* In every reachable state the channel holds no more jobs than there are  *)
(* workers, and the report's rows are copies of the batch at hand          *)
(* (hashFilesParallel, WriteGroups).                                       *)
THEOREM DetectionTyped == Spec => []TypeOK
<1>1. FoundInv => TypeOK  BY DEF FoundInv
<1> QED  BY <1>1, InitFound, NextFound, PTL DEF Spec

LEMMA NothingToCome ==
  ASSUME FoundInv, mode.checksum, pc = "done", ~broken
  PROVE  groups = Duplicates
<1>1. PICK cur \in SUBSET CollisionSizes : Found(cur) /\ AtHand(cur)
  BY DEF FoundInv, ByHash
<1>2. cur = {} /\ sizes = {}  BY <1>1 DEF AtHand
<1> QED  BY <1>1, <1>2 DEF Found, Without

(* A run of the file passes that ends by itself has found every set of     *)
(* copies, whole, among the files it could read, whatever order the pool   *)
(* hashes in and whichever files fail (ChecksumDupsStore, MtimeDupsStore). *)
THEOREM AllDuplicatesFound == Spec => []FindsAllDuplicates
<1>1. ASSUME FoundInv PROVE FindsAllDuplicates
  <2> SUFFICES ASSUME exit = "ok", ~broken PROVE groups = Duplicates
    BY DEF FindsAllDuplicates
  <2>1. pc = "done"  BY <1>1 DEF FoundInv
  <2>2. CASE mode.checksum  BY <1>1, <2>1, <2>2, NothingToCome
  <2>3. CASE ~mode.checksum
    BY <1>1, <2>1, <2>3, MtimeGroupsAreDuplicates DEF FoundInv, ByMtime
  <2> QED  BY <2>2, <2>3
<1> QED  BY <1>1, InitFound, NextFound, PTL DEF Spec

(* At every moment of a run with -c, what it has found is larger than      *)
(* everything it has still to find, whatever sizes are passed over and     *)
(* whichever files fail (ChecksumDupsStore takes sizes "largest first").   *)
THEOREM LargestFirst == Spec => []LargestGroupsFirst
<1>1. ASSUME FoundInv PROVE LargestGroupsFirst
  <2> SUFFICES ASSUME mode.checksum, NEW g \in groups, NEW h \in Duplicates \ groups,
                      NEW f \in g, NEW e \in h
               PROVE  Size[e] < Size[f]
    BY DEF LargestGroupsFirst
  <2>1. PICK cur \in SUBSET CollisionSizes : Found(cur) /\ AtHand(cur)
    BY <1>1 DEF FoundInv, ByHash
  <2> DEFINE left == sizes \cup cur
  <2>2. g \in Duplicates /\ Size[f] \notin left  BY <2>1 DEF Found, Without
  <2>3. PICK d \in h : Size[d] \in left  BY <2>1 DEF Found, Without
  <2>4. PICK t \in CollisionSizes : h \subseteq WithSize(t)  BY OneSize
  <2>5. Size[e] \in left  BY <2>3, <2>4 DEF WithSize
  <2>6. Size[f] \in CollisionSizes
    <3>1. PICK u \in CollisionSizes : g \subseteq WithSize(u)  BY <2>2, OneSize
    <3> QED  BY <3>1 DEF WithSize
  <2> QED  BY <2>1, <2>2, <2>5, <2>6 DEF Found
<1> QED  BY <1>1, InitFound, NextFound, PTL DEF Spec
=============================================================================
