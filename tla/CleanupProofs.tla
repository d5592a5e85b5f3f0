--------------------------- MODULE CleanupProofs ---------------------------
(***************************************************************************)
(* Theorems about the deletion drivers and about a rehearsed headless run, *)
(* for every queue, class partition, glob, set of refusing files and flag  *)
(* combination the assumptions of Cleanup allow.                           *)
(***************************************************************************)
EXTENDS Rehearsal, TLAPS, WellFoundedInduction

(* A non-empty set of naturals has a least element.                        *)
LEMMA NatMin ==
  ASSUME NEW T, T \subseteq Nat, T # {}
  PROVE  \E x \in T : \A y \in T : x <= y
<1>1. PICK x \in T : \A y \in T : ~ (<<y, x>> \in OpToRel(<, Nat))
  BY NatLessThanWellFounded, WFMin
<1>2. ASSUME NEW y \in T PROVE x <= y
  <2>1. y < x => <<y, x>> \in OpToRel(<, Nat)
    BY DEF OpToRel
  <2>2. x \in Nat /\ y \in Nat
    OBVIOUS
  <2>3. ~ (y < x)
    BY <1>1, <2>1, Zenon
  <2> QED BY <2>2, <2>3
<1> QED BY <1>2

(* The copy the keep-first policy preserves is one of the survivors.       *)
LEMMA FirstIsAlive ==
  ASSUME NEW s \in Seq(File), Alive(s) # {}
  PROVE  FirstAlive(s) \in Alive(s)
<1> DEFINE live == {k \in DOMAIN s : s[k] \notin deleted}
<1>1. live \subseteq Nat /\ live # {}
  BY DEF Alive, RangeOf
<1>2. PICK x \in live : \A y \in live : x <= y
  BY <1>1, NatMin
<1>3. \E k \in DOMAIN s : s[k] \notin deleted /\ \A j \in DOMAIN s : s[j] \notin deleted => k <= j
  BY <1>2
<1> QED BY <1>3 DEF FirstAlive, Alive, RangeOf

(* The item a block stands at is one of those left.                        *)
LEMMA CurrentIsLeft ==
  ASSUME rest \subseteq Nat, rest # {}
  PROVE  CurrentItem \in rest
BY NatMin DEF CurrentItem

(* A column item seen as a group has the files of both columns.            *)
LEMMA ConcatRange ==
  ASSUME NEW s \in Seq(File), NEW t \in Seq(File)
  PROVE  RangeOf(s \o t) = RangeOf(s) \cup RangeOf(t)
<1>1. ASSUME NEW x \in RangeOf(s \o t) PROVE x \in RangeOf(s) \cup RangeOf(t)
  <2>1. PICK k \in DOMAIN (s \o t) : x = (s \o t)[k]
    BY DEF RangeOf
  <2>2. CASE k <= Len(s)
    BY <2>1, <2>2 DEF RangeOf
  <2>3. CASE k > Len(s)
    <3>1. k - Len(s) \in DOMAIN t /\ x = t[k - Len(s)]
      BY <2>1, <2>3
    <3> QED BY <3>1 DEF RangeOf
  <2> QED BY <2>1, <2>2, <2>3
<1>2. ASSUME NEW x \in RangeOf(s) PROVE x \in RangeOf(s \o t)
  <2>1. PICK k \in DOMAIN s : x = s[k]
    BY DEF RangeOf
  <2>2. k \in DOMAIN (s \o t) /\ (s \o t)[k] = x
    BY <2>1
  <2> QED BY <2>2 DEF RangeOf
<1>3. ASSUME NEW x \in RangeOf(t) PROVE x \in RangeOf(s \o t)
  <2>1. PICK k \in DOMAIN t : x = t[k]
    BY DEF RangeOf
  <2>2. k + Len(s) \in DOMAIN (s \o t) /\ (s \o t)[k + Len(s)] = x
    BY <2>1
  <2> QED BY <2>2 DEF RangeOf
<1> QED BY <1>1, <1>2, <1>3

-----------------------------------------------------------------------------
(* What a decision about one action may put into jobs.                     *)
SoundDecision(js) ==
  /\ js \subseteq Job
  /\ \A j \in js : SoundJob(j)
  /\ \A j \in js : j.kind = "group" => js = {j} /\ j.keep \ deleted # {}

(* The three kinds of queue entries, with what QueueAssumption says of     *)
(* them.                                                                   *)
LEMMA QueueGroup ==
  ASSUME NEW q \in DOMAIN Queue, Queue[q].kind = "group"
  PROVE  Queue[q].files \in Seq(File) /\ OneClass(RangeOf(Queue[q].files))
BY QueueAssumption DEF Action, GroupAction, TreeAction, OverlapAction

(* A tree action names two directories.                                    *)
LEMMA QueueTree ==
  ASSUME NEW q \in DOMAIN Queue, Queue[q].kind = "tree"
  PROVE  Queue[q].a \in Dir /\ Queue[q].b \in Dir
BY QueueAssumption DEF Action, GroupAction, TreeAction, OverlapAction

(* The columns of an item are disjoint parts of one class.                 *)
LEMMA QueueOverlap ==
  ASSUME NEW q \in DOMAIN Queue, Queue[q].kind = "overlap"
  PROVE  /\ DOMAIN Queue[q].items \subseteq Nat
         /\ \A k \in DOMAIN Queue[q].items :
              /\ Queue[q].items[k].a \in Seq(File) /\ Queue[q].items[k].b \in Seq(File)
              /\ OneClass(RangeOf(Queue[q].items[k].a) \cup RangeOf(Queue[q].items[k].b))
              /\ RangeOf(Queue[q].items[k].a) \cap RangeOf(Queue[q].items[k].b) = {}
<1>1. Queue[q].items \in Seq(OverlapItem)
  BY QueueAssumption DEF Action, GroupAction, TreeAction, OverlapAction
<1>2. ASSUME NEW k \in DOMAIN Queue[q].items
      PROVE  Queue[q].items[k].a \in Seq(File) /\ Queue[q].items[k].b \in Seq(File)
  <2>1. Queue[q].items[k] \in OverlapItem
    BY <1>1
  <2> QED BY <2>1 DEF OverlapItem
<1>3. DOMAIN Queue[q].items \subseteq Nat
  BY <1>1
<1>4. ASSUME NEW k \in DOMAIN Queue[q].items
      PROVE  /\ OneClass(RangeOf(Queue[q].items[k].a) \cup RangeOf(Queue[q].items[k].b))
             /\ RangeOf(Queue[q].items[k].a) \cap RangeOf(Queue[q].items[k].b) = {}
  BY QueueAssumption, Zenon
<1> QED BY <1>2, <1>3, <1>4

(* There are no other kinds.                                               *)
LEMMA QueueKinds ==
  ASSUME NEW q \in DOMAIN Queue
  PROVE  Queue[q].kind \in {"group", "tree", "overlap"}
BY QueueAssumption DEF Action, GroupAction, TreeAction, OverlapAction

(* A file group of which some live copies go and some stay.                *)
LEMMA GroupDecision ==
  ASSUME NEW s \in Seq(File), OneClass(RangeOf(s)),
         NEW victims, victims \subseteq Alive(s), victims # Alive(s)
  PROVE  SoundDecision({GroupJob(s, victims)})
<1> DEFINE j == GroupJob(s, victims)
<1>1. RangeOf(s) \subseteq File
  BY DEF RangeOf
<1>2. j \in Job
  BY <1>1 DEF GroupJob, Job, Alive
<1>3. SoundJob(j)
  <2>1. PICK c \in Class : RangeOf(s) \subseteq c
    BY DEF OneClass
  <2>2. j.del \cup j.keep \subseteq c
    BY <2>1 DEF GroupJob, Alive
  <2> QED BY <2>2 DEF SoundJob, OneClass, GroupJob
<1>4. j.keep \ deleted # {}
  BY DEF GroupJob, Alive
<1> QED BY <1>2, <1>3, <1>4 DEF SoundDecision

(* Keeping the first survivor leaves a survivor.                           *)
LEMMA AutoGroupDecision ==
  ASSUME NEW s \in Seq(File), OneClass(RangeOf(s)), Alive(s) # {}
  PROVE  SoundDecision(AutoGroupJobs(s))
BY FirstIsAlive, GroupDecision DEF AutoGroupJobs

(* Deleting the matching survivors, but never all of them, does too.       *)
LEMMA GlobGroupDecision ==
  ASSUME NEW s \in Seq(File), OneClass(RangeOf(s)), Alive(s) # {}
  PROVE  SoundDecision({GroupJob(s, GlobVictims(s))})
<1>1. GlobVictims(s) \subseteq Alive(s) /\ GlobVictims(s) # Alive(s)
  BY FirstIsAlive DEF GlobVictims
<1> QED BY <1>1, GroupDecision

(* Deleting one side of a queued tree.                                     *)
LEMMA TreeDecision ==
  ASSUME NEW q \in DOMAIN Queue, Queue[q].kind = "tree",
         NEW d \in {Queue[q].a, Queue[q].b}
  PROVE  SoundDecision({TreeJob(d)})
<1>1. TreeJob(d) \in Job
  BY QueueTree, WorldAssumption DEF TreeJob, Job, Lookup
<1>2. SoundJob(TreeJob(d))
  BY DEF TreeJob, SoundJob
<1> QED BY <1>1, <1>2 DEF SoundDecision, TreeJob

(* Deleting one column of a block.                                         *)
LEMMA ColumnDecision ==
  ASSUME NEW q \in DOMAIN Queue, Queue[q].kind = "overlap", NEW delA \in BOOLEAN
  PROVE  SoundDecision(ColumnJobs(Queue[q], delA))
<1>1. ASSUME NEW k \in DOMAIN Queue[q].items
      PROVE  LET j == ColumnJob(Queue[q].items[k], delA) IN
             j \in Job /\ SoundJob(j) /\ j.kind = "overlap"
  <2> DEFINE it == Queue[q].items[k]
             A == RangeOf(it.a)
             B == RangeOf(it.b)
  <2>0. A \subseteq File /\ B \subseteq File
    <3>1. it.a \in Seq(File) /\ it.b \in Seq(File)
      BY QueueOverlap, Zenon
    <3> QED BY <3>1 DEF RangeOf
  <2>1. A \subseteq File /\ B \subseteq File /\ OneClass(A \cup B) /\ A \cap B = {}
    BY <2>0, QueueOverlap, Zenon
  <2>2. ColumnJob(it, delA) =
          [kind |-> "overlap", dir |-> NoDir,
           del |-> IF delA THEN A ELSE B, keep |-> IF delA THEN B ELSE A]
    BY DEF ColumnJob
  <2> HIDE DEF A, B
  <2> QED BY <2>1, <2>2 DEF Job, SoundJob, OneClass
<1> QED BY <1>1 DEF ColumnJobs, LiveItems, SoundDecision

(* applyAuto and applyGlobRemoval decide soundly about a live action.      *)
LEMMA LiveGroup ==
  ASSUME NEW q \in DOMAIN Queue, Queue[q].kind = "group", Live(Queue[q])
  PROVE  Alive(Queue[q].files) # {}
BY DEF Live, AtLeastTwo

(* applyAuto.                                                              *)
LEMMA AutoDecision ==
  ASSUME NEW q \in DOMAIN Queue, Live(Queue[q])
  PROVE  SoundDecision(AutoJobs(Queue[q]))
<1>1. CASE Queue[q].kind = "group"
  BY <1>1, LiveGroup, QueueGroup, AutoGroupDecision DEF AutoJobs
<1>2. CASE Queue[q].kind = "tree"
  BY <1>2, TreeDecision DEF AutoJobs
<1>3. CASE Queue[q].kind = "overlap"
  BY <1>3, ColumnDecision DEF AutoJobs
<1> QED BY <1>1, <1>2, <1>3, QueueKinds

(* applyGlobRemoval.                                                       *)
LEMMA GlobDecision ==
  ASSUME NEW q \in DOMAIN Queue, Live(Queue[q])
  PROVE  SoundDecision(GlobJobs(Queue[q]))
<1>0. SoundDecision({})
  BY DEF SoundDecision
<1>1. CASE Queue[q].kind = "group"
  BY <1>1, LiveGroup, QueueGroup, GlobGroupDecision DEF GlobJobs
<1>2. CASE Queue[q].kind = "tree"
  BY <1>0, <1>2, TreeDecision DEF GlobJobs
<1>3. CASE Queue[q].kind = "overlap"
  BY <1>0, <1>3, ColumnDecision DEF GlobJobs
<1> QED BY <1>1, <1>2, <1>3, QueueKinds

-----------------------------------------------------------------------------
(* Type correctness needs to know where the driver can stand; the two are  *)
(* preserved together with the soundness of the loops.                     *)
Inv == TypeOK /\ SurvivorInv

(* The invariant holds before the first question.                          *)
LEMMA InitInv == Init => Inv
<1> SUFFICES ASSUME Init PROVE Inv
  OBVIOUS
<1>1. TypeOK
  <2>1. Len(Queue) \in Nat
    BY QueueAssumption
  <2>2. qi \in 1 .. Len(Queue) + 1
    BY <2>1 DEF Init
  <2>3. job \in Job
    BY DEF Init, NoJob, Job
  <2>4. pc \in PCs
    BY DEF Init, PCs
  <2>5. asked \in 0 .. 2
    BY DEF Init
  <2> HIDE DEF PCs, Job
  <2> QED BY <2>2, <2>3, <2>4, <2>5, Zenon DEF Init, TypeOK
<1>2. Located
  BY DEF Init, Located
<1>3. LastCopyOutsideTrees
  <2>1. ASSUME NEW c \in Class PROVE ~(c \subseteq deleted)
    <3>1. PICK f \in c : TRUE
      BY ClassAssumption
    <3> QED BY <3>1 DEF Init
  <2> QED BY <2>1 DEF LastCopyOutsideTrees
<1> QED BY <1>1, <1>2, <1>3 DEF Init, Inv, SurvivorInv

(* The group or item a prompt shows: files of one class, two of them live. *)
LEMMA PromptedGroup ==
  ASSUME Inv, AtGroupPrompt
  PROVE  /\ PromptFiles \in Seq(File)
         /\ OneClass(RangeOf(PromptFiles))
         /\ Alive(PromptFiles) # {}
<1>1. qi \in DOMAIN Queue
  BY DEF Inv, SurvivorInv, Located, AtGroupPrompt
<1>2. CASE inBlock
  <2>1. CurrentItem \in rest /\ rest \subseteq DOMAIN Queue[qi].items /\ Queue[qi].kind = "overlap"
    BY <1>2, CurrentIsLeft DEF Inv, TypeOK, SurvivorInv, Located, AtGroupPrompt
  <2>2. /\ Queue[qi].items[CurrentItem].a \in Seq(File)
        /\ Queue[qi].items[CurrentItem].b \in Seq(File)
        /\ OneClass(RangeOf(Queue[qi].items[CurrentItem].a)
                    \cup RangeOf(Queue[qi].items[CurrentItem].b))
    BY <1>1, <2>1, QueueOverlap
  <2>3. AtLeastTwo(Alive(PromptFiles))
    BY <1>2 DEF Inv, SurvivorInv, Located, AtGroupPrompt
  <2>4. PromptFiles = Queue[qi].items[CurrentItem].a \o Queue[qi].items[CurrentItem].b
    BY <1>2 DEF PromptFiles, ItemFiles
  <2>5. PromptFiles \in Seq(File) /\ OneClass(RangeOf(PromptFiles))
    <3> DEFINE s == Queue[qi].items[CurrentItem].a
               t == Queue[qi].items[CurrentItem].b
    <3>1. s \in Seq(File) /\ t \in Seq(File) /\ OneClass(RangeOf(s) \cup RangeOf(t))
      BY <2>2
    <3>2. PromptFiles = s \o t
      BY <2>4
    <3> HIDE DEF s, t
    <3>3. s \o t \in Seq(File) /\ RangeOf(s \o t) = RangeOf(s) \cup RangeOf(t)
      BY <3>1, ConcatRange
    <3> QED BY <3>1, <3>2, <3>3
  <2>6. Alive(PromptFiles) # {}
    BY <2>3 DEF AtLeastTwo
  <2> QED BY <2>5, <2>6
<1>3. CASE ~inBlock
  <2>1. Queue[qi].kind = "group" /\ Live(Queue[qi])
    BY <1>3 DEF Inv, SurvivorInv, Located, AtGroupPrompt
  <2> QED BY <1>1, <1>3, <2>1, QueueGroup, LiveGroup DEF PromptFiles
<1> QED BY <1>2, <1>3

(* Taking a sound decision keeps the invariant.                            *)
LEMMA DecideStep ==
  ASSUME Inv, pc \in {"prompt", "next"}, qi \in DOMAIN Queue,
         NEW js, SoundDecision(js), jobs' = js, pc' = "jobs",
         UNCHANGED <<cfg, qi, rest, inBlock, job, work, diskVars>>,
         inBlock => rest # {},
         auto' \in BOOLEAN, localAuto' \in BOOLEAN, asked' \in 0 .. 2, eof' \in BOOLEAN
  PROVE  Inv'
<1>1. TypeOK'
  BY DEF Inv, TypeOK, diskVars, SoundDecision, PCs
<1>2. Located'
  BY DEF Inv, SurvivorInv, Located, diskVars
<1>3. LastCopyOutsideTrees'
  BY DEF Inv, SurvivorInv, LastCopyOutsideTrees, OutsideTrees, Lookup, diskVars
<1>4. /\ \A j \in js : SoundJob(j)
      /\ \A j \in js : j.kind = "group" => js = {j} /\ j.keep \ deleted # {}
  BY DEF SoundDecision
<1> QED BY <1>1, <1>2, <1>3, <1>4 DEF Inv, SurvivorInv, diskVars, SoundJob, TreeJob, Lookup, OneClass

(* The survival part of the invariant looks at the deleted map alone.      *)
LEMMA SurvivalKept ==
  ASSUME LastCopyOutsideTrees, UNCHANGED deleted
  PROVE  LastCopyOutsideTrees'
BY DEF LastCopyOutsideTrees, OutsideTrees, Lookup

(* Steps between actions: no loop starts, runs or is about to run.         *)
LEMMA IdleStep ==
  ASSUME Inv, TypeOK', Located', UNCHANGED <<deleted, jobs>>,
         pc # "jobs" \/ jobs = {}, pc' # "dispose"
  PROVE  Inv'
<1>1. \A j \in jobs : SoundJob(j) /\ j.kind # "group"
  BY DEF Inv, SurvivorInv
<1>2. LastCopyOutsideTrees'
  BY SurvivalKept DEF Inv, SurvivorInv
<1> QED BY <1>1, <1>2 DEF Inv, SurvivorInv, SoundJob, TreeJob, OneClass, Lookup

(* "s", and the end of the loops of an action: on to the next action.      *)
LEMMA AdvanceStep ==
  ASSUME Inv, Advance, pc \in {"prompt", "jobs"}, pc # "jobs" \/ jobs = {},
         UNCHANGED <<cfg, auto, inBlock, localAuto, eof, loopVars, diskVars>>
  PROVE  Inv'
<1>1. qi \in DOMAIN Queue /\ DOMAIN Queue = 1 .. Len(Queue) /\ Len(Queue) \in Nat
  BY QueueAssumption DEF Inv, SurvivorInv, Located
<1>2. qi' \in 1 .. Len(Queue) + 1
  BY <1>1 DEF Advance
<1>3. rest' \subseteq Nat /\ asked' \in 0 .. 2 /\ pc' \in PCs
  <2>1. rest' \in {rest, rest \ {CurrentItem}} /\ asked' = 0 /\ pc' = "next"
    BY DEF Advance
  <2> QED BY <2>1 DEF Inv, TypeOK, PCs
<1>4. TypeOK'
  BY <1>2, <1>3 DEF Inv, TypeOK, loopVars, diskVars
<1>5. Located'
  BY <1>1 DEF Inv, SurvivorInv, Located, Advance
<1> QED BY <1>4, <1>5, IdleStep DEF Advance, loopVars, diskVars

(* No action of the driver that starts no loop breaks the invariant.       *)
LEMMA ProceedStep == Inv /\ Proceed => Inv'
<1> SUFFICES ASSUME Inv, Proceed PROVE Inv'
  OBVIOUS
<1>1. TypeOK'
  BY DEF Inv, TypeOK, Proceed, userVars, loopVars, diskVars, PCs
<1>2. Located'
  BY DEF Inv, SurvivorInv, Located, Proceed, userVars
<1> QED BY <1>1, <1>2, IdleStep DEF Proceed, loopVars, diskVars

(* Running out of queue entries.                                           *)
LEMMA FinishStep == Inv /\ Finish => Inv'
<1> SUFFICES ASSUME Inv, Finish PROVE Inv'
  OBVIOUS
<1>1. TypeOK'
  BY DEF Inv, TypeOK, Finish, userVars, loopVars, diskVars, PCs
<1>2. Located'
  BY DEF Inv, SurvivorInv, Located, Finish, userVars
<1> QED BY <1>1, <1>2, IdleStep DEF Finish, loopVars, diskVars

(* Passing over a moot action.                                             *)
LEMMA SkipMootStep == Inv /\ SkipMoot => Inv'
<1> SUFFICES ASSUME Inv, SkipMoot PROVE Inv'
  OBVIOUS
<1>0. qi' \in 1 .. Len(Queue) + 1
  BY QueueAssumption DEF Inv, TypeOK, SkipMoot
<1>1. TypeOK'
  BY <1>0 DEF Inv, TypeOK, SkipMoot, userVars, loopVars, diskVars, PCs
<1>2. Located'
  BY DEF Inv, SurvivorInv, Located, SkipMoot, userVars
<1> QED BY <1>1, <1>2, IdleStep DEF SkipMoot, loopVars, diskVars

(* Deciding about a live action without the user, or asking.               *)
LEMMA BeginStep == Inv /\ Begin => Inv'
<1> SUFFICES ASSUME Inv, Begin PROVE Inv'
  OBVIOUS
<1>0. qi \in DOMAIN Queue
  BY QueueAssumption DEF Inv, TypeOK, Begin
<1>1. CASE cfg.headless \/ auto
  <2>1. SoundDecision(jobs')
    BY <1>0, <1>1, AutoDecision, GlobDecision DEF Begin
  <2>2. auto \in BOOLEAN /\ localAuto \in BOOLEAN /\ asked \in 0 .. 2 /\ eof \in BOOLEAN
    BY DEF Inv, TypeOK
  <2> QED BY <1>0, <1>1, <2>1, <2>2, DecideStep DEF Begin, userVars
<1>2. CASE ~(cfg.headless \/ auto)
  <2>1. TypeOK'
    BY <1>2 DEF Inv, TypeOK, Begin, userVars, diskVars, PCs
  <2>2. Live(Queue[qi])'
    BY DEF Begin, Live, Alive, DirFullyDeleted, Answers, Lookup, LiveItems, ItemLive, diskVars
  <2>3. Located'
    BY <1>0, <1>2, <2>2 DEF Inv, SurvivorInv, Located, Begin, userVars
  <2> QED BY <1>2, <2>1, <2>3, IdleStep DEF Begin, diskVars
<1> QED BY <1>1, <1>2

(* Leaving a block that was resolved item by item.                         *)
LEMMA LeaveBlockStep == Inv /\ LeaveBlock => Inv'
<1> SUFFICES ASSUME Inv, LeaveBlock PROVE Inv'
  OBVIOUS
<1>0. qi' \in 1 .. Len(Queue) + 1
  BY QueueAssumption DEF Inv, TypeOK, SurvivorInv, Located, LeaveBlock
<1>1. TypeOK'
  BY <1>0 DEF Inv, TypeOK, LeaveBlock, loopVars, diskVars, PCs
<1>2. Located'
  BY DEF Inv, SurvivorInv, Located, LeaveBlock
<1> QED BY <1>1, <1>2, IdleStep DEF LeaveBlock, loopVars, diskVars

(* Standing at an item of a block.                                         *)
LEMMA BlockItemStep == Inv /\ BlockItem => Inv'
<1> SUFFICES ASSUME Inv, BlockItem PROVE Inv'
  OBVIOUS
<1> DEFINE files == ItemFiles(CurrentItem)
<1>0. qi \in DOMAIN Queue /\ Queue[qi].kind = "overlap" /\ rest \subseteq DOMAIN Queue[qi].items
  BY DEF Inv, SurvivorInv, Located, BlockItem
<1>1. CASE ~AtLeastTwo(Alive(files))
  <2>1. rest' = rest \ {CurrentItem} /\ UNCHANGED <<pc, jobs>>
    BY <1>1 DEF BlockItem
  <2>2. TypeOK'
    BY <2>1 DEF Inv, TypeOK, BlockItem, diskVars
  <2>3. Located'
    BY <1>0, <2>1 DEF Inv, SurvivorInv, Located, BlockItem
  <2> QED BY <2>1, <2>2, <2>3, IdleStep DEF BlockItem, diskVars
<1>2. CASE AtLeastTwo(Alive(files)) /\ localAuto
  <2>1. files \in Seq(File) /\ OneClass(RangeOf(files)) /\ Alive(files) # {}
    <3> DEFINE s == Queue[qi].items[CurrentItem].a
               t == Queue[qi].items[CurrentItem].b
    <3>1. CurrentItem \in DOMAIN Queue[qi].items
      BY <1>0, CurrentIsLeft DEF BlockItem, Inv, TypeOK
    <3>2. s \in Seq(File) /\ t \in Seq(File) /\ OneClass(RangeOf(s) \cup RangeOf(t))
      BY <1>0, <3>1, QueueOverlap
    <3>3. files = s \o t
      BY DEF ItemFiles
    <3>4. Alive(files) # {}
      BY <1>2 DEF AtLeastTwo
    <3> HIDE DEF s, t, files
    <3>5. s \o t \in Seq(File) /\ RangeOf(s \o t) = RangeOf(s) \cup RangeOf(t)
      BY <3>2, ConcatRange
    <3> QED BY <3>2, <3>3, <3>4, <3>5
  <2>2. SoundDecision(AutoGroupJobs(files))
    BY <2>1, AutoGroupDecision
  <2>3. jobs' = AutoGroupJobs(files) /\ pc' = "jobs" /\ UNCHANGED rest
    BY <1>2 DEF BlockItem
  <2> QED BY <1>0, <2>2, <2>3, DecideStep DEF BlockItem, Inv, TypeOK
<1>3. CASE AtLeastTwo(Alive(files)) /\ ~localAuto
  <2>1. pc' = "prompt" /\ UNCHANGED <<jobs, rest>>
    BY <1>3 DEF BlockItem
  <2>2. TypeOK'
    BY <2>1 DEF Inv, TypeOK, BlockItem, diskVars, PCs
  <2>3. AtLeastTwo(Alive(PromptFiles))'
    BY <1>3, <2>1 DEF BlockItem, PromptFiles, ItemFiles, CurrentItem, Alive, AtLeastTwo, diskVars
  <2>4. Located'
    BY <1>0, <2>1, <2>3 DEF Inv, SurvivorInv, Located, BlockItem
  <2> QED BY <2>1, <2>2, <2>4, IdleStep DEF BlockItem, diskVars
<1> QED BY <1>1, <1>2, <1>3

(* Every answer the user can give.                                         *)
LEMMA PromptStep == Inv /\ Prompt => Inv'
<1> SUFFICES ASSUME Inv, Prompt PROVE Inv'
  OBVIOUS
<1>0. auto \in BOOLEAN /\ localAuto \in BOOLEAN /\ asked \in 0 .. 2 /\ eof \in BOOLEAN
  BY DEF Inv, TypeOK
<1>1. CASE Skip
  BY <1>1, AdvanceStep DEF Skip
<1>2. CASE Quit
  <2>1. TypeOK'
    BY <1>2 DEF Inv, TypeOK, Quit, userVars, loopVars, diskVars, PCs
  <2>2. Located'
    BY <1>2 DEF Inv, SurvivorInv, Located, Quit, userVars
  <2> QED BY <1>2, <2>1, <2>2, IdleStep DEF Quit, loopVars, diskVars
<1>3. CASE AnswerAuto
  <2>0. /\ pc = "prompt"
        /\ UNCHANGED <<inBlock, asked, eof>>
        /\ IF inBlock
           THEN localAuto' = TRUE /\ Decide(AutoGroupJobs(PromptFiles)) /\ UNCHANGED auto
           ELSE auto' = TRUE /\ Decide(AutoJobs(Queue[qi])) /\ UNCHANGED localAuto
    BY <1>3, Zenon DEF AnswerAuto
  <2>1. qi \in DOMAIN Queue /\ (inBlock => rest # {})
    BY <2>0 DEF Inv, SurvivorInv, Located
  <2>2. CASE inBlock
    <3>1. AtGroupPrompt
      BY <2>0, <2>2 DEF AtGroupPrompt
    <3>2. SoundDecision(AutoGroupJobs(PromptFiles))
      BY <3>1, PromptedGroup, AutoGroupDecision
    <3>3. localAuto' = TRUE /\ UNCHANGED auto /\ Decide(AutoGroupJobs(PromptFiles))
      BY <2>0, <2>2, Zenon
    <3> QED BY <1>0, <2>0, <2>1, <3>2, <3>3, DecideStep DEF Decide
  <2>3. CASE ~inBlock
    <3>1. Live(Queue[qi])
      BY <2>0, <2>3 DEF Inv, SurvivorInv, Located
    <3>2. SoundDecision(AutoJobs(Queue[qi]))
      BY <2>1, <3>1, AutoDecision
    <3>3. auto' = TRUE /\ UNCHANGED localAuto /\ Decide(AutoJobs(Queue[qi]))
      BY <2>0, <2>3, Zenon
    <3> QED BY <1>0, <2>0, <2>1, <3>2, <3>3, DecideStep DEF Decide
  <2> QED BY <2>2, <2>3
<1>4. CASE EnterBlock
  <2>1. qi \in DOMAIN Queue /\ Queue[qi].kind = "overlap" /\ ~inBlock
    BY <1>4 DEF EnterBlock, AtBlockPrompt, Inv, SurvivorInv, Located
  <2>2. rest' \subseteq DOMAIN Queue[qi].items /\ rest' \subseteq Nat
    BY <1>4, <2>1, QueueOverlap DEF EnterBlock, LiveItems
  <2>3. TypeOK'
    BY <1>4, <2>2 DEF Inv, TypeOK, EnterBlock, loopVars, diskVars, PCs
  <2>4. Located'
    BY <1>4, <2>1, <2>2 DEF Located, EnterBlock
  <2> QED BY <1>4, <2>3, <2>4, IdleStep DEF EnterBlock, AtBlockPrompt, loopVars, diskVars
<1>5. ASSUME NEW victims \in SUBSET (IF AtGroupPrompt THEN Alive(PromptFiles) ELSE {}),
             ChooseFiles(victims)
      PROVE  Inv'
  <2>1. AtGroupPrompt /\ victims \subseteq Alive(PromptFiles) /\ victims # Alive(PromptFiles)
    BY <1>5 DEF ChooseFiles
  <2>2. SoundDecision({GroupJob(PromptFiles, victims)})
    BY <2>1, PromptedGroup, GroupDecision
  <2>3. qi \in DOMAIN Queue /\ (inBlock => rest # {}) /\ pc = "prompt"
    BY <2>1 DEF AtGroupPrompt, Inv, SurvivorInv, Located
  <2> QED BY <1>0, <1>5, <2>2, <2>3, DecideStep DEF ChooseFiles, Decide
<1>6. ASSUME NEW d \in (IF AtTreePrompt THEN {Queue[qi].a, Queue[qi].b} ELSE {}), ChooseTree(d)
      PROVE  Inv'
  <2>1. qi \in DOMAIN Queue /\ Queue[qi].kind = "tree" /\ ~inBlock /\ pc = "prompt"
    BY <1>6 DEF ChooseTree, AtTreePrompt, Inv, SurvivorInv, Located
  <2>2. SoundDecision({TreeJob(d)})
    BY <1>6, <2>1, TreeDecision DEF ChooseTree
  <2> QED BY <1>0, <1>6, <2>1, <2>2, DecideStep DEF ChooseTree, Decide
<1>7. ASSUME NEW column \in {1, 2}, NEW newline \in BOOLEAN, ChooseColumn(column, newline)
      PROVE  Inv'
  <2>1. qi \in DOMAIN Queue /\ Queue[qi].kind = "overlap" /\ ~inBlock /\ pc = "prompt"
    BY <1>7 DEF ChooseColumn, AtBlockPrompt, Inv, SurvivorInv, Located
  <2>2. SoundDecision(ColumnJobs(Queue[qi], column = 1 /\ ~newline))
    BY <2>1, ColumnDecision
  <2>3. asked' \in 0 .. 2 /\ eof' \in BOOLEAN
    BY <1>7 DEF ChooseColumn
  <2> QED BY <1>0, <1>7, <2>1, <2>2, <2>3, DecideStep DEF ChooseColumn, Decide
<1> QED BY <1>1, <1>2, <1>3, <1>4, <1>5, <1>6, <1>7 DEF Prompt

-----------------------------------------------------------------------------
(* Entering a loop, or passing over an item whose other side is gone.      *)
LEMMA StartJobStep ==
  ASSUME Inv, NEW j \in jobs, StartJob(j)
  PROVE  Inv'
<1>1. j \in Job /\ SoundJob(j) /\ (j.kind = "group" => jobs = {j} /\ j.keep \ deleted # {})
  BY DEF Inv, TypeOK, SurvivorInv
<1>2. j.del \subseteq File /\ j.kind \in {"group", "tree", "overlap"}
  BY <1>1 DEF Job
<1>0. work' \subseteq j.del
  <2>1. CASE j.kind = "tree"
    <3>1. j.del = Lookup(j.dir)  BY <1>1, <2>1 DEF SoundJob, TreeJob
    <3> QED  BY <2>1, <3>1 DEF StartJob, Listings, Answers
  <2>2. CASE j.kind # "tree"  BY <2>2 DEF StartJob, Listings
  <2> QED  BY <2>1, <2>2
<1>3. TypeOK'
  BY <1>0, <1>1, <1>2 DEF Inv, TypeOK, StartJob, userVars, diskVars, PCs
<1>4. Located'
  BY DEF Inv, SurvivorInv, Located, StartJob, userVars
<1>5. LastCopyOutsideTrees'
  BY SurvivalKept DEF Inv, SurvivorInv, StartJob, diskVars
<1>6. j.kind # "tree" => j.keep \ deleted # {}
  BY <1>1, <1>2 DEF StartJob, Guarded
<1>7. \A k \in jobs' : SoundJob(k) /\ k.kind # "group"
  BY <1>1 DEF Inv, SurvivorInv, StartJob
<1> QED BY <1>0, <1>1, <1>3, <1>4, <1>5, <1>6, <1>7
        DEF Inv, SurvivorInv, StartJob, diskVars, SoundJob, TreeJob, OneClass, Lookup

(* Passing over an item whose other side is gone.                          *)
LEMMA SkipJobStep ==
  ASSUME Inv, NEW j \in jobs, SkipJob(j)
  PROVE  Inv'
<1>1. TypeOK'
  BY DEF Inv, TypeOK, SkipJob, userVars, diskVars
<1>2. Located'
  BY DEF Inv, SurvivorInv, Located, SkipJob, userVars
<1>3. LastCopyOutsideTrees'
  BY SurvivalKept DEF Inv, SurvivorInv, SkipJob, diskVars
<1>4. j.kind = "overlap"
  BY DEF SkipJob, Guarded
<1>5. \A k \in jobs : SoundJob(k) /\ k.kind # "group"
  BY <1>4 DEF Inv, SurvivorInv
<1> QED BY <1>1, <1>2, <1>3, <1>5
        DEF Inv, SurvivorInv, SkipJob, SoundJob, TreeJob, OneClass, Lookup

(* A file that goes leaves a live copy of its class behind, unless a tree  *)
(* action reaches the class.                                               *)
LEMMA DisposeStep ==
  ASSUME Inv, NEW f \in File, Dispose(f)
  PROVE  Inv'
<1>1. /\ SoundJob(job) /\ work \subseteq job.del /\ f \in job.del
      /\ job.kind # "tree" => job.keep \ deleted # {}
      /\ deleted' = deleted \cup {f}
  BY DEF Dispose, Inv, SurvivorInv
<1>2. TypeOK'
  BY DEF Inv, TypeOK, Dispose, userVars, PCs
<1>3. Located'
  BY DEF Inv, SurvivorInv, Located, Dispose, userVars
<1>4. job.kind # "tree" => job.keep \ deleted' # {}
  BY <1>1 DEF SoundJob
<1>5. LastCopyOutsideTrees'
  <2> SUFFICES ASSUME NEW c \in Class, OutsideTrees(c) PROVE ~(c \subseteq deleted')
    BY DEF LastCopyOutsideTrees, OutsideTrees, Lookup
  <2>1. ~(c \subseteq deleted)
    BY DEF Inv, SurvivorInv, LastCopyOutsideTrees
  <2>2. CASE f \notin c
    BY <1>1, <2>1, <2>2
  <2>3. CASE f \in c
    <3>1. job.kind # "tree"
      BY <1>1, <2>3 DEF SoundJob, TreeJob, OutsideTrees
    <3>2. PICK d \in Class : job.del \cup job.keep \subseteq d
      BY <1>1, <3>1 DEF SoundJob, OneClass
    <3>3. d = c
      BY <1>1, <2>3, <3>2, ClassAssumption
    <3> QED BY <1>4, <3>1, <3>2, <3>3
  <2> QED BY <2>2, <2>3
<1>6. \A j \in jobs : SoundJob(j) /\ j.kind # "group"
  BY DEF Inv, SurvivorInv, Dispose
<1> QED BY <1>1, <1>2, <1>3, <1>4, <1>5, <1>6
        DEF Inv, SurvivorInv, Dispose, SoundJob, TreeJob, OneClass, Lookup

(* A removal that fails.                                                   *)
LEMMA DisposeFailsStep ==
  ASSUME Inv, NEW f \in File, DisposeFails(f)
  PROVE  Inv'
<1>1. TypeOK'
  BY DEF Inv, TypeOK, DisposeFails, userVars, diskVars, PCs
<1>2. Located'
  BY DEF Inv, SurvivorInv, Located, DisposeFails, userVars
<1>3. LastCopyOutsideTrees'
  BY SurvivalKept DEF Inv, SurvivorInv, DisposeFails, diskVars
<1> QED BY <1>1, <1>2, <1>3
        DEF Inv, SurvivorInv, DisposeFails, diskVars, SoundJob, TreeJob, OneClass, Lookup

(* The end of a loop, pruning included.                                    *)
LEMMA EndJobStep == Inv /\ EndJob => Inv'
<1> SUFFICES ASSUME Inv, EndJob PROVE Inv'
  OBVIOUS
<1>1. job' \in Job /\ dirs' \subseteq Dir /\ pc' \in PCs
  <2>1. job' = NoJob /\ pc' = "jobs" /\ dirs' \subseteq dirs
    BY DEF EndJob
  <2> QED BY <2>1 DEF Inv, TypeOK, NoJob, Job, PCs
<1>2. TypeOK'
  BY <1>1 DEF Inv, TypeOK, EndJob, userVars
<1>3. Located'
  BY DEF Inv, SurvivorInv, Located, EndJob, userVars
<1>4. LastCopyOutsideTrees'
  BY SurvivalKept DEF Inv, SurvivorInv, EndJob
<1>5. \A j \in jobs : SoundJob(j) /\ j.kind # "group"
  BY DEF Inv, SurvivorInv, EndJob
<1> QED BY <1>2, <1>3, <1>4, <1>5
        DEF Inv, SurvivorInv, EndJob, SoundJob, TreeJob, OneClass, Lookup

(* Every step keeps the invariant.                                         *)
LEMMA NextInv == Inv /\ [Next]_vars => Inv'
<1> SUFFICES ASSUME Inv, [Next]_vars PROVE Inv'
  OBVIOUS
<1>1. CASE Next
  <2>1. CASE Proceed
    BY <2>1, ProceedStep
  <2>2. CASE Drive
    BY <2>2, FinishStep, SkipMootStep, BeginStep, LeaveBlockStep, BlockItemStep DEF Drive
  <2>3. CASE Prompt
    BY <2>3, PromptStep
  <2>4. CASE JobsDone
    BY <2>4, AdvanceStep DEF JobsDone
  <2>5. CASE EndJob
    BY <2>5, EndJobStep
  <2>6. ASSUME NEW j \in jobs, StartJob(j) \/ SkipJob(j) PROVE Inv'
    BY <2>6, StartJobStep, SkipJobStep
  <2>7. ASSUME NEW f \in File, Dispose(f) \/ DisposeFails(f) PROVE Inv'
    BY <2>7, DisposeStep, DisposeFailsStep
  <2> QED BY <1>1, <2>1, <2>2, <2>3, <2>4, <2>5, <2>6, <2>7, Zenon DEF Next, Loop
<1>2. CASE UNCHANGED vars
  <2>1. TypeOK'
    BY <1>2 DEF Inv, TypeOK, vars, userVars, loopVars, diskVars
  <2>2. Located'
    BY <1>2 DEF Inv, SurvivorInv, Located, AtLeastTwo, Alive, PromptFiles, ItemFiles,
                CurrentItem, Live, DirFullyDeleted, Answers, Lookup, LiveItems, ItemLive,
                vars, userVars, loopVars, diskVars
  <2>3. LastCopyOutsideTrees'
    BY <1>2, SurvivalKept DEF Inv, SurvivorInv, vars, diskVars
  <2> QED BY <1>2, <2>1, <2>2, <2>3
          DEF Inv, SurvivorInv, SoundJob, TreeJob, OneClass, Lookup, vars, loopVars, diskVars
<1> QED BY <1>1, <1>2

(* The inductive invariant holds in every reachable state.                 *)
THEOREM Invariance == Spec => []Inv
<1> QED BY InitInv, NextInv, PTL DEF Spec

(* Type correctness: the driver's state keeps its shape, for every queue.  *)
THEOREM TypeCorrect == Spec => []TypeOK
<1>1. Inv => TypeOK
  BY DEF Inv
<1> QED BY <1>1, Invariance, PTL

(* Why a class survives is preserved by every handler and every loop.      *)
THEOREM SurvivorsStay == Spec => []SurvivorInv
<1>1. Inv => SurvivorInv  BY DEF Inv
<1> QED  BY <1>1, Invariance, PTL

(* Whatever is queued, answered, matched or refused by the filesystem, a   *)
(* class that no queued tree reaches keeps a copy (InteractiveDelete,      *)
(* HeadlessDelete and every decision they take).                           *)
THEOREM Survival == Spec => []LastCopyOutsideTrees
<1>1. Inv => LastCopyOutsideTrees
  BY DEF Inv, SurvivorInv
<1> QED BY <1>1, Invariance, PTL

-----------------------------------------------------------------------------
(* What each step does to the map and to the disk: only disposeFile marks  *)
(* or removes a file, only the end of a loop removes directories.          *)
LEMMA Effects ==
  ASSUME [Next]_vars
  PROVE  /\ cfg' = cfg
         /\ \/ deleted' = deleted /\ disk' = disk /\ (dirs' = dirs \/ EndJob)
            \/ \E f \in File : Dispose(f)
<1> USE DEF diskVars, userVars, loopVars
<1>1. CASE Proceed  BY <1>1 DEF Proceed
<1>2. CASE Drive  BY <1>2 DEF Drive, Finish, SkipMoot, Begin, LeaveBlock, BlockItem
<1>3. CASE Prompt
  <2>1. CASE Skip \/ Quit \/ AnswerAuto \/ EnterBlock
    BY <2>1 DEF Skip, Quit, AnswerAuto, Decide, EnterBlock
  <2>2. ASSUME NEW victims, ChooseFiles(victims) PROVE cfg' = cfg /\ UNCHANGED diskVars
    BY <2>2 DEF ChooseFiles, Decide
  <2>3. ASSUME NEW d, ChooseTree(d) PROVE cfg' = cfg /\ UNCHANGED diskVars
    BY <2>3 DEF ChooseTree, Decide
  <2>4. ASSUME NEW column, NEW newline, ChooseColumn(column, newline)
        PROVE  cfg' = cfg /\ UNCHANGED diskVars
    BY <2>4 DEF ChooseColumn, Decide
  <2> QED BY <1>3, <2>1, <2>2, <2>3, <2>4 DEF Prompt
<1>4. CASE JobsDone  BY <1>4 DEF JobsDone
<1>5. CASE EndJob  BY <1>5 DEF EndJob
<1>6. ASSUME NEW j \in jobs, StartJob(j) \/ SkipJob(j) PROVE cfg' = cfg /\ UNCHANGED diskVars
  BY <1>6 DEF StartJob, SkipJob
<1>7. ASSUME NEW f \in File, Dispose(f) PROVE cfg' = cfg
  BY <1>7 DEF Dispose
<1>8. ASSUME NEW f \in File, DisposeFails(f) PROVE cfg' = cfg /\ UNCHANGED diskVars
  BY <1>8 DEF DisposeFails
<1>9. CASE UNCHANGED vars  BY <1>9 DEF vars
<1> QED BY <1>1, <1>2, <1>3, <1>4, <1>5, <1>6, <1>7, <1>8, <1>9 DEF Next, Loop

(* The deleted map is true at every moment: a real run has lost exactly    *)
(* the files disposeFile marked, whichever removals fail, and a dry run    *)
(* leaves files and directories alone.                                     *)
THEOREM MapIsTrue == Spec => []MapMatchesDisk
<1>1. Init => MapMatchesDisk
  BY DEF Init, MapMatchesDisk
<1>2. MapMatchesDisk /\ [Next]_vars => MapMatchesDisk'
  <2> SUFFICES ASSUME MapMatchesDisk, [Next]_vars PROVE MapMatchesDisk'
    OBVIOUS
  <2>1. cfg' = cfg
    BY Effects
  <2>2. CASE deleted' = deleted /\ disk' = disk /\ (dirs' = dirs \/ EndJob)
    BY <2>1, <2>2 DEF MapMatchesDisk, EndJob
  <2>3. ASSUME NEW f \in File, Dispose(f) PROVE MapMatchesDisk'
    BY <2>1, <2>3 DEF MapMatchesDisk, Dispose
  <2> QED BY <2>2, <2>3, Effects
<1> QED BY <1>1, <1>2, PTL DEF Spec

NoTreeQueued == \A q \in DOMAIN Queue : Queue[q].kind # "tree"

(* Outside trees a file goes only while a copy of it stays.                *)
LEMMA DisposeDrops ==
  ASSUME NoTreeQueued, Inv, NEW f \in File, Dispose(f)
  PROVE  KO!Drop(f) \/ deleted' = deleted
<1>1. /\ SoundJob(job) /\ f \in job.del /\ deleted' = deleted \cup {f}
      /\ job.kind # "tree" => job.keep \ deleted # {}
  BY DEF Dispose, Inv, SurvivorInv
<1>2. job.kind # "tree"
  BY <1>1 DEF SoundJob, NoTreeQueued
<1>3. PICK d \in Class : job.del \cup job.keep \subseteq d
  BY <1>1, <1>2 DEF SoundJob, OneClass
<1>4. PICK g \in job.keep : g \notin deleted
  BY <1>1, <1>2
<1>5. g # f /\ g \in d /\ g \in File
  BY <1>1, <1>2, <1>3, <1>4, ClassAssumption DEF SoundJob
<1>6. \A c \in Class : f \in c => c = d
  BY <1>1, <1>3, ClassAssumption
<1> QED BY <1>1, <1>4, <1>5, <1>6 DEF KO!Drop

(* Without trees the whole driver, interactive or headless, implements     *)
(* KeepOne: at every single removal an identical file is still there.      *)
THEOREM Refinement == NoTreeQueued => (Spec => KeepsOne)
<1> SUFFICES ASSUME NoTreeQueued PROVE Spec => KeepsOne
  OBVIOUS
<1>1. Init => KO!Init
  BY DEF Init, KO!Init
<1>2. Inv /\ [Next]_vars => [KO!Next]_(File \ deleted)
  <2> SUFFICES ASSUME Inv, [Next]_vars
               PROVE  KO!Next \/ (File \ deleted)' = File \ deleted
    OBVIOUS
  <2>1. ASSUME NEW f \in File, Dispose(f)
        PROVE  KO!Next \/ (File \ deleted)' = File \ deleted
    BY <2>1, DisposeDrops DEF KO!Next
  <2> QED BY <2>1, Effects
<1> QED BY <1>1, <1>2, Invariance, PTL DEF Spec, KeepsOne, KO!Spec

-----------------------------------------------------------------------------
(* The headless policy.                                                    *)

(* What a loop of the headless driver deletes, trees aside.                *)
PolicyGroup(del) ==
  /\ Queue[qi].kind = "group" /\ del \subseteq RangeOf(Queue[qi].files)
  /\ IF cfg.glob THEN del \subseteq GlobMatch
     ELSE OutsideTrees(RangeOf(Queue[qi].files)) => Queue[qi].files[1] \notin del

PolicyColumn(del) ==
  /\ Queue[qi].kind = "overlap"
  /\ \E k \in DOMAIN Queue[qi].items :
       \/ del = RangeOf(Queue[qi].items[k].b) /\ (cfg.glob => Queue[qi].rootB \in GlobMatch)
       \/ del = RangeOf(Queue[qi].items[k].a) /\ cfg.glob /\ Queue[qi].rootA \in GlobMatch

ByPolicy(j) ==
  /\ j.kind = "group" => qi \in DOMAIN Queue /\ PolicyGroup(j.del)
  /\ j.kind = "overlap" => qi \in DOMAIN Queue /\ PolicyColumn(j.del)

(* No copy of a group goes before its turn, but for trees.                 *)
Untouched ==
  \A q \in DOMAIN Queue :
    Queue[q].kind = "group" /\ OutsideTrees(RangeOf(Queue[q].files))
      /\ (q > qi \/ (q = qi /\ pc = "next"))
    => RangeOf(Queue[q].files) \cap deleted = {}

HeadlessInv ==
  cfg.headless =>
    /\ ~inBlock /\ pc \in {"next", "jobs", "dispose", "done"}
    /\ pc \in {"next", "done"} => jobs = {}
    /\ \A j \in jobs : ByPolicy(j)
    /\ pc = "dispose" => ByPolicy(job)
    /\ Untouched

PolicyInv == Inv /\ HeadlessInv /\ HeadlessKeepsFirst /\ GlobSparesUnmatched

(* Nothing has been decided when the queue is built.                       *)
LEMMA InitPolicy == Init => PolicyInv
<1> SUFFICES ASSUME Init PROVE PolicyInv  OBVIOUS
<1>1. HeadlessInv  BY DEF Init, HeadlessInv, Untouched
<1>2. HeadlessKeepsFirst /\ GlobSparesUnmatched
  BY DEF Init, HeadlessKeepsFirst, GlobSparesUnmatched
<1> QED  BY <1>1, <1>2, InitInv DEF PolicyInv

(* The survivor listed first is the first file while none is gone.         *)
LEMMA FirstOfUntouched ==
  ASSUME NEW s \in Seq(File), s # <<>>, RangeOf(s) \cap deleted = {}
  PROVE  FirstAlive(s) = s[1]
<1>1. 1 \in DOMAIN s /\ \A k \in DOMAIN s : s[k] \notin deleted  BY DEF RangeOf
<1>2. \A k \in DOMAIN s : (\A j \in DOMAIN s : k <= j) => k = 1  BY <1>1
<1> QED  BY <1>1, <1>2 DEF FirstAlive

(* The headless driver decides about an action by its policy.              *)
LEMMA DecidesByPolicy ==
  ASSUME PolicyInv, cfg.headless, Begin
  PROVE  \A j \in jobs' : ByPolicy(j)'
<1> DEFINE a == Queue[qi]
<1>1. /\ qi \in DOMAIN Queue /\ Live(a) /\ pc = "next"
      /\ jobs' = IF cfg.glob THEN GlobJobs(a) ELSE AutoJobs(a)
      /\ UNCHANGED <<cfg, qi>>
  BY QueueAssumption DEF PolicyInv, Inv, TypeOK, Begin
<1>2. CASE a.kind = "group"
  <2>1. a.files \in Seq(File) /\ a.files # <<>>
    <3>1. a.files \in Seq(File) /\ Alive(a.files) # {}  BY <1>1, <1>2, QueueGroup, LiveGroup
    <3>2. PICK k \in DOMAIN a.files : TRUE  BY <3>1 DEF Alive, RangeOf
    <3> QED  BY <3>1, <3>2
  <2>2. ASSUME NEW j \in jobs' PROVE j.kind = "group" /\ PolicyGroup(j.del)
    <3>1. CASE cfg.glob
      <4>1. j = GroupJob(a.files, GlobVictims(a.files))  BY <1>1, <1>2, <3>1 DEF GlobJobs
      <4>2. GlobVictims(a.files) \subseteq Alive(a.files) \cap GlobMatch  BY DEF GlobVictims
      <4> QED  BY <1>2, <3>1, <4>1, <4>2 DEF GroupJob, PolicyGroup, Alive
    <3>2. CASE ~cfg.glob
      <4>1. j = GroupJob(a.files, Alive(a.files) \ {FirstAlive(a.files)})
        BY <1>1, <1>2, <3>2 DEF AutoJobs, AutoGroupJobs
      <4>2. OutsideTrees(RangeOf(a.files)) => RangeOf(a.files) \cap deleted = {}
        BY <1>1, <1>2 DEF PolicyInv, HeadlessInv, Untouched
      <4>3. OutsideTrees(RangeOf(a.files)) => FirstAlive(a.files) = a.files[1]
        BY <2>1, <4>2, FirstOfUntouched
      <4> QED  BY <1>2, <3>2, <4>1, <4>3 DEF GroupJob, PolicyGroup, Alive
    <3> QED  BY <3>1, <3>2
  <2> QED  BY <1>1, <2>2 DEF ByPolicy, PolicyGroup, OutsideTrees, Lookup
<1>3. CASE a.kind = "tree"
  <2>1. \A j \in jobs' : j.kind = "tree"
    BY <1>1, <1>3 DEF GlobJobs, AutoJobs, TreeJob
  <2> QED  BY <2>1 DEF ByPolicy
<1>4. CASE a.kind = "overlap"
  <2>1. ASSUME NEW j \in jobs' PROVE j.kind = "overlap" /\ PolicyColumn(j.del)
    <3>1. \/ j \in ColumnJobs(a, FALSE) /\ (cfg.glob => a.rootB \in GlobMatch)
          \/ j \in ColumnJobs(a, TRUE) /\ cfg.glob /\ a.rootA \in GlobMatch
      BY <1>1, <1>4 DEF GlobJobs, AutoJobs, OnlyFirstMatches
    <3> QED  BY <1>4, <3>1 DEF ColumnJobs, ColumnJob, LiveItems, PolicyColumn
  <2> QED  BY <1>1, <2>1 DEF ByPolicy, PolicyColumn
<1> QED  BY <1>1, <1>2, <1>3, <1>4, QueueKinds

(* What a headless loop disposes of belongs to the action at hand, as its  *)
(* policy says, or lies in a queued tree.                                  *)
LEMMA DisposedByPolicy ==
  ASSUME QueuedOnce, PolicyInv, cfg.headless, NEW f \in File, Dispose(f),
         OutsideTrees({f}), NEW u \in Units, f \in UnitFiles(u)
  PROVE  /\ u[1] = qi
         /\ \/ PolicyGroup(job.del) /\ f \in job.del
            \/ /\ Queue[qi].kind = "overlap"
               /\ \/ f \in RangeOf(Queue[qi].items[u[2]].b) /\ (cfg.glob => Queue[qi].rootB \in GlobMatch)
                  \/ f \in RangeOf(Queue[qi].items[u[2]].a) /\ cfg.glob /\ Queue[qi].rootA \in GlobMatch
<1>1. /\ pc = "dispose" /\ f \in job.del /\ ByPolicy(job) /\ SoundJob(job) /\ job \in Job
  BY DEF Dispose, PolicyInv, HeadlessInv, Inv, SurvivorInv, TypeOK
<1>2. job.kind \in {"group", "overlap"}
  <2>1. job.kind \in {"group", "tree", "overlap"}  BY <1>1 DEF Job
  <2>2. job.kind # "tree"  BY <1>1 DEF SoundJob, TreeJob, OutsideTrees
  <2> QED  BY <2>1, <2>2
<1>3. CASE job.kind = "group"
  <2>1. qi \in DOMAIN Queue /\ PolicyGroup(job.del)  BY <1>1, <1>3 DEF ByPolicy
  <2>2. <<qi, 0>> \in Units  BY <2>1 DEF PolicyGroup, Units
  <2>3. f \in UnitFiles(<<qi, 0>>)  BY <1>1, <2>1 DEF PolicyGroup, UnitFiles
  <2>4. u = <<qi, 0>>  BY <2>2, <2>3 DEF QueuedOnce
  <2> QED  BY <1>1, <2>1, <2>4
<1>4. CASE job.kind = "overlap"
  <2>1. qi \in DOMAIN Queue /\ PolicyColumn(job.del)  BY <1>1, <1>4 DEF ByPolicy
  <2>2. PICK k \in DOMAIN Queue[qi].items :
          \/ job.del = RangeOf(Queue[qi].items[k].b) /\ (cfg.glob => Queue[qi].rootB \in GlobMatch)
          \/ job.del = RangeOf(Queue[qi].items[k].a) /\ cfg.glob /\ Queue[qi].rootA \in GlobMatch
    BY <2>1 DEF PolicyColumn
  <2>3. <<qi, k>> \in Units  BY <2>1 DEF PolicyColumn, Units
  <2>4. f \in UnitFiles(<<qi, k>>)  BY <1>1, <2>1, <2>2 DEF PolicyColumn, UnitFiles
  <2>5. u = <<qi, k>>  BY <2>3, <2>4 DEF QueuedOnce
  <2> QED  BY <1>1, <2>1, <2>2, <2>5 DEF PolicyColumn
<1> QED  BY <1>2, <1>3, <1>4

(* A group is decided about at once.                                       *)
LEMMA GroupUnit ==
  ASSUME NEW q \in DOMAIN Queue, Queue[q].kind = "group"
  PROVE  <<q, 0>> \in Units /\ UnitFiles(<<q, 0>>) = RangeOf(Queue[q].files)
BY DEF Units, UnitFiles

(* So is each item of a block.                                             *)
LEMMA ItemUnit ==
  ASSUME NEW q \in DOMAIN Queue, Queue[q].kind = "overlap", NEW k \in DOMAIN Queue[q].items
  PROVE  /\ <<q, k>> \in Units
         /\ UnitFiles(<<q, k>>) = RangeOf(Queue[q].items[k].a) \cup RangeOf(Queue[q].items[k].b)
         /\ RangeOf(Queue[q].items[k].a) \cap RangeOf(Queue[q].items[k].b) = {}
<1>1. RangeOf(Queue[q].items[k].a) \cap RangeOf(Queue[q].items[k].b) = {}  BY QueueOverlap, Zenon
<1> QED  BY <1>1 DEF Units, UnitFiles

(* Disposing of a file carries out what was decided.                       *)
LEMMA DisposePolicy ==
  ASSUME QueuedOnce, PolicyInv, cfg.headless, NEW f \in File, Dispose(f)
  PROVE  HeadlessInv' /\ HeadlessKeepsFirst' /\ GlobSparesUnmatched'
<1>1. /\ pc = "dispose" /\ deleted' = deleted \cup {f}
      /\ UNCHANGED <<cfg, pc, qi, inBlock, jobs, job>>
  BY DEF Dispose, userVars
<1>2. \A X : OutsideTrees(X) /\ f \in X => OutsideTrees({f})  BY DEF OutsideTrees
<1>3. ASSUME NEW q \in DOMAIN Queue, Queue[q].kind = "group",
             OutsideTrees(RangeOf(Queue[q].files)), f \in RangeOf(Queue[q].files)
      PROVE  q = qi /\ PolicyGroup(job.del) /\ f \in job.del
  <2>1. OutsideTrees({f})  BY <1>2, <1>3
  <2> QED  BY <1>3, <2>1, GroupUnit, DisposedByPolicy
<1>4. ASSUME NEW q \in DOMAIN Queue, Queue[q].kind = "overlap", NEW k \in DOMAIN Queue[q].items,
             OutsideTrees({f}),
             f \in RangeOf(Queue[q].items[k].a) \cup RangeOf(Queue[q].items[k].b)
      PROVE  /\ f \in RangeOf(Queue[q].items[k].a) => cfg.glob /\ Queue[q].rootA \in GlobMatch
             /\ f \in RangeOf(Queue[q].items[k].b) /\ cfg.glob => Queue[q].rootB \in GlobMatch
  <2>1. <<q, k>> \in Units /\ f \in UnitFiles(<<q, k>>)  BY <1>4, ItemUnit
  <2>2. RangeOf(Queue[q].items[k].a) \cap RangeOf(Queue[q].items[k].b) = {}  BY <1>4, ItemUnit
  <2>3. /\ q = qi
        /\ \/ f \in RangeOf(Queue[q].items[k].b) /\ (cfg.glob => Queue[q].rootB \in GlobMatch)
           \/ f \in RangeOf(Queue[q].items[k].a) /\ cfg.glob /\ Queue[q].rootA \in GlobMatch
    BY <1>4, <2>1, DisposedByPolicy DEF PolicyGroup
  <2> QED  BY <2>2, <2>3
<1>5. Untouched'
  <2> SUFFICES ASSUME NEW q \in DOMAIN Queue, Queue[q].kind = "group",
                      OutsideTrees(RangeOf(Queue[q].files)), q > qi
               PROVE  RangeOf(Queue[q].files) \cap deleted' = {}
    BY <1>1 DEF Untouched, OutsideTrees, Lookup
  <2>1. RangeOf(Queue[q].files) \cap deleted = {}  BY DEF PolicyInv, HeadlessInv, Untouched
  <2>2. q # qi  BY QueueAssumption DEF PolicyInv, Inv, TypeOK
  <2> QED  BY <1>1, <1>3, <2>1, <2>2
<1>6. HeadlessInv'
  BY <1>1, <1>5 DEF PolicyInv, HeadlessInv, ByPolicy, PolicyGroup, PolicyColumn, OutsideTrees, Lookup
<1>7. HeadlessKeepsFirst'
  <2> SUFFICES ASSUME ~cfg.glob, NEW q \in DOMAIN Queue
               PROVE  /\ Queue[q].kind = "group" /\ OutsideTrees(RangeOf(Queue[q].files)) =>
                           Queue[q].files = <<>> \/ Queue[q].files[1] \notin deleted'
                      /\ Queue[q].kind = "overlap" =>
                           \A k \in DOMAIN Queue[q].items :
                             OutsideTrees(RangeOf(Queue[q].items[k].a)) =>
                               RangeOf(Queue[q].items[k].a) \cap deleted' = {}
    BY <1>1 DEF HeadlessKeepsFirst, OutsideTrees, Lookup
  <2>1. ASSUME Queue[q].kind = "group", OutsideTrees(RangeOf(Queue[q].files)),
               Queue[q].files # <<>>
        PROVE  Queue[q].files[1] \notin deleted'
    <3>1. Queue[q].files[1] \notin deleted  BY <2>1 DEF PolicyInv, HeadlessKeepsFirst
    <3>2. Queue[q].files[1] \in RangeOf(Queue[q].files)  BY <2>1, QueueGroup DEF RangeOf
    <3>3. f # Queue[q].files[1]  BY <1>3, <2>1, <3>2 DEF PolicyGroup
    <3> QED  BY <1>1, <3>1, <3>3
  <2>2. ASSUME Queue[q].kind = "overlap", NEW k \in DOMAIN Queue[q].items,
               OutsideTrees(RangeOf(Queue[q].items[k].a))
        PROVE  RangeOf(Queue[q].items[k].a) \cap deleted' = {}
    <3>1. RangeOf(Queue[q].items[k].a) \cap deleted = {}
      BY <2>2 DEF PolicyInv, HeadlessKeepsFirst
    <3>2. f \notin RangeOf(Queue[q].items[k].a)  BY <1>2, <1>4, <2>2
    <3> QED  BY <1>1, <3>1, <3>2
  <2> QED  BY <2>1, <2>2
<1>8. GlobSparesUnmatched'
  <2> SUFFICES ASSUME cfg.glob, NEW q \in DOMAIN Queue
               PROVE  /\ Queue[q].kind = "group" /\ OutsideTrees(RangeOf(Queue[q].files)) =>
                           RangeOf(Queue[q].files) \cap deleted' \subseteq GlobMatch
                      /\ Queue[q].kind = "overlap" =>
                           \A k \in DOMAIN Queue[q].items :
                             LET it == Queue[q].items[k] IN
                             OutsideTrees(RangeOf(it.a) \cup RangeOf(it.b)) =>
                               /\ RangeOf(it.a) \cap deleted' # {} => Queue[q].rootA \in GlobMatch
                               /\ RangeOf(it.b) \cap deleted' # {} => Queue[q].rootB \in GlobMatch
    BY <1>1 DEF GlobSparesUnmatched, OutsideTrees, Lookup
  <2>1. ASSUME Queue[q].kind = "group", OutsideTrees(RangeOf(Queue[q].files))
        PROVE  RangeOf(Queue[q].files) \cap deleted' \subseteq GlobMatch
    <3>1. RangeOf(Queue[q].files) \cap deleted \subseteq GlobMatch
      BY <2>1 DEF PolicyInv, GlobSparesUnmatched
    <3>2. f \in RangeOf(Queue[q].files) => f \in GlobMatch  BY <1>3, <2>1 DEF PolicyGroup
    <3> QED  BY <1>1, <3>1, <3>2
  <2>2. ASSUME Queue[q].kind = "overlap", NEW k \in DOMAIN Queue[q].items,
               OutsideTrees(RangeOf(Queue[q].items[k].a) \cup RangeOf(Queue[q].items[k].b))
        PROVE  /\ RangeOf(Queue[q].items[k].a) \cap deleted' # {} => Queue[q].rootA \in GlobMatch
               /\ RangeOf(Queue[q].items[k].b) \cap deleted' # {} => Queue[q].rootB \in GlobMatch
    <3>1. /\ RangeOf(Queue[q].items[k].a) \cap deleted # {} => Queue[q].rootA \in GlobMatch
          /\ RangeOf(Queue[q].items[k].b) \cap deleted # {} => Queue[q].rootB \in GlobMatch
      BY <2>2 DEF PolicyInv, GlobSparesUnmatched
    <3>2. /\ f \in RangeOf(Queue[q].items[k].a) => Queue[q].rootA \in GlobMatch
          /\ f \in RangeOf(Queue[q].items[k].b) => Queue[q].rootB \in GlobMatch
      BY <1>2, <1>4, <2>2
    <3> QED  BY <1>1, <3>1, <3>2
  <2> QED  BY <2>1, <2>2
<1> QED  BY <1>6, <1>7, <1>8

(* The steps of the headless driver that delete nothing.                   *)
LEMMA QuietPolicy ==
  ASSUME PolicyInv, cfg.headless, UNCHANGED <<cfg, deleted>>, ~inBlock',
         pc' \in {"next", "jobs", "dispose", "done"}, pc' \in {"next", "done"} => jobs' = {},
         \A j \in jobs' : ByPolicy(j)', pc' = "dispose" => ByPolicy(job'),
         UNCHANGED qi \/ qi' = qi + 1, pc' = "dispose" => UNCHANGED qi,
         pc' = "next" => pc = "next" \/ qi' = qi + 1
  PROVE  HeadlessInv' /\ HeadlessKeepsFirst' /\ GlobSparesUnmatched'
<1>1. HeadlessKeepsFirst' /\ GlobSparesUnmatched'
  BY DEF PolicyInv, HeadlessKeepsFirst, GlobSparesUnmatched, OutsideTrees, Lookup
<1>2. Untouched'
  <2> SUFFICES ASSUME NEW q \in DOMAIN Queue, Queue[q].kind = "group",
                      OutsideTrees(RangeOf(Queue[q].files)),
                      q > qi' \/ (q = qi' /\ pc' = "next")
               PROVE  RangeOf(Queue[q].files) \cap deleted = {}
    BY DEF Untouched, OutsideTrees, Lookup
  <2>1. q \in Nat /\ qi \in Nat  BY QueueAssumption DEF PolicyInv, Inv, TypeOK
  <2>2. q > qi \/ (q = qi /\ pc = "next")  BY <2>1
  <2> QED  BY <2>2 DEF PolicyInv, HeadlessInv, Untouched
<1>3. pc' = "dispose" => ByPolicy(job)'
  BY DEF ByPolicy, PolicyGroup, PolicyColumn, OutsideTrees, Lookup
<1> QED  BY <1>1, <1>2, <1>3 DEF HeadlessInv

(* Every step keeps to the policy.                                         *)
LEMMA NextPolicy ==
  ASSUME QueuedOnce, PolicyInv, [Next]_vars
  PROVE  PolicyInv'
<1>1. Inv' /\ cfg' = cfg  BY NextInv, Effects DEF PolicyInv
<1>2. CASE ~cfg.headless
  BY <1>1, <1>2 DEF PolicyInv, HeadlessInv, HeadlessKeepsFirst, GlobSparesUnmatched
<1>3. CASE cfg.headless
  <2> DEFINE Goal == HeadlessInv' /\ HeadlessKeepsFirst' /\ GlobSparesUnmatched'
  <2> SUFFICES Goal  BY <1>1 DEF PolicyInv
  <2>1. /\ ~inBlock /\ pc \in {"next", "jobs", "dispose", "done"}
        /\ pc \in {"next", "done"} => jobs = {}
        /\ \A j \in jobs : ByPolicy(j)
        /\ pc = "dispose" => ByPolicy(job)
    BY <1>3 DEF PolicyInv, HeadlessInv
  <2>2. ASSUME UNCHANGED <<cfg, qi>> PROVE \A j : ByPolicy(j)' <=> ByPolicy(j)
    BY <2>2 DEF ByPolicy, PolicyGroup, PolicyColumn, OutsideTrees, Lookup
  <2>3. CASE Proceed \/ LeaveBlock \/ BlockItem  BY <2>1, <2>3 DEF Proceed, LeaveBlock, BlockItem
  <2>4. CASE Finish \/ SkipMoot
    BY <1>3, <2>1, <2>4, QuietPolicy DEF Finish, SkipMoot, userVars, loopVars, diskVars
  <2>5. CASE Begin
    <3>1. pc = "next" /\ pc' = "jobs" /\ UNCHANGED <<cfg, qi, deleted, inBlock>>
      BY <1>3, <2>5 DEF Begin, userVars, diskVars
    <3>2. \A j \in jobs' : ByPolicy(j)'  BY <1>3, <2>5, DecidesByPolicy
    <3> QED  BY <1>3, <2>1, <3>1, <3>2, QuietPolicy
  <2>6. ~Prompt
    BY <2>1 DEF Prompt, Skip, Quit, AnswerAuto, EnterBlock, ChooseFiles, ChooseTree, ChooseColumn,
                AtGroupPrompt, AtTreePrompt, AtBlockPrompt
  <2>7. CASE JobsDone
    BY <1>3, <2>1, <2>7, QuietPolicy DEF JobsDone, Advance, loopVars, diskVars
  <2>8. CASE EndJob
    <3>1. pc' = "jobs" /\ UNCHANGED <<cfg, qi, deleted, inBlock, jobs>>
      BY <2>8 DEF EndJob, userVars
    <3> QED  BY <1>3, <2>1, <2>2, <3>1, QuietPolicy
  <2>9. ASSUME NEW j \in jobs, StartJob(j) PROVE Goal
    <3>1. pc' = "dispose" /\ job' = j /\ jobs' \subseteq jobs /\ UNCHANGED <<cfg, qi, deleted, inBlock>>
      BY <2>9 DEF StartJob, userVars, diskVars
    <3> QED  BY <1>3, <2>1, <2>2, <3>1, QuietPolicy
  <2>10. ASSUME NEW j \in jobs, SkipJob(j) PROVE Goal
    <3>1. pc = "jobs" /\ jobs' \subseteq jobs /\ UNCHANGED <<cfg, pc, qi, deleted, inBlock>>
      BY <2>10 DEF SkipJob, userVars, diskVars
    <3> QED  BY <1>3, <2>1, <2>2, <3>1, QuietPolicy
  <2>11. ASSUME NEW f \in File, Dispose(f) PROVE Goal  BY <1>3, <2>11, DisposePolicy
  <2>12. ASSUME NEW f \in File, DisposeFails(f) PROVE Goal
    <3>1. pc = "dispose" /\ UNCHANGED <<cfg, pc, qi, deleted, inBlock, jobs, job>>
      BY <2>12 DEF DisposeFails, userVars, diskVars
    <3> QED  BY <1>3, <2>1, <2>2, <3>1, QuietPolicy
  <2>13. CASE UNCHANGED vars
    <3>1. UNCHANGED <<cfg, pc, qi, deleted, inBlock, jobs, job>>
      BY <2>13 DEF vars, userVars, loopVars, diskVars
    <3> QED  BY <1>3, <2>1, <2>2, <3>1, QuietPolicy
  <2> QED
    BY <2>3, <2>4, <2>5, <2>6, <2>7, <2>8, <2>9, <2>10, <2>11, <2>12, <2>13 DEF Next, Drive, Loop
<1> QED  BY <1>2, <1>3

(* Without a glob, HeadlessDelete never deletes the first file of a group  *)
(* or a file of column [1] that no queued tree reaches, whatever was gone  *)
(* before and whichever removals fail (applyAuto), if every duplicate is   *)
(* queued once.                                                            *)
THEOREM KeepsFirst == QueuedOnce => (Spec => []HeadlessKeepsFirst)
<1> SUFFICES ASSUME QueuedOnce PROVE Spec => []HeadlessKeepsFirst  OBVIOUS
<1>1. PolicyInv => HeadlessKeepsFirst  BY DEF PolicyInv
<1>2. PolicyInv /\ [Next]_vars => PolicyInv'  BY NextPolicy
<1> QED  BY <1>1, <1>2, InitPolicy, PTL DEF Spec

(* With one, it deletes only what matches, of two sides only the matching  *)
(* one, outside of trees (applyGlobRemoval, selectByGlob).                 *)
THEOREM GlobSpares == QueuedOnce => (Spec => []GlobSparesUnmatched)
<1> SUFFICES ASSUME QueuedOnce PROVE Spec => []GlobSparesUnmatched  OBVIOUS
<1>1. PolicyInv => GlobSparesUnmatched  BY DEF PolicyInv
<1>2. PolicyInv /\ [Next]_vars => PolicyInv'  BY NextPolicy
<1> QED  BY <1>1, <1>2, InitPolicy, PTL DEF Spec

-----------------------------------------------------------------------------
(* Pruning.                                                                *)

(* A loop over a directory comes from a queued tree with that side.        *)
OfTree(j) ==
  j.kind = "tree" =>
    \E q \in DOMAIN Queue : Queue[q].kind = "tree" /\ j.dir \in {Queue[q].a, Queue[q].b}

PruneInv == Inv /\ (\A j \in jobs \cup {job} : OfTree(j)) /\ PrunedDirsAreEmptyTrees

(* Whatever is decided about an action.                                    *)
LEMMA DecidedTrees ==
  ASSUME NEW q \in DOMAIN Queue, NEW js,
         \/ js \in {AutoJobs(Queue[q]), GlobJobs(Queue[q])}
         \/ \E files : js = AutoGroupJobs(files)
         \/ \E files, victims : js = {GroupJob(files, victims)}
         \/ \E delA : js = ColumnJobs(Queue[q], delA)
         \/ Queue[q].kind = "tree" /\ \E d \in {Queue[q].a, Queue[q].b} : js = {TreeJob(d)}
  PROVE  \A j \in js : OfTree(j)
<1>1. ASSUME NEW files, NEW j \in AutoGroupJobs(files) PROVE OfTree(j)
  BY DEF AutoGroupJobs, GroupJob, OfTree
<1>2. ASSUME NEW files, NEW victims PROVE OfTree(GroupJob(files, victims))
  BY DEF GroupJob, OfTree
<1>3. ASSUME NEW delA, NEW j \in ColumnJobs(Queue[q], delA) PROVE OfTree(j)
  BY DEF ColumnJobs, ColumnJob, OfTree
<1>4. ASSUME Queue[q].kind = "tree", NEW d \in {Queue[q].a, Queue[q].b} PROVE OfTree(TreeJob(d))
  BY <1>4 DEF TreeJob, OfTree
<1>5. ASSUME NEW j \in AutoJobs(Queue[q]) PROVE OfTree(j)
  BY <1>1, <1>3, <1>4, QueueKinds DEF AutoJobs
<1>6. ASSUME NEW j \in GlobJobs(Queue[q]) PROVE OfTree(j)
  BY <1>2, <1>3, <1>4, QueueKinds DEF GlobJobs
<1> QED  BY <1>1, <1>2, <1>3, <1>4, <1>5, <1>6

(* Loops are started for queued trees only.                                *)
LEMMA LoopsOfTrees ==
  ASSUME Inv, [Next]_vars, \A j \in jobs \cup {job} : OfTree(j)
  PROVE  \A j \in jobs' \cup {job'} : OfTree(j)
<1> USE DEF userVars, loopVars, diskVars
<1>1. CASE Proceed \/ Finish \/ SkipMoot \/ LeaveBlock \/ JobsDone \/ UNCHANGED vars
  BY <1>1 DEF Proceed, Finish, SkipMoot, LeaveBlock, JobsDone, vars
<1>2. CASE Begin
  <2>1. qi \in DOMAIN Queue  BY <1>2, QueueAssumption DEF Inv, TypeOK, Begin
  <2>2. job' = job /\ jobs' \in {jobs, AutoJobs(Queue[qi]), GlobJobs(Queue[qi])}
    BY <1>2 DEF Begin
  <2> QED  BY <2>1, <2>2, DecidedTrees
<1>3. CASE BlockItem
  <2>1. qi \in DOMAIN Queue  BY <1>3 DEF BlockItem, Inv, SurvivorInv, Located
  <2>2. job' = job /\ (jobs' = jobs \/ \E files : jobs' = AutoGroupJobs(files))
    BY <1>3 DEF BlockItem
  <2> QED  BY <2>1, <2>2, DecidedTrees
<1>4. CASE Prompt
  <2>1. pc = "prompt"
    BY <1>4 DEF Prompt, Skip, Quit, AnswerAuto, EnterBlock, ChooseFiles, ChooseTree, ChooseColumn,
                AtGroupPrompt, AtTreePrompt, AtBlockPrompt
  <2>2. qi \in DOMAIN Queue  BY <2>1 DEF Inv, SurvivorInv, Located
  <2>3. CASE Skip \/ Quit \/ EnterBlock  BY <2>3 DEF Skip, Quit, EnterBlock
  <2>4. CASE AnswerAuto
    <3>1. job' = job /\ (jobs' = AutoJobs(Queue[qi]) \/ \E files : jobs' = AutoGroupJobs(files))
      BY <2>4 DEF AnswerAuto, Decide
    <3> QED  BY <2>2, <3>1, DecidedTrees
  <2>5. ASSUME NEW victims, ChooseFiles(victims) PROVE \A j \in jobs' \cup {job'} : OfTree(j)
    <3>1. job' = job /\ jobs' = {GroupJob(PromptFiles, victims)}  BY <2>5 DEF ChooseFiles, Decide
    <3> QED  BY <2>2, <3>1, DecidedTrees
  <2>6. ASSUME NEW d \in (IF AtTreePrompt THEN {Queue[qi].a, Queue[qi].b} ELSE {}), ChooseTree(d)
        PROVE  \A j \in jobs' \cup {job'} : OfTree(j)
    <3>1. job' = job /\ jobs' = {TreeJob(d)} /\ Queue[qi].kind = "tree" /\ d \in {Queue[qi].a, Queue[qi].b}
      BY <2>6 DEF ChooseTree, Decide, AtTreePrompt
    <3> QED  BY <2>2, <3>1, DecidedTrees
  <2>7. ASSUME NEW column \in {1, 2}, NEW newline \in BOOLEAN, ChooseColumn(column, newline)
        PROVE  \A j \in jobs' \cup {job'} : OfTree(j)
    <3>1. job' = job /\ jobs' = ColumnJobs(Queue[qi], column = 1 /\ ~newline)
      BY <2>7 DEF ChooseColumn, Decide
    <3> QED  BY <2>2, <3>1, DecidedTrees
  <2> QED  BY <1>4, <2>3, <2>4, <2>5, <2>6, <2>7 DEF Prompt
<1>5. ASSUME NEW j \in jobs, StartJob(j) \/ SkipJob(j)
      PROVE  jobs' \cup {job'} \subseteq jobs \cup {job}
  BY <1>5 DEF StartJob, SkipJob
<1>6. CASE EndJob  BY <1>6 DEF EndJob, NoJob, OfTree
<1>7. ASSUME NEW f \in File, Dispose(f) \/ DisposeFails(f) PROVE UNCHANGED <<jobs, job>>
  BY <1>7 DEF Dispose, DisposeFails
<1> QED  BY <1>1, <1>2, <1>3, <1>4, <1>5, <1>6, <1>7 DEF Next, Drive, Loop

(* What lies below a pruned directory stays empty: files only go.          *)
LEMMA NextPruned == PruneInv /\ [Next]_vars => PruneInv'
<1> SUFFICES ASSUME PruneInv, [Next]_vars PROVE PruneInv'  OBVIOUS
<1>1. Inv'  BY NextInv DEF PruneInv
<1>2. (\A j \in jobs \cup {job} : OfTree(j))'
  <2>1. \A j \in jobs' \cup {job'} : OfTree(j)  BY LoopsOfTrees DEF PruneInv
  <2> QED  BY <2>1 DEF OfTree
<1>3. disk' \subseteq disk /\ (dirs' = dirs \/ EndJob)
  BY Effects DEF Dispose
<1>4. PrunedDirsAreEmptyTrees'
  <2> SUFFICES ASSUME NEW d \in Dir \ dirs'
               PROVE  /\ \A f \in disk' : DirOf[f] \notin Subtree[d]
                      /\ \E q \in DOMAIN Queue :
                           Queue[q].kind = "tree" /\ d \in Subtree[Queue[q].a] \cup Subtree[Queue[q].b]
    BY DEF PrunedDirsAreEmptyTrees
  <2>1. CASE d \notin dirs  BY <1>3, <2>1 DEF PruneInv, PrunedDirsAreEmptyTrees
  <2>2. CASE d \in dirs
    <3>1. job.kind = "tree" /\ d \in Prunable(job.dir) /\ disk' = disk
      BY <1>3, <2>2 DEF EndJob
    <3>2. PICK q \in DOMAIN Queue : Queue[q].kind = "tree" /\ job.dir \in {Queue[q].a, Queue[q].b}
      BY <3>1 DEF PruneInv, OfTree
    <3> QED  BY <3>1, <3>2 DEF Prunable
  <2> QED  BY <2>1, <2>2
<1> QED  BY <1>1, <1>2, <1>4 DEF PruneInv

(* A directory that was removed held no file any more, whether scanned or  *)
(* not, and belonged to a queued tree, for any answers, glob, failing      *)
(* removals and files the scan did not see (deleteTree, pruneEmptyDirs).   *)
THEOREM PrunesEmptyTrees == Spec => []PrunedDirsAreEmptyTrees
<1>1. Init => PruneInv
  <2>1. ASSUME Init PROVE \A j \in jobs \cup {job} : OfTree(j)  BY <2>1 DEF Init, NoJob, OfTree
  <2>2. Init => PrunedDirsAreEmptyTrees  BY DEF Init, PrunedDirsAreEmptyTrees
  <2> QED  BY <2>1, <2>2, InitInv DEF PruneInv
<1>2. PruneInv => PrunedDirsAreEmptyTrees  BY DEF PruneInv
<1> QED  BY <1>1, <1>2, NextPruned, PTL DEF Spec

-----------------------------------------------------------------------------
(***************************************************************************)
(* The last copy, trees included.                                          *)
(***************************************************************************)

(* What a decision about action q may put into jobs.                       *)
DecidedOn(q, js) ==
  \/ js \in {AutoJobs(Queue[q]), GlobJobs(Queue[q])}
  \/ \E files : js = AutoGroupJobs(files)
  \/ \E files, victims : js = {GroupJob(files, victims)}
  \/ \E delA : js = ColumnJobs(Queue[q], delA)
  \/ Queue[q].kind = "tree" /\ \E d \in {Queue[q].a, Queue[q].b} : js = {TreeJob(d)}

(* A loop over a side of action q is all that is decided.                  *)
SideOf(q, j) == Queue[q].kind = "tree" /\ j \in {TreeJob(Queue[q].a), TreeJob(Queue[q].b)}

LEMMA TreeAlone ==
  ASSUME NEW q \in DOMAIN Queue, NEW js, DecidedOn(q, js), NEW j \in js, j.kind = "tree"
  PROVE  js = {j} /\ SideOf(q, j)
<1>1. \A files, victims : GroupJob(files, victims).kind # "tree"  BY DEF GroupJob
<1>2. ASSUME NEW files PROVE \A i \in AutoGroupJobs(files) : i.kind # "tree"
  BY <1>1 DEF AutoGroupJobs
<1>3. ASSUME NEW delA PROVE \A i \in ColumnJobs(Queue[q], delA) : i.kind # "tree"
  BY DEF ColumnJobs, ColumnJob
<1>4. CASE js \in {AutoJobs(Queue[q]), GlobJobs(Queue[q])}
  <2>1. Queue[q].kind = "tree"
    <3>1. CASE Queue[q].kind = "group"
      <4>1. \A i \in js : i.kind # "tree"  BY <1>1, <1>2, <1>4, <3>1 DEF AutoJobs, GlobJobs
      <4> QED  BY <4>1
    <3>2. CASE Queue[q].kind = "overlap"
      <4>1. \A i \in js : i.kind # "tree"  BY <1>3, <1>4, <3>2 DEF AutoJobs, GlobJobs
      <4> QED  BY <4>1
    <3> QED  BY <3>1, <3>2, QueueKinds
  <2> QED  BY <1>4, <2>1 DEF AutoJobs, GlobJobs, SideOf
<1>5. CASE js \notin {AutoJobs(Queue[q]), GlobJobs(Queue[q])}
  BY <1>1, <1>2, <1>3, <1>5 DEF DecidedOn, SideOf
<1> QED  BY <1>4, <1>5

(* A step decides about the action at hand, leaves the loops, or is one of *)
(* theirs.                                                                 *)
Decides ==
  /\ pc' = "jobs" /\ qi \in DOMAIN Queue /\ UNCHANGED <<qi, deleted>>
  /\ DecidedOn(qi, jobs')
  /\ Queue[qi].kind = "tree" => Live(Queue[qi])

LEMMA StepKinds ==
  ASSUME Inv, Next
  PROVE  \/ Decides
         \/ UNCHANGED deleted /\ pc' \notin {"jobs", "dispose"}
         \/ EndJob
         \/ \E j \in jobs : StartJob(j) \/ SkipJob(j)
         \/ \E f \in File : Dispose(f) \/ DisposeFails(f)
<1> USE DEF userVars, loopVars, diskVars
<1>1. CASE Proceed  BY <1>1 DEF Proceed
<1>2. CASE Drive
  <2>1. CASE Finish \/ SkipMoot \/ LeaveBlock  BY <2>1 DEF Finish, SkipMoot, LeaveBlock
  <2>2. CASE Begin
    <3>1. qi \in DOMAIN Queue  BY <2>2, QueueAssumption DEF Inv, TypeOK, Begin
    <3> QED  BY <2>2, <3>1 DEF Begin, Decides, DecidedOn
  <2>3. CASE BlockItem
    <3>1. qi \in DOMAIN Queue /\ Queue[qi].kind = "overlap"
      BY <2>3 DEF BlockItem, Inv, SurvivorInv, Located
    <3> QED  BY <2>3, <3>1 DEF BlockItem, Decides, DecidedOn
  <2> QED  BY <1>2, <2>1, <2>2, <2>3 DEF Drive
<1>3. CASE Prompt
  <2>1. pc = "prompt"
    BY <1>3 DEF Prompt, Skip, Quit, AnswerAuto, EnterBlock, ChooseFiles, ChooseTree, ChooseColumn,
                AtGroupPrompt, AtTreePrompt, AtBlockPrompt
  <2>2. qi \in DOMAIN Queue /\ (Queue[qi].kind = "tree" => Live(Queue[qi]))
    BY <2>1 DEF Inv, SurvivorInv, Located
  <2>3. CASE Skip \/ Quit \/ EnterBlock  BY <2>3 DEF Skip, Advance, Quit, EnterBlock
  <2>4. CASE AnswerAuto
    BY <2>2, <2>4 DEF AnswerAuto, Decide, Decides, DecidedOn
  <2>5. ASSUME NEW victims, ChooseFiles(victims) PROVE Decides
    BY <2>2, <2>5 DEF ChooseFiles, Decide, Decides, DecidedOn
  <2>6. ASSUME NEW d \in (IF AtTreePrompt THEN {Queue[qi].a, Queue[qi].b} ELSE {}), ChooseTree(d)
        PROVE  Decides
    BY <2>2, <2>6 DEF ChooseTree, AtTreePrompt, Decide, Decides, DecidedOn
  <2>7. ASSUME NEW column, NEW newline, ChooseColumn(column, newline) PROVE Decides
    BY <2>2, <2>7 DEF ChooseColumn, Decide, Decides, DecidedOn
  <2> QED  BY <1>3, <2>3, <2>4, <2>5, <2>6, <2>7 DEF Prompt
<1>4. CASE JobsDone  BY <1>4 DEF JobsDone, Advance
<1> QED  BY <1>1, <1>2, <1>3, <1>4 DEF Next, Loop

(* f is known to go without a copy, or has one among the files of o.       *)
Backed(f, o) == f \in exposed \/ \E g \in Lookup(o) \ deleted : OneClass({f, g})

(* A loop over a tree was decided on a live pair, and while it runs the    *)
(* copies opposite are out of its reach.                                   *)
TreeInv ==
  /\ pc = "jobs" =>
       \A j \in jobs : j.kind = "tree" => jobs = {j} /\ SideOf(qi, j) /\ Live(Queue[qi])
  /\ pc = "dispose" => \A j \in jobs : j.kind # "tree"
  /\ pc = "dispose" /\ job.kind = "tree" =>
       \E o \in Dir : job.del \cap Lookup(o) = {} /\ \A f \in work : Backed(f, o)
  /\ LossNeedsBrokenPair

(* Steps that delete nothing keep what is recorded of the losses.          *)
LEMMA LossKept ==
  ASSUME LossNeedsBrokenPair, UNCHANGED deleted, exposed \subseteq exposed'
  PROVE  LossNeedsBrokenPair'
BY DEF LossNeedsBrokenPair

(* The loop over a side starts: the twin is in place, or what lacks a copy *)
(* is recorded.                                                            *)
LEMMA StartedTree ==
  ASSUME TreesAreTwins, TreeInv, Inv, NEW j \in jobs, StartJob(j),
         exposed' = exposed \cup Exposed
  PROVE  TreeInv'
<1>1. /\ pc = "jobs" /\ pc' = "dispose" /\ job' = j /\ jobs' = jobs \ {j}
      /\ UNCHANGED <<qi, deleted>>
  BY DEF StartJob, diskVars
<1>2. \A k \in jobs' : k.kind # "tree"  BY <1>1 DEF TreeInv
<1>3. ASSUME j.kind = "tree"
      PROVE  \E o \in Dir : j.del \cap Lookup(o) = {} /\ \A f \in work' : Backed(f, o)'
  <2>1. SideOf(qi, j) /\ Live(Queue[qi]) /\ qi \in DOMAIN Queue
    BY <1>1, <1>3 DEF TreeInv, Inv, SurvivorInv, Located
  <2>0. PICK o : o = Opposite(j.dir)  OBVIOUS
  <2>2. /\ j.del = Lookup(j.dir) /\ Queue[qi].kind = "tree"
        /\ j.dir \in {Queue[qi].a, Queue[qi].b} /\ o \in {Queue[qi].a, Queue[qi].b}
        /\ {j.dir, o} = {Queue[qi].a, Queue[qi].b}
    BY <2>0, <2>1 DEF SideOf, TreeJob, Opposite
  <2>3. TwinSides(Lookup(j.dir), Lookup(o))
    <3>1. TwinSides(Lookup(Queue[qi].a), Lookup(Queue[qi].b))  BY <2>1, <2>2 DEF TreesAreTwins
    <3>2. TwinSides(Lookup(Queue[qi].b), Lookup(Queue[qi].a))  BY <3>1 DEF TwinSides
    <3> QED  BY <2>0, <2>2, <3>1, <3>2 DEF Opposite
  <2>4. o \in Dir  BY <2>1, <2>2, QueueTree
  <2>5. work' \subseteq Lookup(j.dir)
    <3>1. PICK files \in Answers(j.dir) : work' = files \ deleted
      BY <1>3 DEF StartJob, Listings
    <3> QED  BY <3>1 DEF Answers
  <2>6. Exposed = WithoutCopy(j.dir)  BY <1>1, <1>3 DEF Exposed
  <2>7. CASE Lookup(o) \subseteq deleted /\ o \notin Flaky
    <3>1. ~DirFullyDeleted(Lookup(o))
      BY <2>1, <2>2, <2>7 DEF Live, Answers
    <3>2. Lookup(o) = {}  BY <2>7, <3>1 DEF DirFullyDeleted
    <3>3. work' = {}  BY <2>3, <2>5, <3>2 DEF TwinSides
    <3> QED  BY <2>2, <2>4, <3>2, <3>3
  <2>8. CASE ~(Lookup(o) \subseteq deleted /\ o \notin Flaky)
    <3>1. \A f \in Lookup(j.dir) :
            f \in Exposed \/ \E g \in Lookup(o) \ deleted : OneClass({f, g})
      BY <2>0, <2>6, <2>8 DEF WithoutCopy
    <3>2. \A f \in work' : Backed(f, o)'
      BY <1>1, <2>5, <3>1 DEF Backed, Lookup, OneClass
    <3> QED  BY <2>2, <2>3, <2>4, <3>2 DEF TwinSides
  <2> QED  BY <2>7, <2>8
<1>4. LossNeedsBrokenPair'  BY <1>1, LossKept DEF TreeInv
<1> QED  BY <1>1, <1>2, <1>3, <1>4 DEF TreeInv, Lookup

(* A removal takes a last copy only if that is recorded.                   *)
LEMMA DisposedTree ==
  ASSUME TreeInv, Inv, NEW f \in File, Dispose(f), exposed \subseteq exposed'
  PROVE  TreeInv'
<1>1. /\ pc = "dispose" /\ pc' = "dispose" /\ f \in work /\ work' = work \ {f}
      /\ deleted' = deleted \cup {f} /\ UNCHANGED <<jobs, job>>
      /\ work \subseteq job.del /\ SoundJob(job)
      /\ (job.kind # "tree" => job.keep \ deleted # {})
  BY DEF Dispose, Inv, SurvivorInv
<1>2. CASE job.kind = "tree"
  <2>1. PICK o \in Dir : job.del \cap Lookup(o) = {} /\ \A e \in work : Backed(e, o)
    BY <1>1, <1>2 DEF TreeInv
  <2>2. f \notin Lookup(o)  BY <1>1, <2>1
  <2>3. ASSUME NEW e \in work PROVE Backed(e, o)'
    BY <1>1, <2>1, <2>2 DEF Backed, Lookup, OneClass
  <2>4. ASSUME NEW c \in Class, c \subseteq deleted' PROVE c \cap exposed' # {}
    <3>1. CASE c \subseteq deleted  BY <3>1 DEF TreeInv, LossNeedsBrokenPair
    <3>2. CASE f \in exposed /\ f \in c  BY <3>2
    <3>3. CASE f \notin exposed /\ f \in c
      <4>1. PICK g \in Lookup(o) \ deleted : OneClass({f, g})  BY <1>1, <2>1, <3>3 DEF Backed
      <4>2. g \in c  BY <3>3, <4>1, ClassAssumption DEF OneClass
      <4> QED  BY <1>1, <2>2, <2>4, <4>1, <4>2
    <3> QED  BY <1>1, <2>4, <3>1, <3>2, <3>3
  <2>5. \E p \in Dir : job'.del \cap Lookup(p) = {} /\ \A e \in work' : Backed(e, p)'
    BY <1>1, <2>1, <2>3
  <2> QED  BY <1>1, <2>4, <2>5 DEF TreeInv, LossNeedsBrokenPair, Lookup
<1>3. CASE job.kind # "tree"
  <2>1. ASSUME NEW c \in Class, c \subseteq deleted' PROVE c \cap exposed' # {}
    <3>1. CASE c \subseteq deleted  BY <3>1 DEF TreeInv, LossNeedsBrokenPair
    <3>2. CASE f \in c
      <4>1. PICK g \in job.keep : g \notin deleted  BY <1>1, <1>3
      <4>2. g # f /\ OneClass({f, g})  BY <1>1, <1>3, <4>1 DEF SoundJob, OneClass
      <4>3. g \in c  BY <3>2, <4>2, ClassAssumption DEF OneClass
      <4> QED  BY <1>1, <2>1, <4>1, <4>2, <4>3
    <3> QED  BY <1>1, <2>1, <3>1, <3>2
  <2> QED  BY <1>1, <1>3, <2>1 DEF TreeInv, LossNeedsBrokenPair
<1> QED  BY <1>2, <1>3

(* The invariant holds across every step.                                  *)
LEMMA NextTree ==
  ASSUME TreesAreTwins, TreeInv, Inv, [HNext]_<<vars, histVars>>
  PROVE  TreeInv'
<1>1. CASE UNCHANGED <<vars, histVars>>
  <2>1. UNCHANGED <<pc, qi, jobs, job, work, deleted, exposed>>
    BY <1>1 DEF vars, loopVars, diskVars, histVars
  <2>2. Live(Queue[qi])' <=> Live(Queue[qi])
    BY <2>1 DEF Live, DirFullyDeleted, Answers, Lookup, Alive, LiveItems, ItemLive
  <2>3. \A f, o : Backed(f, o)' <=> Backed(f, o)  BY <2>1 DEF Backed, Lookup, OneClass
  <2> QED  BY <2>1, <2>2, <2>3, LossKept DEF TreeInv, SideOf, TreeJob, Lookup
<1> SUFFICES ASSUME HNext PROVE TreeInv'  BY <1>1
<1>2. Next /\ exposed' = exposed \cup Exposed  BY DEF HNext
<1>3. CASE Decides
  <2>1. pc' = "jobs" /\ UNCHANGED <<qi, deleted>> /\ qi \in DOMAIN Queue
    BY <1>3 DEF Decides
  <2>2. ASSUME NEW j \in jobs', j.kind = "tree"
        PROVE  jobs' = {j} /\ SideOf(qi, j) /\ Live(Queue[qi])
    <3>1. jobs' = {j} /\ SideOf(qi, j)  BY <1>3, <2>2, TreeAlone DEF Decides
    <3> QED  BY <1>3, <3>1 DEF Decides, SideOf
  <2>3. (\A j \in jobs : j.kind = "tree" => jobs = {j} /\ SideOf(qi, j) /\ Live(Queue[qi]))'
    BY <2>1, <2>2 DEF SideOf, TreeJob, Live, DirFullyDeleted, Answers, Lookup, Alive, LiveItems, ItemLive
  <2>4. LossNeedsBrokenPair'  BY <1>2, <2>1, LossKept DEF TreeInv
  <2> QED  BY <2>1, <2>3, <2>4 DEF TreeInv
<1>4. CASE UNCHANGED deleted /\ pc' \notin {"jobs", "dispose"}
  BY <1>2, <1>4, LossKept DEF TreeInv
<1>5. CASE EndJob
  <2>1. pc = "dispose" /\ pc' = "jobs" /\ UNCHANGED <<jobs, deleted>>  BY <1>5 DEF EndJob
  <2> QED  BY <1>2, <2>1, LossKept DEF TreeInv
<1>6. ASSUME NEW j \in jobs, StartJob(j) PROVE TreeInv'
  BY <1>2, <1>6, StartedTree
<1>7. ASSUME NEW j \in jobs, SkipJob(j) PROVE TreeInv'
  <2>1. /\ pc = "jobs" /\ pc' = "jobs" /\ jobs' = jobs \ {j} /\ j.kind = "overlap"
        /\ UNCHANGED deleted
    BY <1>7 DEF SkipJob, Guarded, diskVars
  <2>2. \A k \in jobs' : k.kind # "tree"  BY <2>1 DEF TreeInv
  <2> QED  BY <1>2, <2>1, <2>2, LossKept DEF TreeInv
<1>8. ASSUME NEW f \in File, Dispose(f) PROVE TreeInv'
  BY <1>2, <1>8, DisposedTree
<1>9. ASSUME NEW f \in File, DisposeFails(f) PROVE TreeInv'
  <2>1. /\ pc = "dispose" /\ pc' = "dispose" /\ work' \subseteq work
        /\ UNCHANGED <<jobs, job, deleted>>
    BY <1>9 DEF DisposeFails, diskVars
  <2>2. ASSUME NEW e \in work', NEW o, Backed(e, o) PROVE Backed(e, o)'
    BY <1>2, <2>1, <2>2 DEF Backed, Lookup, OneClass
  <2> QED  BY <1>2, <2>1, <2>2, LossKept DEF TreeInv, Lookup
<1> QED  BY <1>2, <1>3, <1>4, <1>5, <1>6, <1>7, <1>8, <1>9, StepKinds

(* The histories restrict nothing: what holds of every run holds here too. *)
LEMMA HistoryInv == HSpec => []Inv
<1>1. HInit => Inv  BY InitInv DEF HInit
<1>2. Inv /\ [HNext]_<<vars, histVars>> => Inv'  BY NextInv DEF HNext, vars
<1> QED  BY <1>1, <1>2, PTL DEF HSpec

(* With twin trees, and groups, blocks and other trees reaching into them  *)
(* in any way, a content loses its last copy only to a tree whose other    *)
(* side had lost its copies before and was not found to be gone as a       *)
(* whole: reresolveAction and the loops' guards stop every other loss,     *)
(* whatever the user answers and the file system or the store refuses.     *)
THEOREM LossIsBrokenPair == TreesAreTwins => (HSpec => []LossNeedsBrokenPair)
<1> SUFFICES ASSUME TreesAreTwins PROVE HSpec => []LossNeedsBrokenPair  OBVIOUS
<1>1. HInit => TreeInv
  <2> SUFFICES ASSUME HInit PROVE TreeInv  OBVIOUS
  <2>1. deleted = {} /\ pc # "dispose" /\ pc # "jobs"  BY DEF HInit, Init
  <2>2. LossNeedsBrokenPair  BY <2>1, ClassAssumption DEF LossNeedsBrokenPair
  <2> QED  BY <2>1, <2>2 DEF TreeInv
<1>2. Inv /\ TreeInv /\ [HNext]_<<vars, histVars>> => TreeInv'  BY NextTree
<1>3. TreeInv => LossNeedsBrokenPair  BY DEF TreeInv
<1> QED  BY <1>1, <1>2, <1>3, HistoryInv, PTL DEF HSpec

-----------------------------------------------------------------------------
(* What the user asked for.                                                *)

(* Nothing is decided, and nothing decided later without a question, that  *)
(* the answers so far do not cover.                                        *)
Covered ==
  /\ deleted \subseteq wanted
  /\ pc \in {"jobs", "dispose"} => \A j \in jobs : j.del \subseteq wanted
  /\ pc = "dispose" => job.del \subseteq wanted
  /\ auto => \A q \in qi .. Len(Queue) : AutoCovers(q) \subseteq wanted
  /\ inBlock /\ localAuto => \A k \in rest : RangeOf(ItemFiles(k)) \subseteq wanted

CoverInv == ~cfg.headless => Covered

(* What auto mode deletes of an action is what "a" speaks of.              *)
LEMMA AutoWithinCover ==
  ASSUME NEW q \in DOMAIN Queue, NEW j \in AutoJobs(Queue[q])
  PROVE  j.del \subseteq AutoCovers(q)
<1>1. CASE Queue[q].kind = "group"
  BY <1>1 DEF AutoJobs, AutoGroupJobs, GroupJob, AutoCovers, Alive
<1>2. CASE Queue[q].kind = "tree"  BY <1>2 DEF AutoJobs, TreeJob, AutoCovers
<1>3. CASE Queue[q].kind = "overlap"
  <2>1. PICK k \in DOMAIN Queue[q].items : j = ColumnJob(Queue[q].items[k], FALSE)
    BY <1>3 DEF AutoJobs, ColumnJobs, LiveItems
  <2>2. j.del = RangeOf(Queue[q].items[k].b)  BY <2>1 DEF ColumnJob
  <2> QED  BY <1>3, <2>2 DEF AutoCovers
<1> QED  BY <1>1, <1>2, <1>3, QueueKinds

(* Keeping the first of some files deletes some of them.                   *)
LEMMA AutoGroupWithin ==
  ASSUME NEW files, NEW j \in AutoGroupJobs(files)
  PROVE  j.del \subseteq RangeOf(files)
BY DEF AutoGroupJobs, GroupJob, Alive

(* Steps that neither answer nor decide nor delete.                        *)
LEMMA StillCovered ==
  ASSUME Covered, wanted \subseteq wanted', UNCHANGED <<auto, deleted>>, qi \in Nat, qi' \in Nat,
         qi <= qi', pc' \notin {"jobs", "dispose"},
         inBlock' /\ localAuto' => inBlock /\ localAuto /\ rest' \subseteq rest /\ qi' = qi
  PROVE  Covered'
<1>1. Len(Queue) \in Nat  BY QueueAssumption
<1>2. auto' => \A q \in qi' .. Len(Queue) : AutoCovers(q) \subseteq wanted'
  BY <1>1 DEF Covered
<1>3. inBlock' /\ localAuto' => \A k \in rest' : RangeOf(ItemFiles(k)) \subseteq wanted'
  BY DEF Covered
<1>4. (\A q \in qi .. Len(Queue) : AutoCovers(q) \subseteq wanted)' <=>
        \A q \in qi' .. Len(Queue) : AutoCovers(q) \subseteq wanted'
  BY DEF AutoCovers, Lookup
<1>5. inBlock' /\ localAuto' => (\A k \in rest : RangeOf(ItemFiles(k)) \subseteq wanted)'
  BY <1>3 DEF ItemFiles
<1>6. deleted' \subseteq wanted'  BY DEF Covered
<1> HIDE DEF AutoCovers
<1> QED  BY <1>2, <1>4, <1>5, <1>6 DEF Covered

(* Decisions: what is decided is covered, and so is what an "a" leaves to  *)
(* come.                                                                   *)
LEMMA DecisionCovered ==
  ASSUME Covered, wanted \subseteq wanted', pc' = "jobs",
         UNCHANGED <<qi, inBlock, rest, deleted>>, auto' \in BOOLEAN, localAuto' \in BOOLEAN,
         \A j \in jobs' : j.del \subseteq wanted',
         auto' => auto \/ \A q \in qi .. Len(Queue) : AutoCovers(q) \subseteq wanted',
         inBlock /\ localAuto' => localAuto \/ \A k \in rest : RangeOf(ItemFiles(k)) \subseteq wanted'
  PROVE  Covered'
<1>1. auto' => \A q \in qi .. Len(Queue) : AutoCovers(q) \subseteq wanted'
  BY DEF Covered
<1>2. inBlock /\ localAuto' => \A k \in rest : RangeOf(ItemFiles(k)) \subseteq wanted'
  BY DEF Covered
<1>3. (\A q \in qi .. Len(Queue) : AutoCovers(q) \subseteq wanted)' <=>
        \A q \in qi .. Len(Queue) : AutoCovers(q) \subseteq wanted'
  BY DEF AutoCovers, Lookup
<1>4. (\A k \in rest : RangeOf(ItemFiles(k)) \subseteq wanted)' <=>
        \A k \in rest : RangeOf(ItemFiles(k)) \subseteq wanted'
  BY DEF ItemFiles
<1>5. deleted' \subseteq wanted'  BY DEF Covered
<1> QED  BY <1>1, <1>2, <1>3, <1>4, <1>5 DEF Covered

(* Steps within the loops.                                                 *)
LEMMA LoopCovered ==
  ASSUME Covered, wanted \subseteq wanted', pc \in {"jobs", "dispose"}, pc' \in {"jobs", "dispose"},
         UNCHANGED <<qi, auto, inBlock, localAuto, rest>>, deleted' \subseteq wanted,
         jobs' \subseteq jobs, pc' = "dispose" => job' \in jobs \/ (pc = "dispose" /\ job' = job)
  PROVE  Covered'
<1>1. (\A q \in qi .. Len(Queue) : AutoCovers(q) \subseteq wanted)' <=>
        \A q \in qi .. Len(Queue) : AutoCovers(q) \subseteq wanted'
  BY DEF AutoCovers, Lookup
<1>2. (\A k \in rest : RangeOf(ItemFiles(k)) \subseteq wanted)' <=>
        \A k \in rest : RangeOf(ItemFiles(k)) \subseteq wanted'
  BY DEF ItemFiles
<1>3. auto => \A q \in qi .. Len(Queue) : AutoCovers(q) \subseteq wanted'  BY DEF Covered
<1>4. inBlock /\ localAuto => \A k \in rest : RangeOf(ItemFiles(k)) \subseteq wanted'
  BY DEF Covered
<1>5. /\ deleted' \subseteq wanted' /\ (pc' = "dispose" => job'.del \subseteq wanted')
      /\ \A j \in jobs' : j.del \subseteq wanted'
  BY DEF Covered
<1> QED  BY <1>1, <1>2, <1>3, <1>4, <1>5 DEF Covered

(* The drivers decide without a question only what an "a" covered.         *)
LEMMA DriveCovered ==
  ASSUME Inv, Covered, ~cfg.headless, wanted \subseteq wanted', Proceed \/ Drive
  PROVE  Covered'
<1> USE DEF userVars, loopVars, diskVars
<1>0. qi \in Nat /\ auto \in BOOLEAN /\ localAuto \in BOOLEAN /\ rest \subseteq Nat
  BY QueueAssumption DEF Inv, TypeOK
<1>1. CASE Proceed \/ Finish \/ SkipMoot \/ LeaveBlock
  BY <1>0, <1>1, StillCovered DEF Proceed, Finish, SkipMoot, LeaveBlock
<1>2. CASE Begin
  <2>1. qi \in DOMAIN Queue /\ qi \in qi .. Len(Queue)
    BY <1>0, <1>2, QueueAssumption DEF Inv, TypeOK, Begin
  <2>2. CASE ~auto  BY <1>0, <1>2, <2>2, StillCovered DEF Begin
  <2>3. CASE auto
    <3>1. jobs' = AutoJobs(Queue[qi]) /\ pc' = "jobs"  BY <1>2, <2>3 DEF Begin
    <3>2. \A j \in jobs' : j.del \subseteq wanted'
      BY <2>1, <2>3, <3>1, AutoWithinCover DEF Covered
    <3> QED  BY <1>0, <1>2, <3>1, <3>2, DecisionCovered DEF Begin
  <2> QED  BY <1>0, <2>2, <2>3
<1>3. CASE BlockItem
  <2>1. CASE pc' = "jobs"
    <3>1. inBlock /\ localAuto /\ rest # {} /\ jobs' = AutoGroupJobs(ItemFiles(CurrentItem))
          /\ UNCHANGED <<qi, auto, inBlock, localAuto, rest, deleted>>
      BY <1>3, <2>1 DEF BlockItem
    <3>2. \A j \in jobs' : j.del \subseteq wanted'
      BY <1>0, <3>1, CurrentIsLeft, AutoGroupWithin DEF Covered
    <3> QED  BY <1>0, <2>1, <3>1, <3>2, DecisionCovered
  <2>2. CASE pc' # "jobs"  BY <1>0, <1>3, <2>2, StillCovered DEF BlockItem
  <2> QED  BY <2>1, <2>2
<1> QED  BY <1>1, <1>2, <1>3 DEF Drive

(* An answer covers what it decides.                                       *)
LEMMA PromptCovered ==
  ASSUME Inv, Covered, Prompt, wanted' = wanted \cup Answered
  PROVE  Covered'
<1> USE DEF userVars, loopVars, diskVars
<1>0. /\ pc = "prompt" /\ qi \in DOMAIN Queue /\ qi \in Nat /\ wanted \subseteq wanted'
      /\ auto \in BOOLEAN /\ localAuto \in BOOLEAN /\ rest \subseteq Nat
      /\ qi \in qi .. Len(Queue)
  <2>1. pc = "prompt"
    BY DEF Prompt, Skip, Quit, AnswerAuto, EnterBlock, ChooseFiles, ChooseTree, ChooseColumn,
           AtGroupPrompt, AtTreePrompt, AtBlockPrompt
  <2> QED  BY <2>1, QueueAssumption DEF Inv, TypeOK, SurvivorInv, Located
<1>1. CASE Skip  BY <1>0, <1>1, StillCovered DEF Skip, Advance
<1>2. CASE Quit \/ EnterBlock  BY <1>0, <1>2, StillCovered DEF Quit, EnterBlock
<1>3. CASE AnswerAuto
  <2>1. pc' = "jobs" /\ UNCHANGED <<qi, inBlock, rest, deleted>>
    BY <1>3 DEF AnswerAuto, Decide
  <2>2. CASE inBlock
    <3>1. localAuto' = TRUE /\ auto' = auto /\ jobs' = AutoGroupJobs(ItemFiles(CurrentItem))
      BY <1>3, <2>2 DEF AnswerAuto, Decide, PromptFiles
    <3>2. \A k \in rest : RangeOf(ItemFiles(k)) \subseteq wanted'
      <4>1. CASE localAuto  BY <1>0, <2>2, <4>1 DEF Covered
      <4>2. CASE ~localAuto
        <5>1. <<auto, localAuto>>' # <<auto, localAuto>>  BY <1>0, <3>1, <4>2
        <5>2. Answered = UNION {RangeOf(ItemFiles(k)) : k \in rest}
          BY <1>0, <2>1, <2>2, <5>1 DEF Answered
        <5> QED  BY <5>2
      <4> QED  BY <1>0, <4>1, <4>2
    <3>3. CurrentItem \in rest
      BY <1>0, <2>2, CurrentIsLeft DEF Inv, SurvivorInv, Located
    <3>4. \A j \in jobs' : j.del \subseteq wanted'  BY <3>1, <3>2, <3>3, AutoGroupWithin
    <3> QED  BY <1>0, <2>1, <3>1, <3>2, <3>4, DecisionCovered
  <2>3. CASE ~inBlock
    <3>1. auto' = TRUE /\ localAuto' = localAuto /\ jobs' = AutoJobs(Queue[qi])
      BY <1>3, <2>3 DEF AnswerAuto, Decide
    <3>2. \A q \in qi .. Len(Queue) : AutoCovers(q) \subseteq wanted'
      <4>1. CASE auto  BY <1>0, <4>1 DEF Covered
      <4>2. CASE ~auto
        <5>1. <<auto, localAuto>>' # <<auto, localAuto>>  BY <1>0, <3>1, <4>2
        <5>2. Answered = UNION {AutoCovers(q) : q \in qi .. Len(Queue)}
          BY <1>0, <2>1, <2>3, <5>1 DEF Answered
        <5> QED  BY <5>2
      <4> QED  BY <1>0, <4>1, <4>2
    <3>3. \A j \in jobs' : j.del \subseteq wanted'  BY <1>0, <3>1, <3>2, AutoWithinCover
    <3> QED  BY <1>0, <2>1, <2>3, <3>1, <3>2, <3>3, DecisionCovered
  <2> QED  BY <2>2, <2>3
<1>4. ASSUME UNCHANGED <<auto, localAuto, inBlock, qi, rest, deleted>>, pc' = "jobs", ~AtBlockPrompt
      PROVE  Covered'
  <2>1. Answered = UNION {j.del : j \in jobs'}  BY <1>0, <1>4 DEF Answered
  <2>2. \A j \in jobs' : j.del \subseteq wanted'  BY <2>1
  <2> QED  BY <1>0, <1>4, <2>2, DecisionCovered
<1>5. ASSUME NEW victims, ChooseFiles(victims) PROVE Covered'
  BY <1>4, <1>5 DEF ChooseFiles, Decide, AtGroupPrompt, AtBlockPrompt
<1>6. ASSUME NEW d \in (IF AtTreePrompt THEN {Queue[qi].a, Queue[qi].b} ELSE {}), ChooseTree(d)
      PROVE  Covered'
  BY <1>4, <1>6 DEF ChooseTree, Decide, AtTreePrompt, AtBlockPrompt
<1>7. ASSUME NEW column, NEW newline, ChooseColumn(column, newline) PROVE Covered'
  <2>1. /\ AtBlockPrompt /\ pc' = "jobs" /\ UNCHANGED <<auto, localAuto, inBlock, qi, rest, deleted>>
        /\ jobs' = ColumnJobs(Queue[qi], column = 1 /\ ~newline)
    BY <1>7 DEF ChooseColumn, Decide
  <2>2. Answered = BlockFiles(qi)  BY <1>0, <2>1 DEF Answered
  <2>3. ASSUME NEW j \in jobs' PROVE j.del \subseteq wanted'
    <3>1. PICK k \in DOMAIN Queue[qi].items :
            j = ColumnJob(Queue[qi].items[k], column = 1 /\ ~newline)
      BY <2>1 DEF ColumnJobs, LiveItems
    <3>2. j.del \in {RangeOf(Queue[qi].items[k].a), RangeOf(Queue[qi].items[k].b)}
      BY <3>1 DEF ColumnJob
    <3> QED  BY <2>2, <3>2 DEF BlockFiles
  <2> QED  BY <1>0, <2>1, <2>3, DecisionCovered
<1> QED  BY <1>1, <1>2, <1>3, <1>5, <1>6, <1>7 DEF Prompt

(* The loops dispose of what was decided.                                  *)
LEMMA LoopsCovered ==
  ASSUME Inv, Covered, wanted \subseteq wanted', Loop
  PROVE  Covered'
<1> USE DEF userVars, loopVars, diskVars
<1>0. qi \in Nat /\ rest \subseteq Nat /\ deleted \subseteq wanted
  BY QueueAssumption DEF Inv, TypeOK, Covered
<1>1. CASE JobsDone  BY <1>0, <1>1, StillCovered DEF JobsDone, Advance
<1>2. CASE EndJob  BY <1>0, <1>2, LoopCovered DEF EndJob
<1>3. ASSUME NEW j \in jobs, StartJob(j) PROVE Covered'
  BY <1>0, <1>3, LoopCovered DEF StartJob
<1>4. ASSUME NEW j \in jobs, SkipJob(j) PROVE Covered'
  BY <1>0, <1>4, LoopCovered DEF SkipJob
<1>5. ASSUME NEW f \in File, Dispose(f) PROVE Covered'
  <2>1. f \in wanted  BY <1>5 DEF Dispose, Inv, SurvivorInv, Covered
  <2> QED  BY <1>0, <1>5, <2>1, LoopCovered DEF Dispose
<1>6. ASSUME NEW f \in File, DisposeFails(f) PROVE Covered'
  BY <1>0, <1>6, LoopCovered DEF DisposeFails
<1> QED  BY <1>1, <1>2, <1>3, <1>4, <1>5, <1>6 DEF Loop

(* Without --headless nothing goes that no answer spoke of: for every      *)
(* queue, "a" counts for the remaining actions at a queue action and for   *)
(* the remaining items inside a block (promptAction, promptOverlap,        *)
(* resolveOverlapFileByFile).                                              *)
THEOREM NothingUnasked == HSpec => []OnlyOnRequest
<1>1. HInit => CoverInv
  <2> SUFFICES ASSUME HInit PROVE Covered  BY DEF CoverInv
  <2> QED  BY DEF HInit, Init, Covered
<1>2. Inv /\ CoverInv /\ [HNext]_<<vars, histVars>> => CoverInv'
  <2> SUFFICES ASSUME Inv, CoverInv, [HNext]_<<vars, histVars>>, ~cfg'.headless PROVE Covered'
    BY DEF CoverInv
  <2>1. CASE UNCHANGED <<vars, histVars>>
    BY <2>1 DEF vars, userVars, loopVars, diskVars, histVars, CoverInv, Covered, AutoCovers, Lookup,
                ItemFiles
  <2>2. CASE HNext
    <3>1. Next /\ wanted' = wanted \cup Answered /\ cfg' = cfg  BY <2>2, Effects DEF HNext
    <3>2. Covered /\ ~cfg.headless /\ wanted \subseteq wanted'  BY <3>1 DEF CoverInv
    <3> QED  BY <3>1, <3>2, DriveCovered, PromptCovered, LoopsCovered DEF Next
  <2> QED  BY <2>1, <2>2
<1>3. CoverInv => OnlyOnRequest  BY DEF CoverInv, Covered, OnlyOnRequest
<1> QED  BY <1>1, <1>2, <1>3, HistoryInv, PTL DEF HSpec

-----------------------------------------------------------------------------
(* The rehearsal.  What a headless run deletes is a function of the queue  *)
(* and the glob: a chain from action to action, which the rehearsal and    *)
(* the real run both go along.                                             *)
(*                                                                         *)
(* What the headless driver deletes of action a, as a function of what is  *)
(* gone before.                                                            *)
FirstLeft(s, gone) ==
  s[CHOOSE k \in DOMAIN s :
      s[k] \notin gone /\ \A j \in DOMAIN s : s[j] \notin gone => k <= j]

ItemsLeft(a, gone) ==
  {k \in DOMAIN a.items :
     RangeOf(a.items[k].a) \ gone # {} /\ RangeOf(a.items[k].b) \ gone # {}}

GroupCasualties(glob, s, gone) ==
  LET left == RangeOf(s) \ gone
      matched == left \cap GlobMatch
  IN IF ~AtLeastTwo(left) THEN {}
     ELSE IF ~glob THEN left \ {FirstLeft(s, gone)}
     ELSE IF matched = left THEN matched \ {FirstLeft(s, gone)} ELSE matched

TreeCasualties(glob, a, gone) ==
  LET wholly(d) == Lookup(d) # {} /\ Lookup(d) \subseteq gone IN
  IF wholly(a.a) \/ wholly(a.b) THEN {}
  ELSE IF ~glob \/ OnlyFirstMatches(a.b, a.a) THEN Lookup(a.b)
  ELSE IF OnlyFirstMatches(a.a, a.b) THEN Lookup(a.a) ELSE {}

OverlapCasualties(glob, a, gone) ==
  IF ~glob \/ OnlyFirstMatches(a.rootB, a.rootA)
  THEN UNION {RangeOf(a.items[k].b) : k \in ItemsLeft(a, gone)}
  ELSE IF OnlyFirstMatches(a.rootA, a.rootB)
  THEN UNION {RangeOf(a.items[k].a) : k \in ItemsLeft(a, gone)}
  ELSE {}

Casualties(glob, a, gone) ==
  CASE a.kind = "group"   -> GroupCasualties(glob, a.files, gone)
    [] a.kind = "tree"    -> TreeCasualties(glob, a, gone)
    [] a.kind = "overlap" -> OverlapCasualties(glob, a, gone)

(* What is gone after each of the first n actions of a headless run.       *)
Chain(glob, n, h) ==
  /\ h[0] = {}
  /\ \A k \in 1 .. n : h[k] = h[k - 1] \cup Casualties(glob, Queue[k], h[k - 1])

GoneAfter(glob, n, gone) ==
  \E h \in [0 .. n -> SUBSET File] : Chain(glob, n, h) /\ h[n] = gone

(* What an action deletes are files.                                       *)
LEMMA CasualtiesTyped ==
  ASSUME NEW glob, NEW q \in DOMAIN Queue, NEW gone
  PROVE  Casualties(glob, Queue[q], gone) \subseteq File
<1>1. CASE Queue[q].kind = "group"
  <2>1. Queue[q].files \in Seq(File)  BY <1>1, QueueGroup
  <2>2. RangeOf(Queue[q].files) \subseteq File  BY <2>1 DEF RangeOf
  <2> QED  BY <1>1, <2>2 DEF Casualties, GroupCasualties
<1>2. CASE Queue[q].kind = "tree"
  <2>1. \A d : Lookup(d) \subseteq File  BY WorldAssumption DEF Lookup
  <2> QED  BY <1>2, <2>1 DEF Casualties, TreeCasualties
<1>3. CASE Queue[q].kind = "overlap"
  <2>1. ASSUME NEW k \in DOMAIN Queue[q].items
        PROVE  RangeOf(Queue[q].items[k].a) \subseteq File /\ RangeOf(Queue[q].items[k].b) \subseteq File
    <3>1. Queue[q].items[k].a \in Seq(File) /\ Queue[q].items[k].b \in Seq(File)
      BY <1>3, QueueOverlap
    <3> QED  BY <3>1 DEF RangeOf
  <2>2. OverlapCasualties(glob, Queue[q], gone) \subseteq File
    BY <2>1 DEF OverlapCasualties, ItemsLeft
  <2> QED  BY <1>3, <2>2 DEF Casualties
<1> QED  BY <1>1, <1>2, <1>3, QueueKinds

(* Before the first action nothing is gone.                                *)
LEMMA NothingGoneFirst ==
  ASSUME NEW glob
  PROVE  GoneAfter(glob, 0, {})
<1> DEFINE h == [k \in 0 .. 0 |-> {}]
<1>1. h \in [0 .. 0 -> SUBSET File] /\ Chain(glob, 0, h) /\ h[0] = {}  BY DEF Chain
<1> QED  BY <1>1 DEF GoneAfter

(* One more action, one more link of the chain.                            *)
LEMMA OneMoreGone ==
  ASSUME NEW glob, NEW n \in DOMAIN Queue, NEW gone, GoneAfter(glob, n - 1, gone)
  PROVE  GoneAfter(glob, n, gone \cup Casualties(glob, Queue[n], gone))
<1>0. n \in Nat /\ n >= 1  BY QueueAssumption
<1> DEFINE all == gone \cup Casualties(glob, Queue[n], gone)
<1>1. PICK h \in [0 .. n - 1 -> SUBSET File] : Chain(glob, n - 1, h) /\ h[n - 1] = gone
  BY DEF GoneAfter
<1> DEFINE l == [k \in 0 .. n |-> IF k = n THEN all ELSE h[k]]
<1>2. all \subseteq File
  <2>1. gone \subseteq File  BY <1>0, <1>1
  <2> QED  BY <2>1, CasualtiesTyped
<1>3. l \in [0 .. n -> SUBSET File] /\ l[n] = all  BY <1>0, <1>1, <1>2
<1>4. ASSUME NEW k \in 1 .. n PROVE l[k] = l[k - 1] \cup Casualties(glob, Queue[k], l[k - 1])
  <2>1. k - 1 \in 0 .. n - 1 /\ l[k - 1] = h[k - 1]  BY <1>0
  <2>2. CASE k = n  BY <1>0, <1>1, <1>3, <2>1, <2>2
  <2>3. CASE k # n
    <3>1. k \in 1 .. n - 1 /\ l[k] = h[k]  BY <1>0, <2>3
    <3> QED  BY <1>1, <2>1, <3>1 DEF Chain
  <2> QED  BY <2>2, <2>3
<1>5. l[0] = {}  BY <1>0, <1>1 DEF Chain
<1> HIDE DEF l
<1>6. Chain(glob, n, l)  BY <1>4, <1>5 DEF Chain
<1> QED  BY <1>3, <1>6 DEF GoneAfter

(* Two runs agree as far as both have come.                                *)
LEMMA ChainsAgree ==
  ASSUME NEW glob, NEW n \in Nat, NEW m \in Nat, n <= m, NEW g, NEW h,
         Chain(glob, n, g), Chain(glob, m, h)
  PROVE  g[n] = h[n]
<1> DEFINE differ == {k \in 0 .. n : g[k] # h[k]}
<1> SUFFICES ASSUME g[n] # h[n] PROVE FALSE  OBVIOUS
<1>1. differ \subseteq Nat /\ differ # {}  OBVIOUS
<1>2. PICK k \in differ : \A j \in differ : k <= j  BY <1>1, NatMin
<1>3. k # 0  BY <1>2 DEF Chain
<1>4. k \in 1 .. n /\ k \in 1 .. m /\ k - 1 \in 0 .. n /\ k - 1 \notin differ  BY <1>2, <1>3
<1>5. g[k - 1] = h[k - 1]  BY <1>4
<1>6. g[k] = g[k - 1] \cup Casualties(glob, Queue[k], g[k - 1])  BY <1>4 DEF Chain
<1>7. h[k] = h[k - 1] \cup Casualties(glob, Queue[k], h[k - 1])  BY <1>4 DEF Chain
<1> QED  BY <1>2, <1>5, <1>6, <1>7

(* What is gone stays gone.                                                *)
LEMMA ChainGrows ==
  ASSUME NEW glob, NEW m \in Nat, NEW n \in 0 .. m, NEW h, Chain(glob, m, h)
  PROVE  h[n] \subseteq h[m]
<1> DEFINE lost == {k \in n .. m : ~(h[n] \subseteq h[k])}
<1> SUFFICES ASSUME ~(h[n] \subseteq h[m]) PROVE FALSE  OBVIOUS
<1>1. lost \subseteq Nat /\ lost # {}  OBVIOUS
<1>2. PICK k \in lost : \A j \in lost : k <= j  BY <1>1, NatMin
<1>3. k # n  BY <1>2
<1>4. k \in 1 .. m /\ k - 1 \in n .. m /\ k - 1 \notin lost  BY <1>2, <1>3
<1>5. h[n] \subseteq h[k - 1]  BY <1>4
<1>6. h[k] = h[k - 1] \cup Casualties(glob, Queue[k], h[k - 1])  BY <1>4 DEF Chain
<1> QED  BY <1>2, <1>5, <1>6

(* The headless driver is a function of the queue and the glob.            *)
LEMMA GoneIsDetermined ==
  ASSUME NEW glob, NEW m \in Nat, NEW n \in 0 .. m, NEW S, NEW T,
         GoneAfter(glob, n, S), GoneAfter(glob, m, T)
  PROVE  S \subseteq T /\ (n = m => S = T)
<1>1. PICK g \in [0 .. n -> SUBSET File] : Chain(glob, n, g) /\ g[n] = S  BY DEF GoneAfter
<1>2. PICK h \in [0 .. m -> SUBSET File] : Chain(glob, m, h) /\ h[m] = T  BY DEF GoneAfter
<1>3. n \in Nat /\ n <= m  OBVIOUS
<1>4. g[n] = h[n]  BY <1>1, <1>2, <1>3, ChainsAgree
<1>5. h[n] \subseteq h[m]  BY <1>2, ChainGrows
<1> QED  BY <1>1, <1>2, <1>4, <1>5

(* A decision of the headless driver condemns just these files.            *)
LEMMA MootCostsNothing ==
  ASSUME NEW glob, NEW q \in DOMAIN Queue, Moot(Queue[q]),
         Queue[q].kind = "tree" =>
           \E d \in {Queue[q].a, Queue[q].b} : DirFullyDeleted(Lookup(d))
  PROVE  Casualties(glob, Queue[q], deleted) = {}
<1>1. CASE Queue[q].kind = "group"
  BY <1>1 DEF Moot, Casualties, GroupCasualties, Alive
<1>2. CASE Queue[q].kind = "tree"
  BY <1>2 DEF Casualties, TreeCasualties, DirFullyDeleted
<1>3. CASE Queue[q].kind = "overlap"
  <2>1. ItemsLeft(Queue[q], deleted) = {}
    BY <1>3 DEF Moot, LiveItems, ItemLive, Alive, ItemsLeft
  <2> QED  BY <1>3, <2>1 DEF Casualties, OverlapCasualties
<1> QED  BY <1>1, <1>2, <1>3, QueueKinds

(* The jobs on a column delete that column of the items left.              *)
LEMMA ColumnCasualties ==
  ASSUME NEW a, NEW delA \in BOOLEAN
  PROVE  UNION {j.del : j \in ColumnJobs(a, delA)} =
           IF delA THEN UNION {RangeOf(a.items[k].a) : k \in ItemsLeft(a, deleted)}
                   ELSE UNION {RangeOf(a.items[k].b) : k \in ItemsLeft(a, deleted)}
<1>1. LiveItems(a) = ItemsLeft(a, deleted)
  BY DEF LiveItems, ItemLive, Alive, ItemsLeft
<1>2. ColumnJobs(a, delA) = {ColumnJob(a.items[k], delA) : k \in ItemsLeft(a, deleted)}
  BY <1>1 DEF ColumnJobs
<1>3. \A k : ColumnJob(a.items[k], delA).del = RangeOf(IF delA THEN a.items[k].a ELSE a.items[k].b)
  BY DEF ColumnJob
<1>4. CASE delA
  <2>1. \A k : ColumnJob(a.items[k], delA).del = RangeOf(a.items[k].a)  BY <1>3, <1>4
  <2>2. {j.del : j \in ColumnJobs(a, delA)} = {RangeOf(a.items[k].a) : k \in ItemsLeft(a, deleted)}
    BY <1>2, <2>1
  <2> QED  BY <1>4, <2>2, Zenon
<1>5. CASE ~delA
  <2>1. \A k : ColumnJob(a.items[k], delA).del = RangeOf(a.items[k].b)  BY <1>3, <1>5
  <2>2. {j.del : j \in ColumnJobs(a, delA)} = {RangeOf(a.items[k].b) : k \in ItemsLeft(a, deleted)}
    BY <1>2, <2>1
  <2> QED  BY <1>5, <2>2, Zenon
<1> QED  BY <1>4, <1>5

(* The jobs of an action delete its casualties.                            *)
LEMMA DecidesCasualties ==
  ASSUME NEW q \in DOMAIN Queue, Live(Queue[q]), NEW glob \in BOOLEAN, NEW js,
         Queue[q].kind = "tree" =>
           \A d \in {Queue[q].a, Queue[q].b} : ~DirFullyDeleted(Lookup(d)),
         js = IF glob THEN GlobJobs(Queue[q]) ELSE AutoJobs(Queue[q])
  PROVE  UNION {j.del : j \in js} = Casualties(glob, Queue[q], deleted)
<1> DEFINE a == Queue[q]
<1>1. CASE a.kind = "group"
  <2>1. Alive(a.files) = RangeOf(a.files) \ deleted /\ AtLeastTwo(Alive(a.files))
    BY <1>1 DEF Alive, Live
  <2>2. FirstAlive(a.files) = FirstLeft(a.files, deleted)  BY DEF FirstAlive, FirstLeft
  <2>3. ASSUME NEW victims, js = {GroupJob(a.files, victims)}
        PROVE  UNION {j.del : j \in js} = victims
    <3>1. GroupJob(a.files, victims).del = victims  BY DEF GroupJob
    <3>2. \A x : UNION {j.del : j \in {x}} = x.del  OBVIOUS
    <3> QED  BY <2>3, <3>1, <3>2
  <2>4. CASE glob
    <3>1. js = {GroupJob(a.files, GlobVictims(a.files))}  BY <1>1, <2>4 DEF GlobJobs
    <3>2. GlobVictims(a.files) = GroupCasualties(glob, a.files, deleted)
      BY <2>1, <2>2, <2>4 DEF GlobVictims, GroupCasualties
    <3> QED  BY <1>1, <2>3, <3>1, <3>2 DEF Casualties
  <2>5. CASE ~glob
    <3>1. js = {GroupJob(a.files, Alive(a.files) \ {FirstAlive(a.files)})}
      BY <1>1, <2>5 DEF AutoJobs, AutoGroupJobs
    <3>2. Alive(a.files) \ {FirstAlive(a.files)} = GroupCasualties(glob, a.files, deleted)
      BY <2>1, <2>2, <2>5 DEF GroupCasualties
    <3> QED  BY <1>1, <2>3, <3>1, <3>2 DEF Casualties
  <2> QED  BY <2>4, <2>5
<1>2. CASE a.kind = "tree"
  <2>1. js = IF ~glob \/ OnlyFirstMatches(a.b, a.a) THEN {TreeJob(a.b)}
             ELSE IF OnlyFirstMatches(a.a, a.b) THEN {TreeJob(a.a)} ELSE {}
    BY <1>2 DEF GlobJobs, AutoJobs, OnlyFirstMatches
  <2>2. \A d : UNION {j.del : j \in {TreeJob(d)}} = Lookup(d)  BY DEF TreeJob
  <2>3. UNION {j.del : j \in {}} = {}  OBVIOUS
  <2>4. Casualties(glob, a, deleted) =
          IF ~glob \/ OnlyFirstMatches(a.b, a.a) THEN Lookup(a.b)
          ELSE IF OnlyFirstMatches(a.a, a.b) THEN Lookup(a.a) ELSE {}
    BY <1>2 DEF DirFullyDeleted, Casualties, TreeCasualties
  <2> QED  BY <2>1, <2>2, <2>3, <2>4
<1>3. CASE a.kind = "overlap"
  <2>1. js = IF ~glob \/ OnlyFirstMatches(a.rootB, a.rootA) THEN ColumnJobs(a, FALSE)
             ELSE IF OnlyFirstMatches(a.rootA, a.rootB) THEN ColumnJobs(a, TRUE) ELSE {}
    BY <1>3 DEF GlobJobs, AutoJobs, OnlyFirstMatches
  <2>2. UNION {j.del : j \in ColumnJobs(a, FALSE)} =
          UNION {RangeOf(a.items[k].b) : k \in ItemsLeft(a, deleted)}
    BY ColumnCasualties
  <2>3. UNION {j.del : j \in ColumnJobs(a, TRUE)} =
          UNION {RangeOf(a.items[k].a) : k \in ItemsLeft(a, deleted)}
    BY ColumnCasualties
  <2>4. UNION {j.del : j \in {}} = {}  OBVIOUS
  <2>5. Casualties(glob, a, deleted) = OverlapCasualties(glob, a, deleted)
    BY <1>3 DEF Casualties
  <2> QED  BY <2>1, <2>2, <2>3, <2>4, <2>5 DEF OverlapCasualties
<1> QED  BY <1>1, <1>2, <1>3, QueueKinds

(* No loop over a column costs another loop the copy it keeps.             *)
LEMMA ColumnsSpareEachOther ==
  ASSUME QueuedOnce, NEW q \in DOMAIN Queue, Queue[q].kind = "overlap", NEW delA \in BOOLEAN,
         NEW j \in ColumnJobs(Queue[q], delA)
  PROVE  ~(j.keep \subseteq deleted \cup UNION {i.del : i \in ColumnJobs(Queue[q], delA)})
<1> DEFINE a == Queue[q]
           gone(k) == RangeOf(IF delA THEN a.items[k].a ELSE a.items[k].b)
           kept(k) == RangeOf(IF delA THEN a.items[k].b ELSE a.items[k].a)
<1>1. PICK k \in LiveItems(a) : j = ColumnJob(a.items[k], delA)  BY DEF ColumnJobs
<1>2. j.keep = kept(k)  BY <1>1 DEF ColumnJob
<1>3. PICK y \in kept(k) : y \notin deleted  BY <1>1 DEF LiveItems, ItemLive, Alive
<1>4. ASSUME NEW i \in ColumnJobs(a, delA), y \in i.del PROVE FALSE
  <2>1. PICK l \in LiveItems(a) : i = ColumnJob(a.items[l], delA)  BY <1>4 DEF ColumnJobs
  <2>2. y \in gone(l)  BY <1>4, <2>1 DEF ColumnJob
  <2>3. /\ <<q, k>> \in Units /\ <<q, l>> \in Units
        /\ UnitFiles(<<q, k>>) = gone(k) \cup kept(k) /\ UnitFiles(<<q, l>>) = gone(l) \cup kept(l)
        /\ gone(k) \cap kept(k) = {}
    BY <1>1, <2>1, ItemUnit DEF LiveItems
  <2>4. k = l  BY <1>3, <2>2, <2>3 DEF QueuedOnce
  <2> QED  BY <1>3, <2>2, <2>3, <2>4
<1> QED  BY <1>2, <1>3, <1>4

(* What is gone or will be once the loops decided so far have run.         *)
Doomed == deleted \cup work \cup UNION {j.del : j \in jobs}

(* Where the headless driver stands, in terms of what is gone after each   *)
(* action.                                                                 *)
HeadlessAt ==
  /\ ~inBlock /\ pc \in {"next", "jobs", "dispose", "done"}
  /\ qi \in 1 .. Len(Queue) + 1
  /\ pc \in {"next", "done"} => jobs = {} /\ work = {} /\ GoneAfter(cfg.glob, qi - 1, deleted)
  /\ pc \in {"jobs", "dispose"} => qi \in DOMAIN Queue /\ GoneAfter(cfg.glob, qi, Doomed)
  /\ pc = "jobs" => work = {}
  /\ \A j \in jobs : j.kind = "overlap" => ~(j.keep \subseteq Doomed)
  /\ \A j \in jobs : j.kind = "tree" => j.del = Lookup(j.dir)
  /\ pc = "done" => qi = Len(Queue) + 1

RehearsalInv ==
  /\ cfg \in Config /\ smooth \in BOOLEAN
  /\ smooth =>
       /\ preview # None => cfg.headless /\ GoneAfter(cfg.glob, Len(Queue), preview)
       /\ cfg.headless => HeadlessAt

(* The queue is numbered from 1 to its length.                             *)
LEMMA QueueLen == Len(Queue) \in Nat /\ DOMAIN Queue = 1 .. Len(Queue)
BY QueueAssumption

(* Deciding about the next action adds its casualties to the doomed.       *)
LEMMA HeadlessDrives ==
  ASSUME ~StepFails, QueuedOnce, cfg \in Config, HeadlessAt, cfg.headless, Proceed \/ Drive
  PROVE  HeadlessAt'
<1> USE QueueLen DEF userVars, loopVars, diskVars
<1>0. ~inBlock /\ qi \in 1 .. Len(Queue) + 1 /\ pc \in {"next", "jobs", "dispose", "done"}
      /\ cfg.glob \in BOOLEAN
  BY DEF HeadlessAt, Config
<1>1. CASE Proceed \/ LeaveBlock \/ BlockItem  BY <1>0, <1>1 DEF Proceed, LeaveBlock, BlockItem
<1>2. CASE Finish  BY <1>2 DEF Finish, HeadlessAt
<1>3. CASE SkipMoot
  <2>0. Queue[qi].kind = "tree" =>
          \E d \in {Queue[qi].a, Queue[qi].b} : DirFullyDeleted(Lookup(d))
    <3>1. qi' # qi /\ pc = "next" /\ ~inBlock /\ qi <= Len(Queue)
      BY <1>0, <1>3 DEF SkipMoot
    <3> QED  BY <3>1 DEF StepFails, TreeGone
  <2>1. /\ qi \in DOMAIN Queue /\ jobs = {} /\ work = {} /\ GoneAfter(cfg.glob, qi - 1, deleted)
        /\ Casualties(cfg.glob, Queue[qi], deleted) = {} /\ pc = "next"
    BY <1>0, <1>3, <2>0, MootCostsNothing DEF SkipMoot, HeadlessAt
  <2>2. GoneAfter(cfg.glob, qi, deleted \cup Casualties(cfg.glob, Queue[qi], deleted))
    BY <2>1, OneMoreGone
  <2>3. GoneAfter(cfg.glob, qi, deleted)  BY <2>1, <2>2
  <2>4. qi' = qi + 1 /\ qi' - 1 = qi /\ UNCHANGED <<cfg, pc, inBlock, jobs, work, deleted>>
    BY <1>0, <1>3 DEF SkipMoot
  <2>5. GoneAfter(cfg.glob, qi - 1, deleted)'
    BY <2>3, <2>4 DEF GoneAfter
  <2> QED  BY <1>0, <2>1, <2>4, <2>5 DEF HeadlessAt
<1>4. CASE Begin
  <2> DEFINE js == IF cfg.glob THEN GlobJobs(Queue[qi]) ELSE AutoJobs(Queue[qi])
  <2>1. /\ qi \in DOMAIN Queue /\ jobs = {} /\ work = {} /\ GoneAfter(cfg.glob, qi - 1, deleted)
        /\ Live(Queue[qi]) /\ jobs' = js /\ pc' = "jobs"
        /\ UNCHANGED <<cfg, qi, inBlock, work, deleted>>
    BY <1>0, <1>4 DEF Begin, HeadlessAt
  <2>0. Queue[qi].kind = "tree" =>
          \A d \in {Queue[qi].a, Queue[qi].b} : ~DirFullyDeleted(Lookup(d))
    <3>1. qi' = qi /\ pc = "next" /\ ~inBlock /\ qi <= Len(Queue)
      BY <1>0, <1>4 DEF Begin
    <3> QED  BY <3>1 DEF StepFails, TreeGone
  <2>2. UNION {j.del : j \in js} = Casualties(cfg.glob, Queue[qi], deleted)
    BY <1>0, <2>0, <2>1, DecidesCasualties
  <2>3. GoneAfter(cfg.glob, qi, deleted \cup Casualties(cfg.glob, Queue[qi], deleted))
    BY <2>1, OneMoreGone
  <2>4. Doomed' = deleted \cup UNION {j.del : j \in js}
    BY <2>1 DEF Doomed
  <2>5. ASSUME NEW j \in js, j.kind = "overlap" PROVE ~(j.keep \subseteq Doomed')
    <3>1. \E delA \in BOOLEAN : Queue[qi].kind = "overlap" /\ js = ColumnJobs(Queue[qi], delA)
      <4>1. CASE Queue[qi].kind = "group"
        BY <2>5, <4>1 DEF GlobJobs, AutoJobs, AutoGroupJobs, GroupJob
      <4>2. CASE Queue[qi].kind = "tree"
        BY <2>5, <4>2 DEF GlobJobs, AutoJobs, TreeJob
      <4>3. CASE Queue[qi].kind = "overlap"
        BY <2>5, <4>3 DEF GlobJobs, AutoJobs
      <4> QED  BY <2>1, <4>1, <4>2, <4>3, QueueKinds
    <3>2. PICK delA \in BOOLEAN : Queue[qi].kind = "overlap" /\ js = ColumnJobs(Queue[qi], delA)
      BY <3>1
    <3> HIDE DEF js
    <3> QED  BY <2>1, <2>4, <2>5, <3>2, ColumnsSpareEachOther
  <2>7. ASSUME NEW j \in js, j.kind = "tree" PROVE j.del = Lookup(j.dir)
    <3>1. DecidedOn(qi, js)  BY DEF DecidedOn
    <3>2. SideOf(qi, j)  BY <2>1, <2>7, <3>1, TreeAlone
    <3> QED  BY <3>2 DEF SideOf, TreeJob
  <2> HIDE DEF js
  <2>6. GoneAfter(cfg.glob, qi, Doomed)'
    <3>1. GoneAfter(cfg.glob, qi, Doomed')  BY <2>2, <2>3, <2>4
    <3> QED  BY <2>1, <3>1 DEF GoneAfter
  <2> QED  BY <1>0, <2>1, <2>5, <2>6, <2>7 DEF HeadlessAt
<1> QED  BY <1>1, <1>2, <1>3, <1>4 DEF Drive

(* Carrying out a job loses no doomed file and adds none.                  *)
LEMMA HeadlessLoops ==
  ASSUME ~StepFails, HeadlessAt, cfg.headless, Loop
  PROVE  HeadlessAt'
<1> USE QueueLen DEF userVars, loopVars, diskVars
<1>0. ~inBlock /\ qi \in 1 .. Len(Queue) + 1 /\ UNCHANGED <<cfg, inBlock>>
  <2>1. ~inBlock /\ qi \in 1 .. Len(Queue) + 1  BY DEF HeadlessAt
  <2>2. UNCHANGED <<cfg, inBlock>>
    BY DEF Loop, JobsDone, EndJob, StartJob, SkipJob, Dispose, DisposeFails
  <2> QED  BY <2>1, <2>2
<1>1. ASSUME UNCHANGED <<qi>>, Doomed' = Doomed, pc \in {"jobs", "dispose"},
             pc' \in {"jobs", "dispose"}, jobs' \subseteq jobs, pc' = "jobs" => work' = {}
      PROVE  HeadlessAt'
  <2>1. GoneAfter(cfg.glob, qi, Doomed)  BY <1>1 DEF HeadlessAt
  <2>2. GoneAfter(cfg.glob, qi, Doomed)'  BY <1>0, <1>1, <2>1 DEF GoneAfter
  <2> QED  BY <1>0, <1>1, <2>2 DEF HeadlessAt
<1>2. CASE JobsDone
  <2>1. /\ pc = "jobs" /\ jobs = {} /\ pc' = "next" /\ qi' = qi + 1 /\ work = {}
        /\ UNCHANGED <<jobs, work, deleted>> /\ qi \in DOMAIN Queue
        /\ GoneAfter(cfg.glob, qi, Doomed)
    BY <1>0, <1>2 DEF JobsDone, Advance, HeadlessAt
  <2>2. Doomed = deleted  BY <2>1 DEF Doomed
  <2>3. qi' - 1 = qi  BY <1>0, <2>1
  <2>4. GoneAfter(cfg.glob, qi - 1, deleted)'  BY <1>0, <2>1, <2>2, <2>3 DEF GoneAfter
  <2> QED  BY <1>0, <2>1, <2>4 DEF HeadlessAt
<1>3. CASE EndJob
  <2>1. /\ pc = "dispose" /\ pc' = "jobs" /\ work = {} /\ UNCHANGED <<qi, jobs, work, deleted>>
    BY <1>3 DEF EndJob
  <2>2. Doomed' = Doomed  BY <2>1 DEF Doomed
  <2> QED  BY <1>1, <2>1, <2>2
<1>4. ASSUME NEW j \in jobs, StartJob(j) PROVE HeadlessAt'
  <2>1. /\ pc = "jobs" /\ pc' = "dispose" /\ jobs' = jobs \ {j} /\ work = {}
        /\ work' = j.del \ deleted /\ UNCHANGED <<qi, deleted>>
    BY <1>4 DEF StartJob, HeadlessAt, StepFails
  <2>2. Doomed' = Doomed
    <3>1. Doomed' = deleted \cup (j.del \ deleted) \cup UNION {i.del : i \in jobs \ {j}}
      BY <2>1 DEF Doomed
    <3>2. Doomed = deleted \cup UNION {i.del : i \in jobs}  BY <2>1 DEF Doomed
    <3> QED  BY <3>1, <3>2
  <2> QED  BY <1>1, <2>1, <2>2
<1>5. ASSUME NEW j \in jobs, SkipJob(j) PROVE FALSE
  <2>1. j.kind = "overlap" /\ j.keep \subseteq deleted  BY <1>5 DEF SkipJob, Guarded
  <2> QED  BY <2>1 DEF HeadlessAt, Doomed
<1>6. ASSUME NEW f \in File, Dispose(f) PROVE HeadlessAt'
  <2>1. /\ pc = "dispose" /\ f \in work /\ work' = work \ {f} /\ deleted' = deleted \cup {f}
        /\ UNCHANGED <<pc, qi, jobs>>
    BY <1>6 DEF Dispose
  <2>2. Doomed' = Doomed  BY <2>1 DEF Doomed
  <2> QED  BY <1>1, <2>1, <2>2
<1>7. ASSUME NEW f \in File, DisposeFails(f) PROVE HeadlessAt'
  <2>1. /\ pc = "dispose" /\ f \in work /\ work' = work \ {f} /\ f \in deleted
        /\ UNCHANGED <<pc, qi, jobs, deleted>>
    BY <1>7 DEF DisposeFails, StepFails
  <2>2. Doomed' = Doomed  BY <2>1 DEF Doomed
  <2> QED  BY <1>1, <2>1, <2>2
<1> QED  BY <1>2, <1>3, <1>4, <1>5, <1>6, <1>7 DEF Loop

(* Every step, and starting over for real, keeps to the chain.             *)
LEMMA NextRehearsed ==
  ASSUME QueuedOnce, RehearsalInv, [RNext]_<<vars, histVars, preview, smooth>>
  PROVE  RehearsalInv'
<1>1. ASSUME HNext, smooth' = (smooth /\ ~StepFails), UNCHANGED preview PROVE RehearsalInv'
  <2>0. Next  BY <1>1 DEF HNext
  <2>1. cfg' = cfg /\ cfg \in Config  BY <2>0, Effects DEF RehearsalInv
  <2>a. smooth' \in BOOLEAN /\ (smooth' => smooth /\ ~StepFails)  BY <1>1
  <2>b. CASE ~smooth'  BY <2>1, <2>a, <2>b DEF RehearsalInv
  <2> SUFFICES ASSUME smooth, ~StepFails PROVE RehearsalInv'  BY <2>a, <2>b
  <2>2. (preview # None => cfg.headless /\ GoneAfter(cfg.glob, Len(Queue), preview))'
    BY <1>1, <2>1 DEF RehearsalInv, GoneAfter, None
  <2>3. CASE ~cfg.headless  BY <2>1, <2>a, <2>2, <2>3 DEF RehearsalInv
  <2>4. CASE cfg.headless
    <3>1. cfg \in Config /\ HeadlessAt  BY <2>4 DEF RehearsalInv
    <3>2. ~Prompt
      BY <3>1 DEF HeadlessAt, Prompt, Skip, Quit, AnswerAuto, EnterBlock, ChooseFiles, ChooseTree,
                  ChooseColumn, AtGroupPrompt, AtTreePrompt, AtBlockPrompt
    <3>3. HeadlessAt'  BY <2>0, <2>4, <3>1, <3>2, HeadlessDrives, HeadlessLoops DEF Next
    <3> QED  BY <2>1, <2>a, <2>2, <3>1, <3>3 DEF RehearsalInv
  <2> QED  BY <2>3, <2>4
<1>2. CASE RunForReal
  <2>a. smooth' = smooth /\ cfg' = [cfg EXCEPT !.dryRun = FALSE] /\ cfg' \in Config
    BY <1>2 DEF RunForReal, RehearsalInv, Config
  <2>b. CASE ~smooth  BY <2>a, <2>b DEF RehearsalInv
  <2> SUFFICES ASSUME smooth PROVE RehearsalInv'  BY <2>b DEF RehearsalInv
  <2>1. /\ pc = "done" /\ cfg.headless /\ preview' = deleted /\ HeadlessAt /\ cfg \in Config
        /\ qi' = 1 /\ pc' = "next" /\ ~inBlock' /\ jobs' = {} /\ work' = {} /\ deleted' = {}
        /\ cfg' = [cfg EXCEPT !.dryRun = FALSE]
    BY <1>2 DEF RunForReal, RehearsalInv
  <2>2. cfg' \in Config /\ cfg'.headless /\ cfg'.glob = cfg.glob  BY <2>1 DEF Config
  <2>3. qi - 1 = Len(Queue) /\ GoneAfter(cfg.glob, qi - 1, deleted)
    BY <2>1, QueueLen DEF HeadlessAt
  <2>4. GoneAfter(cfg.glob, Len(Queue), preview)'
    <3>1. GoneAfter(cfg.glob, Len(Queue), deleted)  BY <2>3
    <3> QED  BY <2>1, <2>2, <3>1 DEF GoneAfter
  <2>5. GoneAfter(cfg.glob, qi - 1, deleted)'
    <3>1. GoneAfter(cfg.glob, 0, {})  BY NothingGoneFirst
    <3>2. qi' - 1 = 0  BY <2>1
    <3> QED  BY <2>1, <2>2, <3>1, <3>2 DEF GoneAfter
  <2>6. HeadlessAt'  BY <2>1, <2>5, QueueLen DEF HeadlessAt
  <2> QED  BY <2>a, <2>2, <2>4, <2>6 DEF RehearsalInv
<1>3. CASE UNCHANGED <<vars, histVars, preview, smooth>>
  BY <1>3 DEF vars, userVars, loopVars, diskVars, RehearsalInv, HeadlessAt, GoneAfter, Doomed, None, Lookup
<1> QED  BY <1>1, <1>2, <1>3 DEF RNext

(* The real run deletes what --dry-run announced: if the queue holds every *)
(* duplicate once, a headless run in which no removal and no query fails   *)
(* is a function of the queue and the glob (disposeFile: "dry-run and      *)
(* --trash behave identically across every action kind").                  *)
THEOREM PreviewIsTrue == QueuedOnce => (RSpec => []PreviewMatchesRun)
<1> SUFFICES ASSUME QueuedOnce PROVE RSpec => []PreviewMatchesRun  OBVIOUS
<1>1. RInit => RehearsalInv
  <2> SUFFICES ASSUME RInit PROVE RehearsalInv  OBVIOUS
  <2>1. /\ cfg \in Config /\ preview = None /\ smooth = TRUE /\ qi = 1 /\ jobs = {} /\ work = {} /\ deleted = {}
        /\ ~inBlock
    BY ConfigAssumption DEF RInit, HInit, Init
  <2>2. GoneAfter(cfg.glob, 0, {})  BY NothingGoneFirst
  <2>3. cfg.headless => pc = "next" \/ (pc = "done" /\ Len(Queue) = 0)
    BY QueueAssumption DEF RInit, HInit, Init
  <2>4. GoneAfter(cfg.glob, qi - 1, deleted)
    <3>1. qi - 1 = 0  BY <2>1
    <3> QED  BY <2>1, <2>2, <3>1
  <2> QED  BY <2>1, <2>3, <2>4, QueueLen DEF RehearsalInv, HeadlessAt
<1>2. RehearsalInv /\ [RNext]_<<vars, histVars, preview, smooth>> => RehearsalInv'  BY NextRehearsed
<1>3. RehearsalInv => PreviewMatchesRun
  <2> SUFFICES ASSUME RehearsalInv, smooth, preview # None
               PROVE  deleted \subseteq preview /\ (pc = "done" => deleted = preview)
    BY DEF PreviewMatchesRun
  <2>1. HeadlessAt /\ GoneAfter(cfg.glob, Len(Queue), preview)  BY DEF RehearsalInv
  <2>2. qi - 1 \in 0 .. Len(Queue) /\ Len(Queue) \in Nat  BY <2>1, QueueLen DEF HeadlessAt
  <2>3. CASE pc \in {"next", "done"}
    <3>1. GoneAfter(cfg.glob, qi - 1, deleted)  BY <2>1, <2>3 DEF HeadlessAt
    <3>2. pc = "done" => qi - 1 = Len(Queue)  BY <2>1, QueueLen DEF HeadlessAt
    <3> HIDE DEF None
    <3> QED  BY <2>1, <2>2, <3>1, <3>2, GoneIsDetermined
  <2>4. CASE pc \in {"jobs", "dispose"}
    <3>1. GoneAfter(cfg.glob, qi, Doomed) /\ qi \in 0 .. Len(Queue)
      BY <2>1, <2>4, QueueLen DEF HeadlessAt
    <3>2. Doomed \subseteq preview  BY <2>1, <2>2, <3>1, GoneIsDetermined
    <3> QED  BY <2>4, <3>2 DEF Doomed
  <2> QED  BY <2>1, <2>3, <2>4 DEF HeadlessAt
<1> QED  BY <1>1, <1>2, <1>3, PTL DEF RSpec
=============================================================================
