------------------------------ MODULE Cleanup ------------------------------
(***************************************************************************)
(* The deletion queue of dup-detector (cleanup.go, headless.go, glob.go):  *)
(* one merged queue of tree, folder-overlap and file-group actions, worked *)
(* through interactively or headless.  Each action is re-resolved against  *)
(* what earlier actions disposed of, the survivor policy or the user picks *)
(* the victims, and every victim goes through disposeFile.                 *)
(*                                                                         *)
(* The order of the files inside one deletion loop, and of the items when  *)
(* a whole column goes, is left open: nothing below depends on it.  A      *)
(* prompt that is answered with "?", an invalid line, a selection of every *)
(* copy, or "n" at the confirmation asks again and changes no state, so it *)
(* is a stuttering step.                                                   *)
(***************************************************************************)
EXTENDS Naturals, Sequences, FiniteSets

CONSTANTS
  File,       \* every file on disk under the roots when the queue starts
  Scanned,    \* the files the scan store has a row for
  Dir,        \* every directory under the roots
  NoDir,      \* "no directory"
  DirOf,      \* DirOf[f]: the directory that holds f
  Subtree,    \* Subtree[d]: d and every directory below it
  Class,      \* sets of files with identical content
  Queue,      \* the actions buildCleanupActions returned, in its order
  GlobMatch,  \* the files and directories --remove-by-glob matches
  Stubborn,   \* files whose removal the filesystem may refuse
  Flaky,      \* directories whose query to the scan store may fail
  Configs     \* the flag combinations main.go can start the queue with

GroupAction   == [kind : {"group"}, files : Seq(File)]
TreeAction    == [kind : {"tree"}, a : Dir, b : Dir]
OverlapItem   == [a : Seq(File), b : Seq(File)]
OverlapAction == [kind : {"overlap"}, rootA : Dir, rootB : Dir,
                  items : Seq(OverlapItem)]
Action        == GroupAction \cup TreeAction \cup OverlapAction

Config == [headless : BOOLEAN, glob : BOOLEAN, dryRun : BOOLEAN, trash : BOOLEAN]

RangeOf(s) == {s[k] : k \in DOMAIN s}

(* Some class holds all these files.                                       *)
OneClass(S) == \E c \in Class : S \subseteq c

ASSUME WorldAssumption ==
  /\ Scanned \subseteq File
  /\ NoDir \notin Dir
  /\ DirOf \in [File -> Dir]
  /\ Subtree \in [Dir -> SUBSET Dir]
  /\ \A d \in Dir : d \in Subtree[d]

ASSUME ClassAssumption ==
  /\ Class \subseteq SUBSET File
  /\ {} \notin Class
  /\ \A c, d \in Class : c = d \/ c \cap d = {}

(* Groups hold copies of one content, listed once each, and the two        *)
(* columns of an overlap item are disjoint (BuildOverlapBlocks puts a file *)
(* in the one column colOf gives it).                                      *)
ASSUME QueueAssumption ==
  /\ Queue \in Seq(Action)
  /\ \A q \in DOMAIN Queue :
       /\ Queue[q].kind = "group" => OneClass(RangeOf(Queue[q].files))
       /\ Queue[q].kind = "overlap" =>
            \A k \in DOMAIN Queue[q].items :
              LET it == Queue[q].items[k] IN
              /\ OneClass(RangeOf(it.a) \cup RangeOf(it.b))
              /\ RangeOf(it.a) \cap RangeOf(it.b) = {}

(* main.go starts the interactive driver only without --dry-run.           *)
ASSUME ConfigAssumption ==
  /\ Configs \subseteq Config
  /\ \A c \in Configs : ~c.headless => ~c.dryRun

VARIABLES
  cfg,      \* the flags of this run
  pc,       \* where the driver stands
  qi,       \* the queue position
  auto,     \* autoMode: answer "a" was given to a queue action
  rest,     \* items of the block still to be resolved file by file
  inBlock,  \* resolveOverlapFileByFile is running
  localAuto,\* its localAuto
  asked,    \* the column the user typed for the block being deleted, 0: none
  eof,      \* the last line of stdin, which has no newline, was read
  jobs,     \* deletion loops still to run for the action at hand
  job,      \* the loop that is running
  work,     \* files it has still to dispose of
  deleted,  \* the deleted map
  disk,     \* files on disk
  dirs      \* directories on disk

userVars == <<auto, rest, inBlock, localAuto, asked, eof>>
diskVars == <<deleted, disk, dirs>>
loopVars == <<jobs, job, work>>
vars == <<cfg, pc, qi, userVars, loopVars, diskVars>>

PCs == {"proceed", "next", "prompt", "jobs", "dispose", "done"}

(* A deletion loop: over the files of a group, over one item of a column,  *)
(* or over the files under a directory.                                    *)
Job == [kind : {"group", "tree", "overlap"}, del : SUBSET File,
        keep : SUBSET File, dir : Dir \cup {NoDir}]

NoJob == [kind |-> "group", del |-> {}, keep |-> {}, dir |-> NoDir]

-----------------------------------------------------------------------------
(* Survivors.                                                              *)

Alive(s) == RangeOf(s) \ deleted

(* Mutant of FirstAlive: the survivor listed last.                         *)
LastAlive(s) ==
  s[CHOOSE k \in DOMAIN s :
      s[k] \notin deleted /\ \A j \in DOMAIN s : s[j] \notin deleted => k >= j]

(* The survivor listed first, the copy the keep-first policy preserves.    *)
FirstAlive(s) ==
  s[CHOOSE k \in DOMAIN s :
      s[k] \notin deleted /\ \A j \in DOMAIN s : s[j] \notin deleted => k <= j]

AtLeastTwo(S) == \E f, g \in S : f # g

(* What the scan store has of the files under d.                           *)
Lookup(d) == {f \in Scanned : DirOf[f] \in Subtree[d]}

(* What lookup(d) may return: main.go drops the error of FilesUnderDir and *)
(* takes the rows it read before it, from none to nearly all.              *)
Answers(d) == IF d \in Flaky THEN SUBSET Lookup(d) ELSE {Lookup(d)}

(* Mutant of DirFullyDeleted: trees are not re-resolved.                   *)
NeverFullyDeleted(files) == FALSE

(* dirFullyDeleted, of the files lookup returned.                          *)
DirFullyDeleted(files) == files # {} /\ files \subseteq deleted

ItemLive(it) == Alive(it.a) # {} /\ Alive(it.b) # {}

(* Positions of the items that reresolveAction leaves in block a.          *)
LiveItems(a) == {k \in DOMAIN a.items : ItemLive(a.items[k])}

(* reresolveAction may find that nothing is left to decide about action a. *)
Moot(a) ==
  \/ a.kind = "tree" /\ \E d \in {a.a, a.b} : \E files \in Answers(d) : DirFullyDeleted(files)
  \/ a.kind = "group"   /\ ~AtLeastTwo(Alive(a.files))
  \/ a.kind = "overlap" /\ LiveItems(a) = {}

(* It may find action a live.                                              *)
Live(a) ==
  /\ a.kind = "tree" => \A d \in {a.a, a.b} : \E files \in Answers(d) : ~DirFullyDeleted(files)
  /\ a.kind = "group"   => AtLeastTwo(Alive(a.files))
  /\ a.kind = "overlap" => LiveItems(a) # {}

-----------------------------------------------------------------------------
(* From a decision to deletion loops.                                      *)

GroupJob(files, victims) ==
  [kind |-> "group", del |-> victims, keep |-> Alive(files) \ victims,
   dir |-> NoDir]

(* deleteTree: what lookup(d) should return goes.                          *)
TreeJob(d) == [kind |-> "tree", del |-> Lookup(d), keep |-> {}, dir |-> d]

(* Mutant of ColumnJob: the loop runs over the files of both columns.      *)
WholeItemJob(it, delA) ==
  [kind |-> "overlap", dir |-> NoDir,
   del  |-> RangeOf(it.a) \cup RangeOf(it.b),
   keep |-> RangeOf(IF delA THEN it.b ELSE it.a)]

ColumnJob(it, delA) ==
  [kind |-> "overlap", dir |-> NoDir,
   del  |-> RangeOf(IF delA THEN it.a ELSE it.b),
   keep |-> RangeOf(IF delA THEN it.b ELSE it.a)]

(* deleteOverlapSide: one guarded loop per item of the block.              *)
ColumnJobs(a, delA) == {ColumnJob(a.items[k], delA) : k \in LiveItems(a)}

(* applyAuto on a file group: keep the first survivor.                     *)
AutoGroupJobs(files) ==
  {GroupJob(files, Alive(files) \ {FirstAlive(files)})}

(* applyAuto: keep [1], delete the rest.                                   *)
AutoJobs(a) ==
  CASE a.kind = "group"   -> AutoGroupJobs(a.files)
    [] a.kind = "tree"    -> {TreeJob(a.b)}
    [] a.kind = "overlap" -> ColumnJobs(a, FALSE)

(* Mutant of GlobVictims: the matching survivors, even if all match.       *)
EveryMatch(files) == Alive(files) \cap GlobMatch

(* selectByGlob: the matching survivors, all but the first if all match.   *)
GlobVictims(files) ==
  LET matched == Alive(files) \cap GlobMatch IN
  IF matched = Alive(files) THEN matched \ {FirstAlive(files)} ELSE matched

(* Mutant of OnlyFirstMatches: the side that does not match goes.          *)
OnlySecondMatches(x, y) == x \notin GlobMatch /\ y \in GlobMatch

OnlyFirstMatches(x, y) == x \in GlobMatch /\ y \notin GlobMatch

(* applyGlobRemoval: a tree or column goes only if the other side does not *)
(* match the glob.                                                         *)
GlobJobs(a) ==
  CASE a.kind = "group" -> {GroupJob(a.files, GlobVictims(a.files))}
    [] a.kind = "tree" ->
         IF OnlyFirstMatches(a.a, a.b) THEN {TreeJob(a.a)}
         ELSE IF OnlyFirstMatches(a.b, a.a) THEN {TreeJob(a.b)} ELSE {}
    [] a.kind = "overlap" ->
         IF OnlyFirstMatches(a.rootA, a.rootB) THEN ColumnJobs(a, TRUE)
         ELSE IF OnlyFirstMatches(a.rootB, a.rootA) THEN ColumnJobs(a, FALSE)
         ELSE {}

-----------------------------------------------------------------------------
(* The drivers.                                                            *)

Init ==
  /\ cfg \in Configs
  /\ pc = IF Queue = <<>> THEN "done" ELSE IF cfg.headless THEN "next" ELSE "proceed"
  /\ qi = 1
  /\ auto = FALSE /\ rest = {} /\ inBlock = FALSE /\ localAuto = FALSE
  /\ asked = 0 /\ eof = FALSE
  /\ jobs = {} /\ job = NoJob /\ work = {}
  /\ deleted = {} /\ disk = File /\ dirs = Dir

(* "Proceed to interactive deletion? [y/N]": anything but y ends the run.  *)
Proceed ==
  /\ pc = "proceed"
  /\ pc' \in {"next", "done"}
  /\ UNCHANGED <<cfg, qi, userVars, loopVars, diskVars>>

(* The queue is exhausted.                                                 *)
Finish ==
  /\ pc = "next" /\ ~inBlock /\ qi > Len(Queue)
  /\ pc' = "done"
  /\ UNCHANGED <<cfg, qi, userVars, loopVars, diskVars>>

(* reresolveAction reports the action moot: it is skipped.                 *)
SkipMoot ==
  /\ pc = "next" /\ ~inBlock /\ qi <= Len(Queue)
  /\ Moot(Queue[qi])
  /\ qi' = qi + 1
  /\ UNCHANGED <<cfg, pc, userVars, loopVars, diskVars>>

(* The live action is decided by the glob, by auto mode, or by the user.   *)
Begin ==
  /\ pc = "next" /\ ~inBlock /\ qi <= Len(Queue)
  /\ Live(Queue[qi])
  /\ IF cfg.headless \/ auto
     THEN /\ jobs' = IF cfg.headless /\ cfg.glob THEN GlobJobs(Queue[qi])
                     ELSE AutoJobs(Queue[qi])
          /\ pc' = "jobs"
     ELSE pc' = "prompt" /\ UNCHANGED jobs
  /\ UNCHANGED <<cfg, qi, userVars, job, work, diskVars>>

(* Items are resolved in the block's order.                                *)
CurrentItem == CHOOSE k \in rest : \A j \in rest : k <= j

(* Mutant of Advance: the loop's own increment and one more.               *)
AdvanceTwice ==
  /\ pc' = "next"
  /\ asked' = 0
  /\ IF inBlock THEN rest' = rest \ {CurrentItem} /\ UNCHANGED qi
                ELSE qi' = qi + 2 /\ UNCHANGED rest

(* Leave the action at hand for the next queue action or block item.       *)
Advance ==
  /\ pc' = "next"
  /\ asked' = 0
  /\ IF inBlock THEN rest' = rest \ {CurrentItem} /\ UNCHANGED qi
                ELSE qi' = qi + 1 /\ UNCHANGED rest

(* resolveOverlapFileByFile: both columns of the item as one file group.   *)
ItemFiles(k) == Queue[qi].items[k].a \o Queue[qi].items[k].b

(* What promptAction is showing is a file group: a queued one or an item.  *)
AtGroupPrompt == pc = "prompt" /\ (inBlock \/ Queue[qi].kind = "group")
AtTreePrompt  == pc = "prompt" /\ ~inBlock /\ Queue[qi].kind = "tree"
AtBlockPrompt == pc = "prompt" /\ ~inBlock /\ Queue[qi].kind = "overlap"

PromptFiles == IF inBlock THEN ItemFiles(CurrentItem) ELSE Queue[qi].files

(* "s", an empty line, or the end of the input.                            *)
Skip ==
  /\ pc = "prompt"
  /\ Advance
  /\ UNCHANGED <<cfg, auto, inBlock, localAuto, eof, loopVars, diskVars>>

(* "q" stops the whole run, from inside a block too.                       *)
Quit ==
  /\ pc = "prompt" /\ ~eof
  /\ pc' = "done"
  /\ UNCHANGED <<cfg, qi, userVars, loopVars, diskVars>>

Decide(js) == jobs' = js /\ pc' = "jobs" /\ UNCHANGED <<cfg, qi, rest, job, work, diskVars>>

(* Mutant of AnswerAuto: an "a" inside a block counts for the whole queue. *)
AutoEverywhere ==
  /\ pc = "prompt" /\ ~eof
  /\ auto' = TRUE /\ UNCHANGED localAuto
  /\ Decide(IF inBlock THEN AutoGroupJobs(PromptFiles) ELSE AutoJobs(Queue[qi]))
  /\ UNCHANGED <<inBlock, asked, eof>>

(* "a" at a queue action turns on auto mode for the rest of the queue, at  *)
(* an item of a block only for the rest of that block.                     *)
AnswerAuto ==
  /\ pc = "prompt" /\ ~eof
  /\ IF inBlock
     THEN localAuto' = TRUE /\ Decide(AutoGroupJobs(PromptFiles)) /\ UNCHANGED auto
     ELSE auto' = TRUE /\ Decide(AutoJobs(Queue[qi])) /\ UNCHANGED localAuto
  /\ UNCHANGED <<inBlock, asked, eof>>

(* Mutant of ChooseFiles: a selection of every copy is not refused.        *)
ChooseAnyFiles(victims) ==
  /\ AtGroupPrompt /\ ~eof
  /\ victims # {}
  /\ Decide({GroupJob(PromptFiles, victims)})
  /\ UNCHANGED <<auto, inBlock, localAuto, asked, eof>>

(* Numbers and ranges that leave at least one survivor, confirmed.         *)
ChooseFiles(victims) ==
  /\ AtGroupPrompt /\ ~eof
  /\ victims # {}
  /\ victims # Alive(PromptFiles)
  /\ Decide({GroupJob(PromptFiles, victims)})
  /\ UNCHANGED <<auto, inBlock, localAuto, asked, eof>>

(* "1" or "2" at a tree.                                                   *)
ChooseTree(d) ==
  /\ AtTreePrompt /\ ~eof
  /\ Decide({TreeJob(d)})
  /\ UNCHANGED <<auto, inBlock, localAuto, asked, eof>>

(* "1" or "2" at a block.  delA compares the line, newline included, with  *)
(* "1": only a last line without a newline can be equal to it.             *)
ChooseColumn(column, newline) ==
  /\ AtBlockPrompt /\ ~eof
  /\ LET delA == column = 1 /\ ~newline IN
     Decide(ColumnJobs(Queue[qi], delA))
  /\ asked' = column
  /\ eof' = ~newline
  /\ UNCHANGED <<auto, inBlock, localAuto>>

(* "f": resolve the block item by item.                                    *)
EnterBlock ==
  /\ AtBlockPrompt /\ ~eof
  /\ pc' = "next" /\ inBlock' = TRUE /\ localAuto' = FALSE
  /\ rest' = LiveItems(Queue[qi])
  /\ UNCHANGED <<cfg, qi, auto, asked, eof, loopVars, diskVars>>

(* The block has no item left: on to the next queue action.                *)
LeaveBlock ==
  /\ pc = "next" /\ inBlock /\ rest = {}
  /\ inBlock' = FALSE /\ localAuto' = FALSE /\ qi' = qi + 1
  /\ UNCHANGED <<cfg, pc, auto, rest, asked, eof, loopVars, diskVars>>

(* An item with fewer than two live copies is passed over, the others are  *)
(* prompted for, or decided once "a" was answered inside this block.       *)
BlockItem ==
  /\ pc = "next" /\ inBlock /\ rest # {}
  /\ LET files == ItemFiles(CurrentItem) IN
     IF ~AtLeastTwo(Alive(files)) THEN rest' = rest \ {CurrentItem} /\ UNCHANGED <<pc, jobs>>
     ELSE IF localAuto
     THEN pc' = "jobs" /\ jobs' = AutoGroupJobs(files) /\ UNCHANGED rest
     ELSE pc' = "prompt" /\ UNCHANGED <<jobs, rest>>
  /\ UNCHANGED <<cfg, qi, auto, inBlock, localAuto, asked, eof, job, work, diskVars>>

-----------------------------------------------------------------------------
(* Deletion loops.                                                         *)

(* deleteOverlapSide passes over an item whose other side is gone.         *)
Guarded(j) == j.kind = "overlap" => j.keep \ deleted # {}

(* The files the loop goes over: deleteTree asks for them now.             *)
Listings(j) == IF j.kind = "tree" THEN Answers(j.dir) ELSE {j.del}

(* Enter a loop; disposeFile's early return on files already in deleted is *)
(* taken here, no loop visits a file twice.                                *)
StartJob(j) ==
  /\ pc = "jobs" /\ j \in jobs
  /\ Guarded(j)
  /\ pc' = "dispose" /\ jobs' = jobs \ {j} /\ job' = j
  /\ \E files \in Listings(j) : work' = files \ deleted
  /\ UNCHANGED <<cfg, qi, userVars, diskVars>>

SkipJob(j) ==
  /\ pc = "jobs" /\ j \in jobs
  /\ ~Guarded(j)
  /\ jobs' = jobs \ {j}
  /\ UNCHANGED <<cfg, pc, qi, userVars, job, work, diskVars>>

(* Mutant of JobsDone: an action is decided again until it is moot.        *)
DecideAgain ==
  /\ pc = "jobs" /\ jobs = {}
  /\ pc' = "next"
  /\ UNCHANGED <<cfg, qi, userVars, loopVars, diskVars>>

JobsDone ==
  /\ pc = "jobs" /\ jobs = {}
  /\ Advance
  /\ UNCHANGED <<cfg, auto, inBlock, localAuto, eof, loopVars, diskVars>>

(* Mutant of Dispose: a dry run leaves the file unmarked.                  *)
DisposeUnmarked(f) ==
  /\ pc = "dispose" /\ f \in work
  /\ work' = work \ {f}
  /\ deleted' = IF cfg.dryRun THEN deleted ELSE deleted \cup {f}
  /\ disk' = IF cfg.dryRun THEN disk ELSE disk \ {f}
  /\ UNCHANGED <<cfg, pc, qi, userVars, jobs, job, dirs>>

(* disposeFile succeeds: a dry run only marks the file, --trash and unlink *)
(* also take it off its place on disk.                                     *)
Dispose(f) ==
  /\ pc = "dispose" /\ f \in work
  /\ work' = work \ {f}
  /\ deleted' = deleted \cup {f}
  /\ disk' = IF cfg.dryRun THEN disk ELSE disk \ {f}
  /\ UNCHANGED <<cfg, pc, qi, userVars, jobs, job, dirs>>

(* Mutant of DisposeFails: the file is marked all the same.                *)
FailureMarked(f) ==
  /\ pc = "dispose" /\ f \in work
  /\ ~cfg.dryRun /\ f \in Stubborn
  /\ work' = work \ {f}
  /\ deleted' = deleted \cup {f}
  /\ UNCHANGED <<cfg, pc, qi, userVars, jobs, job, disk, dirs>>

(* os.Remove or trashFile fails: the error is printed, f stays unmarked.   *)
DisposeFails(f) ==
  /\ pc = "dispose" /\ f \in work
  /\ ~cfg.dryRun /\ f \in Stubborn
  /\ work' = work \ {f}
  /\ UNCHANGED <<cfg, pc, qi, userVars, jobs, job, diskVars>>

(* Mutant of Prunable: files that were not scanned are overlooked.         *)
PrunableIfScanned(d) ==
  {e \in Subtree[d] : \A f \in disk \cap Scanned : DirOf[f] \notin Subtree[e]}

(* pruneEmptyDirs: os.Remove on each directory of the subtree bottom-up,   *)
(* which succeeds on those with no file left at any depth.                 *)
Prunable(d) ==
  {e \in Subtree[d] : \A f \in disk : DirOf[f] \notin Subtree[e]}

(* A loop is over; a tree that was really unlinked is pruned.              *)
EndJob ==
  /\ pc = "dispose" /\ work = {}
  /\ pc' = "jobs" /\ job' = NoJob
  /\ dirs' = IF job.kind = "tree" /\ ~cfg.dryRun /\ ~cfg.trash
             THEN dirs \ Prunable(job.dir) ELSE dirs
  /\ UNCHANGED <<cfg, qi, userVars, jobs, work, deleted, disk>>

-----------------------------------------------------------------------------
Prompt ==
  \/ Skip \/ Quit \/ AnswerAuto \/ EnterBlock
  \/ \E victims \in SUBSET (IF AtGroupPrompt THEN Alive(PromptFiles) ELSE {}) :
       ChooseFiles(victims)
  \/ \E d \in (IF AtTreePrompt THEN {Queue[qi].a, Queue[qi].b} ELSE {}) : ChooseTree(d)
  \/ \E column \in {1, 2}, newline \in BOOLEAN : ChooseColumn(column, newline)

Drive == Finish \/ SkipMoot \/ Begin \/ LeaveBlock \/ BlockItem

Loop ==
  \/ JobsDone \/ EndJob
  \/ \E j \in jobs : StartJob(j) \/ SkipJob(j)
  \/ \E f \in File : Dispose(f) \/ DisposeFails(f)

Next == Proceed \/ Drive \/ Prompt \/ Loop

Spec == Init /\ [][Next]_vars

(* The program keeps running and the user eventually answers each prompt   *)
(* with something other than "?" or a refused line.                        *)
FairSpec == Spec /\ WF_vars(Next)

-----------------------------------------------------------------------------
(* The state has the shape the Go variables give it.                       *)
TypeOK ==
  /\ cfg \in Configs
  /\ pc \in PCs
  /\ qi \in 1 .. Len(Queue) + 1
  /\ auto \in BOOLEAN /\ inBlock \in BOOLEAN /\ localAuto \in BOOLEAN
  /\ eof \in BOOLEAN
  /\ asked \in 0 .. 2
  /\ rest \subseteq Nat
  /\ jobs \subseteq Job /\ job \in Job /\ work \subseteq File
  /\ deleted \subseteq File /\ disk \subseteq File /\ dirs \subseteq Dir

(* No tree action can reach a member of c.                                 *)
OutsideTrees(c) ==
  \A q \in DOMAIN Queue :
    Queue[q].kind = "tree" => c \cap (Lookup(Queue[q].a) \cup Lookup(Queue[q].b)) = {}

(* Whatever the user answers, whatever the glob matches and whichever      *)
(* removals fail, a class of identical files that no queued tree touches   *)
(* keeps a copy: the "at least one must survive" of the prompts, the "last *)
(* copy is never removed" of deleteOverlapSide and the "keeping one copy   *)
(* per group" of the headless driver, across the whole queue.              *)
LastCopyOutsideTrees == \A c \in Class : OutsideTrees(c) => ~(c \subseteq deleted)

(* The same for every class, trees included: what "keeping one copy per    *)
(* group" says without a condition (headless.go).                          *)
LastCopy == \A c \in Class : ~(c \subseteq deleted)

(* The deleted map, which every later decision of the run is taken from,   *)
(* says what happened on disk: a real run has lost exactly the marked      *)
(* files, a dry run has touched neither files nor directories.             *)
MapMatchesDisk ==
  IF cfg.dryRun THEN disk = File /\ dirs = Dir ELSE disk = File \ deleted

(* A directory is only ever removed by a tree action on it or on one of    *)
(* its parents, and with nothing left below it, unscanned files included:  *)
(* overlap and file actions leave directories alone (the JFMV rule).       *)
PrunedDirsAreEmptyTrees ==
  \A d \in Dir \ dirs :
    /\ \A f \in disk : DirOf[f] \notin Subtree[d]
    /\ \E q \in DOMAIN Queue :
         Queue[q].kind = "tree" /\ d \in Subtree[Queue[q].a] \cup Subtree[Queue[q].b]

(* What the queue decides about at once: the files of a group, or those of *)
(* one item of a block.                                                    *)
Units ==
  {<<q, 0>> : q \in {p \in DOMAIN Queue : Queue[p].kind = "group"}}
  \cup UNION {{<<q, k>> : k \in DOMAIN Queue[q].items} :
                q \in {p \in DOMAIN Queue : Queue[p].kind = "overlap"}}

UnitFiles(u) ==
  IF Queue[u[1]].kind = "group" THEN RangeOf(Queue[u[1]].files)
  ELSE RangeOf(Queue[u[1]].items[u[2]].a) \cup RangeOf(Queue[u[1]].items[u[2]].b)

(* buildCleanupActions queues every duplicate group once, whole or as one  *)
(* item (QueueIsComplete), and a file is in one group.                     *)
QueuedOnce == \A u, v \in Units : u = v \/ UnitFiles(u) \cap UnitFiles(v) = {}

(* Without a glob the headless driver never deletes the copy listed first: *)
(* the first file of a group and column [1] of a block, the ones the       *)
(* cadence reorientation chose to preserve (README "keep-first policy").   *)
HeadlessKeepsFirst ==
  cfg.headless /\ ~cfg.glob =>
    \A q \in DOMAIN Queue :
      /\ Queue[q].kind = "group" /\ OutsideTrees(RangeOf(Queue[q].files)) =>
           Queue[q].files = <<>> \/ Queue[q].files[1] \notin deleted
      /\ Queue[q].kind = "overlap" =>
           \A k \in DOMAIN Queue[q].items :
             LET kept == RangeOf(Queue[q].items[k].a) IN
             OutsideTrees(kept) => kept \cap deleted = {}

(* With --remove-by-glob a copy is only deleted if its own path or the     *)
(* directory of its side matches, and of two sides only the matching one.  *)
GlobSparesUnmatched ==
  cfg.headless /\ cfg.glob =>
    \A q \in DOMAIN Queue :
      /\ Queue[q].kind = "group" /\ OutsideTrees(RangeOf(Queue[q].files)) =>
           RangeOf(Queue[q].files) \cap deleted \subseteq GlobMatch
      /\ Queue[q].kind = "overlap" =>
           \A k \in DOMAIN Queue[q].items :
             LET it == Queue[q].items[k] IN
             OutsideTrees(RangeOf(it.a) \cup RangeOf(it.b)) =>
               /\ RangeOf(it.a) \cap deleted # {} => Queue[q].rootA \in GlobMatch
               /\ RangeOf(it.b) \cap deleted # {} => Queue[q].rootB \in GlobMatch

(* Where the driver can stand.                                             *)
Located ==
  /\ pc \in {"prompt", "jobs", "dispose"} \/ inBlock => qi \in DOMAIN Queue
  /\ inBlock => Queue[qi].kind = "overlap" /\ rest \subseteq DOMAIN Queue[qi].items
  /\ inBlock /\ pc \in {"prompt", "jobs", "dispose"} => rest # {}
  /\ pc = "prompt" =>
       IF inBlock THEN AtLeastTwo(Alive(PromptFiles)) ELSE Live(Queue[qi])

(* A loop over a group or a column deletes from one class and spares other *)
(* members of it; a loop over a directory is over a side of a queued tree. *)
SoundJob(j) ==
  IF j.kind = "tree"
  THEN \E q \in DOMAIN Queue :
         Queue[q].kind = "tree" /\ j \in {TreeJob(Queue[q].a), TreeJob(Queue[q].b)}
  ELSE OneClass(j.del \cup j.keep) /\ j.del \cap j.keep = {}

(* Why a class survives: the loop that is running leaves it a live copy    *)
(* that no step of the loop reaches.                                       *)
SurvivorInv ==
  /\ Located
  /\ \A j \in jobs : SoundJob(j)
  /\ \A j \in jobs : j.kind = "group" =>
       jobs = {j} /\ pc = "jobs" /\ j.keep \ deleted # {}
  /\ pc = "dispose" =>
       /\ SoundJob(job)
       /\ work \subseteq job.del
       /\ job.kind # "tree" => job.keep \ deleted # {}
  /\ LastCopyOutsideTrees

(* Every run ends, whichever removals fail.                                *)
Termination == <>(pc = "done")

(* printOverlapHelp: "1 delete the WHOLE [1] column (keep [2])".           *)
ColumnOneMeansOne ==
  asked = 1 => \A j \in jobs \cup {job} :
    j.kind = "overlap" =>
      \E k \in DOMAIN Queue[qi].items : j.del = RangeOf(Queue[qi].items[k].a)

(* As long as no other action reaches into a queued tree, no removal in it *)
(* fails and no failing query hides that it is gone, the driver implements *)
(* the promise: whatever is chosen, a file only goes while an identical    *)
(* one stays.                                                              *)
KO == INSTANCE KeepOne WITH live <- File \ deleted
KeepsOne == KO!Spec
=============================================================================
