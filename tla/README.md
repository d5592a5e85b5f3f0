# dup-detector: specifications, model checks and proofs

dup-detector finds duplicate files and duplicate directory trees under some
roots, and deletes copies interactively or headless.  These TLA+ modules model
the scan, the detection, the caches, the `copy` subcommand and, first of all, the
deletion side, where a mistake destroys the last copy of a file.  Everything here is written from the Go code
in `src/`; line numbers are in `PROJECT.json` under `map`.

## The system

One process runs a pipeline (`main.go`, `run`): scan the roots into a SQLite
scan store, look for identical trees by directory hashes (fast pass), look for
duplicate files (by MD5 with `-c`, by size and mtime without), look for more
identical trees as the groups come in, gather groups that two folders share
into blocks, and then print, report or delete.  Several processes share the
hash cache, the sidecars, the trash and possibly an inventory.

| component (source) | state | operations | interacts with |
|---|---|---|---|
| deletion queue and drivers (`cleanup.go`, `headless.go`, `glob.go`) | queue position, `autoMode`, `deleted` map, the file system | re-resolve, prompt, answer, `applyAuto`, `applyGlobRemoval`, `disposeFile`, `pruneEmptyDirs` | asks the scan store what a tree holds, deletes or moves to the trash |
| queue construction (`cleanup.go`, `overlap.go`) | none | `BuildOverlapBlocks`, reorientation by backup cadence, `buildCleanupActions` | from groups and tree pairs to the queue |
| incremental tree detection (`tree_dup.go`) | `dupIndex`, `checkedPairs`, `Confirmed`, `partnerOf` | `AddConfirmed`, `AddGroups` with a worker pool | called by the checksum pass for every batch, queries the store |
| file passes (`detect.go`, `store_detect.go`) | collision sizes left, the job channel, results | `ChecksumDupsStore`, `checksumGroup` with a worker pool, `MtimeDupsStore` | reads the store, asks the hash cache, hands batches to `onBatch` |
| CSV report (`no_interactive.go`, `main.go`) | buffered writer, file | header, `WriteGroups`, flush per batch | fed by `onBatch` |
| hash cache (`cache.go`) | the table `file_hashes`, shared by all processes | `OpenHashCache`, `Hash`, `store` | sidecars first, then rows, then the file |
| sidecars (`metadata.go`) | a JSON file next to each copy | `sidecarMD5`, writing | written by `copy`, trusted by `Hash` |
| copy subcommand (`copy.go`) | the channel, the workers, destination tree | walk, chunked copy, read-back verification, sidecar | a pool of workers; runs again over what is there |
| scan, hardlink skip (`scan.go`, `inode.go`) | seen inodes, the root and the place of the walk | walk, skip, emit | fills the store; other programs change the tree |
| filter rules (`filter.go`, `main.go`) | none | `ShouldExclude`, assembling of the rules | asked by the walk; arms the guard of the fast pass |
| scan store (`filestore.go`) | a SQLite file per run, or a kept inventory | sweep of stale stores, create, insert, finalize, reuse, close | all passes; other processes |
| fast tree pass (`store_tree.go`) | directory hashes, memo of complete directories | `FindTreeDupsByHashStore`, content check | reads the store and the disk; its pairs go to `AddConfirmed` |
| trash (`trash.go`) | `files/` and `info/` | name choice, info record, rename, roll-back | `disposeFile`; other processes |

Output formatting, media metadata, the profiling endpoint and the installer
keep no state the above depends on.

What is hard: a queue of actions over overlapping sets of files, decided one
after the other, each against what the earlier ones left; removals that fail
half-way; two worker pools that finish in any order; batches whose order
decides what is verified; runs that overlap each other and the programs that
write the files; a walk over a tree that changes; stores, trash names and process
numbers that several processes share; kills.  `PROJECT.json` lists the hazards one
by one, at their lines, with the properties that stand guard over them.

What makes each component correct:

- deletion: never the last copy of a content; decisions taken from a `deleted`
  map that is true; a dry run that announces exactly what the run will do; only
  empty directories of trees removed; the keep-first and glob policies; the end
  of every run;
- queue: nothing dropped or queued twice, columns that hold what they claim, the
  biggest win first, the copy of the longest retention in the keep slot;
- trees: confirmed pairs have the same files, no result lost, nothing turned
  down without a cause, no pair inside another one of its batch;
- file passes and report: every set of copies found, whole, largest first; a
  report that is true at every moment, a kill included;
- hash cache: no hash older than what the run saw, none older than allowed;
- scan: the inventory is what the flags ask for, each file once, whatever roots
  and rules overlap;
- fast tree pass: an offered tree is whole, a whole tree is offered;
- scan store: nobody takes away a store in use, nobody reports from half a scan,
  nobody deletes by an old one;
- trash: what is in it can be traced back;
- copy: a trusted sidecar is true, success means every file, a failure costs no worker.

## The modules

### Deletion

`Cleanup` is the driver.  Its variables are those of `runCleanupQueue` and
`runHeadlessCleanup`: `qi` the loop index, `auto` for `autoMode`, `rest`, `inBlock`
and `localAuto` for `resolveOverlapFileByFile`, `deleted` the map; `jobs`, `job`
and `work` are the deletion loops of the action at hand, `disk` and `dirs` the file
system, `asked` and `eof` what the user typed and whether stdin has ended.  `pc` says
where the driver stands.  Actions: `Proceed` (the first confirmation), `SkipMoot`,
`Begin` and `Finish` (the queue loop with `reresolveAction`), one action per answer
of `promptAction` (`Skip`, `Quit`, `AnswerAuto`, `ChooseFiles`, `ChooseTree`,
`ChooseColumn`, `EnterBlock`), `BlockItem` and `LeaveBlock`, and the loops
`StartJob`, `SkipJob`, `Dispose`, `DisposeFails`, `EndJob` (which prunes), `JobsDone`.
`AutoJobs` is `applyAuto`, `GlobJobs` is `applyGlobRemoval`.

Abstractions: a typed list of indexes is a choice of a set of copies; what is
asked again (`?`, an invalid line, every copy, `n` at a confirmation) changes no
state and is a stuttering step; the order of files inside one loop is left open;
`matchGlob` is the constant set `GlobMatch`; which removals the file system refuses
is left open within `Stubborn`, the cause does not matter.  `lookup` drops the error of
`FilesUnderDir` (`main.go:479`): the query of a directory in `Flaky` may answer with any
part of what is there (`Answers`), at every call anew, so that a tree that is gone may
look live (`Live`, `Moot`) and a loop may get less than the side holds (`Listings`).

`CleanupHistory` adds two variables no step reads: `wanted`, what the answers given so far
speak of, and `exposed`, what a tree loop set out to take although no copy was left
opposite.  `LossNeedsBrokenPair` and `OnlyOnRequest` are stated with them.

`KeepOne` is what the deletion side promises: a file only goes while an identical
one stays.  `Cleanup` implements it under `live <- File \ deleted` (property
`KeepsOne`) as long as no other action reaches into a queued tree, no removal
in it fails and no failing query hides that a tree is gone; otherwise it does not (run
`root_order`): a whole side goes while the
other side is only looked at as a directory.

`Rehearsal` runs the same headless command twice, with `--dry-run` and then without.
`smooth` says that no removal failed and no query did in a way that changed a decision
(`StepFails`): what `PreviewMatchesRun` supposes of both runs.

`CleanupQueue` is `buildCleanupActions` with the three reorientations; what
`cadenceRegex` makes of a path is a constant.  `OverlapBlocks` adds
`BuildOverlapBlocks` and the lines of `run` that call it; `colOf` is a constant.
Sorting is by counting what comes before (`InOrder`), which is what a stable sort does.
`QueueBuild` is one step, `Build`, that makes the queue from one of `Inputs`; what detection
guarantees of them (no empty group, no file in two groups) is `InputAssumption`.
The queues of `MCCleanupTrees` are shown, by an `ASSUME` that TLC evaluates, to be
in the order the builder gives them.

### Detection

`TreeDup` is `AddGroups`: `todo` are the groups the checksum pass will emit,
`index` is `dupIndex`, `channel`, `busy`, `found` and `rejected` are the pool and its
result slots, `batch` what the call confirmed.  The memo of directory counts always
holds the true count (the store is read-only by then) and is left out.  The pairs of
the fast pass are the constant `Seeds`, assumed verified by content as they are
with `-c`.  `Groups` holds copies of one content: what a hash collision would do is
not considered here.

`Detection` is both file passes and the report.  `sizes`, `toSend`, `jobs`, `busy`,
`hashed` are the loop over the collision sizes and the pool of `checksumGroup`;
`batch`, `rows`, `buffer`, `report` the way of a batch to the file.  The buffer is cut at
a byte, not at a row: `Spill` writes it out when the next row does not fit, with the head
of that row, which is `torn` until the rest of it follows.  `EndBatch` is the
flush and the append to `allGroups`; `WriteFails` is the error path of `onBatch`, with any
part of what was to be written on the file; it
ends the checksum pass without an error but the pass without `-c` with one; `Kill`
may come at any step.

`HashCache` is `HashCache.Hash` for any number of overlapping runs, together with
what else touches a file: other programs (`Write`), `copy` (`CopyTo`, `WriteSidecar`)
and the clock.  `History[p]` lists the versions path `p` goes
through, `at[p]` is the one on disk.  `op` says what the call is about to do:
`idle`, `read` (the row was looked up in vain), `store` (the file was hashed).  A row
carries the metadata of the scan, not of the read, and the start of the run, not the
time of the read; the model keeps both apart.  One read sees one version, a killed
run is one that takes no further step, a corrupt sidecar reads as none.

### Scan and fast tree pass

`Filter` is `ShouldExclude` and the order in which `run` assembles the rules.  A
pattern is a list of components, each the set of names its wildcards accept or
`AnyDepth` for `**`; `anchored` is a leading slash.

`Scan` is `scanWalk` under every root, in lexical order (`Order`).  `root` and `pos`
say where the walk is, `cut` which directories it does not go into, `listed` what
`ReadDir` has shown (a directory is read when it is entered, a file looked at when
its turn comes), `seen` is `seenInodes`, `rows` the store.  Actions: `SkipDir`,
`EnterDir`, `PassOver`, `SkipHardlink`, `Emit`, `NextRoot`, `EndOfWalk`, and `Appear` and
`Vanish` for other programs.  Two paths may show one directory entry (`Link`), through a
symbolic link above a root or a bind mount; what `inode.go` remembers goes by the link
count, the number of entries and not of paths (`ManyNames`).  `IsSubdir` compares strings
as the code does, so that nothing is below `/` for it.

`FastTrees` goes on from the rows: `HashDirs` (`accumulateDirHashes`; the hash of an
entry is a constant that may collide), `FormPairs` (buckets, `maxDirsPerBucket`,
`removeSubPairsFast`), `Count` (`incompleteDir` with its memo `counted`), `TurnDown` and
`Confirm` (verification by name, size and mtime, shortest pair first), `KeepPair` and
`DropPair` (by content, of as much as the two queries answer).  Its `confirmed` are the `Seeds` of `TreeDup`.

### Runs over one tree

`Copies` declares what the next two share.  `ScanStore` is the life of a store:
`phase` says where each run stands, `sweep` and `doomed` are the loop of
`sweepStaleScanStores` with the gap between look and removal, `at` says which store
a path leads to, `rows`, `left` and `indexes` what is in it.  A run creates at most
one store, so the store bears its name; a removed store lives on for those who
have it open, but connections the pool opens later go by the path (`Views`).  A process
number may be given out again at any moment, also between a sweep's look and its removal
(`recycled` are the runs this happened to).
`Trash` is `trashFile` a system call at a time (`hand` is what a process is
trashing), and `Runs` puts whole runs together: scan or reuse, decide, dispose.

### Copy

`Transfer` is the `copy` subcommand: `unsent` and `held` are the walk, which comes to a
file (`Visit`) and then waits for room in the channel `jobs` (`Send`), where it can meet no
error; `task` are the workers, which return once the channel is closed and drained (`Quit`);
`target` and `sidecar` what lies at the destination.  A
worker creates (`Create`), copies chunk by chunk (`CopyChunk`; the medium may damage
what it is given), closes and sets the mtime (`Close`), reads back the last chunk or
all (`VerifyChunk`), and writes the sidecar in two steps.  Every step has its failure, and the
removal of a failed copy may fail as well (`TryRemove`, `unproven`);
`Kill` and `Retry` stop the command and run it again, `Write` changes a source
meanwhile.  `run`, bounded by `MaxRuns`, and the versions of `StampOf` are what is
bounded.

### What users of the code should know

Visible in these modules.  Where one contradicts what the repository says of itself, a
run or the contradicted line is named:

- a sidecar is looked at before any flag (`cache.go:220`): `--rehash` and `--no-cache` do
  not keep `Hash` from returning a sidecar's MD5 (`HashFromSidecar` has no guard on `opt`).
  `README.md:114` says of `--no-cache` "always re-read file contents" and `README.md:115` of
  `--rehash` that cached MD5s are ignored: both hold of rows only, which is why
  `ReusedHashesAreYoung` speaks of sidecars apart;
- a directory reached by two paths, through a symbolic link above one of two roots
  (`main.go:302` makes roots absolute and resolves nothing) or a bind mount, is in the store
  twice and is its own duplicate, as a tree and file by file; deleting one side deletes the
  data.  `inode.go:26`-`27` remembers only files with several links because one with a
  single name "no puede volver a aparecer en el recorrido" (cannot come up again in the
  walk), which is not so.  `InventoryIsExact` says what is true (`SoleLink`);
- the error of a store query is dropped (`main.go:479`) and what was read before it passes
  for the directory: a tree that is gone is then not passed over and its twin is deleted,
  half a side may be deleted, and two trees whose queries both fail are compared in part
  (`Flaky` in `LossNeedsBrokenPair` and `WholeTrees`);
- after a kill, or a write that failed, the last row of the report may be cut anywhere, a
  path in it too (`no_interactive.go:92`-`105`, `torn`); the rows before it are whole;
- a process that gets its number between a sweep's look at `/proc` and the removal loses
  the store it makes in the meantime (`filestore.go:47`-`51`, `recycled`);
- beside another run of the same `--scan-store`, a connection the pool opens late may read
  that run's unfinished store (`filestore.go:97`, `170`, `shared` in `ServesFinished`);
- a row bears the metadata of the scan and the hash of a later read (`cache.go:256`):
  a file that changes in between and is restored afterwards is answered wrongly,
  which is why `HashNotOlderThanScan` supposes that no size and mtime returns;
- copies above the column depth have no column: when their group becomes an item
  of a block they are offered nowhere (`SharedItem`), which errs on the safe side;
- when all copies match the glob the one kept is inside it, although `README.md:105`
  says that what is outside is kept;
- a pair turned down in one batch is never verified again (`TurnedDownForCause`
  says what this can cost);
- a first batch that cannot be written ends the run the way "No duplicates found" does
  (`main.go:547`, `main.go:573`): the header alone does not mean there were none;
- `--include` never overrides `--exclude`, although `README.md:109` says so: excludes come later in the list and the last
  match wins (`main.go:272`-`286`);
- with `/` as one of several roots the others are not excluded from its walk, because
  `IsSubdir("/", x)` is false (`main.go:324`-`333`): a file is stored twice, is its own
  duplicate, and headless deletion removes it.  `InventoryIsExact` is checked for
  roots other than `/`;
- a hardlink that is skipped in one root hides the duplicate across roots;
- the guard of the fast pass counts sidecars on the disk, which the scan leaves out: trees
  made by `copy` never pass it; and it only works with rules or size limits.  Hardlinks or
  an unreadable directory alone would not arm it, but the default excludes always do
  (`defaultExcludes`, `RulesAlwaysSet`);
- directories above the roots form pairs too; such a pair dominates the pairs below it
  and may then be turned down, which is what `LostToALargerPair` allows for;
- the fast tree pass does not know the cross-root filter, and a reused inventory keeps the
  numbers its own run gave the roots;
- two deleting runs at once can take the last copy between them (`overlap` in
  `LastCopyStays`), and two processes that choose the same name in the trash at once
  overwrite one another's file (`clash` in `TrashIsRecoverable`);
- `copy` sets the mtime before it reads back: until that is done, or for good if it is
  killed then, the sidecar of an earlier copy is trusted for an unchecked one; and for good
  as well if the copy fails the check and cannot be removed, since the error of `os.Remove`
  is let pass (`copy.go:80`-`90`, `InDoubt` in `TrustIsDeserved`);
- a file copied onto itself is truncated first, and reported as copied.

## Runs

| run | configuration | what it asks |
|---|---|---|
| `cleanup` | `MCCleanup.cfg` | survival, truth of the map, policies, refinement and end of a queue of a block, a group and three trees |
| `trees` | `CleanupTrees.cfg` | overlapping trees with groups over their files, failing removals and queries, rehearsal and real run |
| `queue` | `MCCleanupQueue.cfg` | the queue built from every small input |
| `tree_dup` | `MCTreeDup.cfg` | incremental trees, every batching of the groups |
| `detection` | `MCDetection.cfg` | both passes and the report |
| `hash_cache` | `MCHashCache.cfg` | overlapping runs and a changing file |
| `runs` | `MCRuns.cfg` | three runs over one tree, in the store, in the trash, and between them |
| `fast_trees` | `MCFastTrees.cfg` | the walk under nine sets of flags, then the fast tree pass |
| `copy` | `MCTransfer.cfg` | two workers, a store that damages data, failures, kills, a second run |

and three that show a disagreement between the code and what it or its tests
say; TLC finds each of them:

| run | disagreement |
|---|---|
| `root_order` | a queue of trees and of groups over the same files, in an order the roots of the command line produce, deletes every copy of a content headless: a group keeps the copy a later tree deletes, `reresolveAction` only checks that a side is not *fully* gone |
| `column_one` | `1` at a block deletes column [2]: the answer is compared with its newline |
| `tree_dup_nested` | a directory and its only subdirectory are confirmed as identical trees; deleting either deletes both copies |

Bounds, and why they are enough:

- `cleanup`: a block of two items, one of them with two copies on one side, and a group
  of three, that is the smallest with every way to leave survivors (one side, both,
  some), one refused removal in each, the three pairs of three identical trees that share
  no file with them (so that one pair becomes moot, and `KeepsOne` applies), one of which
  may be listed in part, and every flag combination.  Trees that overlap have a run of their own.
- `trees`: two identical trees, the subtree of each identical to a third place, a
  file that is not in the store, a block of two items; a group before the trees and one
  between them over files of theirs; one removal that may be refused and three directories
  whose queries may fail; every headless policy, the interactive driver, and each dry run
  followed by the real one.  `root_order` is the same with another order of the groups.
- `queue`: three groups over three cadence folders and a folder above them, all orders of
  their copies that matter, equal and different sizes, blocks of 1 and 2, and at most
  one tree, all as initial states of a one-step machine.
- `tree_dup`: twins whose shared file lies at different depths, a nested directory, a
  pair whose query may fail, with and without a seed, two workers, `MaxDirs = 2` so
  that the cut happens, `MaxDepth = 3` so that walks end in all three ways (bound, top,
  meeting point); they are 50 and 12 in the code.
- `detection`: five files of one size so that the channel (two jobs) fills up, three
  roots in it, groups that an unreadable file makes smaller or dissolves, a size all in
  one root, equal and different mtimes, all eight modes, two workers.
- `hash_cache`: two runs, one path, two versions of it, three ticks, all combinations of
  four flag sets; the runs are interchangeable (symmetry, no liveness is checked).
  The row of a path depends on no other path.
- `runs`: three runs (a sweeper, its victim, and one that follows or interferes), two
  process numbers to be given out again and a third nobody has, so that a store named
  after it is an inventory the user called so; two copies with the same base name, so
  that names collide in the trash, and three names; four sets of flags: delete into the
  trash with a store of its own, delete and keep the store, report from it, report from
  the borrowed name.  The store is filled a file at a time.  Runs are interchangeable.
- `fast_trees`: three trees that look the same, one of them with other contents, a fourth
  with other times under the default exclude; names that appear and vanish inside and
  beside them; two hardlinks across roots, a sidecar, a special file, an unreadable
  directory with a directory in it, another file system; a bind mount of one of the trees; two
  directories whose queries may fail; a hash that collides; roots side
  by side, nested, with directories above them; nine sets of flags that use every flag at
  least once; `MinFiles` 2 as in the code, `MaxDirs` 3 so that the cut happens (the code's
  is larger).
- `copy`: two files, two chunks (the last one and another), one source that goes through
  three versions of which two share their mtime, two workers, two runs.  The channel, four
  long, never fills up here; that a walk that waits finds all its workers there does not
  depend on it and is proved for any number of files (`NoWorkerIsLost`).

`CHECK_DEADLOCK FALSE` is set everywhere because the program ends (and the two
function-like modules stop after their step); that it ends, and does not
just hang, is what `Termination`, `AddGroupsReturns` and `Ends` check.

Fairness: `WF(Next)` for `Cleanup` says the process keeps running and the user eventually
gives an accepted answer; `WF(Next)` for `TreeDup` and `WF(Run)` for `Detection` that the
Go scheduler runs some goroutine that can run, nothing more.  `Runs`, `FastTrees` and
`Transfer` have no liveness property: each phase is a loop over what is left, and a run may
be killed anywhere.

Exceptions a property names instead of hiding: `exposed` in the deletion of trees, `shared`
and `Borrowed` (the user's doing) and `recycled` of the store, `overlap` and `clash` (two
processes at once), `gone`, `late`, `turned` and `Flaky` in the tree properties, `Steady` and
`SoleLink` in the scan's, `torn` in the report's, `InDoubt` (`unproven`) and `Rewritten` in the
copy's.

## Proofs

Checked by TLAPS for every value of the constants that meets the named assumptions.  Every
safety invariant and every action property of the passing runs is a theorem.

### Deletion

`CleanupProofs`, about `Cleanup` and `Rehearsal`:

- `TypeCorrect`, `SurvivorsStay` (`SurvivorInv`), `Survival` (`LastCopyOutsideTrees`), `MapIsTrue`
  (`MapMatchesDisk`) and `Refinement` (`KeepsOne`, for queues without trees).
  `LastCopyOutsideTrees` is not inductive: that a class keeps a copy in the middle of a
  loop depends on what the loop will still visit.  `SurvivorInv` says where the driver can
  stand, that each loop deletes from one class and spares a disjoint part of it, and
  that the running loop's spared part has a live member.  A group loop gets this from the
  choice (`ChooseFiles` refuses all, `AutoGroupJobs` and `GlobVictims` leave one), a column
  loop from the guard `Guarded` at its start.  Several column loops are pending at once, so
  their spared parts are only claimed disjoint, not live; the guard renews the
  claim.  Assumptions: groups and items hold copies of one content, the columns of an item
  are disjoint, classes are disjoint and not empty.  `Refinement` follows from the same
  invariant: the live spared member is the file that stays.  `MapMatchesDisk` is inductive.
- `KeepsFirst` and `GlobSpares` (`HeadlessKeepsFirst`, `GlobSparesUnmatched`): the
  loops at hand delete by the policy (`ByPolicy`), and the copies of a group are all there when
  its turn comes (`Untouched`), so that the first survivor is the first file.  Hypothesis: no
  file is queued twice (`QueuedOnce`; theorem `NothingIsLost` of `QueueProofs` for the queue of
  groups no file is in two of).
- `PrunesEmptyTrees` (`PrunedDirsAreEmptyTrees`): loops over a directory come from queued trees.
- `LossIsBrokenPair` (`LossNeedsBrokenPair`), under `TreesAreTwins`: the sides of a queued tree
  hold copies of each other's files and share none, as `ConfirmedTwins` says of pairs that are
  not nested.  Nothing is supposed of groups and blocks over their files, of the order of the
  queue, of removals or of queries.  The invariant adds to the survivor argument above that a
  class no broken pair has touched keeps a copy, and that when a tree loop begins with the
  opposite copies in place they stay during the loop, since it deletes from its own side
  only.  That the exception is met is what `root_order` shows.
- `NothingUnasked` (`OnlyOnRequest`): what the loops at hand will delete is covered by `wanted`,
  and so is what an auto mode that is on will delete later, in the block or in the queue.
- `PreviewIsTrue` (`PreviewMatchesRun`), under `QueuedOnce`.  The invariant
  says that, as long as the runs are `smooth`, after each action what is gone is a function of
  the queue and the glob (`GoneAfter`), for a dry run and a real one alike; `deleted` is where
  both meet.

`QueueProofs`, about `QueueBuild`: `QueueIsBuilt`, `NothingIsLost` (`QueueIsComplete`),
`ColumnsStayTrue` (`ColumnsAreTrue`), `SafestIsKept` (`KeepSlotIsSafest`) and `LargestComesFirst`.
`QueueInv` says that the queue is `QueueOf` its input; the rest is about that operator.
Sorting by counting is a bijection between the positions and the elements: of two elements the
later has more before it, so no two get the same number, and as many numbers as elements
means that each is given (`InOrderLists`).  So no induction
theorem is needed, and every action of the queue can be traced to the tree, the
item of a block, or the group it was made of (`QueueMade`), and back.  A group is in one place because a
pair of columns is either absorbed, all its groups in its blocks, or left alone, all of
them in the rest.  Assumption: `InputAssumption`.

### Detection

- `HashCacheProofs`: `CacheTypeCorrect`, `HashIsNotOlder` and `HashIsYoung`.  The invariant
  says why: what a run scanned was on disk by then, what it is about to store was read
  after its scan and its start, a row's hash was read after the version (and the time)
  the row bears, and a sidecar describes a version the path has had.  That no size and
  mtime returns (`NoStampReturns`) is a hypothesis of the first property only; without it
  it is false, as said above.
- `DetectionProofs`: `HonestReport`, `AllDuplicatesFound`, `LargestFirst` and
  `DetectionTyped`.  For the report: between batches the buffer is empty, no row is torn and
  the last batch is among the groups; within one, every row is to be written, buffered, torn,
  or on file.  For the
  search with `-c` (`FoundInv`): the groups are the duplicates of the sizes that are neither to come
  nor at hand, and those are larger; of the size at hand the pool holds every file once
  or it has failed.  So a dry pool has hashed all that can be read, and a failure changes
  no group of a size already done (`FailuresToCome`).  A size passed over for its roots has no
  duplicates (`OneSize`).  Assumptions: files and workers are finite, equal content means equal size.
- `TreeDupProofs`: `ConfirmedTwins`, `BatchesAreFlat`, `NothingIsLost`, `TreesTyped` and
  `TurnedDownWithCause`.  For the first, the invariant adds that the index only holds copies and
  that what is found, not yet weighed, consists of twins.  For the next three (`PairInv`) it says
  that the pairs found are weighed shortest first, so that what dominates a pair was offered
  before it (`DominatorIsShorter`), and that each pair ever proposed is in work, turned down, or
  offered (`Accounted`).  That below is longer and transitive, and that going up stays in the
  tree (`Up` is a recursive function), is shown by least counterexample.  For the last
  (`TurnedDownForCause`): the index of a file is all of its group once that has come
  (`IndexIsComplete`), so a pair whose groups have all come verifies (`KnownTwinsVerify`).
  Hypothesis of that one: any two copies are in one group (`GroupsAreComplete`), as
  `AllDuplicatesFound` says of files that can be read.  Assumptions: directories are finite in
  number and a parent's path is shorter; each group holds copies of one content and no file is
  in two.

### Scan and fast tree pass

`FastTreesProofs`, for every tree of names, order of the walk, rules and roots:

- `InventoryExact`.  The invariant `WalkInv` keeps book of the walk of one root: a directory it
  has come by is cut off for a reason the flags give, or its listing is known; no cut lies around
  a wanted file; so a wanted file is ahead or served (`WantedIsAhead`), and what is reached is
  wanted (`ReachedIsWanted`).  Of the inodes it says that whatever is remembered is served as far
  as its size allows, and that a steady file with a second link is always remembered; one with
  a single link is emitted under each of its paths.  The
  geometry (below is a strict order, the directories around a file lie on one line) is
  proved from the paths.  `ShouldExclude` is not opened: the theorem holds for any rule
  semantics.
- `TreesAreWhole` (`WholeTrees`).  What the guard rests on is a counting argument: the rows below a
  directory are names that were there, so when as many files were counted on the disk and none of
  the rows' files is gone, the rows are all the files but those that came later; `PassInv` carries
  that from the count to the end, with the pairs that passed the comparison of listings
  and contents.  Hypothesis `RulesAlwaysSet`: there are rules (`store_tree.go:36`), without which
  the guard is not armed.
- `TwinsAreNotLost` (`LostToALargerPair`).  Twins have the same hash although it is a sum over a set, in
  whatever order `CHOOSE` takes its members: if two sums over matching members differed, they
  would over a smallest set (`SumsMatch`).  So twins are a candidate pair, and of what dominates it the
  pair of the shortest paths is kept (`ALargerPairIsKept`); `LostInv` says that a pair that is kept is
  still waiting, confirmed, or turned down.

Assumptions: paths are different, each name has a directory, a directory comes before what is
in it, hardlinks have one size, no root is listed twice (`main.go:300`-`314`).  Hypothesis of
all three: `/` is no root (`NoRootIsTop`; with it `InventoryIsExact` is false, see above).

### Runs, trash and copy

- `RunsProofs`: `RunsTyped`, `StoresStayPut`, `FinishedIsServed`, `ACopyStays`
  and `TrashStaysRecoverable`, for any number of runs, files, paths, process numbers and
  names.  The invariant has a part per question.  Trash: names that are chosen are
  different, hold nothing until the record is written, and a trashed file has its record.
  Stores: what is about to be removed belongs to a process that is gone or to one that got
  its number since (`recycled`), runs alive on one path are all in `shared`; so whoever
  removes or creates at a path in use is one of the exceptions.  A path in use by runs that
  are not `shared` leads to a store that was walked to the end, or to nothing, so late
  connections read nothing unfinished.  Copies: only one deleting run is at work, what it has read is still there,
  and one of that is neither on its list nor in its hand.  The lemmas about the steps of the
  trash come first and are used for every step of a run.
  Assumptions: there is a file, `Scratch` gives each process its own path, every file has
  a name to try.
- `TransferProofs`: `TransferTyped`, `TrustDeserved`, `SuccessComplete` and `NoWorkerIsLost`.  The invariant says
  that a file is in one hand at a time (with the walk, in the channel, with one worker, or
  done with), that no worker returns before the channel is closed and empty, what a worker
  knows of its copy at each step, and that the sidecar beside a
  copy was made of versions no newer than the one whose mtime the copy bears.  From the last
  part follows what is not obvious: an *old* sidecar with the same mtime was made of the very
  version that was copied again.  Assumption: every source has at least one version, and
  mtimes of sources are not `Now`.

The hypotheses that are not assumptions of a module (`QueuedOnce`, `TreesAreTwins`,
`GroupsAreComplete`, `NoRootIsTop`, `RulesAlwaysSet`) are evaluated by TLC on the instances of
the runs, as `ASSUME`s of the MC modules.

Only model-checked: liveness (`Termination`, `AddGroupsReturns`, `Ends`), which
with `ENABLED` is out of the prover's reach, and the three runs that expect a violation.

## Not modelled, and the plan

Every component with state of its own is modelled.  Left to do:

1. `FastTrees` composed with `TreeDup` as its `Seeds` in one run (so far `TreeDup` supposes of
   them what `WholeTrees` says).
2. A file that changes between its hashing and its deletion (`cleanup.go:234`): nothing in the
   code looks again, so there is no property to check.

Not planned: text output, media metadata, the profiling endpoint, the installer, the parsing
of flags, and the SQLite start-up retries, which either do not change state or only
repeat an idempotent statement.  A kill in the middle of one SQLite statement is SQLite's
affair: with the journal off, as the scan store has it, a kill during `CREATE INDEX` may
leave a damaged file, which later runs see as an error.
