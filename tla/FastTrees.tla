----------------------------- MODULE FastTrees -----------------------------
(***************************************************************************)
(* The fast pass over directory trees (store_tree.go): directories whose   *)
(* files sum up to the same hash become candidate pairs, those below a     *)
(* larger pair are dropped, the others are verified against the scan store *)
(* and, with --checksum, by content.  A guard counts the files on the disk *)
(* again, because a tree whose files the scan left out is no tree to       *)
(* offer.  What this pass confirms are the Seeds of TreeDup.               *)
(***************************************************************************)
EXTENDS Scan

CONSTANTS
  MTime,        \* Unix seconds, as scanned
  Content,
  HashOf,       \* hashTreeEntry of path, size and mtime
  HashMod,      \* the sums wrap around here (2^64)
  Flaky,        \* directories whose files the store may fail to list
  MinFiles,     \* minFileCount
  MaxDirs       \* maxDirsPerBucket

ASSUME TreeAssumption ==
  /\ MTime \in [File -> Nat] /\ DOMAIN Content = File
  /\ \A f, g \in File : Inode[f] = Inode[g] => MTime[f] = MTime[g] /\ Content[f] = Content[g]
  /\ HashMod \in Nat \ {0} /\ MinFiles \in Nat \ {0} /\ MaxDirs \in Nat
  /\ \A d \in Dir, f \in File : Within(d, f) => HashOf[<<RelPath(d, f), Size[f], MTime[f]>>] \in Nat

(* "/" is no root: the code takes nothing to lie below it.                 *)
NoRootIsTop == \A o \in Options : \A i \in DOMAIN o.roots : o.roots[i] # Top

(* "defaultExcludes always leaves cfg.Rules non-empty" (store_tree.go).    *)
RulesAlwaysSet == \A o \in Options : Rules(o) # <<>>

VARIABLES
  accum,     \* hash and number of the files below each directory
  pairs,     \* pairs still to verify
  counted,   \* the guard's memo: whether a directory's files are all in the store
  late,      \* names that appeared below a directory already counted
  confirmed, \* pairs verified so far
  turned     \* pairs turned down

treeVars == <<accum, pairs, counted, late, confirmed, turned>>
vars == <<scanVars, treeVars>>

Pair == {p \in {{d, e} : d, e \in Dir} : Cardinality(p) = 2}

-----------------------------------------------------------------------------
RowsUnder(d) == {w \in rows : Within(d, w.file)}
FilesUnderDir(d) == {w.file : w \in RowsUnder(d)}
CountUnderDir(d) == Cardinality(RowsUnder(d))

Entry(d, f) == <<RelPath(d, f), Size[f], MTime[f]>>

Bucket(d) == {e \in Dir \ {Top} : accum[e] = accum[d]}

Candidates ==
  {p \in Pair : \A d, e \in p :
     /\ d # Top /\ accum[e] = accum[d] /\ ~IsSubdir(d, e)
     /\ accum[d].fileCount >= MinFiles /\ Cardinality(Bucket(d)) <= MaxDirs}

Holds(c, a) == c = a \/ IsSubdir(c, a)

(* Pair p lies below pair q, side by side.                                 *)
Dominates(q, p) ==
  \E a, b \in p, c, d \in q : a # b /\ c # d /\ Holds(c, a) /\ Holds(d, b)

(* Mutant of Topmost: it is enough that one side lies below a larger pair. *)
Untouched(ps) ==
  {p \in ps : \A q \in ps \ {p} : ~\E a \in p, c \in q : Holds(c, a)}

(* removeSubPairsFast: sorted by length a pair comes after all that        *)
(* dominate it, and what a dropped pair dominates a kept one dominates.    *)
Topmost(ps) == {p \in ps : \A q \in ps : Dominates(q, p) => q = p}

Length(p) == MapThenSumSet(LAMBDA d : Len(PathTo[d]), p)

(* countFilesOnDisk: the sidecars count, other roots and excluded          *)
(* directories too.                                                        *)
OnDisk(d) == {f \in disk \ Special : Within(d, f)}
CanCount(d) == \A e \in Unreadable \cap Dir : e # d /\ ~Within(d, e)

(* Mutant of Armed: only the size limits leave files out.                  *)
SizeLimited == opt.minSize > 0 \/ opt.maxSize > 0

(* The guard is set whenever the scan could have left something out.       *)
Armed == opt.minSize > 0 \/ opt.maxSize > 0 \/ Rules(opt) # <<>>

(* verifyTreePairMtimeStore after the guard.                               *)
SameListing(p) ==
  \A d, e \in p :
    /\ CountUnderDir(d) = CountUnderDir(e) /\ CountUnderDir(d) > 0
    /\ {Entry(d, f) : f \in FilesUnderDir(d)} = {Entry(e, f) : f \in FilesUnderDir(e)}

(* treePairContentEqual, hashes granted.                                   *)
SameContent(p) ==
  \A d, e \in p : \A f \in FilesUnderDir(d) : \E g \in FilesUnderDir(e) :
    RelPath(e, g) = RelPath(d, f) /\ Content[g] = Content[f]

(* The query fails for both sides, after as many rows, and those agree.    *)
PartsAgree(p) ==
  /\ p \subseteq Flaky
  /\ \E d, e \in p : d # e /\
       \E f \in FilesUnderDir(d), g \in FilesUnderDir(e) :
         RelPath(e, g) = RelPath(d, f) /\ Content[g] = Content[f]

-----------------------------------------------------------------------------
TreeInit ==
  /\ accum = [d \in Dir |-> [hash |-> 0, fileCount |-> 0]]
  /\ pairs = {} /\ counted = [d \in Dir |-> "not"] /\ late = {}
  /\ confirmed = {} /\ turned = {}

(* Every file adds to the directories above it, "/" excepted.              *)
HashDirs ==
  /\ phase = "hash"
  /\ accum' = [d \in Dir |->
       [hash |-> MapThenSumSet(LAMBDA w : HashOf[Entry(d, w.file)], RowsUnder(d)) % HashMod,
        fileCount |-> CountUnderDir(d)]]
  /\ phase' = "pair"
  /\ UNCHANGED <<opt, disk, gone, root, pos, cut, listed, seen, rows>>
  /\ UNCHANGED <<pairs, counted, late, confirmed, turned>>

FormPairs ==
  /\ phase = "pair"
  /\ pairs' = Topmost(Candidates)
  /\ phase' = "verify"
  /\ UNCHANGED <<opt, disk, gone, root, pos, cut, listed, seen, rows>>
  /\ UNCHANGED <<accum, counted, late, confirmed, turned>>

(* The pairs come shortest first.                                          *)
Turn(p) == phase = "verify" /\ p \in pairs /\ \A q \in pairs : Length(p) <= Length(q)

(* incompleteDir, once for each directory.                                 *)
Count(p, d) ==
  /\ Turn(p) /\ Armed
  /\ d \in p /\ counted[d] = "not" /\ \A e \in p : counted[e] # "short"
  /\ counted' = [counted EXCEPT ![d] =
       IF CanCount(d) /\ Cardinality(OnDisk(d)) = CountUnderDir(d) THEN "full" ELSE "short"]
  /\ UNCHANGED <<scanVars, accum, pairs, late, confirmed, turned>>

Incomplete(p) == Armed /\ \E d \in p : counted[d] = "short"
Complete(p) == Armed => \A d \in p : counted[d] = "full"

TurnDown(p) ==
  /\ Turn(p) /\ (Incomplete(p) \/ (Complete(p) /\ ~SameListing(p)))
  /\ pairs' = pairs \ {p} /\ turned' = turned \cup {p}
  /\ UNCHANGED <<scanVars, accum, counted, late, confirmed>>

Confirm(p) ==
  /\ Turn(p) /\ Complete(p) /\ SameListing(p)
  /\ pairs' = pairs \ {p} /\ confirmed' = confirmed \cup {p}
  /\ UNCHANGED <<scanVars, accum, counted, late, turned>>

(* All verified; with --checksum VerifyTreePairsByContent goes over them.  *)
EndOfVerify ==
  /\ phase = "verify" /\ pairs = {}
  /\ pairs' = IF opt.checksum THEN confirmed ELSE {}
  /\ phase' = IF opt.checksum THEN "content" ELSE "done"
  /\ UNCHANGED <<opt, disk, gone, root, pos, cut, listed, seen, rows>>
  /\ UNCHANGED <<accum, counted, late, confirmed, turned>>

(* A pair's files are hashed.  Of a file that is gone or unreadable the    *)
(* cache may know the hash; a query that fails shows the rows it read      *)
(* before that, which passes for the whole side (main.go drops the error). *)
KeepPair(p) ==
  /\ phase = "content" /\ p \in pairs
  /\ SameContent(p) \/ PartsAgree(p)
  /\ pairs' = pairs \ {p}
  /\ UNCHANGED <<scanVars, accum, counted, late, confirmed, turned>>

DropPair(p) ==
  /\ phase = "content" /\ p \in pairs
  /\ ~SameContent(p) \/ \E d \in p : d \in Flaky \/ FilesUnderDir(d) \cap (gone \cup Unreadable) # {}
  /\ pairs' = pairs \ {p} /\ confirmed' = confirmed \ {p} /\ turned' = turned \cup {p}
  /\ UNCHANGED <<scanVars, accum, counted, late>>

EndOfPass ==
  /\ phase = "content" /\ pairs = {}
  /\ phase' = "done"
  /\ UNCHANGED <<opt, disk, gone, root, pos, cut, listed, seen, rows, treeVars>>

Arrive(f) ==
  /\ Appear(f)
  /\ late' = late \cup {g \in PathsOf(f) : \E d \in Dir : counted[d] # "not" /\ Within(d, g)}
  /\ UNCHANGED <<accum, pairs, counted, confirmed, turned>>

-----------------------------------------------------------------------------
Init == ScanInit /\ TreeInit

Next ==
  \/ \E d \in Upcoming : SkipDir(d) /\ UNCHANGED treeVars
  \/ \E d \in Upcoming : EnterDir(d) /\ UNCHANGED treeVars
  \/ \E f \in Upcoming : PassOver(f) /\ UNCHANGED treeVars
  \/ \E f \in Upcoming : SkipHardlink(f) /\ UNCHANGED treeVars
  \/ \E f \in Upcoming : Emit(f) /\ UNCHANGED treeVars
  \/ NextRoot /\ UNCHANGED treeVars
  \/ EndOfWalk /\ UNCHANGED treeVars
  \/ HashDirs
  \/ FormPairs
  \/ \E p \in pairs : \E d \in p : Count(p, d)
  \/ \E p \in pairs : TurnDown(p)
  \/ \E p \in pairs : Confirm(p)
  \/ EndOfVerify
  \/ \E p \in pairs : KeepPair(p)
  \/ \E p \in pairs : DropPair(p)
  \/ EndOfPass
  \/ \E f \in Fresh : Arrive(f)
  \/ \E f \in Fleeting : Vanish(f) /\ UNCHANGED treeVars

Spec == Init /\ [][Next]_vars

-----------------------------------------------------------------------------
TypeOK ==
  /\ ScanTypeOK
  /\ accum \in [Dir -> [hash : 0 .. HashMod - 1, fileCount : 0 .. Cardinality(File)]]
  /\ pairs \subseteq Pair /\ confirmed \subseteq Pair /\ turned \subseteq Pair
  /\ counted \in [Dir -> {"not", "full", "short"}]
  /\ late \subseteq File

(* f under d and g under e take the same place there.                      *)
Counterpart(d, f, e, g) ==
  /\ Entry(d, f) = Entry(e, g)
  /\ opt.checksum => Content[f] = Content[g]

(* A tree is only offered whole: every file on the disk below one side,    *)
(* those the flags left out and sidecars included, has its counterpart     *)
(* below the other.  A scanned file that vanished can make up the number   *)
(* for one that was left out; what comes after the count is not seen; and  *)
(* when the store cannot list either side, contents are compared in part.  *)
WholeTrees ==
  phase = "done" =>
    \A p \in confirmed :
      (\A d \in p : FilesUnderDir(d) \cap gone = {}) =>
        \A d, e \in p : d # e =>
          \A f \in OnDisk(d) \ late : \E g \in OnDisk(e) :
            IF p \subseteq Flaky THEN Entry(d, f) = Entry(e, g) ELSE Counterpart(d, f, e, g)

(* Whole and equal trees of steady, readable files the store can list.     *)
Twins(p) ==
  /\ \A d, e \in p : ~IsSubdir(d, e)
  /\ \A d \in p :
       /\ d # Top /\ d \notin Flaky /\ CanCount(d)
       /\ {f \in File : Within(d, f)} \cap (Fresh \cup Fleeting \cup Unreadable) = {}
       /\ OnDisk(d) = FilesUnderDir(d)
       /\ Cardinality(OnDisk(d)) \in MinFiles .. Cardinality(File)
       /\ Cardinality(Bucket(d)) <= MaxDirs
  /\ \A d, e \in p : d # e => \A f \in OnDisk(d) : \E g \in OnDisk(e) : Counterpart(d, f, e, g)

(* No pair of whole trees is lost, but for a larger pair around it that    *)
(* looked the same and turned out not to be, or too many of its kind.      *)
LostToALargerPair ==
  phase = "done" =>
    \A p \in Pair : Twins(p) => p \in confirmed \/ \E q \in (confirmed \cup turned) \ {p} : Dominates(q, p)
=============================================================================
