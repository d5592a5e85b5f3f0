--------------------------- MODULE CleanupQueue ---------------------------
(***************************************************************************)
(* How the deletion queue is put together (buildCleanupActions): each      *)
(* kind of action is reoriented so that the copy of the less frequent      *)
(* backup cadence takes the keep slot, and the three kinds are merged by   *)
(* reclaimable bytes, largest first.                                       *)
(***************************************************************************)
EXTENDS Integers, Sequences, FiniteSets

CONSTANTS
  Path,     \* the paths of files, tree directories and column roots
  Cadence   \* what cadenceRegex makes of each path

(* A match splits the path around the cadence word; the rank orders daily, *)
(* weekly, monthly and quarterly from 0 to 3, NoMatch stands for no match. *)
NoMatch == [rank |-> -1, prefix |-> "", suffix |-> ""]

ASSUME CadenceAssumption ==
  /\ DOMAIN Cadence = Path
  /\ \A p \in Path : Cadence[p].rank \in -1 .. 3

Matches(p) == Cadence[p].rank >= 0

(* The two paths differ within the cadence segment only.                   *)
SameContext(p, q) ==
  /\ Matches(p) /\ Matches(q)
  /\ Cadence[p].prefix = Cadence[q].prefix
  /\ Cadence[p].suffix = Cadence[q].suffix

MoreFrequent(p, q) == SameContext(p, q) /\ Cadence[p].rank < Cadence[q].rank

(* The members of a finite set in the order given by a set of pairs.       *)
InOrder(S, before) ==
  [i \in 1 .. Cardinality(S) |->
     CHOOSE x \in S : Cardinality({y \in S : <<y, x>> \in before}) = i - 1]

Descending(at, key) ==
  {e \in at \X at : key[e[1]] > key[e[2]] \/ (key[e[1]] = key[e[2]] /\ e[1] < e[2])}

(* The elements of s at the positions `at`, stably by descending key.      *)
SortedPart(s, at, key) ==
  LET order == InOrder(at, Descending(at, key)) IN [i \in DOMAIN order |-> s[order[i]]]

(* sort.SliceStable by descending key.                                     *)
StableDescending(s, key) == SortedPart(s, DOMAIN s, key)

(* The same elements in the order of s: their keys are all equal.          *)
Part(s, at) == SortedPart(s, at, [k \in at |-> 0])

(* reorientPairsByBackupCadence, one pair.                                 *)
ReorientPair(t) == IF MoreFrequent(t.a, t.b) THEN [t EXCEPT !.a = t.b, !.b = t.a] ELSE t

(* Mutant of ReorientBlock: the roots are swapped, the columns are not.    *)
ReorientRoots(b) ==
  IF MoreFrequent(b.rootA, b.rootB) THEN [b EXCEPT !.rootA = b.rootB, !.rootB = b.rootA] ELSE b

(* reorientBlockByBackupCadence: roots and columns are swapped together.   *)
ReorientBlock(b) ==
  IF MoreFrequent(b.rootA, b.rootB)
  THEN [b EXCEPT !.rootA = b.rootB, !.rootB = b.rootA,
                 !.items = [k \in DOMAIN b.items |->
                              [b.items[k] EXCEPT !.a = b.items[k].b, !.b = b.items[k].a]]]
  ELSE b

(* Mutant of ReorientFiles: most frequent cadence first.                   *)
ReorientAscending(g) ==
  IF Len(g.files) >= 2 /\ \A k \in DOMAIN g.files : SameContext(g.files[1], g.files[k])
  THEN [g EXCEPT !.files =
          StableDescending(g.files, [k \in DOMAIN g.files |-> 3 - Cadence[g.files[k]].rank])]
  ELSE g

(* reorientFilesByBackupCadence: all files of the group share one context, *)
(* or the group stays as it is.                                            *)
ReorientFiles(g) ==
  IF Len(g.files) >= 2 /\ \A k \in DOMAIN g.files : SameContext(g.files[1], g.files[k])
  THEN [g EXCEPT !.files =
          StableDescending(g.files, [k \in DOMAIN g.files |-> Cadence[g.files[k]].rank])]
  ELSE g

SumOver(f) ==
  LET sum[k \in 0 .. Len(f)] == IF k = 0 THEN 0 ELSE sum[k - 1] + f[k] IN sum[Len(f)]

(* Reclaimable bytes: of a tree its size, of a block one copy of each      *)
(* item, of a group every copy but one.                                    *)
Waste(a) ==
  CASE a.kind = "tree"    -> a.size
    [] a.kind = "overlap" -> SumOver([k \in DOMAIN a.items |-> a.items[k].size])
    [] a.kind = "group"   -> a.size * (Len(a.files) - 1)

Apply(Op(_), s) == [k \in DOMAIN s |-> Op(s[k])]

(* Trees, then blocks, then groups, merged by waste.                       *)
BuildCleanupActions(trees, blocks, groups) ==
  LET all == Apply(ReorientPair, trees) \o Apply(ReorientBlock, blocks)
             \o Apply(ReorientFiles, groups)
  IN StableDescending(all, [k \in DOMAIN all |-> Waste(all[k])])
=============================================================================
