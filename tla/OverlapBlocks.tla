--------------------------- MODULE OverlapBlocks ---------------------------
(***************************************************************************)
(* From duplicate groups to the deletion queue (overlap.go and the end of  *)
(* run in main.go): groups shared by exactly two columns are gathered into *)
(* two-column blocks, largest files first, and leave the list of file      *)
(* groups; what is left is queued group by group.  A column is a root of   *)
(* the command line or, with a single root, a folder at a fixed depth      *)
(* below it; a file above that depth has no column.                        *)
(***************************************************************************)
EXTENDS CleanupQueue

CONSTANTS
  Column,   \* column roots
  NoColumn, \* colOf's "": the file has none
  ColOf,    \* ColOf[p]: the column of file p
  Order     \* Order[c]: the place of column c among the sorted paths

ASSUME ColumnAssumption ==
  /\ NoColumn \notin Column
  /\ Column \subseteq Path /\ DOMAIN ColOf \subseteq Path
  /\ \A p \in DOMAIN ColOf : ColOf[p] \in Column \cup {NoColumn}
  /\ \A c \in Column : Order[c] \in Nat
  /\ \A c, d \in Column : Order[c] = Order[d] => c = d

Columns(g) == {ColOf[g.files[k]] : k \in DOMAIN g.files} \ {NoColumn}

FirstOf(pair)  == CHOOSE c \in pair : \A d \in pair : Order[c] <= Order[d]
SecondOf(pair) == CHOOSE c \in pair : \A d \in pair : Order[d] <= Order[c]

InColumn(files, c) == Part(files, {k \in DOMAIN files : ColOf[files[k]] = c})

(* The members of g in its two columns; those without a column are in      *)
(* neither.                                                                *)
SharedItem(g) ==
  [size |-> g.size,
   a |-> InColumn(g.files, FirstOf(Columns(g))),
   b |-> InColumn(g.files, SecondOf(Columns(g)))]

(* Only a group that spans exactly two columns becomes an item.            *)
ColumnPairs(groups) ==
  {Columns(groups[k]) : k \in {k \in DOMAIN groups : Cardinality(Columns(groups[k])) = 2}}

Sharing(groups, pair) == {k \in DOMAIN groups : Columns(groups[k]) = pair}

(* Mutant of Chunks: the last, shorter block is lost.                      *)
FullChunks(length, n) == {c \in 1 .. length : c * n <= length}

(* The blocks of n that `length` items are cut into.                       *)
Chunks(length, n) == {c \in 1 .. length : (c - 1) * n < length}

(* Block c of a pair of columns: of its items, largest first, those from   *)
(* number (c - 1) * n + 1 on.                                              *)
Block(groups, pair, c, n) ==
  LET sorted == SortedPart(groups, Sharing(groups, pair),
                           [k \in DOMAIN groups |-> groups[k].size])
      length == IF c * n < Len(sorted) THEN n ELSE Len(sorted) - (c - 1) * n
  IN [kind |-> "overlap", rootA |-> FirstOf(pair), rootB |-> SecondOf(pair),
      items |-> [k \in 1 .. length |-> SharedItem(sorted[(c - 1) * n + k])]]

BlockKeys(groups, pairs, n) ==
  {key \in pairs \X (1 .. Len(groups)) :
     key[2] \in Chunks(Cardinality(Sharing(groups, key[1])), n)}

Before(keys) ==
  {e \in keys \X keys :
     LET p == e[1][1]  q == e[2][1] IN
     \/ Order[FirstOf(p)] < Order[FirstOf(q)]
     \/ FirstOf(p) = FirstOf(q) /\ Order[SecondOf(p)] < Order[SecondOf(q)]
     \/ p = q /\ e[1][2] < e[2][2]}

Absorbed(groups, minOverlap) ==
  {p \in ColumnPairs(groups) :
     Cardinality(Sharing(groups, p)) >= IF minOverlap < 2 THEN 2 ELSE minOverlap}

(* BuildOverlapBlocks                                                      *)
BuildOverlapBlocks(groups, blockSize, minOverlap) ==
  LET pairs == Absorbed(groups, minOverlap)
      keys  == BlockKeys(groups, pairs, blockSize)
      order == InOrder(keys, Before(keys))
  IN [blocks |-> [m \in DOMAIN order |-> Block(groups, order[m][1], order[m][2], blockSize)],
      remaining |-> Part(groups, {k \in DOMAIN groups : Columns(groups[k]) \notin pairs})]

(* What run hands to the deletion drivers, and they to buildCleanupActions. *)
QueueOf(trees, groups, overlap, blockSize, minOverlap) ==
  LET ob == IF overlap THEN BuildOverlapBlocks(groups, blockSize, minOverlap)
            ELSE [blocks |-> <<>>, remaining |-> groups]
  IN BuildCleanupActions(trees, ob.blocks, ob.remaining)
=============================================================================
