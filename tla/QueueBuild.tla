---------------------------- MODULE QueueBuild ----------------------------
(***************************************************************************)
(* The deletion queue a run builds from what detection hands it, and what  *)
(* the drivers rely on about it.                                           *)
(***************************************************************************)
EXTENDS OverlapBlocks

CONSTANT Inputs  \* what detection and the flags may hand over

TreeAction == [kind : {"tree"}, a : Path, b : Path, size : Nat]
GroupAction == [kind : {"group"}, files : Seq(DOMAIN ColOf), size : Nat]

(* A group lists at least one file and no file is in two groups: a pass    *)
(* puts every file into the one group of its size, mtime or checksum.      *)
ASSUME InputAssumption ==
  \A in \in Inputs :
    /\ in.trees \in Seq(TreeAction) /\ in.groups \in Seq(GroupAction)
    /\ in.overlap \in BOOLEAN /\ in.blockSize \in Nat \ {0} /\ in.minOverlap \in Int
    /\ \A k \in DOMAIN in.groups :
         /\ in.groups[k].files # <<>>
         /\ \A m \in DOMAIN in.groups :
              (\E i \in DOMAIN in.groups[k].files, j \in DOMAIN in.groups[m].files :
                 in.groups[k].files[i] = in.groups[m].files[j]) => k = m

VARIABLES input, queue, built
vars == <<input, queue, built>>

Init == input \in Inputs /\ queue = <<>> /\ built = FALSE

Build ==
  /\ ~built /\ built' = TRUE
  /\ queue' = QueueOf(input.trees, input.groups, input.overlap, input.blockSize, input.minOverlap)
  /\ UNCHANGED input

Next == Build
Spec == Init /\ [][Next]_vars

RangeOf(s) == {s[k] : k \in DOMAIN s}

Blocks == {j \in DOMAIN queue : queue[j].kind = "overlap"}
ItemFiles(it) == RangeOf(it.a) \cup RangeOf(it.b)

(* Every tree is queued, and of every group either all its copies in one   *)
(* action or, as one item of one block, all its copies that have a column. *)
QueueIsComplete ==
  built =>
    /\ \A k \in DOMAIN input.trees : \E j \in DOMAIN queue :
         queue[j].kind = "tree" /\ {queue[j].a, queue[j].b} = {input.trees[k].a, input.trees[k].b}
    /\ \A k \in DOMAIN input.groups :
         LET whole == {j \in DOMAIN queue :
               queue[j].kind = "group" /\ RangeOf(queue[j].files) = RangeOf(input.groups[k].files)}
             items == {ji \in Blocks \X (1 .. input.blockSize) :
               ji[2] \in DOMAIN queue[ji[1]].items
               /\ ItemFiles(queue[ji[1]].items[ji[2]]) =
                    {f \in RangeOf(input.groups[k].files) : ColOf[f] # NoColumn}}
         IN Cardinality(whole) + Cardinality(items) = 1

(* A column holds files of its root only, both columns of an item hold     *)
(* some, and a block stands for a pair of columns that shares at least two *)
(* files: what deleting a whole column relies on.                          *)
ColumnsAreTrue ==
  \A j \in Blocks :
    /\ \A k \in DOMAIN queue[j].items :
         LET it == queue[j].items[k] IN
         /\ {ColOf[f] : f \in RangeOf(it.a)} = {queue[j].rootA}
         /\ {ColOf[f] : f \in RangeOf(it.b)} = {queue[j].rootB}
    /\ Cardinality({k \in DOMAIN input.groups :
                      Columns(input.groups[k]) = {queue[j].rootA, queue[j].rootB}}) >= 2

(* The keep slot holds no copy of a shorter retention than another copy in *)
(* the same cadence context ("lower = safer to delete").                   *)
KeepSlotIsSafest ==
  \A j \in DOMAIN queue :
    LET a == queue[j] IN
    /\ a.kind = "tree"    => ~MoreFrequent(a.a, a.b)
    /\ a.kind = "overlap" => ~MoreFrequent(a.rootA, a.rootB)
    /\ a.kind = "group" /\ (\A p, q \in RangeOf(a.files) : SameContext(p, q)) =>
         \A p \in RangeOf(a.files) : ~MoreFrequent(a.files[1], p)
=============================================================================
