--------------------------- MODULE MCCleanupTrees ---------------------------
(* Queues with tree actions.                                               *)
(*   a/x a/s/y a/s/z   b/x b/s/y b/s/z   q/x q/d/y q/d/z   d/v d/w e/v e/w *)
(* a and b are identical, so are a/s, b/s and q/d; u appeared in b/s after *)
(* the scan, or was excluded from it.                                      *)
EXTENDS Rehearsal, CleanupQueue

MCFile == {"ax", "ay", "az", "bx", "by", "bz", "qx", "qy", "qz", "u", "dv", "dw", "ev", "ew"}
MCScanned == MCFile \ {"u"}
MCDir == {"r", "a", "as", "b", "bs", "q", "qd", "d", "e"}
MCDirOf == [f \in MCFile |->
              CASE f = "ax" -> "a" [] f \in {"ay", "az"} -> "as"
                [] f = "bx" -> "b" [] f \in {"by", "bz", "u"} -> "bs"
                [] f = "qx" -> "q" [] f \in {"qy", "qz"} -> "qd"
                [] f \in {"dv", "dw"} -> "d" [] f \in {"ev", "ew"} -> "e"]
MCSubtree == [d \in MCDir |->
                CASE d = "r" -> MCDir [] d = "a" -> {"a", "as"} [] d = "b" -> {"b", "bs"}
                  [] d = "q" -> {"q", "qd"} [] OTHER -> {d}]
MCClass == {{"ax", "bx", "qx"}, {"ay", "by", "qy"}, {"az", "bz", "qz"}, {"dv", "ev"}, {"dw", "ew"}}

(* No path has a cadence word: reorientation changes nothing here.         *)
MCPath == MCFile \cup MCDir
MCCadence == [p \in MCPath |-> NoMatch]

Tree(a, b) == [kind |-> "tree", a |-> a, b |-> b]
Group(f, g, h) == [kind |-> "group", files |-> <<f, g, h>>]

Block == [kind |-> "overlap", rootA |-> "d", rootB |-> "e",
          items |-> << [a |-> <<"dv">>, b |-> <<"ev">>], [a |-> <<"dw">>, b |-> <<"ew">>] >>]

(* A block beside the trees, a group over files of theirs before them all, *)
(* and one between.                                                        *)
MixedQueue ==
  << Block, Group("ax", "bx", "qx"), Tree("a", "b"), Group("by", "ay", "qy"),
     Tree("as", "qd"), Tree("bs", "qd") >>

(* Roots b, a, q in this order on the command line: the files of a group   *)
(* come in scan order, the two directories of a tree in path order.        *)
RootOrderQueue ==
  << Group("bx", "ax", "qx"), Tree("a", "b"), Group("by", "ay", "qy"),
     Tree("as", "qd"), Tree("bs", "qd"), Group("bz", "az", "qz") >>

(* These are the orders the queue is built in: x takes 6 bytes, y 3, z 2,  *)
(* v and w 10 each.                                                        *)
SizeOf(a) ==
  CASE a = Tree("a", "b") -> 11 [] a \in {Tree("as", "qd"), Tree("bs", "qd")} -> 5
    [] a.kind = "group" -> IF a.files[3] = "qx" THEN 6 ELSE IF a.files[3] = "qy" THEN 3 ELSE 2
WithSize(a) ==
  IF a.kind = "overlap"
  THEN [a EXCEPT !.items = [k \in 1 .. 2 |-> [a |-> @[k].a, b |-> @[k].b, size |-> 10]]]
  ELSE IF a.kind = "tree" THEN [kind |-> "tree", a |-> a.a, b |-> a.b, size |-> SizeOf(a)]
  ELSE [kind |-> "group", files |-> a.files, size |-> SizeOf(a)]

BuiltFrom(queue) ==
  LET all == Apply(WithSize, queue)
      OfKind(kind) == SelectSeq(all, LAMBDA a : a.kind = kind)
  IN BuildCleanupActions(OfKind("tree"), OfKind("overlap"), OfKind("group"))

ASSUME QueuesAreBuilt ==
  \A queue \in {MixedQueue, RootOrderQueue} :
    \A k \in DOMAIN queue : BuiltFrom(queue)[k] = WithSize(queue[k])

NoGlob == {c \in Config : ~c.glob /\ (c.headless \/ ~c.dryRun)}
HeadlessNoGlob == {c \in NoGlob : c.headless}
Globbed == {c \in Config : c.headless /\ c.glob}
All == NoGlob \cup Globbed
MCGlobMatch == {"b", "bs", "d"}
MCStubborn == {"by"}
MCFlaky == {"as", "b", "qd"}

(* What the theorems on the rehearsal and on the last copy suppose of the  *)
(* queue.                                                                  *)
ASSUME QueueHypothesis == QueuedOnce /\ TreesAreTwins
=============================================================================
