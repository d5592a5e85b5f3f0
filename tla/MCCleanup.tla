----------------------------- MODULE MCCleanup -----------------------------
(* A two-column block, a file group, and three identical trees that share  *)
(* no file with them.                                                      *)
(*   r1/x1 r1/y1 r1/z1   r2/x2 r2/y2 r2/y3 r2/z2   r3/z3                   *)
(*   t1/v1               t2/v2                     t3/v3                   *)
EXTENDS Cleanup

CONSTANTS x1, x2, y1, y2, y3, z1, z2, z3, v1, v2, v3, r1, r2, r3, t1, t2, t3

MCFile == {x1, x2, y1, y2, y3, z1, z2, z3, v1, v2, v3}
MCDir == {r1, r2, r3, t1, t2, t3}
MCDirOf == [f \in MCFile |->
              CASE f \in {x1, y1, z1} -> r1 [] f \in {x2, y2, y3, z2} -> r2 [] f = z3 -> r3
                [] f = v1 -> t1 [] f = v2 -> t2 [] f = v3 -> t3]
MCSubtree == [d \in MCDir |-> {d}]
MCClass == {{x1, x2}, {y1, y2, y3}, {z1, z2, z3}, {v1, v2, v3}}

Block == [kind |-> "overlap", rootA |-> r1, rootB |-> r2,
          items |-> << [a |-> <<y1>>, b |-> <<y2, y3>>], [a |-> <<x1>>, b |-> <<x2>>] >>]
ThreeCopies == [kind |-> "group", files |-> <<z1, z2, z3>>]

Trees(a, b) == [kind |-> "tree", a |-> a, b |-> b]

MCQueue == <<Block, ThreeCopies, Trees(t1, t2), Trees(t1, t3), Trees(t2, t3)>>
MCGlobMatch == {z1, z2, z3, r2, t2}
MCStubborn == {y3, z2}
MCFlaky == {t3}
MCConfigs == {c \in Config : (c.headless \/ ~c.dryRun) /\ (c.glob => c.headless)}

(* The theorems on the headless policy suppose this of the queue.          *)
ASSUME QueueHypothesis == QueuedOnce
=============================================================================
