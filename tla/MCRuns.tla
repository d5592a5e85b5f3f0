------------------------------- MODULE MCRuns -------------------------------
(* Runs over two copies of one content with the same base name.            *)
EXTENDS Runs, TLC

CONSTANTS r1, r2, r3, f1, f2, s0, s1, s2, kept, scratch1, scratch2, scratch3

MCRun == {r1, r2, r3}
MCFile == {f1, f2}
MCPid == {1, 2, 3}
MCPath == {kept, scratch1, scratch2, scratch3}
MCScratch == <<scratch1, scratch2, scratch3>>
MCSlot == {s0, s1, s2}
MCNames == [f \in MCFile |-> <<s0, s1, s2>>]

MCOptions == {
  [inventory |-> NoPath, deletes |-> TRUE, trash |-> TRUE],
  [inventory |-> kept, deletes |-> TRUE, trash |-> FALSE],
  [inventory |-> kept, deletes |-> FALSE, trash |-> FALSE],
  [inventory |-> scratch3, deletes |-> FALSE, trash |-> FALSE]}

(* No run has the process number 3: a store named after it is an inventory *)
(* the user calls so.                                                      *)
MCInit == Init /\ \A r \in Run : pid[r] # 3
MCSpec == MCInit /\ [][Next]_vars

RunsAlike == Permutations(MCRun)
=============================================================================
