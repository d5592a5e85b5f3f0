---------------------------- MODULE MCHashCache ----------------------------
(* Two runs share the cache while a file, with or without a sidecar from   *)
(* before, is written in place.                                            *)
EXTENDS HashCache, TLC

CONSTANTS f, r1, r2

V(c, s, i) == [content |-> c, stamp |-> s, inode |-> i]

MCPath == {f}
MCHistory == [p \in MCPath |-> <<V(1, 1, 7), V(2, 2, 7)>>]
MCRun == {r1, r2}
Runs == Permutations(MCRun)
MCOptions == {[cached |-> TRUE, rehash |-> FALSE, maxAge |-> 0],
              [cached |-> TRUE, rehash |-> FALSE, maxAge |-> 1],
              [cached |-> TRUE, rehash |-> TRUE, maxAge |-> 0],
              [cached |-> FALSE, rehash |-> FALSE, maxAge |-> 0]}
=============================================================================
