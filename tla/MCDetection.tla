---------------------------- MODULE MCDetection ----------------------------
(* Size 3: a and b equal, in roots 1 and 2, and c, d, in roots 0 and 1,    *)
(* with a file e that may be unreadable.  Size 2: copies within root 1.    *)
(* Size 1: three files of one content, two of one mtime, in two roots.     *)
EXTENDS Detection

CONSTANTS a, b, c, d, e, k, l, x, y, z, w1, w2

MCFile == {a, b, c, d, e, k, l, x, y, z}
MCSize == [f \in MCFile |-> IF f \in {a, b, c, d, e} THEN 3 ELSE IF f \in {k, l} THEN 2 ELSE 1]
MCMtime == [f \in MCFile |-> IF f \in {a, b, c} THEN 10 ELSE IF f \in {x, d} THEN 12 ELSE 13]
MCSource == [f \in MCFile |-> CASE f \in {c, x} -> 0 [] f = b -> 2 [] f \in {y, z} -> 3 [] OTHER -> 1]
MCContent == [f \in MCFile |->
                CASE f \in {a, b} -> 1 [] f \in {c, d, e} -> 2 [] f \in {k, l} -> 3 [] OTHER -> 4]
MCUnreadable == {e, y}
MCWorker == {w1, w2}
AllModes == Mode
=============================================================================
