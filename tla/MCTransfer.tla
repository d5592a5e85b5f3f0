---------------------------- MODULE MCTransfer ----------------------------
(* Two files, one of which can be rewritten under the same mtime.          *)
EXTENDS Transfer

CONSTANTS f1, f2, w1, w2

MCFile == {f1, f2}
MCWorker == {w1, w2}
MCStampOf == [f \in MCFile |-> IF f = f1 THEN <<1, 2, 2>> ELSE <<1>>]
=============================================================================
