------------------------------ MODULE KeepOne ------------------------------
(***************************************************************************)
(* What the deletion side of dup-detector promises, with no queue, prompt, *)
(* column or directory in sight.  Files are partitioned into classes of    *)
(* identical content; a file may only go while another member of its class *)
(* stays.  Cleanup implements this specification when no other action      *)
(* reaches into a queued tree and nothing that is gone of it looks left.   *)
(***************************************************************************)

CONSTANTS
  File,     \* every file the run knows
  Class     \* disjoint sets of files with identical content

VARIABLE live  \* the files not disposed of yet

(* README "never loses a copy", headless.go "keep one copy per group".     *)
Init == live = File

(* f goes, and every class f belongs to keeps another live member.         *)
Drop(f) ==
  /\ f \in live
  /\ \A c \in Class : f \in c => \E g \in c \cap live : g # f
  /\ live' = live \ {f}

Next == \E f \in File : Drop(f)

Spec == Init /\ [][Next]_live
=============================================================================
