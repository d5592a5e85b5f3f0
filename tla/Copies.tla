------------------------------- MODULE Copies -------------------------------
(***************************************************************************)
(* What Trash and ScanStore share: the processes and the files.            *)
(***************************************************************************)
CONSTANTS
  Run,  \* processes of dup-detector
  File  \* files under the roots, copies of one content

ASSUME CopiesAssumption == File # {}
=============================================================================
