----------------------------- MODULE Rehearsal -----------------------------
(***************************************************************************)
(* The use --dry-run is documented for: the same headless command is run   *)
(* twice on the same tree, first with --dry-run, then for real.            *)
(***************************************************************************)
EXTENDS CleanupHistory

VARIABLES
  preview, \* what the rehearsal reported it would delete
  smooth   \* no removal failed, and no query of the store did in a way that
           \* mattered

None == {File}  \* no rehearsal has ended yet: not a set of files

RInit == HInit /\ preview = None /\ smooth = TRUE

(* A side of the tree at hand is seen to be deleted, if the store answers. *)
TreeGone == \E d \in {Queue[qi].a, Queue[qi].b} : DirFullyDeleted(Lookup(d))

(* A failing query decides the other way about the tree at hand or shows   *)
(* its loop less than there is; a failing removal leaves a file unmarked.  *)
StepFails ==
  \/ /\ pc = "next" /\ ~inBlock /\ qi <= Len(Queue) /\ Queue[qi].kind = "tree"
     /\ \/ qi' # qi /\ ~TreeGone
        \/ qi' = qi /\ TreeGone
  \/ pc = "jobs" /\ pc' = "dispose" /\ work' # job'.del \ deleted
  \/ pc = "dispose" /\ ~cfg.dryRun /\ ~(work \ work' \subseteq deleted')

(* The rehearsal is over: the same flags without --dry-run.  Another scan  *)
(* of the untouched tree yields the same queue.                            *)
RunForReal ==
  /\ pc = "done" /\ cfg.headless /\ cfg.dryRun
  /\ preview' = deleted
  /\ cfg' = [cfg EXCEPT !.dryRun = FALSE]
  /\ pc' = "next" /\ qi' = 1
  /\ auto' = FALSE /\ rest' = {} /\ inBlock' = FALSE /\ localAuto' = FALSE
  /\ asked' = 0 /\ eof' = FALSE
  /\ jobs' = {} /\ job' = NoJob /\ work' = {}
  /\ deleted' = {} /\ disk' = disk /\ dirs' = dirs
  /\ wanted' = {} /\ exposed' = {}
  /\ UNCHANGED smooth

RNext ==
  \/ HNext /\ smooth' = (smooth /\ ~StepFails) /\ UNCHANGED preview
  \/ RunForReal

RSpec == RInit /\ [][RNext]_<<vars, histVars, preview, smooth>>

(* If no removal and no query of the store fails, the real run never       *)
(* deletes a file the rehearsal did not announce and has deleted all of    *)
(* them at its end: disposeFile marks in a dry run what it would have      *)
(* removed, so that later actions are re-resolved alike (disposeFile:      *)
(* "dry-run and --trash behave identically across every action kind").     *)
PreviewMatchesRun ==
  smooth /\ preview # None =>
    /\ deleted \subseteq preview
    /\ pc = "done" => deleted = preview
=============================================================================
