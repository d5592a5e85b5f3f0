--------------------------- MODULE CleanupHistory ---------------------------
(***************************************************************************)
(* The deletion queue with two histories that no step of it reads: what    *)
(* the user's answers cover, and which files a tree action took although   *)
(* the other side held no copy of them any more.                           *)
(***************************************************************************)
EXTENDS Cleanup

VARIABLES
  wanted,   \* files the answers given so far speak of
  exposed   \* files a tree loop set out to take without a copy opposite

histVars == <<wanted, exposed>>

(* "a" at queue action q: keep [1], delete the rest.                       *)
AutoCovers(q) ==
  CASE Queue[q].kind = "group"   -> RangeOf(Queue[q].files)
    [] Queue[q].kind = "tree"    -> Lookup(Queue[q].b)
    [] Queue[q].kind = "overlap" -> UNION {RangeOf(Queue[q].items[k].b) : k \in DOMAIN Queue[q].items}

BlockFiles(q) ==
  UNION {RangeOf(Queue[q].items[k].a) \cup RangeOf(Queue[q].items[k].b) :
           k \in DOMAIN Queue[q].items}

(* What the answer given in this step speaks of: an "a" in a block of the  *)
(* items left there, an "a" elsewhere of this and all remaining actions, a *)
(* column of the block (which of the two is ColumnOneMeansOne's matter),   *)
(* anything else of what is decided.                                       *)
Answered ==
  IF ~(pc = "prompt" /\ pc' = "jobs") THEN {}
  ELSE IF <<auto, localAuto>>' # <<auto, localAuto>>
  THEN IF inBlock THEN UNION {RangeOf(ItemFiles(k)) : k \in rest}
       ELSE UNION {AutoCovers(q) : q \in qi .. Len(Queue)}
  ELSE IF AtBlockPrompt THEN BlockFiles(qi) ELSE UNION {j.del : j \in jobs'}

Opposite(d) == IF d = Queue[qi].a THEN Queue[qi].b ELSE Queue[qi].a

(* The files under d of which no copy is left opposite.  A side that is    *)
(* wholly gone, and whose query answers, is no excuse: such a tree is to   *)
(* be passed over.                                                         *)
WithoutCopy(d) ==
  LET o == Opposite(d) IN
  IF Lookup(o) \subseteq deleted /\ o \notin Flaky THEN {}
  ELSE {f \in Lookup(d) : \A g \in Lookup(o) \ deleted : ~OneClass({f, g})}

Exposed ==
  IF pc = "jobs" /\ pc' = "dispose" /\ job'.kind = "tree" THEN WithoutCopy(job'.dir) ELSE {}

HInit == Init /\ wanted = {} /\ exposed = {}

HNext == Next /\ wanted' = wanted \cup Answered /\ exposed' = exposed \cup Exposed

HSpec == HInit /\ [][HNext]_<<vars, histVars>>

-----------------------------------------------------------------------------
(* Without --headless nothing goes that no answer spoke of, whatever was   *)
(* answered before: the "a" of a file-by-file review ends with its block   *)
(* (resolveOverlapFileByFile: "scoped to THIS block").                     *)
OnlyOnRequest == ~cfg.headless => deleted \subseteq wanted

(* A content only loses its last copy to a tree action that came upon a    *)
(* broken pair: when its loop began the other side had already lost its    *)
(* copies, and was not found to be gone as a whole, because other files of *)
(* it were left or because its query failed.  Groups and blocks never take *)
(* a last copy, nor does a tree whose twin is in place, however the other  *)
(* actions reach into both (reresolveAction, deleteTree).                  *)
LossNeedsBrokenPair == \A c \in Class : c \subseteq deleted => c \cap exposed # {}

(* A and B hold copies of each other's files and no file in common: what   *)
(* ConfirmedAreTwins (TreeDup.tla) gives of the sides of a pair that is    *)
(* not nested.                                                             *)
TwinSides(A, B) ==
  /\ A \cap B = {}
  /\ \A f \in A : \E g \in B : OneClass({f, g})
  /\ \A f \in B : \E g \in A : OneClass({f, g})

TreesAreTwins ==
  \A q \in DOMAIN Queue :
    Queue[q].kind = "tree" => TwinSides(Lookup(Queue[q].a), Lookup(Queue[q].b))
=============================================================================
