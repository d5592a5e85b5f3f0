-------------------------------- MODULE Runs --------------------------------
(***************************************************************************)
(* Whole runs over the same tree, one after the other and at once: each    *)
(* scans into or reads from a store (ScanStore) and, if its flags say so,  *)
(* then disposes of all copies but one (Trash).  File holds the copies of  *)
(* one content.                                                            *)
(***************************************************************************)
EXTENDS ScanStore, Trash

VARIABLES
  todo,   \* the copies each run still has to dispose of
  overlap \* two runs that delete were between scan and end at the same time

vars == <<storeVars, trashVars, todo, overlap>>

Init == StoreInit /\ TrashInit /\ todo = [r \in Run |-> {}] /\ overlap = FALSE

(* A run that deletes and has begun to look at the tree.                   *)
AtWork(r) == opt[r].deletes /\ phase[r] \in {"walk", "serve", "dispose"}

(* Files under the queries' eyes become one group, of which a copy stays.  *)
Decide(r) ==
  /\ phase[r] = "serve" /\ opt[r].deletes
  /\ Become(r, "dispose")
  /\ \E s \in Views(r) : \E keep \in rows[s] : todo' = [todo EXCEPT ![r] = rows[s] \ {keep}]
  /\ UNCHANGED <<opt, pid, sweep, doomed, at, rows, left, indexes, handle, shared, recycled, overlap>>
  /\ UNCHANGED trashVars

Disposing(r) == phase[r] = "dispose" /\ At(r, "idle")

DisposeByUnlink(r, f) ==
  /\ Disposing(r) /\ f \in todo[r] /\ ~opt[r].trash
  /\ Unlink(f)
  /\ todo' = [todo EXCEPT ![r] = @ \ {f}]
  /\ UNCHANGED <<storeVars, overlap>>

DisposeByTrash(r, f) ==
  /\ Disposing(r) /\ f \in todo[r] /\ opt[r].trash
  /\ BeginTrash(r, f)
  /\ todo' = [todo EXCEPT ![r] = @ \ {f}]
  /\ UNCHANGED <<storeVars, overlap>>

EndOfRun(r) ==
  /\ Disposing(r) /\ todo[r] = {}
  /\ Close(r) /\ Become(r, "over")
  /\ UNCHANGED <<opt, pid, sweep, doomed, rows, left, indexes, handle, shared, recycled>>
  /\ UNCHANGED <<trashVars, todo, overlap>>

(* Creating the store is the last step before the walk.                    *)
BeginWalk(r) ==
  /\ CreateTable(r)
  /\ overlap' = (overlap \/ (opt[r].deletes /\ \E q \in Run \ {r} : AtWork(q)))
  /\ UNCHANGED <<trashVars, todo>>

Kill(r) ==
  /\ KillRun(r) /\ LetGo(r)
  /\ todo' = [todo EXCEPT ![r] = {}]
  /\ UNCHANGED overlap

rest == <<trashVars, todo, overlap>>
others == <<storeVars, todo, overlap>>

Next ==
  \E r \in Run :
    \/ Start(r) /\ UNCHANGED rest
    \/ \E p \in Pid : LookAt(r, p) /\ UNCHANGED rest
    \/ RemoveStale(r) /\ UNCHANGED rest
    \/ Stat(r) /\ UNCHANGED rest
    \/ OpenFileStore(r) /\ UNCHANGED rest
    \/ RemovePrior(r) /\ UNCHANGED rest
    \/ BeginWalk(r)
    \/ \E f \in File : Visit(r, f, place) /\ UNCHANGED rest
    \/ CreateIndex(r) /\ UNCHANGED rest
    \/ Exit(r) /\ UNCHANGED rest
    \/ Decide(r)
    \/ \E f \in File : DisposeByUnlink(r, f)
    \/ \E f \in File : DisposeByTrash(r, f)
    \/ NextName(r) /\ UNCHANGED others
    \/ ChooseName(r) /\ UNCHANGED others
    \/ WriteRecord(r) /\ UNCHANGED others
    \/ RecordFails(r) /\ UNCHANGED others
    \/ Move(r) /\ UNCHANGED others
    \/ MoveFails(r) /\ UNCHANGED others
    \/ EndOfRun(r)
    \/ Kill(r)

Spec == Init /\ [][Next]_vars

-----------------------------------------------------------------------------
TypeOK ==
  /\ StoreTypeOK /\ TrashTypeOK
  /\ todo \in [Run -> SUBSET File] /\ overlap \in BOOLEAN

(* Runs one after the other, or beside runs that only report, never take   *)
(* the last copy between them: each decides on what it has scanned itself, *)
(* never on the inventory of an earlier run.  Two deleting runs at once    *)
(* are all that can.                                                       *)
LastCopyStays == overlap \/ place # {}
=============================================================================
