----------------------------- MODULE ScanStore -----------------------------
(***************************************************************************)
(* The SQLite file a run scans into (filestore.go, main.go run).  Without  *)
(* --scan-store it is dup-detector-scan-<pid>.db and is removed at the     *)
(* end; with it the file stays and later runs report from it instead of    *)
(* walking the tree.  A run first sweeps the stores whose process is gone. *)
(* Runs overlap, fail and are killed.                                      *)
(*                                                                         *)
(* A run creates at most one store, so its name is the identity of that    *)
(* store, and what a path leads to is a run; a store whose path was        *)
(* removed goes on being read and written by those who have it open.       *)
(***************************************************************************)
EXTENDS Copies, Naturals

CONSTANTS
  Pid,
  Path,    \* paths of stores
  Scratch, \* the path of the store a process makes without --scan-store
  NoPath, NoRun,
  Options  \* the flags runs are started with

Option == [inventory : Path \cup {NoPath}, \* --scan-store
           deletes : BOOLEAN,              \* neither --no-interactive nor --dry-run
           trash : BOOLEAN]

ASSUME StoreAssumption ==
  /\ Scratch \in [Pid -> Path]
  /\ \A p, q \in Pid : Scratch[p] = Scratch[q] => p = q
  /\ NoPath \notin Path /\ NoRun \notin Run
  /\ Options \subseteq Option

VARIABLES
  opt,     \* the flags of each run
  pid,     \* its process number, which a later run may get again
  phase,   \* where it stands
  sweep,   \* stores it found in the directory and has not looked at yet
  doomed,  \* the store it found stale and is about to remove
  at,      \* the store each path leads to
  rows,    \* the files in each store
  left,    \* those its run has not visited yet
  indexes, \* how many of its two indexes are built
  handle,  \* the store a run reads
  shared,  \* runs that were alive together with another one of the same path
  recycled \* runs that began when another one was about to remove their path

storeVars ==
  <<opt, pid, phase, sweep, doomed, at, rows, left, indexes, handle, shared, recycled>>

Phase == {"new", "sweep", "open", "clear", "create", "walk", "serve", "dispose", "over", "killed"}

StoreInit ==
  /\ opt \in [Run -> Options] /\ pid \in [Run -> Pid]
  /\ phase = [r \in Run |-> "new"]
  /\ sweep = [r \in Run |-> {}] /\ doomed = [r \in Run |-> NoPath]
  /\ at = [p \in Path |-> NoRun]
  /\ rows = [r \in Run |-> {}] /\ left = [r \in Run |-> File]
  /\ indexes = [r \in Run |-> 0]
  /\ handle = [r \in Run |-> NoRun]
  /\ shared = {} /\ recycled = {}

PathOf(r) == IF opt[r].inventory = NoPath THEN Scratch[pid[r]] ELSE opt[r].inventory

Live(r) == phase[r] \notin {"new", "over", "killed"}

(* processAlive: /proc/<pid> is there.                                     *)
ProcessAlive(p) == \E r \in Run : Live(r) /\ pid[r] = p

Become(r, ph) == phase' = [phase EXCEPT ![r] = ph]

-----------------------------------------------------------------------------
(* The process starts and lists the stores in the directory, all but its   *)
(* own.  A process number is not given out while it is in use, but it may  *)
(* be between another run's look at it and the removal of its old store.   *)
Start(r) ==
  /\ phase[r] = "new" /\ ~ProcessAlive(pid[r])
  /\ Become(r, "sweep")
  /\ sweep' = [sweep EXCEPT ![r] = {Scratch[p] : p \in {p \in Pid :
                 at[Scratch[p]] # NoRun /\ Scratch[p] # PathOf(r)}}]
  /\ LET mates == {q \in Run : Live(q) /\ PathOf(q) = PathOf(r)} IN
     shared' = IF mates = {} THEN shared ELSE shared \cup mates \cup {r}
  /\ recycled' = IF \E q \in Run : doomed[q] = PathOf(r) THEN recycled \cup {r} ELSE recycled
  /\ UNCHANGED <<opt, pid, doomed, at, rows, left, indexes, handle>>

(* Mutant of Stale: nobody asks whether the process lives.                 *)
AnyOwner(p) == TRUE

Stale(p) == ~ProcessAlive(p)

(* One store of the list: its process is alive, or it is to go.            *)
LookAt(r, p) ==
  /\ phase[r] = "sweep" /\ doomed[r] = NoPath /\ Scratch[p] \in sweep[r]
  /\ sweep' = [sweep EXCEPT ![r] = @ \ {Scratch[p]}]
  /\ doomed' = IF Stale(p) THEN [doomed EXCEPT ![r] = Scratch[p]] ELSE doomed
  /\ UNCHANGED <<opt, pid, phase, at, rows, left, indexes, handle, shared, recycled>>

RemoveStale(r) ==
  /\ phase[r] = "sweep" /\ doomed[r] # NoPath
  /\ at' = [at EXCEPT ![doomed[r]] = NoRun]
  /\ doomed' = [doomed EXCEPT ![r] = NoPath]
  /\ UNCHANGED <<opt, pid, phase, sweep, rows, left, indexes, handle, shared, recycled>>

(* Mutant of MayReport: an old inventory is good enough for any run.       *)
AnyRun(r) == TRUE

(* Only a run that deletes nothing may use an inventory of an earlier one. *)
MayReport(r) == ~opt[r].deletes

(* os.Stat of the inventory.                                               *)
Stat(r) ==
  /\ phase[r] = "sweep" /\ sweep[r] = {} /\ doomed[r] = NoPath
  /\ IF opt[r].inventory # NoPath /\ at[PathOf(r)] # NoRun
     THEN Become(r, IF MayReport(r) THEN "open" ELSE "over")
     ELSE Become(r, "clear")
  /\ UNCHANGED <<opt, pid, sweep, doomed, at, rows, left, indexes, handle, shared, recycled>>

(* Mutant of Usable: any SQLite file with the table will do.               *)
HasTable(s) == s # NoRun

Usable(s) == s # NoRun /\ indexes[s] = 2

OpenFileStore(r) ==
  /\ phase[r] = "open"
  /\ IF Usable(at[PathOf(r)])
     THEN Become(r, "serve") /\ handle' = [handle EXCEPT ![r] = at[PathOf(r)]]
     ELSE Become(r, "over") /\ UNCHANGED handle
  /\ UNCHANGED <<opt, pid, sweep, doomed, at, rows, left, indexes, shared, recycled>>

(* NewFileStore removes what is there and creates the table.               *)
RemovePrior(r) ==
  /\ phase[r] = "clear"
  /\ at' = [at EXCEPT ![PathOf(r)] = NoRun]
  /\ Become(r, "create")
  /\ UNCHANGED <<opt, pid, sweep, doomed, rows, left, indexes, handle, shared, recycled>>

(* Another run's table of the same path makes it fail.                     *)
CreateTable(r) ==
  /\ phase[r] = "create"
  /\ IF at[PathOf(r)] = NoRun
     THEN /\ at' = [at EXCEPT ![PathOf(r)] = r]
          /\ handle' = [handle EXCEPT ![r] = r]
          /\ Become(r, "walk")
     ELSE Become(r, "over") /\ UNCHANGED <<at, handle>>
  /\ UNCHANGED <<opt, pid, sweep, doomed, rows, left, indexes, shared, recycled>>

(* The walk comes to a file of the tree as it is now.  fsBatch, the rows   *)
(* between two commits, is 1.                                              *)
Visit(r, f, present) ==
  /\ phase[r] = "walk" /\ f \in left[r]
  /\ left' = [left EXCEPT ![r] = @ \ {f}]
  /\ rows' = [rows EXCEPT ![r] = @ \cup ({f} \cap present)]
  /\ UNCHANGED <<opt, pid, phase, sweep, doomed, at, indexes, handle, shared, recycled>>

(* Mutant of CreateIndex: Finalize is called again on a finished store.    *)
CreateIndexAgain(r) ==
  /\ phase[r] \in {"walk", "serve"} /\ left[r] = {}
  /\ indexes' = [indexes EXCEPT ![r] = @ + 1]
  /\ Become(r, IF indexes[r] = 0 THEN "walk" ELSE "serve")
  /\ UNCHANGED <<opt, pid, sweep, doomed, at, rows, left, handle, shared, recycled>>

(* Finalize, an index at a time.                                           *)
CreateIndex(r) ==
  /\ phase[r] = "walk" /\ left[r] = {}
  /\ indexes' = [indexes EXCEPT ![r] = @ + 1]
  /\ Become(r, IF indexes[r] = 0 THEN "walk" ELSE "serve")
  /\ UNCHANGED <<opt, pid, sweep, doomed, at, rows, left, handle, shared, recycled>>

(* What a query may read: the store that was opened or, over a connection  *)
(* the pool opens later, what the path leads to by then.                   *)
Views(r) == {handle[r], at[PathOf(r)]} \ {NoRun}

(* Close, which removes a store that is not to be kept by its path.        *)
Close(r) ==
  at' = IF opt[r].inventory = NoPath THEN [at EXCEPT ![PathOf(r)] = NoRun] ELSE at

(* The run ends: the walk, an index or a query fails, or all is said.      *)
Exit(r) ==
  /\ phase[r] \in {"walk", "serve"}
  /\ Close(r) /\ Become(r, "over")
  /\ UNCHANGED <<opt, pid, sweep, doomed, rows, left, indexes, handle, shared, recycled>>

KillRun(r) ==
  /\ Live(r)
  /\ Become(r, "killed")
  /\ sweep' = [sweep EXCEPT ![r] = {}] /\ doomed' = [doomed EXCEPT ![r] = NoPath]
  /\ UNCHANGED <<opt, pid, at, rows, left, indexes, handle, shared, recycled>>

-----------------------------------------------------------------------------
StoreTypeOK ==
  /\ opt \in [Run -> Options] /\ pid \in [Run -> Pid]
  /\ phase \in [Run -> Phase]
  /\ sweep \in [Run -> SUBSET Path] /\ doomed \in [Run -> Path \cup {NoPath}]
  /\ at \in [Path -> Run \cup {NoRun}]
  /\ rows \in [Run -> SUBSET File] /\ left \in [Run -> SUBSET File]
  /\ indexes \in [Run -> 0..2]
  /\ handle \in [Run -> Run \cup {NoRun}]
  /\ shared \subseteq Run /\ recycled \subseteq Run

(* A run that has a store open, its own or an inventory.                   *)
HasStore(r) == phase[r] \in {"walk", "serve", "dispose"}

(* Its path looks like the store of another process: the user named an     *)
(* inventory so.                                                           *)
Borrowed(r) == PathOf(r) \in {Scratch[p] : p \in Pid \ {pid[r]}}

(* As long as a run has a store open its path leads to that store, so that *)
(* connections opened late read the same rows: it is not taken away by the *)
(* sweep of a run that starts, nor by one that gets an old process number  *)
(* again.  Two exceptions are the user's: overlapping runs with the same   *)
(* --scan-store, an inventory named like another process's store.  One is  *)
(* the code's: a process that gets its number between a sweep's look at    *)
(* /proc and the removal loses the store it makes in the meantime.         *)
StoreStaysPut ==
  \A r \in Run :
    HasStore(r) /\ r \notin shared \cup recycled /\ ~Borrowed(r) => at[PathOf(r)] = handle[r]

(* What a run reports from was walked to the end, over every connection    *)
(* its queries may get: an inventory whose run failed or was killed on the *)
(* way is refused, however it got there, and no store in the making comes  *)
(* to lie at the path later.  Only beside a run of the same path may a     *)
(* late connection read such a store.                                      *)
ServesFinished ==
  \A r \in Run : phase[r] \in {"serve", "dispose"} =>
    /\ left[handle[r]] = {}
    /\ r \notin shared => \A s \in Views(r) : left[s] = {}
=============================================================================
