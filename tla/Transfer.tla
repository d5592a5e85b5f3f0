------------------------------ MODULE Transfer ------------------------------
(***************************************************************************)
(* The copy subcommand (copy.go): a pool of workers copies the files of a  *)
(* tree chunk by chunk onto a store that may damage what it is given,      *)
(* reads back the last chunk or all of them, and leaves beside each copy a *)
(* sidecar that later runs trust as long as size and mtime agree.  Any     *)
(* step may fail, the process may be killed and started again, and the     *)
(* source files change meanwhile.  All versions of a file have one size,   *)
(* Chunks; source and target are different files.                          *)
(***************************************************************************)
EXTENDS Naturals, Sequences, FiniteSets

CONSTANTS
  File,
  Worker,
  Chunks,   \* chunks per file
  StampOf,  \* StampOf[f]: the mtimes of the versions f goes through
  MaxRuns   \* how often the command is run

ASSUME TransferAssumption ==
  /\ Chunks \in Nat \ {0} /\ MaxRuns \in Nat \ {0}
  /\ IsFiniteSet(Worker) /\ Worker # {}
  /\ StampOf \in [File -> Seq(Nat \ {0})] /\ \A f \in File : StampOf[f] # <<>>

Damaged == 0  \* what is stored of a damaged chunk
Now == 0      \* the mtime of a file just written, no version's

VARIABLES
  full,    \* --verify-full
  version, \* the version each source file is at
  target,  \* the copies: chunks stored and mtime
  sidecar, \* their sidecars: hashes of the chunks and the mtime
  run, phase,
  unsent,  \* files the walk has not come to
  held,    \* the file it came to and has not sent, if there is one
  jobs,    \* the channel
  task,    \* what each worker does
  failed,  \* an error was recorded in this run
  unproven, \* files whose copy was left although its verification was cut off or failed
  own      \* files whose sidecar is of the copy beside it

vars == <<full, version, target, sidecar, run, phase, unsent, held, jobs, task, failed, unproven, own>>
tree == <<full, version, run, phase>>
channel == <<unsent, held, jobs>>

NoCopy == [there |-> FALSE, data |-> <<>>, mtime |-> Now]
NoSidecar == [there |-> FALSE, md5 |-> <<>>, mtime |-> Now]

(* hashes: of the chunks read so far; next: the chunk to read back.        *)
Idle == [step |-> "idle", hashes |-> <<>>, mtime |-> Now, next |-> 1]
Gone == [step |-> "gone", hashes |-> <<>>, mtime |-> Now, next |-> 1]
Doing(f, step, hashes, mtime, next) ==
  [file |-> f, step |-> step, hashes |-> hashes, mtime |-> mtime, next |-> next]

Copy == [there : BOOLEAN, data : Seq(Nat), mtime : Nat]
Sidecar == [there : BOOLEAN, md5 : Seq(Nat), mtime : Nat]
Task == {Idle, Gone} \cup
  [file : File, step : {"open", "copy", "verify", "sidecar", "fill"},
   hashes : Seq(Nat), mtime : Nat, next : 1 .. Chunks]

At(w, step) == task[w].step = step
Set(w, t) == task' = [task EXCEPT ![w] = t]
Become(w, step) == Set(w, [task[w] EXCEPT !.step = step])

-----------------------------------------------------------------------------
Init ==
  /\ full \in BOOLEAN
  /\ version = [f \in File |-> 1]
  /\ target = [f \in File |-> NoCopy] /\ sidecar = [f \in File |-> NoSidecar]
  /\ run = 1 /\ phase = "copy"
  /\ unsent = File /\ held = {} /\ jobs = <<>>
  /\ task = [w \in Worker |-> Idle]
  /\ failed = FALSE /\ unproven = {} /\ own = {}

(* The walk comes to a file.                                               *)
Visit(f) ==
  /\ phase = "copy" /\ f \in unsent /\ held = {}
  /\ unsent' = unsent \ {f} /\ held' = {f}
  /\ UNCHANGED <<tree, jobs, target, sidecar, task, failed, unproven, own>>

(* It blocks while the channel, 2 * transfers long, is full.               *)
Send(f) ==
  /\ f \in held /\ Len(jobs) < 2 * Cardinality(Worker)
  /\ held' = held \ {f} /\ jobs' = Append(jobs, f)
  /\ UNCHANGED <<tree, unsent, target, sidecar, task, failed, unproven, own>>

(* An error met between two files ends the walk; what was sent is copied.  *)
WalkFails ==
  /\ phase = "copy" /\ unsent # {} /\ held = {}
  /\ unsent' = {} /\ failed' = TRUE
  /\ UNCHANGED <<tree, held, target, sidecar, jobs, task, unproven, own>>

(* close(jobs), as soon as the walk is over.                               *)
Closed == phase = "copy" /\ unsent = {} /\ held = {}

Receive(w) ==
  /\ At(w, "idle") /\ jobs # <<>>
  /\ Set(w, Doing(Head(jobs), "open", <<>>, Now, 1))
  /\ jobs' = Tail(jobs)
  /\ UNCHANGED <<tree, unsent, held, target, sidecar, failed, unproven, own>>

(* The channel is closed and drained: the worker returns, deferring        *)
(* wg.Done.                                                                *)
Quit(w) ==
  /\ At(w, "idle") /\ Closed /\ jobs = <<>>
  /\ Set(w, Gone)
  /\ UNCHANGED <<tree, channel, target, sidecar, failed, unproven, own>>

(* Mutant of Done: the worker that meets an error returns, as Quit does.   *)
Leave(w, ok) ==
  /\ Set(w, IF ok THEN Idle ELSE Gone)
  /\ failed' = (failed \/ ~ok)

(* copyFileWithMetadata returns; the worker goes on with the next job.     *)
Done(w, ok) == Set(w, Idle) /\ failed' = (failed \/ ~ok)

(* The source or the target cannot be opened.                              *)
OpenFails(w) ==
  /\ At(w, "open") /\ Done(w, FALSE)
  /\ UNCHANGED <<tree, target, sidecar, channel, unproven, own>>

(* The source's mtime is taken before it is read; Create empties a copy    *)
(* that is there.                                                          *)
Create(w) ==
  /\ At(w, "open")
  /\ LET f == task[w].file IN
     /\ Set(w, Doing(f, "copy", <<>>, StampOf[f][version[f]], 1))
     /\ target' = [target EXCEPT ![f] = [there |-> TRUE, data |-> <<>>, mtime |-> Now]]
  /\ unproven' = unproven \ {task[w].file} /\ own' = own \ {task[w].file}
  /\ UNCHANGED <<tree, sidecar, channel, failed>>

(* A chunk of the source as it is now; its hash is taken of what was read. *)
CopyChunk(w) ==
  /\ At(w, "copy") /\ Len(task[w].hashes) < Chunks
  /\ LET f == task[w].file IN
     /\ Set(w, [task[w] EXCEPT !.hashes = Append(@, version[f])])
     /\ \E stored \in {version[f], Damaged} :
          target' = [target EXCEPT ![f].data = Append(@, stored)]
  /\ UNCHANGED <<tree, sidecar, channel, failed, unproven, own>>

(* os.Remove, whose error is let pass.                                     *)
TryRemove(f) ==
  \E left \in {NoCopy, target[f]} : target' = [target EXCEPT ![f] = left]

(* Reading, writing or closing fails.                                      *)
CopyFails(w) ==
  /\ At(w, "copy") /\ TryRemove(task[w].file) /\ Done(w, FALSE)
  /\ UNCHANGED <<tree, sidecar, channel, unproven, own>>

(* Mutant of FirstToCheck: the last chunk is enough.                       *)
LastOnly == Chunks

(* Another: the last chunk is number len(chunkMD5).                        *)
OnePast == IF full THEN 1 ELSE Chunks + 1

FirstToCheck == IF full THEN 1 ELSE Chunks

(* Close, and Chtimes, whose failure is let pass.                          *)
Close(w) ==
  /\ At(w, "copy") /\ Len(task[w].hashes) = Chunks
  /\ \E mtime \in {task[w].mtime, Now} :
       target' = [target EXCEPT ![task[w].file].mtime = mtime]
  /\ Set(w, [task[w] EXCEPT !.step = "verify", !.next = FirstToCheck])
  /\ UNCHANGED <<tree, sidecar, channel, failed, unproven, own>>

Intact(w) == target[task[w].file].data[task[w].next] = task[w].hashes[task[w].next]

VerifyChunk(w) ==
  /\ At(w, "verify") /\ Intact(w)
  /\ IF task[w].next = Chunks THEN Become(w, "sidecar")
     ELSE Set(w, [task[w] EXCEPT !.next = @ + 1])
  /\ UNCHANGED <<tree, target, sidecar, channel, failed, unproven, own>>

(* A chunk differs or cannot be read.  An old sidecar stays, and so does   *)
(* the copy if it cannot be removed.                                       *)
VerifyFails(w) ==
  /\ At(w, "verify") /\ TryRemove(task[w].file) /\ Done(w, FALSE)
  /\ unproven' = unproven \cup {f \in {task[w].file} : target'[f].there}
  /\ UNCHANGED <<tree, sidecar, channel, own>>

(* os.WriteFile empties the sidecar, then fills it, and may fail at both;  *)
(* the copy stays.                                                         *)
EmptySidecar(w) ==
  /\ At(w, "sidecar") /\ Become(w, "fill")
  /\ sidecar' = [sidecar EXCEPT ![task[w].file] = NoSidecar]
  /\ UNCHANGED <<tree, target, channel, failed, unproven, own>>

FillSidecar(w) ==
  /\ At(w, "fill") /\ Done(w, TRUE)
  /\ sidecar' = [sidecar EXCEPT ![task[w].file] =
       [there |-> TRUE, md5 |-> task[w].hashes, mtime |-> task[w].mtime]]
  /\ own' = own \cup {task[w].file}
  /\ UNCHANGED <<tree, target, channel, unproven>>

SidecarFails(w) ==
  /\ At(w, "sidecar") \/ At(w, "fill")
  /\ Done(w, FALSE)
  /\ UNCHANGED <<tree, target, sidecar, channel, unproven, own>>

(* Mutant of EndOfRun: without wg.Wait.                                    *)
EndWithTheWalk ==
  /\ Closed /\ jobs = <<>>
  /\ phase' = "ended"
  /\ UNCHANGED <<full, version, target, sidecar, run, channel, task, failed, unproven, own>>

(* wg.Wait, for every worker's wg.Done, and the end of the command.        *)
EndOfRun ==
  /\ Closed /\ \A w \in Worker : At(w, "gone")
  /\ phase' = "ended"
  /\ UNCHANGED <<full, version, target, sidecar, run, channel, task, failed, unproven, own>>

Kill ==
  /\ phase = "copy"
  /\ phase' = "killed"
  /\ unsent' = {} /\ held' = {} /\ jobs' = <<>> /\ task' = [w \in Worker |-> Idle]
  /\ unproven' = unproven \cup {task[w].file : w \in {w \in Worker : At(w, "verify")}}
  /\ UNCHANGED <<full, version, target, sidecar, run, failed, own>>

(* The command is run again, over what is there.                           *)
Retry ==
  /\ phase # "copy" /\ run < MaxRuns
  /\ run' = run + 1 /\ phase' = "copy"
  /\ unsent' = File /\ failed' = FALSE /\ task' = [w \in Worker |-> Idle]
  /\ UNCHANGED <<full, version, target, sidecar, held, jobs, unproven, own>>

(* Another program writes a source file.                                   *)
Write(f) ==
  /\ version[f] < Len(StampOf[f])
  /\ version' = [version EXCEPT ![f] = @ + 1]
  /\ UNCHANGED <<full, target, sidecar, run, phase, channel, task, failed, unproven, own>>

WorkerStep(w) ==
  \/ Receive(w)
  \/ Quit(w)
  \/ OpenFails(w)
  \/ Create(w)
  \/ CopyChunk(w)
  \/ CopyFails(w)
  \/ Close(w)
  \/ VerifyChunk(w)
  \/ VerifyFails(w)
  \/ EmptySidecar(w)
  \/ FillSidecar(w)
  \/ SidecarFails(w)

Walk == (\E f \in File : Visit(f) \/ Send(f)) \/ WalkFails

Next ==
  \/ Walk
  \/ \E w \in Worker : WorkerStep(w)
  \/ EndOfRun
  \/ Kill
  \/ Retry
  \/ \E f \in File : Write(f)

Spec == Init /\ [][Next]_vars

-----------------------------------------------------------------------------
TypeOK ==
  /\ full \in BOOLEAN /\ failed \in BOOLEAN
  /\ version \in [File -> Nat] /\ \A f \in File : version[f] \in DOMAIN StampOf[f]
  /\ target \in [File -> Copy] /\ sidecar \in [File -> Sidecar]
  /\ run \in 1 .. MaxRuns /\ phase \in {"copy", "ended", "killed"}
  /\ unsent \subseteq File /\ held \subseteq File
  /\ jobs \in Seq(File) /\ Len(jobs) <= 2 * Cardinality(Worker)
  /\ task \in [Worker -> Task]
  /\ unproven \subseteq File /\ own \subseteq File

(* sidecarMD5 would answer for the copy as it lies there.                  *)
Trusted(f) ==
  /\ target[f].there /\ sidecar[f].there
  /\ Len(target[f].data) = Chunks /\ target[f].mtime = sidecar[f].mtime

(* As far as the flags had it checked, the copy is what its sidecar says.  *)
SidecarIsTrue(f) ==
  \A k \in (IF full THEN 1 ELSE Chunks) .. Chunks : target[f].data[k] = sidecar[f].md5[k]

(* The mtime is set before the copy is read back: while that goes on, and  *)
(* for good if the process is killed then, or if the copy fails it and     *)
(* cannot be removed, the sidecar of an earlier copy passes for one of     *)
(* this copy.                                                              *)
InDoubt(f) == f \in unproven \/ \E w \in Worker : At(w, "verify") /\ task[w].file = f

(* The source was rewritten under the same mtime, or while it was copied.  *)
Rewritten(f) ==
  \/ \E u, v \in DOMAIN StampOf[f] : u # v /\ StampOf[f][u] = StampOf[f][v]
  \/ \E k \in DOMAIN target[f].data :
       target[f].data[k] # Damaged /\ StampOf[f][target[f].data[k]] # target[f].mtime

(* Whatever fails and whenever the process is killed, a sidecar that is    *)
(* trusted is true of the copy beside it, be it its own or one an earlier  *)
(* copy of the same source left; without --verify-full that is certain of  *)
(* the last chunk only.  Two exceptions are named: copies in doubt, and a  *)
(* source rewritten within its mtime.                                      *)
TrustIsDeserved ==
  \A f \in File :
    Trusted(f) /\ (f \in own \/ (~Rewritten(f) /\ ~InDoubt(f))) => SidecarIsTrue(f)

(* A run that ends without an error has copied every file: a whole copy of *)
(* what was read, with a sidecar for it.                                   *)
SuccessIsComplete ==
  phase = "ended" /\ ~failed =>
    \A f \in File :
      /\ target[f].there /\ Len(target[f].data) = Chunks
      /\ sidecar[f].there /\ SidecarIsTrue(f)

(* However many files fail, all workers go on: the walk never waits for    *)
(* room in a channel that some of them left, and when the command ends on  *)
(* its own a worker has taken up every file it was sent (copyPath: "A      *)
(* single file's failure is logged and skipped (not fatal)").              *)
FailuresCostNoWorker ==
  /\ unsent # {} \/ held # {} \/ jobs # <<>> => \A w \in Worker : ~At(w, "gone")
  /\ phase = "ended" => jobs = <<>>
=============================================================================
