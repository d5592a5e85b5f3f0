--------------------------- MODULE TransferProofs ---------------------------
(***************************************************************************)
(* For any number of files, workers, chunks, versions and runs: a sidecar  *)
(* that is trusted is true, and a run that ends without an error has       *)
(* copied every file.                                                      *)
(***************************************************************************)
EXTENDS Transfer, FiniteSetTheorems, TLAPS

Busy(w) == ~At(w, "idle") /\ ~At(w, "gone")
OnFile(w, f) == Busy(w) /\ task[w].file = f
InJobs(f) == \E k \in DOMAIN jobs : jobs[k] = f

(* A file is with the walk, in the channel, with one worker, or done with, *)
(* and no worker returns before the channel is closed and empty.           *)
InOneHand ==
  /\ \A w, v \in Worker : Busy(w) /\ Busy(v) /\ task[w].file = task[v].file => w = v
  /\ \A w \in Worker : Busy(w) =>
       task[w].file \notin unsent /\ task[w].file \notin held /\ ~InJobs(task[w].file)
  /\ \A k \in DOMAIN jobs : jobs[k] \notin unsent /\ jobs[k] \notin held
  /\ \A j, k \in DOMAIN jobs : jobs[j] = jobs[k] => j = k
  /\ \A f \in held : f \notin unsent
  /\ \A w \in Worker : At(w, "gone") => unsent = {} /\ held = {} /\ jobs = <<>>
  /\ phase # "copy" => unsent = {} /\ held = {} /\ jobs = <<>> /\ \A w \in Worker : ~Busy(w)

(* As long as nothing went wrong, what is done with has its own sidecar.   *)
DoneIsOwn ==
  ~failed /\ phase # "killed" =>
    \A f \in File :
      f \in unsent \/ f \in held \/ InJobs(f) \/ f \in own \/ \E w \in Worker : OnFile(w, f)

(* A copy that a worker ended, or lost, after having checked it.           *)
Settled(f) ==
  /\ target[f].there /\ target[f].mtime # Now /\ f \notin own /\ ~InDoubt(f)

(* Version v is no older than what the sidecar of f was made of.           *)
NoOlder(f, v) ==
  sidecar[f].there => \A k \in 1 .. Chunks : sidecar[f].md5[k] <= v

(* m is the mtime of such a version.                                       *)
Stamped(f, m) == \E v \in 1 .. version[f] : StampOf[f][v] = m /\ NoOlder(f, v)

FileInv(f) ==
  /\ f \in own =>
       /\ target[f].there /\ Len(target[f].data) = Chunks
       /\ sidecar[f].there /\ SidecarIsTrue(f)
  /\ \A k \in DOMAIN target[f].data : target[f].data[k] <= version[f]
  /\ sidecar[f].there =>
       /\ Len(sidecar[f].md5) = Chunks
       /\ \E v \in 1 .. version[f] :
            /\ StampOf[f][v] = sidecar[f].mtime
            /\ \A k \in 1 .. Chunks : sidecar[f].md5[k] \in v .. version[f]
  /\ target[f].there /\ target[f].mtime # Now /\ f \notin own => Stamped(f, target[f].mtime)
  /\ Settled(f) =>
       Len(target[f].data) = Chunks
       /\ \A k \in FirstToCheck .. Chunks : target[f].data[k] # Damaged

(* What a worker knows of the file it copies.                              *)
Copying(w, f) ==
  /\ f \notin own /\ f \notin unproven /\ target[f].there
  /\ Len(target[f].data) = Len(task[w].hashes)
  /\ \E v \in 1 .. version[f] :
       /\ StampOf[f][v] = task[w].mtime /\ NoOlder(f, v)
       /\ \A k \in DOMAIN task[w].hashes : task[w].hashes[k] \in v .. version[f]

TaskInv(w) ==
  LET f == task[w].file IN
  /\ At(w, "copy") => Copying(w, f) /\ Len(task[w].hashes) <= Chunks /\ target[f].mtime = Now
  /\ At(w, "verify") =>
       /\ Copying(w, f) /\ Len(task[w].hashes) = Chunks
       /\ target[f].mtime \in {task[w].mtime, Now}
       /\ task[w].next >= FirstToCheck
       /\ \A k \in FirstToCheck .. task[w].next - 1 : target[f].data[k] = task[w].hashes[k]
  /\ At(w, "sidecar") \/ At(w, "fill") =>
       /\ Copying(w, f) /\ Len(task[w].hashes) = Chunks
       /\ target[f].mtime \in {task[w].mtime, Now}
       /\ \A k \in FirstToCheck .. Chunks : target[f].data[k] = task[w].hashes[k]
  /\ At(w, "fill") => ~sidecar[f].there

TransferInv ==
  /\ TypeOK /\ InOneHand /\ DoneIsOwn
  /\ \A f \in File : FileInv(f)
  /\ \A w \in Worker : TaskInv(w)

-----------------------------------------------------------------------------
LEMMA Checks == ASSUME TypeOK PROVE FirstToCheck \in 1 .. Chunks
BY TransferAssumption DEF TypeOK, FirstToCheck

LEMMA TaskFields ==
  ASSUME TypeOK, NEW w \in Worker, Busy(w)
  PROVE  /\ task[w] \in [file : File, step : {"open", "copy", "verify", "sidecar", "fill"},
                         hashes : Seq(Nat), mtime : Nat, next : 1 .. Chunks]
         /\ task[w].file \in File /\ task[w].hashes \in Seq(Nat)
         /\ task[w].mtime \in Nat /\ task[w].next \in 1 .. Chunks
<1>1. task[w] \in Task /\ task[w] # Idle /\ task[w] # Gone
  BY DEF TypeOK, Busy, At, Idle, Gone
<1> QED  BY <1>1 DEF Task

LEMMA CopyFields ==
  ASSUME TypeOK, NEW f \in File
  PROVE  /\ target[f].there \in BOOLEAN /\ target[f].data \in Seq(Nat) /\ target[f].mtime \in Nat
         /\ sidecar[f].there \in BOOLEAN /\ sidecar[f].md5 \in Seq(Nat) /\ sidecar[f].mtime \in Nat
         /\ version[f] \in DOMAIN StampOf[f] /\ version[f] \in Nat /\ version[f] >= 1
         /\ \A v \in 1 .. version[f] : v \in DOMAIN StampOf[f] /\ StampOf[f][v] \in Nat \ {0}
<1>1. target[f] \in Copy /\ sidecar[f] \in Sidecar  BY DEF TypeOK
<1>2. StampOf[f] \in Seq(Nat \ {0}) /\ version[f] \in DOMAIN StampOf[f]
  BY TransferAssumption DEF TypeOK
<1> QED  BY <1>1, <1>2 DEF Copy, Sidecar

(* Other files stay as they were, or were merely written.                  *)
LEMMA FileFrame ==
  ASSUME TypeOK, NEW g \in File, FileInv(g),
         target'[g] = target[g], sidecar'[g] = sidecar[g], (g \in own') <=> (g \in own),
         version'[g] \in Nat, version[g] <= version'[g], full' = full,
         InDoubt(g) => InDoubt(g)'
  PROVE  FileInv(g)'
<1>1. version[g] \in Nat /\ target[g].data \in Seq(Nat) /\ sidecar[g].md5 \in Seq(Nat)
  BY CopyFields
<1>2. FirstToCheck' = FirstToCheck  BY DEF FirstToCheck
<1>3. SidecarIsTrue(g)' <=> SidecarIsTrue(g)  BY DEF SidecarIsTrue
<1>4. Settled(g)' => Settled(g)  BY DEF Settled
<1>5. \A v : NoOlder(g, v)' <=> NoOlder(g, v)  BY DEF NoOlder
<1>6. \A m : Stamped(g, m) => Stamped(g, m)'  BY <1>1, <1>5 DEF Stamped
<1>7. \A k \in DOMAIN target[g].data : target[g].data[k] <= version'[g]
  BY <1>1 DEF FileInv
<1>8. sidecar[g].there =>
        /\ Len(sidecar[g].md5) = Chunks
        /\ \E v \in 1 .. version'[g] :
             /\ StampOf[g][v] = sidecar[g].mtime
             /\ \A k \in 1 .. Chunks : sidecar[g].md5[k] \in v .. version'[g]
  <2>1. SUFFICES ASSUME sidecar[g].there
                 PROVE  /\ Len(sidecar[g].md5) = Chunks
                        /\ \E v \in 1 .. version'[g] :
                             /\ StampOf[g][v] = sidecar[g].mtime
                             /\ \A k \in 1 .. Chunks : sidecar[g].md5[k] \in v .. version'[g]
    OBVIOUS
  <2>2. PICK v \in 1 .. version[g] :
          /\ StampOf[g][v] = sidecar[g].mtime
          /\ \A k \in 1 .. Chunks : sidecar[g].md5[k] \in v .. version[g]
    BY <2>1 DEF FileInv
  <2>3. \A k \in 1 .. Chunks : sidecar[g].md5[k] \in v .. version'[g]  BY <1>1, <2>2
  <2>4. v \in 1 .. version'[g]  BY <1>1
  <2> QED  BY <2>1, <2>2, <2>3, <2>4 DEF FileInv
<1> QED  BY <1>2, <1>3, <1>4, <1>6, <1>7, <1>8 DEF FileInv

LEMMA CopyingFrame ==
  ASSUME TypeOK, NEW v \in Worker, NEW f \in File, Busy(v), Copying(v, f),
         task'[v].hashes = task[v].hashes, task'[v].mtime = task[v].mtime,
         target'[f].there = target[f].there, target'[f].data = target[f].data,
         f \notin own', f \notin unproven',
         sidecar'[f].there => sidecar'[f] = sidecar[f],
         version'[f] \in Nat, version[f] <= version'[f]
  PROVE  Copying(v, f)'
<1>1. version[f] \in Nat /\ task[v].hashes \in Seq(Nat)  BY CopyFields, TaskFields
<1>2. PICK u \in 1 .. version[f] :
        /\ StampOf[f][u] = task[v].mtime /\ NoOlder(f, u)
        /\ \A k \in DOMAIN task[v].hashes : task[v].hashes[k] \in u .. version[f]
  BY DEF Copying
<1>3. NoOlder(f, u)'  BY <1>2 DEF NoOlder
<1>4. \A k \in DOMAIN task[v].hashes : task[v].hashes[k] \in u .. version'[f]  BY <1>1, <1>2
<1>5. u \in 1 .. version'[f]  BY <1>1
<1> QED  BY <1>2, <1>3, <1>4, <1>5 DEF Copying

LEMMA TaskFrame ==
  ASSUME TypeOK, NEW v \in Worker, TaskInv(v), task'[v] = task[v], full' = full,
         Busy(v) =>
           LET g == task[v].file IN
           /\ target'[g] = target[g] /\ sidecar'[g] = sidecar[g]
           /\ (g \in own' <=> g \in own) /\ (g \in unproven' <=> g \in unproven)
           /\ version'[g] \in Nat /\ version[g] <= version'[g]
  PROVE  TaskInv(v)'
<1>1. \A step : At(v, step)' <=> At(v, step)  BY DEF At
<1>2. CASE ~Busy(v)  BY <1>1, <1>2 DEF TaskInv, Busy, At
<1>3. CASE Busy(v)
  <2> DEFINE g == task[v].file
  <2>1. g \in File  BY <1>3, TaskFields
  <2>2. Copying(v, g) => Copying(v, g)'
    <3> SUFFICES ASSUME Copying(v, g) PROVE Copying(v, g)'  OBVIOUS
    <3>1. g \notin own' /\ g \notin unproven'  BY <1>3 DEF Copying
    <3> QED  BY <1>3, <2>1, <3>1, CopyingFrame
  <2>3. FirstToCheck' = FirstToCheck  BY DEF FirstToCheck
  <2> QED  BY <1>1, <1>3, <2>2, <2>3 DEF TaskInv
<1> QED  BY <1>2, <1>3

-----------------------------------------------------------------------------
(* A worker goes on with its file: nothing but this file and its task      *)
(* changes, and if it lets go of the file that is done with, or an error   *)
(* is recorded.                                                            *)
LEMMA WorkerFrame ==
  ASSUME TransferInv, NEW w \in Worker, Busy(w), NEW f \in File, f = task[w].file,
         NEW t \in Task, NEW c \in Copy, NEW s \in Sidecar,
         task' = [task EXCEPT ![w] = t],
         t.step = "idle" \/ t.file = f, t.step # "gone",
         target' = [target EXCEPT ![f] = c],
         sidecar' = [sidecar EXCEPT ![f] = s],
         own' \subseteq File, unproven' \subseteq unproven \cup {f}, failed' \in BOOLEAN, failed => failed',
         \A g \in File \ {f} :
           ((g \in own') <=> (g \in own)) /\ ((g \in unproven') <=> (g \in unproven)),
         UNCHANGED <<full, version, run, phase, unsent, held, jobs>>,
         t.step = "idle" => f \in own' \/ failed',
         FileInv(f)', TaskInv(w)'
  PROVE  TransferInv'
<1>0. /\ TypeOK /\ InOneHand /\ DoneIsOwn
      /\ \A g \in File : FileInv(g) /\ version[g] \in Nat
      /\ \A v \in Worker : TaskInv(v)
  BY TaskFields, CopyFields DEF TransferInv
<1>1. /\ task'[w] = t /\ \A v \in Worker \ {w} : task'[v] = task[v]
      /\ \A g \in File \ {f} : target'[g] = target[g] /\ sidecar'[g] = sidecar[g]
  BY <1>0 DEF TypeOK
<1>2. TypeOK'  BY <1>0 DEF TypeOK
<1>3. \A v \in Worker \ {w} : (Busy(v)' <=> Busy(v)) /\ (At(v, "verify")' <=> At(v, "verify"))
        /\ (At(v, "gone")' <=> At(v, "gone"))
  BY <1>1 DEF Busy, At
<1>4. \A v \in Worker \ {w} : Busy(v) => task[v].file # f  BY <1>0 DEF InOneHand
<1>5. /\ Busy(w)' => task'[w].file = f
      /\ ~At(w, "gone")'
      /\ ~Busy(w)' => f \in own' \/ failed'
  BY <1>1 DEF Busy, At
<1>6. InOneHand'
  <2>1. \A u, v \in Worker : Busy(u)' /\ Busy(v)' /\ task'[u].file = task'[v].file => u = v
    BY <1>0, <1>1, <1>3, <1>4, <1>5 DEF InOneHand
  <2>2. \A v \in Worker : Busy(v)' =>
          task'[v].file \notin unsent /\ task'[v].file \notin held /\ ~InJobs(task'[v].file)
    BY <1>0, <1>1, <1>3, <1>5 DEF InOneHand
  <2>3. \A e : InJobs(e)' <=> InJobs(e)  BY DEF InJobs
  <2>4. phase # "copy" => FALSE  BY <1>0 DEF InOneHand
  <2>5. \A v \in Worker : At(v, "gone")' => At(v, "gone")  BY <1>3, <1>5
  <2> QED  BY <1>0, <2>1, <2>2, <2>3, <2>4, <2>5 DEF InOneHand, InJobs
<1>7. DoneIsOwn'
  <2>1. \A g \in File : InJobs(g)' <=> InJobs(g)  BY DEF InJobs
  <2>2. ASSUME NEW g \in File, NEW v \in Worker, OnFile(v, g), ~failed'
        PROVE  g \in own' \/ \E u \in Worker : OnFile(u, g)'
    <3>1. CASE v = w  BY <1>5, <2>2, <3>1 DEF OnFile
    <3>2. CASE v # w  BY <1>1, <1>3, <2>2, <3>2 DEF OnFile
    <3> QED  BY <3>1, <3>2
  <2>3. \A g \in File \ {f} : g \in own => g \in own'  OBVIOUS
  <2>4. OnFile(w, f)  BY DEF OnFile
  <2> QED  BY <1>0, <2>1, <2>2, <2>3, <2>4 DEF DoneIsOwn
<1>8. ASSUME NEW g \in File PROVE FileInv(g)'
  <2>1. CASE g = f  BY <2>1
  <2>2. CASE g # f
    <3>1. InDoubt(g) => InDoubt(g)'
      <4>1. \A v \in Worker : At(v, "verify") => Busy(v)  BY DEF At, Busy
      <4>2. ASSUME NEW v \in Worker, At(v, "verify"), task[v].file = g
            PROVE  At(v, "verify")' /\ task'[v].file = g
        BY <1>1, <1>3, <2>2, <4>2
      <4> QED  BY <2>2, <4>2 DEF InDoubt
    <3> QED  BY <1>0, <1>1, <2>2, <3>1, FileFrame
  <2> QED  BY <2>1, <2>2
<1>9. ASSUME NEW v \in Worker PROVE TaskInv(v)'
  <2>1. CASE v = w  BY <2>1
  <2>2. CASE v # w
    <3>1. Busy(v) => task[v].file \in File \ {f}  BY <1>0, <1>4, <2>2, TaskFields
    <3> QED  BY <1>0, <1>1, <2>2, <3>1, TaskFrame
  <2> QED  BY <2>1, <2>2
<1> QED  BY <1>2, <1>6, <1>7, <1>8, <1>9 DEF TransferInv

(* A worker that lets go of its file keeps nothing to be asked about.      *)
LEMMA IdleTask == ASSUME NEW w \in Worker, task'[w] \in {Idle, Gone} PROVE TaskInv(w)'
BY DEF TaskInv, At, Idle, Gone

(* Of the workers only the one that has f can put it in doubt.             *)
LEMMA OwnDoubt ==
  ASSUME TransferInv, NEW w \in Worker, Busy(w), NEW f \in File, f = task[w].file,
         NEW t, task' = [task EXCEPT ![w] = t]
  PROVE  /\ InDoubt(f) <=> f \in unproven \/ At(w, "verify")
         /\ t.step # "verify" => (InDoubt(f)' <=> f \in unproven')
         /\ t.step = "verify" /\ t.file = f => InDoubt(f)'
<1>1. /\ task'[w] = t /\ \A v \in Worker \ {w} : task'[v] = task[v]
      /\ \A v \in Worker \ {w} : Busy(v) => task[v].file # f
  BY DEF TransferInv, TypeOK, InOneHand
<1>2. \A v \in Worker : At(v, "verify") => Busy(v)  BY DEF At, Busy
<1> QED  BY <1>1, <1>2 DEF InDoubt, At

(* The worker's step leaves files and marks: FileInv holds on.             *)
LEMMA SameFile ==
  ASSUME TransferInv, NEW w \in Worker, Busy(w), NEW f \in File, f = task[w].file,
         NEW t, task' = [task EXCEPT ![w] = t], ~At(w, "verify"),
         UNCHANGED <<full, version, target, sidecar, unproven, own>>
  PROVE  FileInv(f)'
<1>1. InDoubt(f) => InDoubt(f)'
  <2>1. InDoubt(f) => f \in unproven  BY OwnDoubt
  <2> QED  BY <2>1 DEF InDoubt
<1> QED  BY <1>1, FileFrame, CopyFields DEF TransferInv

LEMMA Constants ==
  ASSUME TypeOK
  PROVE  /\ Idle \in Task /\ Idle.step = "idle" /\ Gone \in Task /\ NoCopy \in Copy /\ NoSidecar \in Sidecar
         /\ \A f \in File : target = [target EXCEPT ![f] = target[f]] /\ target[f] \in Copy
         /\ \A f \in File : sidecar = [sidecar EXCEPT ![f] = sidecar[f]] /\ sidecar[f] \in Sidecar
<1>1. <<>> \in Seq(Nat)  OBVIOUS
<1> QED  BY <1>1 DEF TypeOK, Task, Idle, Gone, NoCopy, NoSidecar, Copy, Sidecar, Now

LEMMA GiveUpKeeping ==
  ASSUME TransferInv, NEW w \in Worker, OpenFails(w) \/ SidecarFails(w)
  PROVE  TransferInv'
<1>1. Busy(w) /\ ~At(w, "verify")  BY DEF OpenFails, SidecarFails, At, Busy
<1>f. PICK f \in File : f = task[w].file  BY <1>1, TaskFields DEF TransferInv
<1>2. TypeOK  BY <1>f DEF TransferInv
<1>3. /\ task' = [task EXCEPT ![w] = Idle] /\ failed' = TRUE
      /\ UNCHANGED <<full, version, target, sidecar, run, phase, unsent, held, jobs, unproven, own>>
  BY <1>f DEF OpenFails, SidecarFails, Done, Set, tree, channel
<1>4. FileInv(f)'  BY <1>f, <1>1, <1>2, <1>3, SameFile
<1>5. TaskInv(w)'  BY <1>2, <1>3, IdleTask DEF TypeOK
<1>6. own' \subseteq File  BY <1>2, <1>3 DEF TypeOK
<1> QED  BY <1>f, <1>1, <1>2, <1>3, <1>4, <1>5, <1>6, Constants, WorkerFrame

(* The copy is removed, or stays: then what was read back in vain is in    *)
(* doubt.                                                                  *)
LEMMA GiveUpRemoving ==
  ASSUME TransferInv, NEW w \in Worker, CopyFails(w) \/ VerifyFails(w)
  PROVE  TransferInv'
<1>1. Busy(w)  BY DEF CopyFails, VerifyFails, At, Busy
<1>f. PICK f \in File : f = task[w].file  BY <1>1, TaskFields DEF TransferInv
<1>2. TypeOK /\ FileInv(f) /\ TaskInv(w)  BY <1>f DEF TransferInv
<1>3. PICK left \in {NoCopy, target[f]} : target' = [target EXCEPT ![f] = left]
  BY <1>f DEF CopyFails, VerifyFails, TryRemove
<1>4. /\ task' = [task EXCEPT ![w] = Idle] /\ failed' = TRUE
      /\ \/ At(w, "copy") /\ unproven' = unproven
         \/ At(w, "verify") /\ unproven' = unproven \cup {g \in {f} : target'[g].there}
      /\ UNCHANGED <<full, version, sidecar, run, phase, unsent, held, jobs, own>>
  BY <1>f DEF CopyFails, VerifyFails, Done, Set, tree, channel
<1>5. left \in Copy /\ target'[f] = left  BY <1>2, <1>3, Constants DEF TypeOK
<1>6. f \notin own  BY <1>f, <1>2, <1>4 DEF TaskInv, Copying
<1>7. FileInv(f)'
  <2>1. CASE ~target'[f].there
    <3>1. left = NoCopy \/ left.data = target[f].data  BY <1>3
    <3>2. \A k \in DOMAIN target'[f].data : target'[f].data[k] <= version[f]
      BY <1>2, <1>5, <3>1 DEF FileInv, NoCopy
    <3> QED  BY <1>2, <1>4, <1>6, <2>1, <3>2 DEF FileInv, Settled
  <2>2. CASE target'[f].there
    <3>1. left = target[f]  BY <1>3, <1>5, <2>2 DEF NoCopy
    <3>2. InDoubt(f) => InDoubt(f)'
      <4>1. InDoubt(f) => f \in unproven \/ At(w, "verify")  BY <1>1, <1>f, <1>4, OwnDoubt
      <4>2. At(w, "copy") => ~At(w, "verify")  BY DEF At
      <4>3. InDoubt(f) => f \in unproven'  BY <1>4, <2>2, <4>1, <4>2
      <4> QED  BY <4>3 DEF InDoubt
    <3> QED  BY <1>2, <1>4, <1>5, <3>1, <3>2, FileFrame, CopyFields
  <2> QED  BY <2>1, <2>2
<1>8. TaskInv(w)'  BY <1>2, <1>4, IdleTask DEF TypeOK
<1>9. own' \subseteq File /\ unproven' \subseteq unproven \cup {f}  BY <1>2, <1>4 DEF TypeOK
<1>10. \A g \in File \ {f} : (g \in unproven') <=> (g \in unproven)  BY <1>4
<1>11. sidecar' = [sidecar EXCEPT ![f] = sidecar[f]] /\ sidecar[f] \in Sidecar
  BY <1>2, <1>4, Constants
<1> HIDE DEF Idle
<1> QED
  BY <1>f, <1>1, <1>2, <1>3, <1>4, <1>5, <1>7, <1>8, <1>9, <1>10, <1>11, Constants, WorkerFrame

LEMMA CreateInv == ASSUME TransferInv, NEW w \in Worker, Create(w) PROVE TransferInv'
<1>1. Busy(w)  BY DEF Create, At, Busy
<1>f. PICK f \in File : f = task[w].file  BY <1>1, TaskFields DEF TransferInv
<1> DEFINE t == Doing(f, "copy", <<>>, StampOf[f][version[f]], 1)
           c == [there |-> TRUE, data |-> <<>>, mtime |-> Now]
<1>2. TypeOK /\ FileInv(f)  BY <1>f DEF TransferInv
<1>3. /\ task' = [task EXCEPT ![w] = t] /\ target' = [target EXCEPT ![f] = c]
      /\ unproven' = unproven \ {f} /\ own' = own \ {f}
      /\ UNCHANGED <<full, version, sidecar, run, phase, unsent, held, jobs, failed>>
  BY <1>f DEF Create, Set, tree, channel
<1>4. t \in Task /\ t.step = "copy" /\ t.file = f /\ c \in Copy
  <2>1. <<>> \in Seq(Nat) /\ 1 \in 1 .. Chunks /\ StampOf[f][version[f]] \in Nat
    BY <1>2, CopyFields, TransferAssumption
  <2> QED  BY <1>2, <2>1 DEF Task, Doing, Copy, Now
<1>5. /\ task'[w] = t /\ target'[f] = c  BY <1>2, <1>3 DEF TypeOK
<1>6. FileInv(f)'
  BY <1>2, <1>3, <1>5 DEF FileInv, Settled
<1>7. TaskInv(w)'
  <2>1. version[f] \in 1 .. version[f] /\ NoOlder(f, version[f])
    <3>1. \A k \in 1 .. Chunks : sidecar[f].there => sidecar[f].md5[k] <= version[f]
      BY <1>2, CopyFields DEF FileInv
    <3> QED  BY <1>2, <3>1, CopyFields DEF NoOlder
  <2>2. task'[w].hashes = <<>> /\ task'[w].mtime = StampOf[f][version[f]] /\ task'[w].file = f
    BY <1>5 DEF Doing
  <2>3. \A v : NoOlder(f, v) => NoOlder(f, v)'  BY <1>3 DEF NoOlder
  <2>4. Copying(w, f)'  BY <1>3, <1>5, <2>1, <2>2, <2>3 DEF Copying
  <2>5. At(w, "copy")' /\ ~At(w, "verify")' /\ ~At(w, "sidecar")' /\ ~At(w, "fill")'
    BY <1>4, <1>5 DEF At
  <2>6. Len(task'[w].hashes) <= Chunks  BY <2>2, TransferAssumption
  <2> QED  BY <1>5, <2>2, <2>4, <2>5, <2>6 DEF TaskInv
<1>8. own' \subseteq File /\ failed \in BOOLEAN  BY <1>2, <1>3 DEF TypeOK
<1> QED  BY <1>f, <1>1, <1>2, <1>3, <1>4, <1>6, <1>7, <1>8, Constants, WorkerFrame

LEMMA CopyChunkInv == ASSUME TransferInv, NEW w \in Worker, CopyChunk(w) PROVE TransferInv'
<1>1. Busy(w) /\ At(w, "copy")  BY DEF CopyChunk, At, Busy
<1>f. PICK f \in File : f = task[w].file  BY <1>1, TaskFields DEF TransferInv
<1>2. PICK stored \in {version[f], Damaged} :
        target' = [target EXCEPT ![f].data = Append(@, stored)]
  BY <1>f DEF CopyChunk
<1> DEFINE hs == Append(task[w].hashes, version[f])
           t == [task[w] EXCEPT !.hashes = hs]
           c == [target[f] EXCEPT !.data = Append(@, stored)]
<1>3. TypeOK /\ FileInv(f) /\ TaskInv(w)  BY DEF TransferInv
<1>4. /\ task' = [task EXCEPT ![w] = t] /\ target' = [target EXCEPT ![f] = c]
      /\ Len(task[w].hashes) < Chunks
      /\ UNCHANGED <<full, version, sidecar, run, phase, unsent, held, jobs, failed, unproven, own>>
  BY <1>f, <1>2, <1>3 DEF CopyChunk, Set, tree, channel, TypeOK
<1>5. /\ t \in Task /\ t.step = "copy" /\ t.file = f /\ t.hashes = hs /\ t.mtime = task[w].mtime
      /\ hs \in Seq(Nat) /\ Len(hs) = Len(task[w].hashes) + 1
  <2>1. hs \in Seq(Nat) /\ Len(hs) = Len(task[w].hashes) + 1
    BY <1>1, <1>3, TaskFields, CopyFields
  <2> QED  BY <1>1, <1>f, <1>3, <2>1, TaskFields DEF Task, At
<1>6. /\ c \in Copy /\ c.there = target[f].there /\ c.mtime = target[f].mtime
      /\ c.data = Append(target[f].data, stored)
  <2>1. Append(target[f].data, stored) \in Seq(Nat)  BY <1>3, CopyFields DEF Damaged
  <2>2. target[f] \in Copy  BY <1>3 DEF TypeOK
  <2> QED  BY <2>1, <2>2 DEF Copy
<1>7. task'[w] = t /\ target'[f] = c  BY <1>3, <1>4 DEF TypeOK
<1>8. /\ Copying(w, f) /\ Len(task[w].hashes) <= Chunks /\ target[f].mtime = Now
  BY <1>1, <1>f, <1>3 DEF TaskInv
<1>9. FileInv(f)'
  <2>1. \A k \in DOMAIN c.data : c.data[k] <= version[f]
    BY <1>3, <1>6, CopyFields DEF FileInv, Damaged
  <2>2. f \notin own  BY <1>8 DEF Copying
  <2> QED  BY <1>3, <1>4, <1>6, <1>7, <1>8, <2>1, <2>2 DEF FileInv, Settled
<1>10. Copying(w, f)'
  <2>1. PICK v \in 1 .. version[f] :
          /\ StampOf[f][v] = task[w].mtime /\ NoOlder(f, v)
          /\ \A k \in DOMAIN task[w].hashes : task[w].hashes[k] \in v .. version[f]
    BY <1>8 DEF Copying
  <2>2. \A k \in DOMAIN hs : hs[k] \in v .. version[f]
    BY <1>1, <1>3, <2>1, TaskFields, CopyFields
  <2>3. NoOlder(f, v)'  BY <1>4, <2>1 DEF NoOlder
  <2>4. Len(c.data) = Len(hs)
    <3>1. Len(Append(target[f].data, stored)) = Len(target[f].data) + 1
      BY <1>3, CopyFields DEF Damaged
    <3> QED  BY <1>5, <1>6, <1>8, <3>1 DEF Copying
  <2> QED  BY <1>4, <1>5, <1>6, <1>7, <1>8, <2>1, <2>2, <2>3, <2>4 DEF Copying
<1>11. TaskInv(w)'
  <2>1. At(w, "copy")' /\ ~At(w, "verify")' /\ ~At(w, "sidecar")' /\ ~At(w, "fill")'
    BY <1>5, <1>7 DEF At
  <2>2. Len(hs) <= Chunks
    BY <1>1, <1>3, <1>4, <1>5, TaskFields, TransferAssumption
  <2> QED  BY <1>5, <1>6, <1>7, <1>8, <1>10, <2>1, <2>2 DEF TaskInv
<1>12. own' \subseteq File /\ failed' \in BOOLEAN  BY <1>3, <1>4 DEF TypeOK
<1> QED  BY <1>1, <1>f, <1>3, <1>4, <1>5, <1>6, <1>9, <1>11, <1>12, Constants, WorkerFrame

LEMMA CloseInv == ASSUME TransferInv, NEW w \in Worker, Close(w) PROVE TransferInv'
<1>1. Busy(w) /\ At(w, "copy")  BY DEF Close, At, Busy
<1>f. PICK f \in File : f = task[w].file  BY <1>1, TaskFields DEF TransferInv
<1>2. PICK mtime \in {task[w].mtime, Now} : target' = [target EXCEPT ![f].mtime = mtime]
  BY <1>f DEF Close
<1> DEFINE t == [task[w] EXCEPT !.step = "verify", !.next = FirstToCheck]
           c == [target[f] EXCEPT !.mtime = mtime]
<1>3. TypeOK /\ FileInv(f) /\ TaskInv(w)  BY DEF TransferInv
<1>4. /\ task' = [task EXCEPT ![w] = t] /\ target' = [target EXCEPT ![f] = c]
      /\ Len(task[w].hashes) = Chunks
      /\ UNCHANGED <<full, version, sidecar, run, phase, unsent, held, jobs, failed, unproven, own>>
  BY <1>f, <1>2, <1>3 DEF Close, Set, tree, channel, TypeOK
<1>5. /\ t \in Task /\ t.step = "verify" /\ t.file = f /\ t.next = FirstToCheck
      /\ t.hashes = task[w].hashes /\ t.mtime = task[w].mtime
  BY <1>1, <1>f, <1>3, TaskFields, Checks DEF Task
<1>6. c \in Copy /\ c.there = target[f].there /\ c.mtime = mtime /\ c.data = target[f].data
  <2>1. mtime \in Nat  BY <1>1, <1>3, TaskFields DEF Now
  <2>2. target[f] \in Copy  BY <1>3 DEF TypeOK
  <2> QED  BY <2>1, <2>2 DEF Copy
<1>7. task'[w] = t /\ target'[f] = c  BY <1>3, <1>4 DEF TypeOK
<1>8. Copying(w, f)  BY <1>1, <1>f, <1>3 DEF TaskInv
<1>9. FileInv(f)'
  <2>1. f \notin own /\ Stamped(f, task[w].mtime)  BY <1>8 DEF Copying, Stamped
  <2>2. Stamped(f, task[w].mtime) <=> \E v \in 1 .. version'[f] :
                                         StampOf[f][v] = task[w].mtime /\ NoOlder(f, v)'
    BY <1>4 DEF Stamped, NoOlder
  <2>3. \A m : m = task[w].mtime => Stamped(f, m)'  BY <2>1, <2>2 DEF Stamped
  <2>4. c.mtime # Now => Stamped(f, c.mtime)'  BY <1>2, <1>6, <2>3
  <2>5. InDoubt(f)'  BY <1>1, <1>f, <1>4, <1>5, OwnDoubt
  <2> QED  BY <1>3, <1>4, <1>6, <1>7, <2>1, <2>4, <2>5 DEF FileInv, Settled
<1>10. TaskInv(w)'
  <2>1. Copying(w, f)'
    <3>1. f \notin own' /\ f \notin unproven'  BY <1>4, <1>8 DEF Copying
    <3> QED  BY <1>1, <1>3, <1>4, <1>5, <1>6, <1>7, <1>8, <3>1, CopyingFrame, CopyFields
  <2>2. At(w, "verify")' /\ ~At(w, "copy")' /\ ~At(w, "sidecar")' /\ ~At(w, "fill")'
    BY <1>5, <1>7 DEF At
  <2>3. /\ FirstToCheck' = FirstToCheck /\ FirstToCheck >= FirstToCheck
        /\ \A k \in FirstToCheck .. FirstToCheck - 1 : FALSE
    <3>1. FirstToCheck \in Nat  BY <1>3, Checks
    <3> QED  BY <1>4, <3>1 DEF FirstToCheck
  <2>4. /\ task'[w].file = f /\ task'[w].next = FirstToCheck /\ Len(task'[w].hashes) = Chunks
        /\ target'[f].mtime \in {task'[w].mtime, Now}
    BY <1>4, <1>5, <1>6, <1>7
  <2> QED  BY <2>1, <2>2, <2>3, <2>4 DEF TaskInv
<1>11. own' \subseteq File /\ failed' \in BOOLEAN  BY <1>3, <1>4 DEF TypeOK
<1> QED  BY <1>1, <1>f, <1>3, <1>4, <1>5, <1>6, <1>9, <1>10, <1>11, Constants, WorkerFrame

LEMMA VerifyChunkInv == ASSUME TransferInv, NEW w \in Worker, VerifyChunk(w) PROVE TransferInv'
<1>1. Busy(w) /\ At(w, "verify")  BY DEF VerifyChunk, At, Busy
<1>f. PICK f \in File : f = task[w].file  BY <1>1, TaskFields DEF TransferInv
<1>3. TypeOK /\ FileInv(f) /\ TaskInv(w)  BY DEF TransferInv
<1>k. task[w].next \in 1 .. Chunks /\ FirstToCheck \in 1 .. Chunks /\ Chunks \in Nat
  BY <1>1, <1>3, TaskFields, Checks, TransferAssumption
<1> DEFINE t == IF task[w].next = Chunks THEN [task[w] EXCEPT !.step = "sidecar"]
                ELSE [task[w] EXCEPT !.next = @ + 1]
<1>4. /\ task' = [task EXCEPT ![w] = t] /\ Intact(w)
      /\ UNCHANGED <<full, version, target, sidecar, run, phase, unsent, held, jobs, failed, unproven, own>>
  BY DEF VerifyChunk, Set, Become, tree, channel
<1>5. /\ t \in Task /\ t.file = f /\ t.hashes = task[w].hashes /\ t.mtime = task[w].mtime
      /\ \/ t.step = "sidecar" /\ task[w].next = Chunks
         \/ t.step = "verify" /\ t.next = task[w].next + 1
  <2>1. CASE task[w].next = Chunks  BY <1>1, <1>f, <1>3, <2>1, TaskFields DEF Task
  <2>2. CASE task[w].next # Chunks
    BY <1>1, <1>f, <1>3, <1>k, <2>2, TaskFields DEF Task, At
  <2> QED  BY <2>1, <2>2
<1>7. task'[w] = t  BY <1>3, <1>4 DEF TypeOK
<1>8. /\ Copying(w, f) /\ Len(task[w].hashes) = Chunks
      /\ target[f].mtime \in {task[w].mtime, Now} /\ task[w].next >= FirstToCheck
      /\ \A k \in FirstToCheck .. task[w].next : target[f].data[k] = task[w].hashes[k]
  BY <1>1, <1>f, <1>3, <1>4, <1>k DEF TaskInv, Intact
<1>9. FileInv(f)'
  <2>1. CASE t.step = "verify"
    <3>1. InDoubt(f) => InDoubt(f)'  BY <1>1, <1>f, <1>4, <1>5, <2>1, OwnDoubt
    <3> QED  BY <1>3, <1>4, <3>1, FileFrame, CopyFields
  <2>2. CASE t.step = "sidecar"
    <3>1. \A k \in FirstToCheck .. Chunks : target[f].data[k] # Damaged
      <4>1. \A k \in DOMAIN task[w].hashes : task[w].hashes[k] >= 1
        BY <1>3, <1>8, CopyFields DEF Copying
      <4>2. \A k \in FirstToCheck .. Chunks : k \in DOMAIN task[w].hashes
        BY <1>1, <1>3, <1>k, <1>8, TaskFields
      <4> QED  BY <1>5, <1>8, <2>2, <4>1, <4>2 DEF Damaged
    <3>2. f \notin own /\ Len(target[f].data) = Chunks  BY <1>8 DEF Copying
    <3>3. FirstToCheck' = FirstToCheck  BY <1>4 DEF FirstToCheck
    <3>4. \A m : Stamped(f, m)' <=> Stamped(f, m)  BY <1>4 DEF Stamped, NoOlder
    <3> QED  BY <1>3, <1>4, <3>1, <3>2, <3>3, <3>4 DEF FileInv
  <2> QED  BY <1>5, <2>1, <2>2
<1>10. TaskInv(w)'
  <2>1. Copying(w, f)'
    <3>1. f \notin own' /\ f \notin unproven'  BY <1>4, <1>8 DEF Copying
    <3> QED  BY <1>1, <1>3, <1>4, <1>5, <1>7, <1>8, <3>1, CopyingFrame, CopyFields
  <2>2. ~At(w, "copy")' /\ ~At(w, "fill")'  BY <1>5, <1>7 DEF At
  <2>3. FirstToCheck' = FirstToCheck /\ FirstToCheck \in Nat
    BY <1>4, <1>k DEF FirstToCheck
  <2>4. CASE t.step = "sidecar"
    <3>1. ~At(w, "verify")' BY <1>7, <2>4 DEF At
    <3> QED  BY <1>4, <1>5, <1>7, <1>8, <2>1, <2>2, <2>3, <2>4, <3>1 DEF TaskInv
  <2>5. CASE t.step = "verify"
    <3>1. ~At(w, "sidecar")' BY <1>7, <2>5 DEF At
    <3>2. t.next = task[w].next + 1 /\ t.next - 1 = task[w].next  BY <1>5, <1>k, <2>5
    <3> HIDE DEF t
    <3> QED
      BY <1>4, <1>5, <1>7, <1>8, <1>k, <2>1, <2>2, <2>3, <2>5, <3>1, <3>2 DEF TaskInv
  <2> QED  BY <1>5, <2>4, <2>5
<1>11. own' \subseteq File /\ failed' \in BOOLEAN  BY <1>3, <1>4 DEF TypeOK
<1> HIDE DEF t
<1> QED  BY <1>1, <1>f, <1>3, <1>4, <1>5, <1>9, <1>10, <1>11, Constants, WorkerFrame

LEMMA EmptySidecarInv == ASSUME TransferInv, NEW w \in Worker, EmptySidecar(w) PROVE TransferInv'
<1>1. Busy(w) /\ At(w, "sidecar")  BY DEF EmptySidecar, At, Busy
<1>f. PICK f \in File : f = task[w].file  BY <1>1, TaskFields DEF TransferInv
<1> DEFINE t == [task[w] EXCEPT !.step = "fill"]
<1>2. TypeOK /\ FileInv(f) /\ TaskInv(w)  BY DEF TransferInv
<1>3. /\ task' = [task EXCEPT ![w] = t] /\ sidecar' = [sidecar EXCEPT ![f] = NoSidecar]
      /\ UNCHANGED <<full, version, target, run, phase, unsent, held, jobs, failed, unproven, own>>
  BY <1>f DEF EmptySidecar, Set, Become, tree, channel
<1>4. /\ t \in Task /\ t.step = "fill" /\ t.file = f
      /\ t.hashes = task[w].hashes /\ t.mtime = task[w].mtime
  BY <1>1, <1>f, <1>2, TaskFields DEF Task
<1>5. task'[w] = t /\ sidecar'[f] = NoSidecar /\ ~sidecar'[f].there
  BY <1>2, <1>3 DEF TypeOK, NoSidecar
<1>6. /\ Copying(w, f) /\ Len(task[w].hashes) = Chunks
      /\ target[f].mtime \in {task[w].mtime, Now}
      /\ \A k \in FirstToCheck .. Chunks : target[f].data[k] = task[w].hashes[k]
  BY <1>1, <1>f, <1>2 DEF TaskInv
<1>7. FirstToCheck' = FirstToCheck  BY <1>3 DEF FirstToCheck
<1>8. FileInv(f)'
  <2>1. f \notin own  BY <1>6 DEF Copying
  <2>2. \A m : Stamped(f, m) => Stamped(f, m)'  BY <1>3, <1>5 DEF Stamped, NoOlder
  <2>3. InDoubt(f) => InDoubt(f)'
    <3>1. InDoubt(f) => f \in unproven  BY <1>1, <1>f, <1>3, OwnDoubt DEF TransferInv, At
    <3> QED  BY <1>3, <3>1 DEF InDoubt
  <2>4. Settled(f)' => Settled(f)  BY <1>3, <2>3 DEF Settled
  <2> QED  BY <1>2, <1>3, <1>5, <1>7, <2>1, <2>2, <2>4 DEF FileInv
<1>9. TaskInv(w)'
  <2>1. Copying(w, f)'
    <3>1. f \notin own' /\ f \notin unproven'  BY <1>3, <1>6 DEF Copying
    <3> QED  BY <1>1, <1>2, <1>3, <1>4, <1>5, <1>6, <3>1, CopyingFrame, CopyFields
  <2>2. ~At(w, "copy")' /\ ~At(w, "verify")'  BY <1>4, <1>5 DEF At
  <2> QED  BY <1>3, <1>4, <1>5, <1>6, <1>7, <2>1, <2>2 DEF TaskInv
<1>10. own' \subseteq File /\ failed' \in BOOLEAN  BY <1>2, <1>3 DEF TypeOK
<1> QED  BY <1>1, <1>f, <1>2, <1>3, <1>4, <1>8, <1>9, <1>10, Constants, WorkerFrame

LEMMA FillSidecarInv == ASSUME TransferInv, NEW w \in Worker, FillSidecar(w) PROVE TransferInv'
<1>1. Busy(w) /\ At(w, "fill")  BY DEF FillSidecar, At, Busy
<1>f. PICK f \in File : f = task[w].file  BY <1>1, TaskFields DEF TransferInv
<1> DEFINE s == [there |-> TRUE, md5 |-> task[w].hashes, mtime |-> task[w].mtime]
<1>2. TypeOK /\ FileInv(f) /\ TaskInv(w)  BY DEF TransferInv
<1>3. /\ task' = [task EXCEPT ![w] = Idle] /\ sidecar' = [sidecar EXCEPT ![f] = s]
      /\ own' = own \cup {f} /\ failed' = (failed \/ ~TRUE)
      /\ UNCHANGED <<full, version, target, run, phase, unsent, held, jobs, unproven>>
  BY <1>f DEF FillSidecar, Done, Set, tree, channel
<1>4. s \in Sidecar  BY <1>1, <1>2, TaskFields DEF Sidecar
<1>5. sidecar'[f] = s  BY <1>2, <1>3 DEF TypeOK
<1>6. /\ Copying(w, f) /\ Len(task[w].hashes) = Chunks
      /\ \A k \in FirstToCheck .. Chunks : target[f].data[k] = task[w].hashes[k]
  BY <1>1, <1>f, <1>2 DEF TaskInv
<1>7. FileInv(f)'
  <2>1. SidecarIsTrue(f)'  BY <1>3, <1>5, <1>6 DEF SidecarIsTrue, FirstToCheck
  <2>2. PICK v \in 1 .. version[f] :
          /\ StampOf[f][v] = task[w].mtime
          /\ \A k \in DOMAIN task[w].hashes : task[w].hashes[k] \in v .. version[f]
    BY <1>6 DEF Copying
  <2>3. \A k \in 1 .. Chunks : task[w].hashes[k] \in v .. version[f]
    BY <1>1, <1>2, <1>6, <2>2, TaskFields
  <2>4. target[f].there /\ Len(target[f].data) = Chunks  BY <1>6 DEF Copying
  <2> QED  BY <1>2, <1>3, <1>5, <1>6, <2>1, <2>2, <2>3, <2>4 DEF FileInv, Settled
<1>8. TaskInv(w)'  BY <1>2, <1>3, IdleTask DEF TypeOK
<1>9. own' \subseteq File /\ failed' \in BOOLEAN /\ failed' = failed /\ f \in own'
  BY <1>2, <1>3 DEF TypeOK
<1> QED  BY <1>1, <1>f, <1>2, <1>3, <1>4, <1>7, <1>8, <1>9, Constants, WorkerFrame

-----------------------------------------------------------------------------
(* The rest leaves target, sidecar and own, and tasks but those between    *)
(* two files.                                                              *)
LEMMA RestFrame ==
  ASSUME TransferInv, UNCHANGED <<full, target, sidecar, own>>, TypeOK',
         \A f \in File : version[f] <= version'[f],
         unproven \subseteq unproven',
         \A v \in Worker : \/ task'[v] = task[v] /\ (Busy(v) => (task[v].file \in unproven' <=> task[v].file \in unproven))
                           \/ task'[v] \in {Idle, Gone} /\ (At(v, "verify") => task[v].file \in unproven')
                           \/ task'[v].step = "open" /\ ~At(v, "verify")
  PROVE  (\A f \in File : FileInv(f)') /\ (\A w \in Worker : TaskInv(w)')
<1>0. TypeOK  BY DEF TransferInv
<1>1. ASSUME NEW f \in File PROVE FileInv(f)'
  <2>1. InDoubt(f) => InDoubt(f)'  BY DEF InDoubt, At
  <2>2. version'[f] \in Nat  BY DEF TypeOK
  <2> QED  BY <1>0, <2>1, <2>2, FileFrame DEF TransferInv
<1>2. ASSUME NEW w \in Worker PROVE TaskInv(w)'
  <2>1. CASE task'[w] = task[w] /\ (Busy(w) => (task[w].file \in unproven' <=> task[w].file \in unproven))
    <3>1. Busy(w) => task[w].file \in File /\ version'[task[w].file] \in Nat
      BY <1>0, TaskFields DEF TypeOK
    <3> QED  BY <1>0, <2>1, <3>1, TaskFrame DEF TransferInv
  <2>2. CASE task'[w] \in {Idle, Gone}  BY <2>2, IdleTask
  <2>3. CASE task'[w].step = "open"  BY <2>3 DEF TaskInv, At
  <2> QED  BY <2>1, <2>2, <2>3
<1> QED  BY <1>1, <1>2

LEMMA ReceiveInv == ASSUME TransferInv, NEW w \in Worker, Receive(w) PROVE TransferInv'
<1>0. TypeOK /\ InOneHand /\ DoneIsOwn  BY DEF TransferInv
<1>f. PICK f \in File : f = Head(jobs)
  <2>1. jobs \in Seq(File) /\ jobs # <<>>  BY <1>0 DEF TypeOK, Receive
  <2> QED  BY <2>1
<1> DEFINE t == Doing(f, "open", <<>>, Now, 1)
<1>1. /\ ~Busy(w) /\ jobs # <<>> /\ task' = [task EXCEPT ![w] = t] /\ jobs' = Tail(jobs)
      /\ UNCHANGED <<full, version, target, sidecar, run, phase, unsent, held, failed, unproven, own>>
  BY <1>f DEF Receive, Set, Busy, tree
<1>2. jobs \in Seq(File) /\ Len(jobs) <= 2 * Cardinality(Worker)  BY <1>0 DEF TypeOK
<1>3. /\ f = jobs[1] /\ 1 \in DOMAIN jobs
      /\ jobs' \in Seq(File) /\ Len(jobs') = Len(jobs) - 1
      /\ \A k \in DOMAIN jobs' : jobs'[k] = jobs[k + 1] /\ k + 1 \in DOMAIN jobs /\ k + 1 # 1
      /\ \A k \in DOMAIN jobs : k # 1 => k - 1 \in DOMAIN jobs' /\ jobs'[k - 1] = jobs[k]
      /\ \A j, k \in DOMAIN jobs' : j # k => j + 1 # k + 1
  BY <1>f, <1>1, <1>2
<1>4. t \in Task /\ t.step = "open" /\ t.file = f
  <2>1. <<>> \in Seq(Nat) /\ 1 \in 1 .. Chunks  BY TransferAssumption
  <2> QED  BY <1>3, <2>1 DEF Task, Doing, Now
<1>5. /\ task'[w] = t /\ \A v \in Worker \ {w} : task'[v] = task[v]
      /\ Busy(w)' /\ \A v \in Worker \ {w} : Busy(v)' <=> Busy(v)
  BY <1>0, <1>1, <1>4 DEF TypeOK, Busy, At
<1>6. TypeOK'
  <2>1. Len(jobs') <= 2 * Cardinality(Worker)
    <3>1. Cardinality(Worker) \in Nat  BY TransferAssumption, FS_CardinalityType
    <3> QED  BY <1>2, <1>3, <3>1
  <2> QED  BY <1>0, <1>1, <1>3, <1>4, <2>1 DEF TypeOK
<1>7. \A g : InJobs(g) <=> g = f \/ InJobs(g)'  BY <1>3 DEF InJobs
<1>8. ~InJobs(f)'
  <2>1. \A k \in DOMAIN jobs : jobs[k] = f => k = 1  BY <1>0, <1>3 DEF InOneHand
  <2>2. \A k \in DOMAIN jobs' : jobs'[k] # f  BY <1>3, <2>1
  <2> QED  BY <2>2 DEF InJobs
<1>9. InOneHand'
  <2>1. \A v \in Worker \ {w} : Busy(v) => task[v].file # f
    BY <1>0, <1>3 DEF InOneHand, InJobs
  <2>2. \A u, v \in Worker : Busy(u)' /\ Busy(v)' /\ task'[u].file = task'[v].file => u = v
    BY <1>0, <1>4, <1>5, <2>1 DEF InOneHand
  <2>3. \A v \in Worker : Busy(v)' =>
          /\ task'[v].file \notin unsent' /\ task'[v].file \notin held'
          /\ \A k \in DOMAIN jobs' : jobs'[k] # task'[v].file
    BY <1>0, <1>1, <1>3, <1>4, <1>5, <1>7, <1>8 DEF InOneHand, InJobs
  <2>4. phase = "copy"  BY <1>0, <1>1 DEF InOneHand
  <2>5. \A k \in DOMAIN jobs' : jobs'[k] \notin unsent' /\ jobs'[k] \notin held'
    BY <1>0, <1>1, <1>3 DEF InOneHand
  <2>6. \A j, k \in DOMAIN jobs' : jobs'[j] = jobs'[k] => j = k
    BY <1>0, <1>3 DEF InOneHand
  <2>7. \A v \in Worker : ~At(v, "gone")'
    <3>1. \A v \in Worker : ~At(v, "gone")  BY <1>0, <1>3 DEF InOneHand
    <3> QED  BY <1>4, <1>5, <3>1 DEF At
  <2> QED  BY <1>0, <1>1, <2>2, <2>3, <2>4, <2>5, <2>6, <2>7 DEF InOneHand, InJobs
<1>10. DoneIsOwn'
  <2>1. OnFile(w, f)'  BY <1>4, <1>5 DEF OnFile
  <2>2. \A g : \A v \in Worker : OnFile(v, g) => OnFile(v, g)'  BY <1>1, <1>5 DEF OnFile
  <2> QED  BY <1>0, <1>1, <1>7, <2>1, <2>2 DEF DoneIsOwn
<1>11. (\A g \in File : FileInv(g)') /\ (\A v \in Worker : TaskInv(v)')
  <2>1. ~At(w, "verify")  BY <1>1 DEF Busy, At
  <2>2. \A g \in File : version[g] <= version'[g]  BY <1>0, <1>1, CopyFields
  <2> QED  BY <1>1, <1>4, <1>5, <1>6, <2>1, <2>2, RestFrame
<1> QED  BY <1>6, <1>9, <1>10, <1>11 DEF TransferInv

(* A worker returns: the channel is closed and empty.                      *)
LEMMA QuitInv == ASSUME TransferInv, NEW w \in Worker, Quit(w) PROVE TransferInv'
<1>0. TypeOK /\ InOneHand /\ DoneIsOwn  BY DEF TransferInv
<1>1. /\ ~Busy(w) /\ ~At(w, "verify") /\ task' = [task EXCEPT ![w] = Gone]
      /\ unsent = {} /\ held = {} /\ jobs = <<>>
      /\ UNCHANGED <<full, version, target, sidecar, run, phase, unsent, held, jobs, failed, unproven, own>>
  BY DEF Quit, Closed, Set, Busy, At, tree, channel
<1>2. /\ task'[w] = Gone /\ \A v \in Worker \ {w} : task'[v] = task[v]
      /\ ~Busy(w)' /\ \A v \in Worker \ {w} : Busy(v)' <=> Busy(v)
  BY <1>0, <1>1 DEF TypeOK, Busy, At, Gone
<1>3. TypeOK'  BY <1>0, <1>1, Constants DEF TypeOK
<1>4. InOneHand'
  <2>1. \A u \in Worker : Busy(u)' => Busy(u) /\ u # w /\ task'[u] = task[u]
    BY <1>1, <1>2
  <2> QED  BY <1>0, <1>1, <2>1 DEF InOneHand, InJobs
<1>5. DoneIsOwn'  BY <1>0, <1>1, <1>2 DEF DoneIsOwn, OnFile, InJobs
<1>6. (\A f \in File : FileInv(f)') /\ (\A v \in Worker : TaskInv(v)')
  <2>1. \A f \in File : version[f] <= version'[f]  BY <1>0, <1>1, CopyFields
  <2> QED  BY <1>1, <1>2, <1>3, <2>1, RestFrame
<1> QED  BY <1>3, <1>4, <1>5, <1>6 DEF TransferInv

LEMMA VisitInv == ASSUME TransferInv, NEW f \in File, Visit(f) PROVE TransferInv'
<1>0. TypeOK /\ InOneHand /\ DoneIsOwn  BY DEF TransferInv
<1>1. /\ f \in unsent /\ unsent' = unsent \ {f} /\ held = {} /\ held' = {f} /\ phase = "copy"
      /\ UNCHANGED <<full, version, target, sidecar, run, phase, jobs, task, failed, unproven, own>>
  BY DEF Visit, tree
<1>2. TypeOK'  BY <1>0, <1>1 DEF TypeOK
<1>3. \A w \in Worker : (Busy(w)' <=> Busy(w)) /\ (At(w, "gone")' <=> At(w, "gone"))
  BY <1>1 DEF Busy, At
<1>4. \A g : InJobs(g)' <=> InJobs(g)  BY <1>1 DEF InJobs
<1>5. InOneHand'
  <2>1. \A w \in Worker : ~At(w, "gone")  BY <1>0, <1>1 DEF InOneHand
  <2> QED  BY <1>0, <1>1, <1>3, <1>4, <2>1 DEF InOneHand
<1>6. DoneIsOwn'  BY <1>0, <1>1, <1>3, <1>4 DEF DoneIsOwn, OnFile
<1>7. (\A g \in File : FileInv(g)') /\ (\A w \in Worker : TaskInv(w)')
  <2>1. \A g \in File : version[g] <= version'[g]  BY <1>0, <1>1, CopyFields
  <2> QED  BY <1>1, <1>2, <2>1, RestFrame
<1> QED  BY <1>2, <1>5, <1>6, <1>7 DEF TransferInv

LEMMA SendInv == ASSUME TransferInv, NEW f \in File, Send(f) PROVE TransferInv'
<1>0. TypeOK /\ InOneHand /\ DoneIsOwn  BY DEF TransferInv
<1>1. /\ f \in held /\ held' = held \ {f} /\ jobs' = Append(jobs, f)
      /\ Len(jobs) < 2 * Cardinality(Worker)
      /\ UNCHANGED <<full, version, target, sidecar, run, phase, unsent, task, failed, unproven, own>>
  BY DEF Send, tree
<1>2. /\ jobs \in Seq(File) /\ jobs' \in Seq(File) /\ Len(jobs') = Len(jobs) + 1
      /\ DOMAIN jobs' = 1 .. Len(jobs) + 1 /\ jobs'[Len(jobs) + 1] = f
      /\ \A k \in DOMAIN jobs : k \in DOMAIN jobs' /\ jobs'[k] = jobs[k]
      /\ \A k \in DOMAIN jobs' : k \in DOMAIN jobs \/ k = Len(jobs) + 1
  BY <1>0, <1>1 DEF TypeOK
<1>3. TypeOK'
  <2>1. Cardinality(Worker) \in Nat  BY TransferAssumption, FS_CardinalityType
  <2>2. Len(jobs') <= 2 * Cardinality(Worker)  BY <1>1, <1>2, <2>1
  <2> QED  BY <1>0, <1>1, <1>2, <2>2 DEF TypeOK
<1>4. \A g : InJobs(g)' <=> InJobs(g) \/ g = f  BY <1>2 DEF InJobs
<1>5. \A w \in Worker : Busy(w)' <=> Busy(w)  BY <1>1 DEF Busy, At
<1>6. InOneHand'
  <2>0. phase = "copy" /\ f \notin unsent /\ \A w \in Worker : ~At(w, "gone")
    BY <1>0, <1>1 DEF InOneHand
  <2>1. \A w \in Worker : Busy(w) => task[w].file # f /\ ~InJobs(task[w].file)
    BY <1>0, <1>1 DEF InOneHand
  <2>2. \A w \in Worker : Busy(w) => \A k \in DOMAIN jobs' : jobs'[k] # task[w].file
    BY <1>2, <2>1 DEF InJobs
  <2>3. \A k \in DOMAIN jobs : jobs[k] # f  BY <1>0, <1>1 DEF InOneHand
  <2>4. \A k \in DOMAIN jobs' : jobs'[k] \notin unsent' /\ jobs'[k] \notin held'
    BY <1>0, <1>1, <1>2, <2>0 DEF InOneHand
  <2>5. \A j, k \in DOMAIN jobs' : jobs'[j] = jobs'[k] => j = k
    BY <1>0, <1>2, <2>3 DEF InOneHand
  <2>6. \A w \in Worker : ~At(w, "gone")'  BY <1>1, <2>0 DEF At
  <2> QED  BY <1>0, <1>1, <1>5, <2>0, <2>2, <2>4, <2>5, <2>6 DEF InOneHand, InJobs
<1>7. DoneIsOwn'
  <2>1. \A g : \A w \in Worker : OnFile(w, g) => OnFile(w, g)'  BY <1>1, <1>5 DEF OnFile
  <2> QED  BY <1>0, <1>1, <1>4, <2>1 DEF DoneIsOwn
<1>8. (\A g \in File : FileInv(g)') /\ (\A w \in Worker : TaskInv(w)')
  <2>1. \A g \in File : version[g] <= version'[g]  BY <1>0, <1>1, CopyFields
  <2> QED  BY <1>1, <1>3, <2>1, RestFrame
<1> QED  BY <1>3, <1>6, <1>7, <1>8 DEF TransferInv

(* The end of the walk and of the command.                                 *)
LEMMA CommandInv == ASSUME TransferInv, WalkFails \/ EndOfRun PROVE TransferInv'
<1>0. TypeOK /\ InOneHand /\ DoneIsOwn  BY DEF TransferInv
<1>1. UNCHANGED <<full, version, target, sidecar, run, held, jobs, task, unproven, own>>
  BY DEF WalkFails, EndOfRun, tree, channel
<1>2. \A w \in Worker : (Busy(w)' <=> Busy(w)) /\ (At(w, "gone")' <=> At(w, "gone"))
  BY <1>1 DEF Busy, At
<1>3. \A f : InJobs(f)' <=> InJobs(f)  BY <1>1 DEF InJobs
<1>4. TypeOK'
  <2>1. unsent' \subseteq File /\ failed' \in BOOLEAN /\ phase' \in {"copy", "ended", "killed"}
    BY <1>0 DEF TypeOK, WalkFails, EndOfRun, tree, channel
  <2> QED  BY <1>0, <1>1, <2>1 DEF TypeOK
<1>5. InOneHand'
  <2>1. CASE WalkFails
    <3>1. unsent' = {} /\ held = {} /\ phase' = "copy"  BY <2>1 DEF WalkFails, tree
    <3>2. \A w \in Worker : At(w, "gone") => jobs = <<>>  BY <1>0 DEF InOneHand
    <3> QED  BY <1>0, <1>1, <1>2, <1>3, <3>1, <3>2 DEF InOneHand
  <2>2. CASE EndOfRun
    <3>1. \A w \in Worker : At(w, "gone") /\ ~Busy(w)  BY <2>2 DEF EndOfRun, Busy
    <3>2. unsent = {} /\ held = {} /\ jobs = <<>>  BY <1>0, <3>1, TransferAssumption DEF InOneHand
    <3>3. unsent' = unsent  BY <2>2 DEF EndOfRun, channel
    <3> QED  BY <1>0, <1>1, <1>2, <1>3, <3>1, <3>2, <3>3 DEF InOneHand
  <2> QED  BY <2>1, <2>2
<1>6. DoneIsOwn'
  <2>1. \A f : \A w \in Worker : OnFile(w, f) => OnFile(w, f)'  BY <1>1, <1>2 DEF OnFile
  <2>2. CASE WalkFails  BY <2>2 DEF WalkFails, DoneIsOwn
  <2>3. CASE EndOfRun
    BY <1>0, <1>1, <1>3, <2>1, <2>3 DEF EndOfRun, Closed, channel, DoneIsOwn
  <2> QED  BY <2>2, <2>3
<1>7. (\A f \in File : FileInv(f)') /\ (\A w \in Worker : TaskInv(w)')
  <2>1. \A f \in File : version[f] <= version'[f]
    BY <1>0, CopyFields DEF WalkFails, EndOfRun, tree
  <2>2. full' = full  BY DEF WalkFails, EndOfRun, tree
  <2> QED  BY <1>1, <1>4, <2>1, <2>2, RestFrame
<1> QED  BY <1>4, <1>5, <1>6, <1>7 DEF TransferInv

(* The next start.                                                         *)
LEMMA RetryInv == ASSUME TransferInv, Retry PROVE TransferInv'
<1>0. TypeOK /\ InOneHand /\ DoneIsOwn  BY DEF TransferInv
<1>1. /\ run < MaxRuns /\ run' = run + 1 /\ phase' = "copy" /\ phase # "copy"
      /\ unsent' = File /\ failed' = FALSE /\ task' = [w \in Worker |-> Idle]
      /\ UNCHANGED <<full, version, target, sidecar, held, jobs, unproven, own>>
  BY DEF Retry
<1>2. held = {} /\ jobs = <<>> /\ \A w \in Worker : ~Busy(w) /\ ~At(w, "verify")
  BY <1>0, <1>1 DEF InOneHand, Busy, At
<1>3. \A w \in Worker : task'[w] = Idle /\ ~Busy(w)' /\ ~At(w, "gone")'
  BY <1>1 DEF Busy, At, Idle
<1>4. TypeOK'
  <2>1. run' \in 1 .. MaxRuns  BY <1>0, <1>1, TransferAssumption DEF TypeOK
  <2> QED  BY <1>0, <1>1, <2>1, Constants DEF TypeOK
<1>5. InOneHand'  BY <1>1, <1>2, <1>3 DEF InOneHand
<1>6. DoneIsOwn'  BY <1>1 DEF DoneIsOwn
<1>7. (\A f \in File : FileInv(f)') /\ (\A w \in Worker : TaskInv(w)')
  <2>1. \A f \in File : version[f] <= version'[f]  BY <1>0, <1>1, CopyFields
  <2> QED  BY <1>1, <1>2, <1>3, <1>4, <2>1, RestFrame
<1> QED  BY <1>4, <1>5, <1>6, <1>7 DEF TransferInv

LEMMA KillInv == ASSUME TransferInv, Kill PROVE TransferInv'
<1>0. TypeOK /\ InOneHand /\ DoneIsOwn  BY DEF TransferInv
<1>1. /\ phase' = "killed" /\ unsent' = {} /\ held' = {} /\ jobs' = <<>> /\ task' = [w \in Worker |-> Idle]
      /\ unproven' = unproven \cup {task[w].file : w \in {w \in Worker : At(w, "verify")}}
      /\ UNCHANGED <<full, version, target, sidecar, run, failed, own>>
  BY DEF Kill
<1>2. \A w \in Worker : task'[w] = Idle /\ (At(w, "verify") => task[w].file \in unproven' /\ task[w].file \in File)
  <2>1. \A w \in Worker : At(w, "verify") => Busy(w)  BY DEF At, Busy
  <2> QED  BY <1>0, <1>1, <2>1, TaskFields
<1>3. TypeOK'
  <2>1. Cardinality(Worker) \in Nat  BY TransferAssumption, FS_CardinalityType
  <2>2. jobs' \in Seq(File) /\ Len(jobs') <= 2 * Cardinality(Worker)  BY <1>1, <2>1
  <2>3. unproven' \subseteq File  BY <1>0, <1>1, <1>2 DEF TypeOK
  <2> QED  BY <1>0, <1>1, <2>2, <2>3, Constants DEF TypeOK
<1>4. \A w \in Worker : ~Busy(w)' /\ ~At(w, "gone")'  BY <1>2 DEF Busy, At, Idle
<1>5. InOneHand'  BY <1>1, <1>4 DEF InOneHand
<1>6. DoneIsOwn'  BY <1>1 DEF DoneIsOwn
<1>7. (\A f \in File : FileInv(f)') /\ (\A w \in Worker : TaskInv(w)')
  <2>1. \A f \in File : version[f] <= version'[f]  BY <1>0, <1>1, CopyFields
  <2> QED  BY <1>1, <1>2, <1>3, <2>1, RestFrame
<1> QED  BY <1>3, <1>5, <1>6, <1>7 DEF TransferInv

LEMMA WriteInv == ASSUME TransferInv, NEW f \in File, Write(f) PROVE TransferInv'
<1>0. TypeOK /\ InOneHand /\ DoneIsOwn  BY DEF TransferInv
<1>1. /\ version[f] < Len(StampOf[f]) /\ version' = [version EXCEPT ![f] = @ + 1]
      /\ UNCHANGED <<full, target, sidecar, run, phase, unsent, held, jobs, task, failed, unproven, own>>
  BY DEF Write, channel
<1>2. \A g \in File : version[g] <= version'[g] /\ version'[g] \in Nat
  BY <1>0, <1>1, CopyFields DEF TypeOK
<1>3. TypeOK'
  <2>1. StampOf[f] \in Seq(Nat \ {0})  BY TransferAssumption
  <2>2. version[f] + 1 \in DOMAIN StampOf[f]  BY <1>0, <1>1, <2>1, CopyFields
  <2>3. \A g \in File : version'[g] \in DOMAIN StampOf[g]  BY <1>0, <1>1, <2>2 DEF TypeOK
  <2>4. version' \in [File -> Nat]  BY <1>0, <1>1 DEF TypeOK
  <2> QED  BY <1>0, <1>1, <2>3, <2>4 DEF TypeOK
<1>4. InOneHand'  BY <1>0, <1>1 DEF InOneHand, InJobs, Busy, At
<1>5. DoneIsOwn'  BY <1>0, <1>1 DEF DoneIsOwn, OnFile, InJobs, Busy, At
<1>6. (\A g \in File : FileInv(g)') /\ (\A w \in Worker : TaskInv(w)')
  BY <1>1, <1>2, <1>3, RestFrame
<1> QED  BY <1>3, <1>4, <1>5, <1>6 DEF TransferInv

LEMMA TransferStuttering == TransferInv /\ UNCHANGED vars => TransferInv'
<1> SUFFICES ASSUME TransferInv, UNCHANGED vars PROVE TransferInv'  OBVIOUS
<1>1. UNCHANGED <<full, version, target, sidecar, run, phase, unsent, held, jobs, task, failed, unproven, own>>
  BY DEF vars
<1>2. TypeOK'  BY <1>1 DEF TransferInv, TypeOK
<1>3. InOneHand'  BY <1>1 DEF TransferInv, InOneHand, InJobs, Busy, At
<1>4. DoneIsOwn'  BY <1>1 DEF TransferInv, DoneIsOwn, OnFile, InJobs, Busy, At
<1>5. \A f \in File : version[f] <= version'[f]  BY <1>1, CopyFields DEF TransferInv
<1>6. (\A f \in File : FileInv(f)') /\ (\A w \in Worker : TaskInv(w)')
  BY <1>1, <1>2, <1>5, RestFrame
<1> QED  BY <1>2, <1>3, <1>4, <1>6 DEF TransferInv

LEMMA InitTransfer == Init => TransferInv
<1> SUFFICES ASSUME Init PROVE TransferInv  OBVIOUS
<1>1. \A w \in Worker : task[w] = Idle /\ ~Busy(w) /\ ~At(w, "verify") /\ ~At(w, "gone")
  BY DEF Init, Busy, At, Idle
<1>2. TypeOK
  <2>1. Cardinality(Worker) \in Nat  BY TransferAssumption, FS_CardinalityType
  <2>2. <<>> \in Seq(File) /\ <<>> \in Seq(Nat) /\ Len(<<>>) <= 2 * Cardinality(Worker)
    BY <2>1
  <2>3. \A f \in File : 1 \in DOMAIN StampOf[f]  BY TransferAssumption
  <2>4. NoCopy \in Copy /\ NoSidecar \in Sidecar /\ Idle \in Task
    BY <2>2 DEF NoCopy, NoSidecar, Idle, Copy, Sidecar, Task, Now
  <2>5. version \in [File -> Nat] /\ \A f \in File : version[f] \in DOMAIN StampOf[f]
    BY <2>3 DEF Init
  <2>6. run \in 1 .. MaxRuns  BY TransferAssumption DEF Init
  <2>7. target \in [File -> Copy] /\ sidecar \in [File -> Sidecar] /\ task \in [Worker -> Task]
    BY <2>4 DEF Init
  <2> QED  BY <2>2, <2>5, <2>6, <2>7 DEF Init, TypeOK
<1>3. InOneHand /\ DoneIsOwn  BY <1>1 DEF Init, InOneHand, DoneIsOwn, InJobs
<1>4. \A f \in File : FileInv(f)  BY DEF Init, FileInv, Settled, NoCopy, NoSidecar
<1>5. \A w \in Worker : TaskInv(w)  BY <1>1 DEF TaskInv, At, Idle
<1> QED  BY <1>2, <1>3, <1>4, <1>5 DEF TransferInv

-----------------------------------------------------------------------------
(* What workers, channel, copies and sidecars agree on between any two      *)
(* steps of any number of workers, kills and writes to the sources.        *)
THEOREM TransferInvariant == Spec => []TransferInv
<1>1. TransferInv /\ [Next]_vars => TransferInv'
  <2> SUFFICES ASSUME TransferInv, [Next]_vars PROVE TransferInv'  OBVIOUS
  <2>1. ASSUME NEW w \in Worker, WorkerStep(w) PROVE TransferInv'
    BY <2>1, ReceiveInv, QuitInv, GiveUpKeeping, GiveUpRemoving, CreateInv, CopyChunkInv, CloseInv,
       VerifyChunkInv, EmptySidecarInv, FillSidecarInv
    DEF WorkerStep
  <2>2. CASE Walk  BY <2>2, VisitInv, SendInv, CommandInv DEF Walk
  <2>3. CASE EndOfRun \/ Retry  BY <2>3, CommandInv, RetryInv
  <2>4. CASE Kill  BY <2>4, KillInv
  <2>5. ASSUME NEW f \in File, Write(f) PROVE TransferInv'  BY <2>5, WriteInv
  <2>6. CASE UNCHANGED vars  BY <2>6, TransferStuttering
  <2> QED  BY <2>1, <2>2, <2>3, <2>4, <2>5, <2>6 DEF Next
<1> QED  BY InitTransfer, <1>1, PTL DEF Spec

(* Every variable keeps its type, the channel its length.                  *)
THEOREM TransferTyped == Spec => []TypeOK
<1>1. TransferInv => TypeOK  BY DEF TransferInv
<1> QED  BY TransferInvariant, <1>1, PTL

(* A sidecar that later runs would trust is true of the copy beside it, as *)
(* far as the flags had the copy checked.                                  *)
THEOREM TrustDeserved == Spec => []TrustIsDeserved
<1>1. TransferInv => TrustIsDeserved
  <2> SUFFICES ASSUME TransferInv, NEW f \in File,
                      Trusted(f), f \in own \/ (~Rewritten(f) /\ ~InDoubt(f))
               PROVE  SidecarIsTrue(f)
    BY DEF TrustIsDeserved
  <2>0. TypeOK /\ FileInv(f)  BY DEF TransferInv
  <2>1. CASE f \in own  BY <2>0, <2>1 DEF FileInv
  <2>2. CASE f \notin own
    <3>1. PICK v \in 1 .. version[f] :
            /\ StampOf[f][v] = sidecar[f].mtime
            /\ \A k \in 1 .. Chunks : sidecar[f].md5[k] \in v .. version[f]
      BY <2>0 DEF FileInv, Trusted
    <3>2. target[f].mtime = StampOf[f][v] /\ target[f].mtime # Now
      BY <2>0, <3>1, CopyFields DEF Trusted, Now
    <3>3. PICK u \in 1 .. version[f] : StampOf[f][u] = target[f].mtime /\ NoOlder(f, u)
      BY <2>0, <2>2, <3>2 DEF FileInv, Trusted, Stamped
    <3>4. u = v  BY <2>0, <2>2, <3>2, <3>3, CopyFields DEF Rewritten
    <3>5. \A k \in 1 .. Chunks : sidecar[f].md5[k] = v
      BY <2>0, <3>1, <3>3, <3>4, CopyFields DEF NoOlder, Trusted
    <3>6. \A k \in FirstToCheck .. Chunks : k \in 1 .. Chunks /\ target[f].data[k] = v
      <4>1. ASSUME NEW k \in FirstToCheck .. Chunks PROVE k \in 1 .. Chunks /\ target[f].data[k] = v
        <5>1. k \in 1 .. Chunks  BY <2>0, Checks, TransferAssumption
        <5>2. k \in DOMAIN target[f].data  BY <2>0, <5>1, CopyFields DEF Trusted
        <5>3. target[f].data[k] # Damaged  BY <2>0, <2>2, <3>2 DEF FileInv, Settled, Trusted
        <5>4. target[f].data[k] \in 1 .. version[f]
          <6>1. target[f].data[k] <= version[f]  BY <2>0, <5>2 DEF FileInv
          <6>2. target[f].data[k] \in Nat /\ version[f] \in Nat  BY <2>0, <5>2, CopyFields
          <6>3. target[f].data[k] # 0  BY <5>3 DEF Damaged
          <6> QED  BY <6>1, <6>2, <6>3
        <5>5. StampOf[f][target[f].data[k]] = StampOf[f][v]
          BY <2>2, <3>2, <5>2, <5>3 DEF Rewritten
        <5> QED  BY <2>0, <2>2, <5>1, <5>4, <5>5, CopyFields DEF Rewritten
      <4> QED  BY <4>1
    <3> QED  BY <3>5, <3>6 DEF SidecarIsTrue, FirstToCheck
  <2> QED  BY <2>1, <2>2
<1> QED  BY TransferInvariant, <1>1, PTL

(* A run that ends without an error leaves a whole, checked copy and its   *)
(* sidecar of every file.                                                  *)
THEOREM SuccessComplete == Spec => []SuccessIsComplete
<1>1. TransferInv => SuccessIsComplete
  <2> SUFFICES ASSUME TransferInv, phase = "ended", ~failed, NEW f \in File
               PROVE  /\ target[f].there /\ Len(target[f].data) = Chunks
                      /\ sidecar[f].there /\ SidecarIsTrue(f)
    BY DEF SuccessIsComplete
  <2>1. unsent = {} /\ held = {} /\ DOMAIN jobs = {} /\ \A w \in Worker : ~Busy(w)
    BY DEF TransferInv, InOneHand
  <2>2. f \in own  BY <2>1 DEF TransferInv, DoneIsOwn, InJobs, OnFile
  <2> QED  BY <2>2 DEF TransferInv, FileInv
<1> QED  BY TransferInvariant, <1>1, PTL

(* No worker leaves while there is something to send or in the channel,    *)
(* and the command does not end before.                                    *)
THEOREM NoWorkerIsLost == Spec => []FailuresCostNoWorker
<1>1. TransferInv => FailuresCostNoWorker
  BY DEF TransferInv, InOneHand, FailuresCostNoWorker
<1> QED  BY TransferInvariant, <1>1, PTL
=============================================================================
