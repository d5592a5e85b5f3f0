----------------------------- MODULE RunsProofs -----------------------------
(***************************************************************************)
(* For any number of runs, files, stores and process numbers: a run's      *)
(* store stays where it is, what a run reports from was walked to the end, *)
(* the last copy stays, and the trash can be traced back.                  *)
(***************************************************************************)
EXTENDS Runs, TLAPS

-----------------------------------------------------------------------------
(* The trash.                                                              *)

NamesApart == \A r, q \in Run : r # q /\ Chosen(r) /\ Chosen(q) => Name(r) # Name(q)

(* Under a chosen name there is nothing until the record is written, and   *)
(* then no file until the move.                                            *)
NamesReady ==
  \A r \in Run :
    /\ At(r, "record") => Free(Name(r))
    /\ At(r, "move") => trashed[Name(r)] = NoFile /\ info[Name(r)] = hand[r].file

RecordsTrue == \A s \in Slot : trashed[s] # NoFile => info[s] = trashed[s]

NothingLost == \A f \in File \ (place \cup unlinked) : \E s \in Slot : trashed[s] = f

TrashInv ==
  /\ TrashTypeOK
  /\ clash \/ (NamesApart /\ NamesReady /\ RecordsTrue /\ NothingLost)

(* A step of a process in the trash, or one that unlinks a file.           *)
TrashStep(r) ==
  \/ \E f \in File : Unlink(f) \/ BeginTrash(r, f)
  \/ NextName(r) \/ ChooseName(r) \/ WriteRecord(r) \/ RecordFails(r)
  \/ Move(r) \/ MoveFails(r) \/ LetGo(r)

-----------------------------------------------------------------------------
LEMMA InitTrash == TrashInit => TrashInv
<1> SUFFICES ASSUME TrashInit PROVE TrashInv  OBVIOUS
<1>1. Empty \in Hand /\ \A r \in Run : hand[r] = Empty  BY DEF TrashInit, Empty, Hand
<1>2. ASSUME NEW r \in Run
      PROVE  At(r, "idle") /\ ~Chosen(r) /\ ~At(r, "record") /\ ~At(r, "move")
  <2>1. hand[r].step = "idle"  BY <1>1 DEF Empty
  <2> QED  BY <2>1 DEF At, Chosen
<1>3. TrashTypeOK  BY <1>1, <1>2 DEF TrashInit, TrashTypeOK
<1> QED
  BY <1>2, <1>3 DEF TrashInit, TrashInv, NamesApart, NamesReady, RecordsTrue, NothingLost

LEMMA TrashStuttering == TrashInv /\ UNCHANGED trashVars => TrashInv'
<1> SUFFICES ASSUME TrashInv, UNCHANGED trashVars PROVE TrashInv'  OBVIOUS
<1>1. UNCHANGED <<place, unlinked, trashed, info, hand, clash>>  BY DEF trashVars
<1>2. TrashTypeOK'  BY <1>1 DEF TrashInv, TrashTypeOK, At
<1>3. (NamesApart <=> NamesApart') /\ (NamesReady <=> NamesReady')
  BY <1>1 DEF NamesApart, NamesReady, Chosen, At, Name, Free
<1>4. (RecordsTrue <=> RecordsTrue') /\ (NothingLost <=> NothingLost')
  BY <1>1 DEF RecordsTrue, NothingLost
<1> QED  BY <1>1, <1>2, <1>3, <1>4 DEF TrashInv

(* What a process holds is a file, and its name one of the slots.          *)
LEMMA HeldName ==
  ASSUME TrashTypeOK, NEW r \in Run, ~At(r, "idle")
  PROVE  /\ Name(r) \in Slot /\ hand[r] \in Hand
         /\ hand[r].file \in File /\ hand[r].try \in DOMAIN Names[hand[r].file]
<1>1. hand[r] \in Hand /\ hand[r].file \in File /\ hand[r].try \in DOMAIN Names[hand[r].file]
  BY DEF TrashTypeOK
<1>2. Names[hand[r].file] \in Seq(Slot)  BY <1>1, TrashAssumption
<1> QED  BY <1>1, <1>2 DEF Name

(* A step of r leaves what the others hold.                                *)
LEMMA OthersKeep ==
  ASSUME TrashTypeOK, NEW r \in Run, NEW h \in Hand, hand' = [hand EXCEPT ![r] = h]
  PROVE  /\ hand' \in [Run -> Hand] /\ hand'[r] = h
         /\ \A q \in Run \ {r} :
              /\ hand'[q] = hand[q] /\ Name(q)' = Name(q) /\ (Chosen(q)' <=> Chosen(q))
              /\ \A step : At(q, step)' <=> At(q, step)
BY DEF TrashTypeOK, Name, Chosen, At

(* r gives up what it holds, or looks for a name.                          *)
LEMMA HandFree ==
  ASSUME TrashInv, NEW r \in Run, NEW h \in Hand, hand' = [hand EXCEPT ![r] = h],
         h.step \in {"idle", "look"},
         h.step = "look" => h.file \in File /\ h.try \in DOMAIN Names[h.file],
         UNCHANGED <<place, unlinked, trashed, info, clash>>
  PROVE  TrashInv'
<1>0. TrashTypeOK  BY DEF TrashInv
<1>1. /\ hand' \in [Run -> Hand] /\ hand'[r] = h
      /\ \A q \in Run \ {r} :
           /\ hand'[q] = hand[q] /\ Name(q)' = Name(q) /\ (Chosen(q)' <=> Chosen(q))
           /\ \A step : At(q, step)' <=> At(q, step)
  BY <1>0, OthersKeep
<1>2. TrashTypeOK'  BY <1>0, <1>1 DEF TrashTypeOK, At
<1>3. ~Chosen(r)' /\ ~At(r, "record")' /\ ~At(r, "move")'  BY <1>1 DEF Chosen, At
<1>4. ASSUME ~clash PROVE NamesApart' /\ NamesReady' /\ RecordsTrue' /\ NothingLost'
  <2>1. NamesApart'  BY <1>1, <1>3, <1>4 DEF TrashInv, NamesApart
  <2>2. NamesReady'  BY <1>1, <1>3, <1>4 DEF TrashInv, NamesReady, Free
  <2> QED  BY <1>4, <2>1, <2>2 DEF TrashInv, RecordsTrue, NothingLost
<1> QED  BY <1>2, <1>4 DEF TrashInv

LEMMA GiveUpInv ==
  ASSUME TrashInv, NEW r \in Run, LetGo(r) \/ RecordFails(r)
  PROVE  TrashInv'
<1>1. Empty \in Hand /\ Empty.step = "idle"  BY DEF Empty, Hand
<1>2. hand' = [hand EXCEPT ![r] = Empty] /\ UNCHANGED <<place, unlinked, trashed, info, clash>>
  BY DEF LetGo, RecordFails
<1> QED  BY <1>1, <1>2, HandFree

LEMMA BeginTrashInv ==
  ASSUME TrashInv, NEW r \in Run, NEW f \in File, BeginTrash(r, f)
  PROVE  TrashInv'
<1> DEFINE h == [file |-> f, try |-> 1, step |-> "look"]
<1>1. hand' = [hand EXCEPT ![r] = h] /\ UNCHANGED <<place, unlinked, trashed, info, clash>>
  BY DEF BeginTrash
<1>2. Names[f] \in Seq(Slot) /\ Names[f] # <<>>  BY TrashAssumption
<1>3. h \in Hand /\ h.step = "look" /\ h.file \in File /\ h.try \in DOMAIN Names[f]
  BY <1>2 DEF Hand
<1> QED  BY <1>1, <1>3, HandFree

LEMMA NextNameInv ==
  ASSUME TrashInv, NEW r \in Run, NextName(r)
  PROVE  TrashInv'
<1> DEFINE h == [hand[r] EXCEPT !.try = @ + 1]
<1>1. /\ At(r, "look") /\ hand[r].try < Len(Names[hand[r].file])
      /\ hand' = [hand EXCEPT ![r] = h] /\ UNCHANGED <<place, unlinked, trashed, info, clash>>
  BY DEF NextName
<1>2. hand[r] \in Hand /\ hand[r].file \in File
  BY <1>1, HeldName DEF TrashInv, At
<1>3. Names[hand[r].file] \in Seq(Slot)  BY <1>2, TrashAssumption
<1>4. h \in Hand /\ h.step = "look" /\ h.file = hand[r].file /\ h.try \in DOMAIN Names[h.file]
  BY <1>1, <1>2, <1>3 DEF Hand, At
<1> HIDE DEF h
<1> QED  BY <1>1, <1>2, <1>4, HandFree

(* A name is free when it is chosen, and nobody else's unless they clash.  *)
LEMMA ChooseNameInv ==
  ASSUME TrashInv, NEW r \in Run, ChooseName(r)
  PROVE  TrashInv'
<1> DEFINE h == [hand[r] EXCEPT !.step = "record"]
<1>0. TrashTypeOK  BY DEF TrashInv
<1>1. /\ At(r, "look") /\ Free(Name(r)) /\ hand' = [hand EXCEPT ![r] = h]
      /\ clash' = (clash \/ \E q \in Run \ {r} : Chosen(q) /\ Name(q) = Name(r))
      /\ UNCHANGED <<place, unlinked, trashed, info>>
  BY DEF ChooseName
<1>2. /\ hand[r] \in Hand /\ hand[r].file \in File
      /\ hand[r].try \in DOMAIN Names[hand[r].file]
  BY <1>0, <1>1, HeldName DEF At
<1>3. h \in Hand /\ h.step = "record" /\ h.file = hand[r].file /\ h.try = hand[r].try
  BY <1>2 DEF Hand
<1> HIDE DEF h
<1>4. /\ hand' \in [Run -> Hand] /\ hand'[r] = h
      /\ \A q \in Run \ {r} :
           /\ hand'[q] = hand[q] /\ Name(q)' = Name(q) /\ (Chosen(q)' <=> Chosen(q))
           /\ \A step : At(q, step)' <=> At(q, step)
  BY <1>0, <1>1, <1>3, OthersKeep
<1>5. Name(r)' = Name(r) /\ ~At(r, "move")'  BY <1>3, <1>4 DEF Name, At
<1>6. clash' \in BOOLEAN  BY <1>0, <1>1 DEF TrashTypeOK
<1>7. TrashTypeOK'  BY <1>0, <1>1, <1>2, <1>3, <1>4, <1>6 DEF TrashTypeOK, At
<1>8. ASSUME ~clash' PROVE NamesApart' /\ NamesReady' /\ RecordsTrue' /\ NothingLost'
  <2>0. ~clash /\ \A q \in Run \ {r} : Chosen(q) => Name(q) # Name(r)  BY <1>0, <1>1, <1>8 DEF TrashTypeOK
  <2>1. NamesApart'  BY <1>4, <1>5, <2>0 DEF TrashInv, NamesApart
  <2>2. NamesReady'  BY <1>1, <1>4, <1>5, <2>0 DEF TrashInv, NamesReady, Free
  <2> QED  BY <1>1, <2>0, <2>1, <2>2 DEF TrashInv, RecordsTrue, NothingLost
<1> QED  BY <1>7, <1>8 DEF TrashInv

LEMMA WriteRecordInv ==
  ASSUME TrashInv, NEW r \in Run, WriteRecord(r)
  PROVE  TrashInv'
<1> DEFINE h == [hand[r] EXCEPT !.step = "move"]
<1>0. TrashTypeOK  BY DEF TrashInv
<1>1. /\ At(r, "record") /\ hand' = [hand EXCEPT ![r] = h]
      /\ info' = [info EXCEPT ![Name(r)] = hand[r].file]
      /\ UNCHANGED <<place, unlinked, trashed, clash>>
  BY DEF WriteRecord
<1>2. /\ hand[r] \in Hand /\ hand[r].file \in File /\ Name(r) \in Slot
      /\ hand[r].try \in DOMAIN Names[hand[r].file]
  BY <1>0, <1>1, HeldName DEF At
<1>3. h \in Hand /\ h.step = "move" /\ h.file = hand[r].file /\ h.try = hand[r].try
  BY <1>2 DEF Hand
<1> HIDE DEF h
<1>4. /\ hand' \in [Run -> Hand] /\ hand'[r] = h
      /\ \A q \in Run \ {r} :
           /\ hand'[q] = hand[q] /\ Name(q)' = Name(q) /\ (Chosen(q)' <=> Chosen(q))
           /\ \A step : At(q, step)' <=> At(q, step)
  BY <1>0, <1>1, <1>3, OthersKeep
<1>5. Name(r)' = Name(r) /\ ~At(r, "record")' /\ Chosen(r)
  BY <1>1, <1>3, <1>4 DEF Name, At, Chosen
<1>6. info' \in [Slot -> File \cup {NoFile}] /\ info'[Name(r)] = hand[r].file
      /\ \A s \in Slot \ {Name(r)} : info'[s] = info[s]
  BY <1>0, <1>1, <1>2 DEF TrashTypeOK
<1>7. TrashTypeOK'  BY <1>0, <1>1, <1>2, <1>3, <1>4, <1>6 DEF TrashTypeOK, At
<1>8. ASSUME ~clash PROVE NamesApart' /\ NamesReady' /\ RecordsTrue' /\ NothingLost'
  <2>0. NamesApart /\ NamesReady /\ RecordsTrue /\ NothingLost  BY <1>8 DEF TrashInv
  <2>1. trashed[Name(r)] = NoFile  BY <1>1, <2>0 DEF NamesReady, Free
  <2>2. NamesApart'  BY <1>4, <1>5, <2>0 DEF NamesApart
  <2>3. \A q \in Run \ {r} : Chosen(q) => Name(q) \in Slot \ {Name(r)}
    BY <1>0, <1>5, <2>0, HeldName DEF NamesApart, Chosen, At
  <2>4. NamesReady'
    <3> SUFFICES ASSUME NEW q \in Run
                 PROVE  /\ At(q, "record")' => Free(Name(q))'
                        /\ At(q, "move")' => /\ (trashed[Name(q)] = NoFile)'
                                             /\ (info[Name(q)] = hand[q].file)'
      BY DEF NamesReady
    <3>1. CASE q = r  BY <1>1, <1>3, <1>4, <1>5, <1>6, <2>1, <3>1
    <3>2. CASE q # r
      BY <1>1, <1>4, <1>6, <2>0, <2>3, <3>2 DEF NamesReady, Free, Chosen, At
    <3> QED  BY <3>1, <3>2
  <2>5. RecordsTrue'  BY <1>1, <1>6, <2>0, <2>1 DEF RecordsTrue
  <2> QED  BY <1>1, <2>0, <2>2, <2>4, <2>5 DEF NothingLost
<1> QED  BY <1>1, <1>7, <1>8 DEF TrashInv

LEMMA MoveInv ==
  ASSUME TrashInv, NEW r \in Run, Move(r)
  PROVE  TrashInv'
<1>0. TrashTypeOK  BY DEF TrashInv
<1>1. /\ At(r, "move") /\ hand' = [hand EXCEPT ![r] = Empty]
      /\ hand[r].file \in place /\ place' = place \ {hand[r].file}
      /\ trashed' = [trashed EXCEPT ![Name(r)] = hand[r].file]
      /\ UNCHANGED <<unlinked, info, clash>>
  BY DEF Move
<1>2. hand[r].file \in File /\ Name(r) \in Slot  BY <1>0, <1>1, HeldName DEF At
<1>3. Empty \in Hand /\ Empty.step = "idle"  BY DEF Empty, Hand
<1>4. /\ hand' \in [Run -> Hand] /\ hand'[r] = Empty
      /\ \A q \in Run \ {r} :
           /\ hand'[q] = hand[q] /\ Name(q)' = Name(q) /\ (Chosen(q)' <=> Chosen(q))
           /\ \A step : At(q, step)' <=> At(q, step)
  BY <1>0, <1>1, <1>3, OthersKeep
<1>5. ~Chosen(r)' /\ ~At(r, "record")' /\ ~At(r, "move")' /\ Chosen(r)
  BY <1>1, <1>3, <1>4 DEF Chosen, At
<1>6. trashed' \in [Slot -> File \cup {NoFile}] /\ trashed'[Name(r)] = hand[r].file
      /\ \A s \in Slot \ {Name(r)} : trashed'[s] = trashed[s]
  BY <1>0, <1>1, <1>2 DEF TrashTypeOK
<1>7. TrashTypeOK'  BY <1>0, <1>1, <1>3, <1>4, <1>6 DEF TrashTypeOK, At
<1>8. ASSUME ~clash PROVE NamesApart' /\ NamesReady' /\ RecordsTrue' /\ NothingLost'
  <2>0. NamesApart /\ NamesReady /\ RecordsTrue /\ NothingLost  BY <1>8 DEF TrashInv
  <2>1. trashed[Name(r)] = NoFile /\ info[Name(r)] = hand[r].file
    BY <1>1, <2>0 DEF NamesReady
  <2>2. NamesApart'  BY <1>4, <1>5, <2>0 DEF NamesApart
  <2>3. \A q \in Run \ {r} : Chosen(q) => Name(q) \in Slot \ {Name(r)}
    BY <1>0, <1>5, <2>0, HeldName DEF NamesApart, Chosen, At
  <2>4. NamesReady'
    BY <1>1, <1>4, <1>5, <1>6, <2>0, <2>3 DEF NamesReady, Free, Chosen, At
  <2>5. RecordsTrue'  BY <1>1, <1>6, <2>0, <2>1 DEF RecordsTrue
  <2>6. NothingLost'
    <3> SUFFICES ASSUME NEW f \in File, f \notin place', f \notin unlinked'
                 PROVE  \E s \in Slot : trashed'[s] = f
      BY DEF NothingLost
    <3>1. CASE f = hand[r].file  BY <1>2, <1>6, <3>1
    <3>2. CASE f # hand[r].file
      <4>1. PICK s \in Slot : trashed[s] = f  BY <1>1, <2>0, <3>2 DEF NothingLost
      <4>2. s # Name(r)  BY <2>1, <4>1, TrashAssumption
      <4> QED  BY <1>6, <4>1, <4>2
    <3> QED  BY <3>1, <3>2
  <2> QED  BY <2>2, <2>4, <2>5, <2>6
<1> QED  BY <1>1, <1>7, <1>8 DEF TrashInv

LEMMA MoveFailsInv ==
  ASSUME TrashInv, NEW r \in Run, MoveFails(r)
  PROVE  TrashInv'
<1>0. TrashTypeOK  BY DEF TrashInv
<1>1. /\ At(r, "move") /\ hand' = [hand EXCEPT ![r] = Empty]
      /\ info' = [info EXCEPT ![Name(r)] = NoFile]
      /\ UNCHANGED <<place, unlinked, trashed, clash>>
  BY DEF MoveFails
<1>2. Name(r) \in Slot  BY <1>0, <1>1, HeldName DEF At
<1>3. Empty \in Hand /\ Empty.step = "idle"  BY DEF Empty, Hand
<1>4. /\ hand' \in [Run -> Hand] /\ hand'[r] = Empty
      /\ \A q \in Run \ {r} :
           /\ hand'[q] = hand[q] /\ Name(q)' = Name(q) /\ (Chosen(q)' <=> Chosen(q))
           /\ \A step : At(q, step)' <=> At(q, step)
  BY <1>0, <1>1, <1>3, OthersKeep
<1>5. ~Chosen(r)' /\ ~At(r, "record")' /\ ~At(r, "move")' /\ Chosen(r)
  BY <1>1, <1>3, <1>4 DEF Chosen, At
<1>6. info' \in [Slot -> File \cup {NoFile}] /\ \A s \in Slot \ {Name(r)} : info'[s] = info[s]
  BY <1>0, <1>1, <1>2 DEF TrashTypeOK
<1>7. info'[Name(r)] = NoFile  BY <1>0, <1>1, <1>2 DEF TrashTypeOK
<1>8. TrashTypeOK'  BY <1>0, <1>1, <1>3, <1>4, <1>6 DEF TrashTypeOK, At
<1>9. ASSUME ~clash PROVE NamesApart' /\ NamesReady' /\ RecordsTrue' /\ NothingLost'
  <2>0. NamesApart /\ NamesReady /\ RecordsTrue /\ NothingLost  BY <1>9 DEF TrashInv
  <2>1. trashed[Name(r)] = NoFile  BY <1>1, <2>0 DEF NamesReady
  <2>2. NamesApart'  BY <1>4, <1>5, <2>0 DEF NamesApart
  <2>3. \A q \in Run \ {r} : Chosen(q) => Name(q) \in Slot \ {Name(r)}
    BY <1>0, <1>5, <2>0, HeldName DEF NamesApart, Chosen, At
  <2>4. NamesReady'
    BY <1>1, <1>4, <1>5, <1>6, <2>0, <2>3 DEF NamesReady, Free, Chosen, At
  <2>5. RecordsTrue'  BY <1>1, <1>6, <2>0, <2>1 DEF RecordsTrue
  <2> QED  BY <1>1, <2>0, <2>2, <2>4, <2>5 DEF NothingLost
<1> QED  BY <1>1, <1>8, <1>9 DEF TrashInv

LEMMA UnlinkInv ==
  ASSUME TrashInv, NEW f \in File, Unlink(f)
  PROVE  TrashInv'
<1>1. /\ place' = place \ {f} /\ unlinked' = unlinked \cup ({f} \cap place)
      /\ UNCHANGED <<trashed, info, hand, clash>>
  BY DEF Unlink
<1>2. TrashTypeOK'  BY <1>1 DEF TrashInv, TrashTypeOK, At
<1>3. (NamesApart <=> NamesApart') /\ (NamesReady <=> NamesReady')
  BY <1>1 DEF NamesApart, NamesReady, Chosen, At, Name, Free
<1>4. (RecordsTrue <=> RecordsTrue') /\ (NothingLost => NothingLost')
  BY <1>1 DEF RecordsTrue, NothingLost
<1> QED  BY <1>1, <1>2, <1>3, <1>4 DEF TrashInv

LEMMA TrashStepInv == ASSUME TrashInv, NEW r \in Run, TrashStep(r) PROVE TrashInv'
BY GiveUpInv, BeginTrashInv, NextNameInv, ChooseNameInv, WriteRecordInv, MoveInv, MoveFailsInv,
   UnlinkInv DEF TrashStep

LEMMA InvRecoverable == TrashInv => TrashTypeOK /\ TrashIsRecoverable
BY TrashAssumption DEF TrashInv, TrashIsRecoverable, NothingLost, RecordsTrue

-----------------------------------------------------------------------------
(* The scan stores and the last copy.                                      *)

Before == {"new", "sweep", "open", "clear", "create"}

(* Indexes come after the walk, and rows with it.                          *)
StoresGrow ==
  \A r \in Run :
    /\ indexes[r] > 0 => left[r] = {}
    /\ phase[r] \in Before => indexes[r] = 0 /\ rows[r] = {}
    /\ phase[r] = "walk" => indexes[r] < 2 /\ handle[r] = r
    /\ phase[r] \in {"serve", "dispose"} => handle[r] \in Run /\ left[handle[r]] = {}

(* Only stores named after a process are swept, and what is about to be    *)
(* removed is the path of none that is alive, unless it borrowed the name  *)
(* or began meanwhile.                                                     *)
SweepsStale ==
  \A r \in Run :
    /\ sweep[r] \subseteq {Scratch[p] : p \in Pid}
    /\ doomed[r] # NoPath =>
         \A q \in Run : Live(q) /\ PathOf(q) = doomed[r] => Borrowed(q) \/ q \in recycled

MatesShare ==
  \A r, q \in Run : r # q /\ Live(r) /\ Live(q) /\ PathOf(r) = PathOf(q) => r \in shared

(* Only a run of the same path can put another store in the place of one.  *)
NoStranger ==
  \A r \in Run : HasStore(r) /\ r \notin shared => at[PathOf(r)] \in {handle[r], NoRun}

StoreInv ==
  StoreTypeOK /\ StoresGrow /\ SweepsStale /\ MatesShare /\ StoreStaysPut /\ NoStranger

(* The steps of a run as its store sees them.                              *)
Disposal(r) ==
  /\ phase[r] = "serve" /\ Become(r, "dispose")
  /\ UNCHANGED <<opt, pid, sweep, doomed, at, rows, left, indexes, handle, shared, recycled>>

Leave(r) ==
  /\ phase[r] \in {"walk", "serve", "dispose"} /\ Close(r) /\ Become(r, "over")
  /\ UNCHANGED <<opt, pid, sweep, doomed, rows, left, indexes, handle, shared, recycled>>

StoreStep(r) ==
  \/ Start(r) \/ \E p \in Pid : LookAt(r, p)
  \/ RemoveStale(r) \/ Stat(r) \/ OpenFileStore(r) \/ RemovePrior(r) \/ CreateTable(r)
  \/ \E f \in File : Visit(r, f, place)
  \/ CreateIndex(r) \/ Disposal(r) \/ Leave(r) \/ KillRun(r)

-----------------------------------------------------------------------------
LEMMA InitStore == StoreInit => StoreInv
<1> SUFFICES ASSUME StoreInit PROVE StoreInv  OBVIOUS
<1>1. StoreTypeOK  BY DEF StoreInit, StoreTypeOK, Phase
<1>2. StoresGrow /\ SweepsStale /\ MatesShare /\ StoreStaysPut /\ NoStranger
  BY DEF StoreInit, StoresGrow, SweepsStale, MatesShare, StoreStaysPut, NoStranger, Live, HasStore
<1> QED  BY <1>1, <1>2 DEF StoreInv

LEMMA StoreStuttering == StoreInv /\ UNCHANGED storeVars => StoreInv'
BY DEF StoreInv, storeVars, StoreTypeOK, StoresGrow, SweepsStale, MatesShare, StoreStaysPut,
       NoStranger, Live, PathOf, HasStore, Borrowed

LEMMA PathIsPath == StoreTypeOK => \A r \in Run : PathOf(r) \in Path
<1> SUFFICES ASSUME StoreTypeOK, NEW r \in Run PROVE PathOf(r) \in Path  OBVIOUS
<1>1. opt[r] \in Option /\ pid[r] \in Pid  BY StoreAssumption DEF StoreTypeOK
<1>2. opt[r].inventory \in Path \cup {NoPath} /\ Scratch[pid[r]] \in Path
  BY <1>1, StoreAssumption DEF Option
<1> QED  BY <1>2 DEF PathOf

(* No step of the store sets more than these.                              *)
LEMMA StoreStepTypes == ASSUME StoreInv, NEW r \in Run, StoreStep(r) PROVE StoreTypeOK'
<1>0. StoreTypeOK /\ PathOf(r) \in Path  BY PathIsPath DEF StoreInv
<1>1. CASE Start(r)
  <2>1. \A p \in Pid : Scratch[p] \in Path  BY StoreAssumption
  <2> QED  BY <1>0, <1>1, <2>1 DEF Start, StoreTypeOK, Become, Phase
<1>2. ASSUME NEW p \in Pid, LookAt(r, p) PROVE StoreTypeOK'
  <2>1. Scratch[p] \in Path  BY StoreAssumption
  <2> QED  BY <1>0, <1>2, <2>1 DEF LookAt, StoreTypeOK
<1>3. CASE RemoveStale(r)  BY <1>0, <1>3 DEF RemoveStale, StoreTypeOK
<1>4. CASE Stat(r)  BY <1>0, <1>4 DEF Stat, StoreTypeOK, Become, Phase
<1>5. CASE OpenFileStore(r)  BY <1>0, <1>5 DEF OpenFileStore, StoreTypeOK, Become, Phase
<1>6. CASE RemovePrior(r)  BY <1>0, <1>6 DEF RemovePrior, StoreTypeOK, Become, Phase
<1>7. CASE CreateTable(r)  BY <1>0, <1>7 DEF CreateTable, StoreTypeOK, Become, Phase
<1>8. ASSUME NEW f \in File, Visit(r, f, place) PROVE StoreTypeOK'
  BY <1>0, <1>8 DEF Visit, StoreTypeOK
<1>9. CASE CreateIndex(r)
  <2>1. indexes[r] < 2  BY <1>9 DEF StoreInv, StoresGrow, CreateIndex
  <2> QED  BY <1>0, <1>9, <2>1 DEF CreateIndex, StoreTypeOK, Become, Phase
<1>10. CASE Disposal(r)  BY <1>0, <1>10 DEF Disposal, StoreTypeOK, Become, Phase
<1>11. CASE Leave(r)  BY <1>0, <1>11 DEF Leave, Close, StoreTypeOK, Become, Phase
<1>12. CASE KillRun(r)  BY <1>0, <1>12 DEF KillRun, StoreTypeOK, Become, Phase
<1> QED
  BY <1>1, <1>2, <1>3, <1>4, <1>5, <1>6, <1>7, <1>8, <1>9, <1>10, <1>11, <1>12, StoreStep(r)
  DEF StoreStep

(* What every step of r leaves: its flags, and where the others stand.     *)
LEMMA OthersStay ==
  ASSUME StoreInv, NEW r \in Run, StoreStep(r)
  PROVE  /\ opt' = opt /\ pid' = pid /\ shared \subseteq shared'
         /\ \A q \in Run : PathOf(q)' = PathOf(q) /\ (Borrowed(q)' <=> Borrowed(q))
         /\ \A q \in Run \ {r} : phase'[q] = phase[q] /\ (Live(q)' <=> Live(q))
         /\ Live(r)' /\ ~Live(r) => Start(r)
         /\ recycled \subseteq recycled'
<1>0. StoreTypeOK  BY DEF StoreInv
<1>1. opt' = opt /\ pid' = pid /\ shared \subseteq shared' /\ recycled \subseteq recycled'
  BY DEF StoreStep, Start, LookAt, RemoveStale, Stat, OpenFileStore, RemovePrior, CreateTable,
         Visit, CreateIndex, Disposal, Leave, KillRun
<1>2. phase' = phase \/ \E ph : phase' = [phase EXCEPT ![r] = ph]
  BY DEF StoreStep, Start, LookAt, RemoveStale, Stat, OpenFileStore, RemovePrior, CreateTable,
         Visit, CreateIndex, Disposal, Leave, KillRun, Become
<1>3. \A q \in Run : PathOf(q)' = PathOf(q) /\ (Borrowed(q)' <=> Borrowed(q))
  BY <1>1 DEF PathOf, Borrowed
<1>4. \A q \in Run \ {r} : phase'[q] = phase[q] /\ (Live(q)' <=> Live(q))
  BY <1>0, <1>2 DEF StoreTypeOK, Live
<1>5. ~Start(r) => Live(r)
  BY DEF StoreStep, LookAt, RemoveStale, Stat, OpenFileStore, RemovePrior, CreateTable,
         Visit, CreateIndex, Disposal, Leave, KillRun, Live
<1> QED  BY <1>1, <1>3, <1>4, <1>5

LEMMA StoreStepGrows == ASSUME StoreInv, NEW r \in Run, StoreStep(r) PROVE StoresGrow'
<1>0. StoreTypeOK /\ StoresGrow /\ StoreTypeOK'  BY StoreStepTypes DEF StoreInv
<1>1. CASE Start(r) \/ RemovePrior(r) \/ Stat(r) \/ Disposal(r) \/ KillRun(r) \/ Leave(r)
  <2>1. /\ UNCHANGED <<rows, left, indexes, handle>>
        /\ \E ph \in Phase :
             /\ phase' = [phase EXCEPT ![r] = ph] /\ ph # "walk"
             /\ ph \in Before => phase[r] \in Before
             /\ ph \in {"serve", "dispose"} => phase[r] \in {"serve", "dispose"}
    BY <1>1 DEF Start, RemovePrior, Stat, Disposal, KillRun, Leave, Become, Phase, Before
  <2> QED  BY <1>0, <2>1 DEF StoreTypeOK, StoresGrow
<1>2. ASSUME NEW p \in Pid, LookAt(r, p) \/ RemoveStale(r) PROVE StoresGrow'
  BY <1>0, <1>2 DEF LookAt, RemoveStale, StoresGrow
<1>3. CASE RemoveStale(r)  BY <1>0, <1>3 DEF RemoveStale, StoresGrow
<1>4. CASE OpenFileStore(r)
  BY <1>0, <1>4 DEF OpenFileStore, Usable, Become, StoreTypeOK, StoresGrow, Before
<1>5. CASE CreateTable(r)
  BY <1>0, <1>5 DEF CreateTable, Become, StoreTypeOK, StoresGrow, Before
<1>6. ASSUME NEW f \in File, Visit(r, f, place) PROVE StoresGrow'
  <2>1. /\ UNCHANGED <<phase, indexes, handle>> /\ phase[r] = "walk"
        /\ \A q \in Run : left'[q] \subseteq left[q]
        /\ \A q \in Run : q # r => rows'[q] = rows[q]
    BY <1>0, <1>6 DEF Visit, StoreTypeOK
  <2> QED  BY <1>0, <2>1 DEF StoreTypeOK, StoresGrow, Before
<1>7. CASE CreateIndex(r)
  BY <1>0, <1>7 DEF CreateIndex, Become, StoreTypeOK, StoresGrow, Before
<1> QED  BY <1>1, <1>2, <1>3, <1>4, <1>5, <1>6, <1>7, StoreStep(r) DEF StoreStep

LEMMA StoreStepSweeps == ASSUME StoreInv, NEW r \in Run, StoreStep(r) PROVE SweepsStale'
<1>0. /\ StoreTypeOK /\ SweepsStale /\ recycled \subseteq recycled'
      /\ \A q \in Run : PathOf(q)' = PathOf(q) /\ (Borrowed(q)' <=> Borrowed(q))
      /\ \A q \in Run \ {r} : Live(q)' <=> Live(q)
      /\ Live(r)' /\ ~Live(r) => Start(r)
  BY OthersStay DEF StoreInv
<1>1. ASSUME NEW q \in Run, doomed'[q] # NoPath, doomed'[q] = doomed[q],
             NEW o \in Run, Live(o)', PathOf(o)' = doomed'[q]
      PROVE  Borrowed(o)' \/ o \in recycled'
  <2>1. CASE Live(o)  BY <1>0, <1>1, <2>1 DEF SweepsStale
  <2>2. CASE ~Live(o)
    <3>1. o = r /\ Start(r)  BY <1>0, <1>1, <2>2
    <3>2. doomed[q] = PathOf(r)  BY <1>0, <1>1, <3>1
    <3> QED  BY <3>1, <3>2 DEF Start
  <2> QED  BY <2>1, <2>2
<1>2. CASE Start(r)
  <2>1. doomed' = doomed /\ \A q \in Run : sweep'[q] \subseteq {Scratch[p] : p \in Pid}
    BY <1>0, <1>2 DEF Start, StoreTypeOK, SweepsStale
  <2> QED  BY <1>1, <2>1 DEF SweepsStale
<1>3. ASSUME NEW p \in Pid, LookAt(r, p) PROVE SweepsStale'
  <2>1. /\ \A q \in Run : sweep'[q] \subseteq sweep[q]
        /\ \A q \in Run : doomed'[q] = doomed[q] \/ (doomed'[q] = Scratch[p] /\ ~ProcessAlive(p))
        /\ phase' = phase
    BY <1>0, <1>3 DEF LookAt, StoreTypeOK, Stale
  <2>2. ASSUME ~ProcessAlive(p), NEW o \in Run, Live(o)', PathOf(o)' = Scratch[p]
        PROVE  Borrowed(o)'
    <3>1. Live(o) /\ PathOf(o) = Scratch[p]  BY <1>0, <2>1, <2>2 DEF Live
    <3>2. pid[o] # p  BY <2>2, <3>1 DEF ProcessAlive
    <3>3. Borrowed(o)  BY <3>1, <3>2 DEF Borrowed
    <3> QED  BY <1>0, <3>3
  <2> QED  BY <1>0, <1>1, <2>1, <2>2 DEF SweepsStale
<1>4. CASE ~Start(r) /\ \A p \in Pid : ~LookAt(r, p)
  <2>1. \A q \in Run : /\ sweep'[q] \subseteq sweep[q]
                       /\ doomed'[q] = doomed[q] \/ doomed'[q] = NoPath
    BY <1>0, <1>4, StoreStep(r)
    DEF StoreStep, StoreTypeOK, RemoveStale, Stat, OpenFileStore, RemovePrior, CreateTable,
        Visit, CreateIndex, Disposal, Leave, KillRun
  <2> QED  BY <1>0, <1>1, <2>1 DEF SweepsStale
<1> QED  BY <1>2, <1>3, <1>4

LEMMA StoreStepMates == ASSUME StoreInv, NEW r \in Run, StoreStep(r) PROVE MatesShare'
<1>0. StoreTypeOK /\ MatesShare  BY DEF StoreInv
<1>1. /\ shared \subseteq shared'
      /\ \A q \in Run : PathOf(q)' = PathOf(q)
      /\ \A q \in Run \ {r} : Live(q)' <=> Live(q)
      /\ Live(r)' /\ ~Live(r) => Start(r)
  BY OthersStay
<1>2. CASE Start(r)
  <2>1. \A q \in Run \ {r} : Live(q) /\ PathOf(q) = PathOf(r) => r \in shared' /\ q \in shared'
    <3>1. ~Live(r)  BY <1>2 DEF Start, Live
    <3> QED  BY <1>2, <3>1 DEF Start
  <2> QED  BY <1>0, <1>1, <2>1 DEF MatesShare
<1>3. CASE ~Start(r)  BY <1>0, <1>1, <1>3 DEF MatesShare
<1> QED  BY <1>2, <1>3

(* What r removes is not the store another run has open, and what r        *)
(* creates lies at no such run's path.                                     *)
LEMMA OthersStores ==
  ASSUME StoreInv, NEW r \in Run, StoreStep(r), NEW q \in Run \ {r}, HasStore(q), q \notin shared
  PROVE  /\ handle'[q] = handle[q]
         /\ at'[PathOf(q)] \in {at[PathOf(q)], NoRun}
         /\ q \notin recycled /\ ~Borrowed(q) => at'[PathOf(q)] = at[PathOf(q)]
<1>0. StoreTypeOK /\ SweepsStale /\ MatesShare  BY DEF StoreInv
<1>1. Live(q) /\ PathOf(q) \in Path /\ PathOf(r) \in Path  BY <1>0, PathIsPath DEF HasStore, Live
<1>2. CASE RemoveStale(r)
  <2>1. doomed[r] \in Path /\ (PathOf(q) = doomed[r] => Borrowed(q) \/ q \in recycled)
    BY <1>0, <1>1, <1>2 DEF RemoveStale, SweepsStale, StoreTypeOK
  <2> QED  BY <1>0, <1>1, <1>2, <2>1 DEF RemoveStale, StoreTypeOK
<1>3. CASE RemovePrior(r) \/ CreateTable(r) \/ Leave(r)
  <2>1. Live(r)  BY <1>3 DEF RemovePrior, CreateTable, Leave, Live
  <2>2. PathOf(q) # PathOf(r)  BY <1>0, <1>1, <2>1 DEF MatesShare
  <2> QED
    BY <1>0, <1>1, <1>3, <2>2 DEF RemovePrior, CreateTable, Leave, Close, StoreTypeOK
<1>4. CASE OpenFileStore(r)  BY <1>0, <1>4 DEF OpenFileStore, StoreTypeOK
<1>5. CASE ~(RemoveStale(r) \/ RemovePrior(r) \/ CreateTable(r) \/ Leave(r) \/ OpenFileStore(r))
  BY <1>5, StoreStep(r)
  DEF StoreStep, Start, LookAt, Stat, Visit, CreateIndex, Disposal, KillRun
<1> QED  BY <1>2, <1>3, <1>4, <1>5

(* A store is opened where it lies, and r takes its own away only when it  *)
(* has done with it.                                                       *)
LEMMA OwnStore ==
  ASSUME StoreInv, NEW r \in Run, StoreStep(r), HasStore(r)'
  PROVE  \/ at'[PathOf(r)] = handle'[r]
         \/ HasStore(r) /\ UNCHANGED <<at, handle>>
<1>0. StoreTypeOK /\ PathOf(r) \in Path  BY PathIsPath DEF StoreInv
<1>1. CASE OpenFileStore(r)  BY <1>0, <1>1 DEF OpenFileStore, Become, HasStore, StoreTypeOK
<1>2. CASE CreateTable(r)  BY <1>0, <1>2 DEF CreateTable, Become, HasStore, StoreTypeOK
<1>3. CASE \/ \E f \in File : Visit(r, f, place)
           \/ CreateIndex(r) \/ Disposal(r)
  BY <1>3 DEF Visit, CreateIndex, Disposal, HasStore
<1>4. CASE \/ Start(r) \/ \E p \in Pid : LookAt(r, p)
           \/ RemoveStale(r) \/ Stat(r) \/ RemovePrior(r) \/ Leave(r) \/ KillRun(r)
  <2>1. ~HasStore(r)'
    BY <1>0, <1>4 DEF Start, LookAt, RemoveStale, Stat, RemovePrior, Leave, KillRun,
                      Become, HasStore, StoreTypeOK
  <2> QED  BY <2>1
<1> QED  BY <1>1, <1>2, <1>3, <1>4, StoreStep(r) DEF StoreStep

LEMMA StoreStepStays ==
  ASSUME StoreInv, NEW r \in Run, StoreStep(r)
  PROVE  StoreStaysPut' /\ NoStranger'
<1>0. StoreTypeOK /\ StoreStaysPut /\ NoStranger  BY DEF StoreInv
<1>1. /\ shared \subseteq shared' /\ recycled \subseteq recycled'
      /\ \A q \in Run : PathOf(q)' = PathOf(q) /\ (Borrowed(q)' <=> Borrowed(q))
      /\ \A q \in Run \ {r} : phase'[q] = phase[q]
  BY OthersStay
<1>2. ASSUME NEW q \in Run, HasStore(q)', q \notin shared'
      PROVE  /\ at'[PathOf(q)] \in {handle'[q], NoRun}
             /\ q \notin recycled' /\ ~Borrowed(q)' => at'[PathOf(q)] = handle'[q]
  <2>1. q \notin shared /\ (q \notin recycled' => q \notin recycled)  BY <1>1, <1>2
  <2>2. CASE q = r
    <3>1. CASE at'[PathOf(r)] = handle'[r]  BY <2>2, <3>1
    <3>2. CASE HasStore(r) /\ UNCHANGED <<at, handle>>
      BY <1>0, <1>1, <2>1, <2>2, <3>2 DEF StoreStaysPut, NoStranger
    <3> QED  BY <1>2, <2>2, <3>1, <3>2, OwnStore
  <2>3. CASE q # r
    <3>1. HasStore(q)  BY <1>1, <1>2, <2>3 DEF HasStore
    <3>2. /\ handle'[q] = handle[q] /\ at'[PathOf(q)] \in {at[PathOf(q)], NoRun}
          /\ q \notin recycled /\ ~Borrowed(q) => at'[PathOf(q)] = at[PathOf(q)]
      BY <2>1, <2>3, <3>1, OthersStores
    <3> QED  BY <1>0, <1>1, <2>1, <3>1, <3>2 DEF StoreStaysPut, NoStranger
  <2> QED  BY <2>2, <2>3
<1> QED  BY <1>1, <1>2 DEF StoreStaysPut, NoStranger

LEMMA StoreStepInv == ASSUME StoreInv, NEW r \in Run, StoreStep(r) PROVE StoreInv'
BY StoreStepTypes, StoreStepGrows, StoreStepSweeps, StoreStepMates, StoreStepStays DEF StoreInv

-----------------------------------------------------------------------------
(* A step of the system is a step of one run, in its store, in the trash   *)
(* or in both.                                                             *)
RunStep(r) ==
  \/ Start(r) /\ UNCHANGED rest
  \/ \E p \in Pid : LookAt(r, p) /\ UNCHANGED rest
  \/ RemoveStale(r) /\ UNCHANGED rest
  \/ Stat(r) /\ UNCHANGED rest
  \/ OpenFileStore(r) /\ UNCHANGED rest
  \/ RemovePrior(r) /\ UNCHANGED rest
  \/ BeginWalk(r)
  \/ \E f \in File : Visit(r, f, place) /\ UNCHANGED rest
  \/ CreateIndex(r) /\ UNCHANGED rest
  \/ Exit(r) /\ UNCHANGED rest
  \/ Decide(r)
  \/ \E f \in File : DisposeByUnlink(r, f)
  \/ \E f \in File : DisposeByTrash(r, f)
  \/ NextName(r) /\ UNCHANGED others
  \/ ChooseName(r) /\ UNCHANGED others
  \/ WriteRecord(r) /\ UNCHANGED others
  \/ RecordFails(r) /\ UNCHANGED others
  \/ Move(r) /\ UNCHANGED others
  \/ MoveFails(r) /\ UNCHANGED others
  \/ EndOfRun(r)
  \/ Kill(r)

LEMMA NextIsRunStep == Next <=> \E r \in Run : RunStep(r)
BY DEF Next, RunStep

LEMMA RunStepParts ==
  ASSUME NEW r \in Run, RunStep(r)
  PROVE  /\ StoreStep(r) \/ UNCHANGED storeVars
         /\ TrashStep(r) \/ UNCHANGED trashVars
<1>1. CASE Start(r) /\ UNCHANGED rest  BY <1>1 DEF rest, StoreStep
<1>2. ASSUME NEW p \in Pid, LookAt(r, p) /\ UNCHANGED rest
      PROVE  StoreStep(r) /\ UNCHANGED trashVars
  BY <1>2 DEF rest, StoreStep
<1>3. CASE \/ RemoveStale(r) /\ UNCHANGED rest
           \/ Stat(r) /\ UNCHANGED rest
           \/ OpenFileStore(r) /\ UNCHANGED rest
           \/ RemovePrior(r) /\ UNCHANGED rest
           \/ CreateIndex(r) /\ UNCHANGED rest
  BY <1>3 DEF rest, StoreStep
<1>4. CASE BeginWalk(r)  BY <1>4 DEF BeginWalk, StoreStep
<1>5. ASSUME NEW f \in File, Visit(r, f, place) /\ UNCHANGED rest
      PROVE  StoreStep(r) /\ UNCHANGED trashVars
  BY <1>5 DEF rest, StoreStep
<1>6. CASE Exit(r) /\ UNCHANGED rest  BY <1>6 DEF Exit, Leave, rest, StoreStep
<1>7. CASE Decide(r)  BY <1>7 DEF Decide, Disposal, StoreStep
<1>8. ASSUME NEW f \in File, DisposeByUnlink(r, f) \/ DisposeByTrash(r, f)
      PROVE  UNCHANGED storeVars /\ TrashStep(r)
  BY <1>8 DEF DisposeByUnlink, DisposeByTrash, TrashStep
<1>9. CASE \/ NextName(r) /\ UNCHANGED others
           \/ ChooseName(r) /\ UNCHANGED others
           \/ WriteRecord(r) /\ UNCHANGED others
           \/ RecordFails(r) /\ UNCHANGED others
           \/ Move(r) /\ UNCHANGED others
           \/ MoveFails(r) /\ UNCHANGED others
  BY <1>9 DEF others, TrashStep
<1>10. CASE EndOfRun(r)  BY <1>10 DEF EndOfRun, Disposing, Leave, StoreStep
<1>11. CASE Kill(r)  BY <1>11 DEF Kill, StoreStep, TrashStep
<1> QED
  BY <1>1, <1>2, <1>3, <1>4, <1>5, <1>6, <1>7, <1>8, <1>9, <1>10, <1>11, RunStep(r) DEF RunStep

-----------------------------------------------------------------------------
(* What a run still has to dispose of, and that only deleting runs have    *)
(* any.                                                                    *)
DeletersDispose ==
  /\ todo \in [Run -> SUBSET File] /\ overlap \in BOOLEAN
  /\ \A r \in Run :
       /\ phase[r] = "open" => ~opt[r].deletes
       /\ phase[r] = "dispose" => opt[r].deletes
       /\ ~At(r, "idle") \/ todo[r] # {} => phase[r] = "dispose"
       /\ AtWork(r) => handle[r] = r

AloneAtWork == \A r, q \in Run : AtWork(r) /\ AtWork(q) => r = q

(* What a run at work may have read is still there.                        *)
ScansAreTrue ==
  \A r \in Run : AtWork(r) /\ phase[r] # "dispose" =>
    rows[r] \subseteq place /\ (at[PathOf(r)] \in Run => rows[at[PathOf(r)]] \subseteq place)

(* A copy that the run disposing of the others leaves alone.               *)
Spared(r, keep) == keep \notin todo[r] /\ ~(~At(r, "idle") /\ hand[r].file = keep)
OneIsSpared == \A r \in Run : phase[r] = "dispose" => \E keep \in place : Spared(r, keep)

CopiesStay == AloneAtWork /\ ScansAreTrue /\ OneIsSpared /\ place # {}

RunsInv == StoreInv /\ TrashInv /\ DeletersDispose /\ (overlap \/ CopiesStay)

LEMMA InitRuns == Init => RunsInv
<1> SUFFICES ASSUME Init PROVE RunsInv  OBVIOUS
<1>1. StoreInv /\ TrashInv  BY InitStore, InitTrash DEF Init
<1>2. \A r \in Run : phase[r] = "new" /\ At(r, "idle") /\ todo[r] = {}
  BY DEF Init, StoreInit, TrashInit, Empty, At
<1>3. DeletersDispose  BY <1>2 DEF DeletersDispose, AtWork, Init
<1>4. CopiesStay
  BY <1>2, CopiesAssumption
  DEF CopiesStay, AloneAtWork, ScansAreTrue, OneIsSpared, AtWork, Init, TrashInit
<1> QED  BY <1>1, <1>3, <1>4 DEF RunsInv

LEMMA RunsStuttering == RunsInv /\ UNCHANGED vars => RunsInv'
<1> SUFFICES ASSUME RunsInv, UNCHANGED vars PROVE RunsInv'  OBVIOUS
<1>1. UNCHANGED storeVars /\ UNCHANGED trashVars /\ UNCHANGED <<todo, overlap>>  BY DEF vars
<1>2. StoreInv' /\ TrashInv'  BY <1>1, StoreStuttering, TrashStuttering DEF RunsInv
<1>3. DeletersDispose' <=> DeletersDispose
  BY <1>1 DEF DeletersDispose, storeVars, trashVars, At, AtWork
<1>4. CopiesStay' <=> CopiesStay
  BY <1>1 DEF CopiesStay, AloneAtWork, ScansAreTrue, OneIsSpared, Spared, AtWork, PathOf, At,
              storeVars, trashVars
<1> QED  BY <1>1, <1>2, <1>3, <1>4 DEF RunsInv

(* What every step of r leaves of the others.                              *)
LEMMA OthersWait ==
  ASSUME RunsInv, NEW r \in Run, RunStep(r)
  PROVE  /\ opt' = opt /\ \A q \in Run : PathOf(q)' = PathOf(q)
         /\ todo' \in [Run -> SUBSET File] /\ overlap' \in BOOLEAN /\ (overlap => overlap')
         /\ \A q \in Run \ {r} :
              /\ phase'[q] = phase[q] /\ todo'[q] = todo[q] /\ rows'[q] = rows[q]
              /\ hand'[q] = hand[q] /\ (At(q, "idle")' <=> At(q, "idle"))
              /\ handle'[q] = handle[q] /\ (AtWork(q)' <=> AtWork(q))
<1>0. StoreInv /\ StoreTypeOK /\ TrashTypeOK /\ DeletersDispose
  BY DEF RunsInv, StoreInv, TrashInv
<1>1. \/ UNCHANGED storeVars
      \/ /\ opt' = opt
         /\ \A q \in Run : PathOf(q)' = PathOf(q)
         /\ \A q \in Run \ {r} :
              phase'[q] = phase[q] /\ rows'[q] = rows[q] /\ handle'[q] = handle[q]
  <2>1. CASE StoreStep(r)
    <3>1. \A q \in Run \ {r} : rows'[q] = rows[q] /\ handle'[q] = handle[q]
      BY <1>0, <2>1
      DEF StoreStep, Start, LookAt, RemoveStale, Stat, OpenFileStore, RemovePrior, CreateTable,
          Visit, CreateIndex, Disposal, Leave, KillRun, StoreTypeOK
    <3> QED  BY <1>0, <2>1, <3>1, OthersStay
  <2> QED  BY <2>1, RunStepParts
<1>2. opt' = opt /\ \A q \in Run : PathOf(q)' = PathOf(q)  BY <1>1 DEF storeVars, PathOf
<1>3. \A q \in Run \ {r} :
        phase'[q] = phase[q] /\ rows'[q] = rows[q] /\ handle'[q] = handle[q]
  BY <1>1 DEF storeVars
<1>4. \A q \in Run \ {r} : hand'[q] = hand[q]
  <2>1. UNCHANGED trashVars \/ hand' = hand \/ \E h : hand' = [hand EXCEPT ![r] = h]
    BY RunStepParts
    DEF TrashStep, trashVars, Unlink, BeginTrash, NextName, ChooseName, WriteRecord, RecordFails,
        Move, MoveFails, LetGo
  <2> QED  BY <1>0, <2>1 DEF trashVars, TrashTypeOK
<1>5. /\ todo' \in [Run -> SUBSET File] /\ overlap' \in BOOLEAN /\ (overlap => overlap')
      /\ \A q \in Run \ {r} : todo'[q] = todo[q]
  <2>1. CASE BeginWalk(r)  BY <1>0, <2>1 DEF BeginWalk, DeletersDispose
  <2>2. CASE Decide(r)
    <3>1. PICK s \in Views(r) : \E keep \in rows[s] : todo' = [todo EXCEPT ![r] = rows[s] \ {keep}]
      BY <2>2 DEF Decide
    <3>2. rows[s] \subseteq File
      <4>1. at \in [Path -> Run \cup {NoRun}] /\ PathOf(r) \in Path
            /\ handle \in [Run -> Run \cup {NoRun}]
        BY <1>0, PathIsPath DEF StoreTypeOK
      <4>2. s \in Run  BY <3>1, <4>1 DEF Views
      <4> QED  BY <1>0, <4>2 DEF StoreTypeOK
    <3> QED  BY <1>0, <2>2, <3>1, <3>2 DEF Decide, DeletersDispose
  <2>3. CASE ~BeginWalk(r) /\ ~Decide(r)
    <3>1. /\ overlap' = overlap
          /\ \/ todo' = todo \/ todo' = [todo EXCEPT ![r] = {}]
             \/ \E f : todo' = [todo EXCEPT ![r] = @ \ {f}]
      BY <2>3, RunStep(r)
      DEF RunStep, rest, others, DisposeByUnlink, DisposeByTrash, EndOfRun, Kill
    <3> QED  BY <1>0, <3>1 DEF DeletersDispose
  <2> QED  BY <2>1, <2>2, <2>3
<1> QED  BY <1>2, <1>3, <1>4, <1>5 DEF At, AtWork

LEMMA DeletersStep == ASSUME RunsInv, NEW r \in Run, RunStep(r) PROVE DeletersDispose'
<1>0. StoreTypeOK /\ TrashTypeOK /\ DeletersDispose
  BY DEF RunsInv, StoreInv, TrashInv
<1>1. /\ todo' \in [Run -> SUBSET File] /\ overlap' \in BOOLEAN /\ opt' = opt
      /\ \A q \in Run \ {r} :
           /\ phase'[q] = phase[q] /\ todo'[q] = todo[q] /\ (At(q, "idle")' <=> At(q, "idle"))
           /\ handle'[q] = handle[q] /\ (AtWork(q)' <=> AtWork(q))
  BY OthersWait
<1>2. /\ phase'[r] = "open" => ~opt[r].deletes
      /\ phase'[r] = "dispose" => opt[r].deletes
      /\ ~At(r, "idle")' \/ todo'[r] # {} => phase'[r] = "dispose"
  <2>1. CASE phase[r] # "dispose" /\ ~Decide(r)
    <3>1. At(r, "idle") /\ todo[r] = {}  BY <1>0, <2>1 DEF DeletersDispose
    <3>2. At(r, "idle")' /\ todo'[r] = {}
      <4>1. CASE Kill(r)  BY <1>0, <4>1 DEF Kill, LetGo, Empty, At, DeletersDispose, TrashTypeOK
      <4>2. CASE ~Kill(r)
        <5>1. ~Disposing(r) /\ At(r, "idle")  BY <2>1, <3>1 DEF Disposing
        <5>2. UNCHANGED <<hand, todo>>
          BY <2>1, <4>2, <5>1, RunStep(r)
          DEF RunStep, rest, trashVars, BeginWalk, DisposeByUnlink, DisposeByTrash, EndOfRun,
              NextName, ChooseName, WriteRecord, RecordFails, Move, MoveFails, At
        <5> QED  BY <3>1, <5>2 DEF At
      <4> QED  BY <4>1, <4>2
    <3>3. CASE Stat(r)
      BY <1>0, <3>2, <3>3 DEF Stat, MayReport, Become, StoreTypeOK
    <3>4. CASE ~Stat(r)
      <4>1. phase'[r] # "dispose" /\ (phase'[r] = "open" => phase[r] = "open")
        BY <1>0, <2>1, <3>1, <3>4, RunStep(r)
        DEF RunStep, others, storeVars, Start, LookAt, RemoveStale, OpenFileStore, RemovePrior,
            BeginWalk, CreateTable, Visit, CreateIndex, Exit, Kill, KillRun, Become,
            DisposeByUnlink, DisposeByTrash, Disposing, EndOfRun, StoreTypeOK
      <4> QED  BY <1>0, <3>2, <4>1 DEF DeletersDispose
    <3> QED  BY <3>3, <3>4
  <2>2. CASE Decide(r)
    BY <1>0, <2>2 DEF Decide, Become, StoreTypeOK
  <2>3. CASE EndOfRun(r)
    BY <1>0, <2>3 DEF EndOfRun, Disposing, Become, StoreTypeOK, DeletersDispose, trashVars, At
  <2>4. CASE Kill(r)
    BY <1>0, <2>4
    DEF Kill, KillRun, LetGo, Empty, At, Become, StoreTypeOK, TrashTypeOK, DeletersDispose
  <2>5. CASE phase[r] = "dispose" /\ ~EndOfRun(r) /\ ~Kill(r)
    <3>1. phase' = phase
      BY <2>5, RunStep(r)
      DEF RunStep, others, storeVars, Start, LookAt, RemoveStale, Stat, OpenFileStore,
          RemovePrior, BeginWalk, CreateTable, Visit, CreateIndex, Exit, Decide,
          DisposeByUnlink, DisposeByTrash
    <3> QED  BY <1>0, <2>5, <3>1 DEF DeletersDispose
  <2> QED  BY <2>1, <2>2, <2>3, <2>4, <2>5
<1>3. AtWork(r)' => handle'[r] = r
  <2>1. CASE BeginWalk(r)
    BY <1>0, <1>1, <2>1 DEF BeginWalk, CreateTable, Become, AtWork, StoreTypeOK
  <2>2. CASE ~BeginWalk(r)
    <3>1. AtWork(r)' => AtWork(r) /\ handle' = handle
      BY <1>0, <1>1, <2>2, RunStep(r)
      DEF RunStep, others, storeVars, Start, LookAt, RemoveStale, Stat, OpenFileStore,
          RemovePrior, Visit, CreateIndex, Exit, Decide, DisposeByUnlink, DisposeByTrash,
          EndOfRun, Disposing, Kill, KillRun, Become, AtWork, StoreTypeOK, DeletersDispose
    <3> QED  BY <1>0, <3>1 DEF DeletersDispose
  <2> QED  BY <2>1, <2>2
<1> QED  BY <1>0, <1>1, <1>2, <1>3 DEF DeletersDispose

(* Only a file the run was about to dispose of leaves its place.           *)
LEMMA PlaceShrinks ==
  ASSUME RunsInv, NEW r \in Run, RunStep(r), place' # place
  PROVE  /\ AtWork(r) /\ phase[r] = "dispose" /\ phase' = phase
         /\ \A keep \in place : Spared(r, keep) => keep \in place'
<1>0. DeletersDispose  BY DEF RunsInv
<1>1. CASE Move(r) /\ UNCHANGED others
  <2>1. ~At(r, "idle") /\ place' = place \ {hand[r].file}  BY <1>1 DEF Move, At
  <2> QED  BY <1>0, <1>1, <2>1 DEF DeletersDispose, AtWork, Spared, others, storeVars
<1>2. ASSUME NEW f \in File, DisposeByUnlink(r, f)
      PROVE  /\ phase[r] = "dispose" /\ phase' = phase
             /\ \A keep \in place : Spared(r, keep) => keep \in place'
  BY <1>2 DEF DisposeByUnlink, Disposing, Unlink, Spared, storeVars
<1>3. (Move(r) /\ UNCHANGED others) \/ \E f \in File : DisposeByUnlink(r, f)
  BY RunStep(r)
  DEF RunStep, rest, others, trashVars, BeginWalk, Decide, DisposeByTrash, BeginTrash,
      NextName, ChooseName, WriteRecord, RecordFails, MoveFails, EndOfRun, Kill, LetGo
<1> QED  BY <1>0, <1>1, <1>2, <1>3 DEF DeletersDispose, AtWork

LEMMA OneWorks ==
  ASSUME RunsInv, NEW r \in Run, RunStep(r), CopiesStay, ~overlap'
  PROVE  AloneAtWork'
<1>0. /\ StoreTypeOK /\ DeletersDispose /\ AloneAtWork /\ opt' = opt
      /\ \A q \in Run \ {r} : AtWork(q)' <=> AtWork(q)
  BY OthersWait DEF RunsInv, StoreInv, CopiesStay
<1>1. CASE BeginWalk(r)
  <2>1. AtWork(r)' => opt[r].deletes  BY <1>0 DEF AtWork
  <2>2. opt[r].deletes => ~\E q \in Run \ {r} : AtWork(q)  BY <1>1 DEF BeginWalk
  <2>3. \A p, q \in Run \ {r} : AtWork(p)' /\ AtWork(q)' => p = q  BY <1>0 DEF AloneAtWork
  <2>4. \A p, q \in Run : AtWork(p)' /\ AtWork(q)' => p = q  BY <1>0, <2>1, <2>2, <2>3
  <2> QED  BY <2>4 DEF AloneAtWork
<1>2. CASE ~BeginWalk(r)
  <2>1. AtWork(r)' => AtWork(r)
    BY <1>0, <1>2, RunStep(r)
    DEF RunStep, others, storeVars, Start, LookAt, RemoveStale, Stat, OpenFileStore,
        RemovePrior, Visit, CreateIndex, Exit, Decide, DisposeByUnlink, DisposeByTrash,
        EndOfRun, Disposing, Kill, KillRun, Become, AtWork, StoreTypeOK, DeletersDispose
  <2> QED  BY <1>0, <2>1 DEF AloneAtWork
<1> QED  BY <1>1, <1>2

(* Rows are added from what is there, and a new store has none.            *)
LEMMA ScansStayTrue ==
  ASSUME RunsInv, NEW r \in Run, RunStep(r), CopiesStay, ~overlap'
  PROVE  ScansAreTrue'
<1>0. /\ StoreTypeOK /\ StoresGrow /\ DeletersDispose /\ AloneAtWork /\ ScansAreTrue
      /\ opt' = opt /\ \A q \in Run : PathOf(q)' = PathOf(q) /\ PathOf(q) \in Path
  BY OthersWait, PathIsPath DEF RunsInv, StoreInv, CopiesStay
<1>1. /\ \A q \in Run \ {r} : phase'[q] = phase[q] /\ (AtWork(q)' <=> AtWork(q))
      /\ AtWork(r)' => AtWork(r) \/ phase'[r] = "walk"
  <2>1. AtWork(r)' => AtWork(r) \/ BeginWalk(r)
    BY <1>0, RunStep(r)
    DEF RunStep, others, storeVars, Start, LookAt, RemoveStale, Stat, OpenFileStore,
        RemovePrior, Visit, CreateIndex, Exit, Decide, DisposeByUnlink, DisposeByTrash,
        EndOfRun, Disposing, Kill, KillRun, Become, AtWork, StoreTypeOK, DeletersDispose
  <2>2. BeginWalk(r) /\ AtWork(r)' => phase'[r] = "walk"
    BY <1>0 DEF BeginWalk, CreateTable, Become, AtWork, StoreTypeOK
  <2> QED  BY <2>1, <2>2, OthersWait
<1>2. ASSUME place' # place PROVE ScansAreTrue'
  <2>1. AtWork(r) /\ phase[r] = "dispose" /\ phase' = phase  BY <1>2, PlaceShrinks
  <2>2. \A q \in Run : AtWork(q) => q = r  BY <1>0, <2>1 DEF AloneAtWork
  <2> QED  BY <1>0, <2>1, <2>2 DEF ScansAreTrue, AtWork
<1>3. ASSUME place' = place PROVE ScansAreTrue'
  <2>1. CASE \E f \in File : Visit(r, f, place)
    <3>1. PICK f \in File : Visit(r, f, place)  BY <2>1
    <3>2. /\ UNCHANGED <<phase, at>>
          /\ \A q \in Run : \A set : rows[q] \subseteq place => rows'[q] \subseteq place
      BY <1>0, <3>1 DEF Visit, StoreTypeOK
    <3> QED  BY <1>0, <1>3, <3>2 DEF ScansAreTrue, AtWork
  <2>2. CASE BeginWalk(r)
    <3>1. UNCHANGED rows /\ phase[r] = "create"  BY <2>2 DEF BeginWalk, CreateTable
    <3>2. rows[r] = {}  BY <1>0, <3>1 DEF StoresGrow, Before
    <3>3. \A p \in Path : at'[p] = at[p] \/ at'[p] = r
      BY <1>0, <2>2 DEF BeginWalk, CreateTable, StoreTypeOK
    <3>4. phase'[r] = "walk" => at'[PathOf(r)] = r
      BY <1>0, <2>2 DEF BeginWalk, CreateTable, Become, StoreTypeOK
    <3>5. AtWork(r)' => phase'[r] = "walk"
      BY <1>0, <2>2 DEF BeginWalk, CreateTable, Become, AtWork, StoreTypeOK
    <3> QED  BY <1>0, <1>1, <1>3, <3>1, <3>2, <3>3, <3>4, <3>5 DEF ScansAreTrue
  <2>3. CASE ~BeginWalk(r) /\ \A f \in File : ~Visit(r, f, place)
    <3>1. UNCHANGED rows /\ \A p \in Path : at'[p] = at[p] \/ at'[p] = NoRun
      BY <1>0, <2>3, RunStep(r)
      DEF RunStep, others, storeVars, Start, LookAt, RemoveStale, Stat, OpenFileStore,
          RemovePrior, CreateIndex, Exit, Decide, DisposeByUnlink, DisposeByTrash,
          EndOfRun, Kill, KillRun, Close, StoreTypeOK
    <3>2. AtWork(r)' /\ phase'[r] # "dispose" => AtWork(r) /\ phase[r] # "dispose"
      BY <1>0, <2>3, RunStep(r)
      DEF RunStep, others, storeVars, Start, LookAt, RemoveStale, Stat, OpenFileStore,
          RemovePrior, CreateIndex, Exit, Decide, DisposeByUnlink, DisposeByTrash,
          EndOfRun, Disposing, Kill, KillRun, Become, AtWork, StoreTypeOK, DeletersDispose
    <3> QED  BY <1>0, <1>1, <1>3, <3>1, <3>2, StoreAssumption DEF ScansAreTrue
  <2> QED  BY <2>1, <2>2, <2>3
<1> QED  BY <1>2, <1>3

(* Decide spares one of what was scanned, and every later step spares it.  *)
LEMMA OneStaysSpared ==
  ASSUME RunsInv, NEW r \in Run, RunStep(r), CopiesStay
  PROVE  OneIsSpared' /\ place' # {}
<1>0. /\ StoreTypeOK /\ TrashTypeOK /\ DeletersDispose
      /\ AloneAtWork /\ ScansAreTrue /\ OneIsSpared /\ place # {}
      /\ \A q \in Run \ {r} : phase'[q] = phase[q] /\ (\A keep : Spared(q, keep)' <=> Spared(q, keep))
  BY OthersWait DEF RunsInv, StoreInv, TrashInv, CopiesStay, Spared, At
<1>1. ASSUME place' # place PROVE OneIsSpared' /\ place' # {}
  <2>1. /\ AtWork(r) /\ phase[r] = "dispose" /\ phase' = phase
        /\ \A keep \in place : Spared(r, keep) => keep \in place'
    BY <1>1, PlaceShrinks
  <2>2. PICK keep \in place : Spared(r, keep)  BY <1>0, <2>1 DEF OneIsSpared
  <2>3. Spared(r, keep)'
    <3>1. todo'[r] \subseteq todo[r] /\ At(r, "idle")'
      <4>1. (Move(r) /\ UNCHANGED others) \/ \E f \in File : DisposeByUnlink(r, f)
        BY <1>1, RunStep(r)
        DEF RunStep, rest, others, trashVars, BeginWalk, Decide, DisposeByTrash, BeginTrash,
            NextName, ChooseName, WriteRecord, RecordFails, MoveFails, EndOfRun, Kill, LetGo
      <4> QED
        BY <1>0, <4>1
        DEF Move, others, DisposeByUnlink, Disposing, Unlink, Empty, At, DeletersDispose, TrashTypeOK
    <3> QED  BY <2>2, <3>1 DEF Spared
  <2>4. \A q \in Run \ {r} : phase[q] = "dispose" => FALSE
    BY <1>0, <2>1 DEF AloneAtWork, AtWork, DeletersDispose
  <2> QED  BY <2>1, <2>2, <2>3, <2>4 DEF OneIsSpared
<1>2. ASSUME place' = place PROVE OneIsSpared' /\ place' # {}
  <2>1. ASSUME phase'[r] = "dispose" PROVE \E keep \in place : Spared(r, keep)'
    <3>1. CASE Decide(r)
      <4>1. PICK s \in Views(r) : \E keep \in rows[s] : todo' = [todo EXCEPT ![r] = rows[s] \ {keep}]
        BY <3>1 DEF Decide
      <4>2. PICK keep \in rows[s] : todo' = [todo EXCEPT ![r] = rows[s] \ {keep}]  BY <4>1
      <4>3. keep \in place
        <5>1. AtWork(r) /\ phase[r] = "serve"  BY <3>1 DEF Decide, AtWork
        <5>2. rows[s] \subseteq place
          <6>1. s \in {r, at[PathOf(r)]} \ {NoRun}
            BY <1>0, <4>1, <5>1 DEF Views, DeletersDispose
          <6>2. at[PathOf(r)] \in Run \cup {NoRun}  BY <1>0, PathIsPath DEF StoreTypeOK
          <6> QED  BY <1>0, <5>1, <6>1, <6>2 DEF ScansAreTrue
        <5> QED  BY <4>2, <5>2
      <4>4. At(r, "idle")' /\ keep \notin todo'[r]
        BY <1>0, <3>1, <4>2 DEF Decide, trashVars, At, DeletersDispose
      <4> QED  BY <4>3, <4>4 DEF Spared
    <3>2. CASE ~Decide(r)
      <4>1. phase[r] = "dispose"
        BY <1>0, <2>1, <3>2, RunStep(r)
        DEF RunStep, others, storeVars, Start, LookAt, RemoveStale, Stat, OpenFileStore,
            RemovePrior, BeginWalk, CreateTable, Visit, CreateIndex, Exit, DisposeByUnlink,
            DisposeByTrash, Disposing, EndOfRun, Kill, KillRun, Become, StoreTypeOK
      <4>2. PICK keep \in place : Spared(r, keep)  BY <1>0, <4>1 DEF OneIsSpared
      <4>3. Spared(r, keep)'
        <5>1. CASE \E f \in File : DisposeByUnlink(r, f) \/ DisposeByTrash(r, f)
          BY <1>0, <4>2, <5>1
          DEF DisposeByUnlink, DisposeByTrash, Disposing, Unlink, BeginTrash, Spared, At,
              DeletersDispose, TrashTypeOK
        <5>2. CASE ~\E f \in File : DisposeByUnlink(r, f) \/ DisposeByTrash(r, f)
          <6>1. todo'[r] \subseteq todo[r]
            BY <1>0, <3>2, <5>2, RunStep(r)
            DEF RunStep, rest, others, BeginWalk, EndOfRun, Kill, DeletersDispose
          <6>2. ~At(r, "idle")' => ~At(r, "idle") /\ hand'[r].file = hand[r].file
            BY <1>0, <3>2, <5>2, RunStep(r)
            DEF RunStep, rest, trashVars, BeginWalk, EndOfRun, Kill, LetGo, NextName, ChooseName,
                WriteRecord, RecordFails, Move, MoveFails, Empty, At, TrashTypeOK, Hand
          <6> QED  BY <4>2, <6>1, <6>2 DEF Spared
        <5> QED  BY <5>1, <5>2
      <4> QED  BY <4>3
    <3> QED  BY <3>1, <3>2
  <2> QED  BY <1>0, <1>2, <2>1 DEF OneIsSpared
<1> QED  BY <1>1, <1>2

LEMMA RunsStep == ASSUME RunsInv, NEW r \in Run, RunStep(r) PROVE RunsInv'
<1>1. StoreInv' /\ TrashInv'
  <2>1. StoreInv'  BY RunStepParts, StoreStepInv, StoreStuttering DEF RunsInv
  <2>2. TrashInv'  BY RunStepParts, TrashStepInv, TrashStuttering DEF RunsInv
  <2> QED  BY <2>1, <2>2
<1>2. overlap' \/ CopiesStay'
  <2>1. overlap => overlap'  BY OthersWait
  <2> QED  BY <2>1, OneWorks, ScansStayTrue, OneStaysSpared DEF RunsInv, CopiesStay
<1> QED  BY <1>1, <1>2, DeletersStep DEF RunsInv

-----------------------------------------------------------------------------
(* Stores, catalogues, trash and deletions agree between any two steps of  *)
(* any number of runs over one tree.                                       *)
THEOREM RunsInvariant == Spec => []RunsInv
<1>1. RunsInv /\ [Next]_vars => RunsInv'
  BY RunsStep, RunsStuttering, NextIsRunStep
<1> QED  BY InitRuns, <1>1, PTL DEF Spec

(* Every variable keeps its type.                                          *)
THEOREM RunsTyped == Spec => []TypeOK
<1>1. RunsInv => TypeOK
  BY DEF RunsInv, StoreInv, TrashInv, DeletersDispose, TypeOK
<1> QED  BY RunsInvariant, <1>1, PTL

(* The store of a run stays at its path as long as the run has it open,    *)
(* however many runs start, sweep, end and are killed meanwhile, unless it *)
(* began with a process number a sweep had just found free.                *)
THEOREM StoresStayPut == Spec => []StoreStaysPut
<1>1. RunsInv => StoreStaysPut  BY DEF RunsInv, StoreInv
<1> QED  BY RunsInvariant, <1>1, PTL

(* No run reports from a store whose walk did not end, nor do the late     *)
(* connections of a run that shares its path with no other one.            *)
THEOREM FinishedIsServed == Spec => []ServesFinished
<1>1. ASSUME RunsInv, NEW r \in Run, phase[r] \in {"serve", "dispose"}
      PROVE  left[handle[r]] = {} /\ (r \notin shared => \A s \in Views(r) : left[s] = {})
  <2>1. StoresGrow /\ NoStranger /\ HasStore(r)  BY <1>1 DEF RunsInv, StoreInv, HasStore
  <2>2. left[handle[r]] = {}  BY <1>1, <2>1 DEF StoresGrow
  <2>3. r \notin shared => Views(r) \subseteq {handle[r]}  BY <2>1 DEF NoStranger, Views
  <2> QED  BY <2>2, <2>3
<1>2. RunsInv => ServesFinished  BY <1>1 DEF ServesFinished
<1> QED  BY RunsInvariant, <1>2, PTL

(* Without two deleting runs at once the last copy stays.                  *)
THEOREM ACopyStays == Spec => []LastCopyStays
<1>1. RunsInv => LastCopyStays  BY DEF RunsInv, CopiesStay, LastCopyStays
<1> QED  BY RunsInvariant, <1>1, PTL

(* The trash of any number of runs can be traced back.                     *)
THEOREM TrashStaysRecoverable == Spec => []TrashIsRecoverable
<1>1. RunsInv => TrashIsRecoverable  BY InvRecoverable DEF RunsInv
<1> QED  BY RunsInvariant, <1>1, PTL
=============================================================================
