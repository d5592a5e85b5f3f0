------------------------------- MODULE Trash -------------------------------
(***************************************************************************)
(* How a duplicate leaves its place (cleanup.go disposeFile, trash.go      *)
(* trashFile): it is unlinked, or moved into the trash of its own volume   *)
(* under the first of the names base, base.1, base.2, ... that neither a   *)
(* trashed file nor an info record bears.  The record is written before    *)
(* the move and taken back when the move fails.  Several processes do this *)
(* at the same time, each a system call at a time, and each may be killed  *)
(* between two of them.                                                    *)
(***************************************************************************)
EXTENDS Copies, Naturals, Sequences

CONSTANTS
  Slot,   \* names in the trash directories, one set per volume
  Names,  \* the slots trashFile tries for a file, in this order
  NoFile

ASSUME TrashAssumption ==
  /\ Names \in [File -> Seq(Slot)] /\ \A f \in File : Names[f] # <<>>
  /\ NoFile \notin File

VARIABLES
  place,    \* the files still where they were scanned
  unlinked, \* the files removed without the trash
  trashed,  \* <trash>/files: the file under each name
  info,     \* <trash>/info: the file each record says it came from
  hand,     \* what each process is trashing, and how far it is
  clash     \* some process chose a name another one had chosen and not used yet

trashVars == <<place, unlinked, trashed, info, hand, clash>>

Hand == [file : File \cup {NoFile}, try : Nat, step : {"idle", "look", "record", "move"}]
Empty == [file |-> NoFile, try |-> 1, step |-> "idle"]

TrashInit ==
  /\ place = File /\ unlinked = {}
  /\ trashed = [s \in Slot |-> NoFile] /\ info = [s \in Slot |-> NoFile]
  /\ hand = [r \in Run |-> Empty]
  /\ clash = FALSE

(* The name at hand.                                                       *)
Name(r) == Names[hand[r].file][hand[r].try]

At(r, step) == hand[r].step = step
Chosen(r) == hand[r].step \in {"record", "move"}

(* Mutant of Free: nobody looks whether the name is taken.                 *)
AnyName(s) == TRUE

(* Neither Lstat finds anything.                                           *)
Free(s) == trashed[s] = NoFile /\ info[s] = NoFile

-----------------------------------------------------------------------------
(* os.Remove, which fails for a file another process has removed.          *)
Unlink(f) ==
  /\ place' = place \ {f}
  /\ unlinked' = unlinked \cup ({f} \cap place)
  /\ UNCHANGED <<trashed, info, hand, clash>>

BeginTrash(r, f) ==
  /\ At(r, "idle")
  /\ hand' = [hand EXCEPT ![r] = [file |-> f, try |-> 1, step |-> "look"]]
  /\ UNCHANGED <<place, unlinked, trashed, info, clash>>

(* The name is taken: the next one.                                        *)
NextName(r) ==
  /\ At(r, "look") /\ hand[r].try < Len(Names[hand[r].file]) /\ ~Free(Name(r))
  /\ hand' = [hand EXCEPT ![r].try = @ + 1]
  /\ UNCHANGED <<place, unlinked, trashed, info, clash>>

ChooseName(r) ==
  /\ At(r, "look") /\ hand[r].try \in DOMAIN Names[hand[r].file] /\ Free(Name(r))
  /\ hand' = [hand EXCEPT ![r].step = "record"]
  /\ clash' = (clash \/ \E q \in Run \ {r} : Chosen(q) /\ Name(q) = Name(r))
  /\ UNCHANGED <<place, unlinked, trashed, info>>

(* os.WriteFile replaces whatever record is there.                         *)
WriteRecord(r) ==
  /\ At(r, "record")
  /\ info' = [info EXCEPT ![Name(r)] = hand[r].file]
  /\ hand' = [hand EXCEPT ![r].step = "move"]
  /\ UNCHANGED <<place, unlinked, trashed, clash>>

(* So does os.Rename with the file under the name.                         *)
Move(r) ==
  /\ At(r, "move") /\ hand[r].file \in place
  /\ place' = place \ {hand[r].file}
  /\ trashed' = [trashed EXCEPT ![Name(r)] = hand[r].file]
  /\ hand' = [hand EXCEPT ![r] = Empty]
  /\ UNCHANGED <<unlinked, info, clash>>

(* The move fails, always if the file is gone: the record is taken back.   *)
MoveFails(r) ==
  /\ At(r, "move")
  /\ info' = [info EXCEPT ![Name(r)] = NoFile]
  /\ hand' = [hand EXCEPT ![r] = Empty]
  /\ UNCHANGED <<place, unlinked, trashed, clash>>

(* A directory or the record cannot be written.                            *)
RecordFails(r) ==
  /\ At(r, "record")
  /\ hand' = [hand EXCEPT ![r] = Empty]
  /\ UNCHANGED <<place, unlinked, trashed, info, clash>>

(* The process is killed.                                                  *)
LetGo(r) ==
  /\ hand' = [hand EXCEPT ![r] = Empty]
  /\ UNCHANGED <<place, unlinked, trashed, info, clash>>

-----------------------------------------------------------------------------
TrashTypeOK ==
  /\ place \subseteq File /\ unlinked \subseteq File
  /\ trashed \in [Slot -> File \cup {NoFile}] /\ info \in [Slot -> File \cup {NoFile}]
  /\ hand \in [Run -> Hand]
  /\ \A r \in Run : ~At(r, "idle") =>
       hand[r].file \in File /\ hand[r].try \in DOMAIN Names[hand[r].file]
  /\ clash \in BOOLEAN

(* Nothing vanishes: a file that is not at its place and was not meant to  *)
(* be unlinked lies in the trash, and the record of its name says where it *)
(* came from, whichever processes were killed or failed on the way.  Two   *)
(* processes that chose the same name are all that can break this.         *)
TrashIsRecoverable ==
  clash \/ \A f \in File \ (place \cup unlinked) : \E s \in Slot : trashed[s] = f /\ info[s] = f
=============================================================================
