----------------------------- MODULE HashCache -----------------------------
(***************************************************************************)
(* Where an MD5 comes from (cache.go, metadata.go): a sidecar that matches *)
(* the scanned size and mtime, a row of the cache shared by all runs that  *)
(* matches size, mtime and inode and is young enough, or the file itself,  *)
(* which is then written back with the metadata of the scan.  Runs overlap *)
(* and files change between any two steps.  One read of a file sees one    *)
(* version of it, and a killed run is one that takes no further step.      *)
(***************************************************************************)
EXTENDS Naturals, Sequences

CONSTANTS
  Path,
  History,  \* History[p]: the versions path p goes through
  Run,
  Options,  \* the cache flags a run may have
  MaxTime   \* bound on the clock

(* A version's stamp stands for its size and mtime, in seconds.            *)
Version == [content : Nat \ {0}, stamp : Nat \ {0}, inode : Nat]
Option  == [cached : BOOLEAN, rehash : BOOLEAN, maxAge : Nat]

ASSUME HistoryAssumption ==
  /\ \A p \in Path : History[p] \in Seq(Version) /\ History[p] # <<>>
  /\ Options \subseteq Option
  /\ MaxTime \in Nat

VARIABLES
  clock,   \* time, in units of maxAge
  at,      \* at[p]: the version on disk
  sidecar, \* the sidecar next to p
  copying, \* the version a copy to p wrote and has no sidecar for yet, 0: none
  row,     \* the rows of the hash cache
  opt,     \* opt[r]: the flags of run r
  born,    \* the time at which it opened the cache
  scan,    \* scan[r][p]: the version it scanned, 0: not scanned yet
  op,      \* what its call of Hash for p is about to do
  hash,    \* the hash its call has computed and not stored yet
  answer   \* what its last call for p returned

world == <<clock, at, sidecar, copying>>
vars  == <<world, row, opt, born, scan, op, hash, answer>>

(* A hash and, for the properties only, when and from what it was          *)
(* computed; the time of a sidecar does not matter.                        *)
Hash == [md5 : Nat, time : 0 .. MaxTime, from : {"nothing", "file", "sidecar"}]
NoHash == [md5 |-> 0, time |-> 0, from |-> "nothing"]

Row == [hash : Hash, stamp : Nat, inode : Nat, seen : Nat]
NoRow == [hash |-> NoHash, stamp |-> 0, inode |-> 0, seen |-> 0]

Sidecar == [md5 : Nat, stamp : Nat]
NoSidecar == [md5 |-> 0, stamp |-> 0]

(* The sidecar a copy of version v of p left.                              *)
SidecarOf(p, v) == [md5 |-> History[p][v].content, stamp |-> History[p][v].stamp]

Stages == {"unborn", "unscanned", "idle", "read", "store"}

Scanned(r, p) == History[p][scan[r][p]]

-----------------------------------------------------------------------------
(* A file may have been copied before, and have its sidecar.               *)
Init ==
  /\ clock = 0
  /\ at = [p \in Path |-> 1]
  /\ \E copied \in SUBSET Path :
       sidecar = [p \in Path |-> IF p \in copied THEN SidecarOf(p, 1) ELSE NoSidecar]
  /\ copying = [p \in Path |-> 0]
  /\ row = [p \in Path |-> NoRow]
  /\ opt \in [Run -> Options]
  /\ born = [r \in Run |-> 0]
  /\ scan = [r \in Run |-> [p \in Path |-> 0]]
  /\ op = [r \in Run |-> [p \in Path |-> "unborn"]]
  /\ hash = [r \in Run |-> [p \in Path |-> NoHash]]
  /\ answer = [r \in Run |-> [p \in Path |-> NoHash]]

Tick ==
  /\ clock < MaxTime /\ clock' = clock + 1
  /\ UNCHANGED <<at, sidecar, copying, row, opt, born, scan, op, hash, answer>>

(* Another program writes p.                                               *)
Write(p) ==
  /\ at[p] < Len(History[p])
  /\ at' = [at EXCEPT ![p] = @ + 1]
  /\ UNCHANGED <<clock, sidecar, copying, row, opt, born, scan, op, hash, answer>>

(* dup-detector copy writes p ...                                          *)
CopyTo(p) ==
  /\ at[p] < Len(History[p]) /\ copying[p] = 0
  /\ at' = [at EXCEPT ![p] = @ + 1]
  /\ copying' = [copying EXCEPT ![p] = at[p] + 1]
  /\ UNCHANGED <<clock, sidecar, row, opt, born, scan, op, hash, answer>>

(* ... and, once it has been read back, the sidecar of what it wrote.      *)
WriteSidecar(p) ==
  /\ copying[p] # 0
  /\ sidecar' = [sidecar EXCEPT ![p] = SidecarOf(p, copying[p])]
  /\ copying' = [copying EXCEPT ![p] = 0]
  /\ UNCHANGED <<clock, at, row, opt, born, scan, op, hash, answer>>

(* OpenHashCache fixes what the run takes for the present.                 *)
Open(r) ==
  /\ \A p \in Path : op[r][p] = "unborn"
  /\ born' = [born EXCEPT ![r] = clock]
  /\ op' = [op EXCEPT ![r] = [p \in Path |-> "unscanned"]]
  /\ UNCHANGED <<world, row, opt, scan, hash, answer>>

(* The walk of run r comes to p.                                           *)
Scan(r, p) ==
  /\ op[r][p] = "unscanned"
  /\ scan' = [scan EXCEPT ![r][p] = at[p]]
  /\ op' = [op EXCEPT ![r][p] = "idle"]
  /\ UNCHANGED <<world, row, opt, born, hash, answer>>

-----------------------------------------------------------------------------
(* HashCache.Hash; a run may call it for the same file again.              *)

(* sidecarMD5: size and mtime are those of the scan; the inode is not      *)
(* compared.                                                               *)
SidecarFresh(r, p) == sidecar[p].stamp = Scanned(r, p).stamp

(* Mutant of RowMatches: size and mtime are not compared.                  *)
SameInode(r, p) == row[p] # NoRow /\ row[p].inode = Scanned(r, p).inode

RowMatches(r, p) ==
  /\ row[p].stamp = Scanned(r, p).stamp
  /\ row[p].inode = Scanned(r, p).inode

(* Mutant of YoungEnough: --cache-max-age is not looked at.                *)
AnyAge(r, p) == ~opt[r].rehash

(* now - seen may be negative: the row may come from a later run.          *)
YoungEnough(r, p) ==
  /\ ~opt[r].rehash
  /\ opt[r].maxAge = 0 \/ born[r] <= row[p].seen + opt[r].maxAge

RowServes(r, p) == opt[r].cached /\ YoungEnough(r, p) /\ RowMatches(r, p)

Return(r, p, h) == answer' = [answer EXCEPT ![r][p] = h]

HashFromSidecar(r, p) ==
  /\ op[r][p] = "idle" /\ SidecarFresh(r, p)
  /\ Return(r, p, [md5 |-> sidecar[p].md5, time |-> 0, from |-> "sidecar"])
  /\ UNCHANGED <<world, row, opt, born, scan, op, hash>>

HashFromRow(r, p) ==
  /\ op[r][p] = "idle" /\ ~SidecarFresh(r, p) /\ RowServes(r, p)
  /\ Return(r, p, row[p].hash)
  /\ UNCHANGED <<world, row, opt, born, scan, op, hash>>

(* No row serves, or the database cannot be read.                          *)
Miss(r, p) ==
  /\ op[r][p] = "idle" /\ ~SidecarFresh(r, p)
  /\ op' = [op EXCEPT ![r][p] = "read"]
  /\ UNCHANGED <<world, row, opt, born, scan, hash, answer>>

(* md5File reads whatever p holds by now.                                  *)
ReadFile(r, p) ==
  /\ op[r][p] = "read"
  /\ LET h == [md5 |-> History[p][at[p]].content, time |-> clock, from |-> "file"] IN
     IF opt[r].cached
     THEN /\ hash' = [hash EXCEPT ![r][p] = h]
          /\ op' = [op EXCEPT ![r][p] = "store"]
          /\ UNCHANGED answer
     ELSE /\ op' = [op EXCEPT ![r][p] = "idle"]
          /\ Return(r, p, h)
          /\ UNCHANGED hash
  /\ UNCHANGED <<world, row, opt, born, scan>>

(* md5File fails: Hash returns the error.                                  *)
ReadFails(r, p) ==
  /\ op[r][p] = "read"
  /\ op' = [op EXCEPT ![r][p] = "idle"]
  /\ Return(r, p, NoHash)
  /\ UNCHANGED <<world, row, opt, born, scan, hash>>

(* Mutant of RowOf: the row is written before the hash is known.           *)
RowWithoutHash(r, p) ==
  [stamp |-> Scanned(r, p).stamp, inode |-> Scanned(r, p).inode, seen |-> born[r]]

(* What store writes: the metadata of the scan, the hash just computed and *)
(* the time the run started.                                               *)
RowOf(r, p) ==
  [hash |-> hash[r][p], stamp |-> Scanned(r, p).stamp,
   inode |-> Scanned(r, p).inode, seen |-> born[r]]

(* The row is upserted, unless the write fails, which is ignored.          *)
Store(r, p) ==
  /\ op[r][p] = "store"
  /\ row' \in {[row EXCEPT ![p] = RowOf(r, p)], row}
  /\ op' = [op EXCEPT ![r][p] = "idle"]
  /\ hash' = [hash EXCEPT ![r][p] = NoHash]
  /\ Return(r, p, hash[r][p])
  /\ UNCHANGED <<world, opt, born, scan>>

World == Tick \/ \E p \in Path : Write(p) \/ CopyTo(p) \/ WriteSidecar(p)

Call(r, p) ==
  \/ Scan(r, p)
  \/ HashFromSidecar(r, p) \/ HashFromRow(r, p) \/ Miss(r, p)
  \/ ReadFile(r, p) \/ ReadFails(r, p) \/ Store(r, p)

Next == World \/ \E r \in Run : Open(r) \/ \E p \in Path : Call(r, p)

Spec == Init /\ [][Next]_vars

-----------------------------------------------------------------------------
(* Rows, sidecars, calls and answers have the shape their Go types give.   *)
TypeOK ==
  /\ clock \in 0 .. MaxTime
  /\ at \in [Path -> Nat \ {0}] /\ \A p \in Path : at[p] <= Len(History[p])
  /\ sidecar \in [Path -> Sidecar] /\ copying \in [Path -> Nat]
  /\ row \in [Path -> Row]
  /\ opt \in [Run -> Options] /\ born \in [Run -> 0 .. MaxTime]
  /\ scan \in [Run -> [Path -> Nat]]
  /\ op \in [Run -> [Path -> Stages]]
  /\ hash \in [Run -> [Path -> Hash]] /\ answer \in [Run -> [Path -> Hash]]

(* No version of a path bears the size and mtime of an earlier one.        *)
NoStampReturns ==
  \A p \in Path : \A v, w \in DOMAIN History[p] :
    History[p][v].stamp = History[p][w].stamp => v = w

(* Whichever runs share the cache, whatever is written or copied between   *)
(* their steps, a hash that Hash returns is that of a version p had        *)
(* between the scan of that run and now, never of one that was gone before *)
(* the run looked.                                                         *)
HashNotOlderThanScan ==
  NoStampReturns =>
    \A r \in Run, p \in Path :
      answer[r][p] # NoHash =>
        \E v \in scan[r][p] .. at[p] : answer[r][p].md5 = History[p][v].content

(* A sidecar described the size and mtime the run scanned.                 *)
FromSidecar(r, p, h) ==
  /\ h.from = "sidecar"
  /\ \E v \in 1 .. at[p] :
       History[p][v].stamp = Scanned(r, p).stamp /\ History[p][v].content = h.md5

(* A file was read no longer than maxAge before the run started, and under *)
(* --rehash and --no-cache since it started.                               *)
ReadLately(r, h) ==
  /\ h.from = "file"
  /\ opt[r].maxAge # 0 => born[r] <= h.time + opt[r].maxAge
  /\ opt[r].rehash \/ ~opt[r].cached => born[r] <= h.time

(* "Trust cached hashes only up to an age" and "ignore cached MD5s" hold   *)
(* of every hash that comes from a row or from the file, although a row    *)
(* bears the time its run started, not that of the read.  What is not from *)
(* there is from a sidecar, which Hash believes under every flag and at    *)
(* every age: such a hash was true of the size and mtime scanned.          *)
ReusedHashesAreYoung ==
  \A r \in Run, p \in Path :
    LET h == answer[r][p] IN h # NoHash => FromSidecar(r, p, h) \/ ReadLately(r, h)
=============================================================================
