-------------------------- MODULE HashCacheProofs --------------------------
(***************************************************************************)
(* For any number of runs and paths, any history and any flags: a hash is  *)
(* never older than the scan that asked for it (if no size and mtime       *)
(* returns), and never older than the age the run allows.                  *)
(***************************************************************************)
EXTENDS HashCache, TLAPS

(* md5 is the content p had in version s or later.                         *)
Since(p, s, md5) == \E v \in s .. at[p] : md5 = History[p][v].content

InCall(r, p) == op[r][p] \in {"idle", "read", "store"}

(* What was scanned was on disk; before that there is no answer.           *)
Looked ==
  \A r \in Run, p \in Path :
    IF InCall(r, p) THEN scan[r][p] \in 1 .. at[p] ELSE answer[r][p] = NoHash

(* A hash on its way to the cache was read since the run began and looked. *)
OnItsWay ==
  \A r \in Run, p \in Path :
    /\ born[r] <= clock
    /\ op[r][p] = "store" => Since(p, scan[r][p], hash[r][p].md5)
                             /\ born[r] <= hash[r][p].time /\ hash[r][p].from = "file"

(* A row's hash was read after the version it bears the metadata of, and   *)
(* after the time it bears.                                                *)
RowsAreLater ==
  \A p \in Path :
    /\ row[p].seen <= row[p].hash.time
    /\ row[p].stamp # 0 => row[p].hash.from = "file"
    /\ row[p].stamp # 0 =>
         \E s \in 1 .. at[p] : /\ row[p].stamp = History[p][s].stamp
                               /\ Since(p, s, row[p].hash.md5)

(* A sidecar describes a version the path has had.                         *)
SidecarsWereTrue ==
  \A p \in Path :
    /\ copying[p] <= at[p]
    /\ sidecar[p].stamp # 0 =>
         \E s \in 1 .. at[p] : /\ sidecar[p].stamp = History[p][s].stamp
                               /\ sidecar[p].md5 = History[p][s].content

CacheInv ==
  /\ TypeOK /\ Looked /\ OnItsWay /\ RowsAreLater /\ SidecarsWereTrue
  /\ HashNotOlderThanScan /\ ReusedHashesAreYoung

-----------------------------------------------------------------------------
(* Facts used by every step.                                               *)

(* What a hash and a row hold.                                             *)
LEMMA HashFields ==
  /\ \A h \in Hash : h.md5 \in Nat /\ h.time \in 0 .. MaxTime
  /\ NoHash \in Hash /\ NoHash.from = "nothing" /\ NoHash.time = 0 /\ NoHash.md5 = 0
  /\ \A x \in Row : x.hash \in Hash /\ x.stamp \in Nat /\ x.seen \in Nat
  /\ NoRow \in Row /\ NoRow.seen = 0 /\ NoRow.stamp = 0 /\ NoRow.hash = NoHash
BY HistoryAssumption DEF Hash, NoHash, Row, NoRow

LEMMA HistoryLength ==
  ASSUME NEW p \in Path
  PROVE  Len(History[p]) \in Nat \ {0}
<1>1. History[p] \in Seq(Version) /\ History[p] # <<>>  BY HistoryAssumption
<1> QED  BY <1>1

(* A version of a path has a content and a stamp.                          *)
LEMMA VersionFields ==
  ASSUME NEW p \in Path, NEW v \in 1 .. Len(History[p])
  PROVE  /\ v \in DOMAIN History[p]
         /\ History[p][v] \in Version
         /\ History[p][v].content \in Nat \ {0} /\ History[p][v].stamp \in Nat \ {0}
         /\ History[p][v].inode \in Nat
<1>1. History[p] \in Seq(Version)  BY HistoryAssumption
<1>2. v \in DOMAIN History[p] /\ History[p][v] \in Version  BY <1>1
<1> QED  BY <1>2 DEF Version

(* The options of a run are flags and an age.                              *)
LEMMA OptionFields ==
  ASSUME TypeOK, NEW r \in Run
  PROVE  opt[r].maxAge \in Nat
BY HistoryAssumption DEF TypeOK, Option

(* What held since a version still does when the file has moved on.        *)
LEMMA SinceGrows ==
  ASSUME NEW p \in Path, NEW s \in Nat, NEW m,
         at[p] \in Nat, at'[p] \in Nat, at[p] <= at'[p], Since(p, s, m)
  PROVE  Since(p, s, m)'
BY DEF Since

LEMMA InitCache == Init => CacheInv
<1> SUFFICES ASSUME Init PROVE CacheInv  OBVIOUS
<1> USE HashFields
<1>1. TypeOK
  <2>1. ASSUME NEW p \in Path PROVE 1 <= Len(History[p])
    <3>1. Len(History[p]) \in Nat \ {0}  BY HistoryLength
    <3> QED  BY <3>1
  <2>2. \A p \in Path : NoSidecar \in Sidecar /\ SidecarOf(p, 1) \in Sidecar
    <3>1. ASSUME NEW p \in Path PROVE 1 \in 1 .. Len(History[p])
      <4>1. Len(History[p]) \in Nat \ {0}  BY HistoryLength
      <4> QED  BY <4>1
    <3> QED  BY <3>1, VersionFields DEF NoSidecar, SidecarOf, Sidecar
  <2>3. 0 \in 0 .. MaxTime  BY HistoryAssumption
  <2>4. sidecar \in [Path -> Sidecar]  BY <2>2 DEF Init
  <2> QED  BY <2>1, <2>3, <2>4 DEF Init, TypeOK, Stages
<1>2. Looked /\ OnItsWay  BY DEF Init, Looked, OnItsWay, InCall
<1>3. RowsAreLater
  <2>1. \A p \in Path : row[p] = NoRow  BY DEF Init
  <2>2. 0 <= 0  OBVIOUS
  <2> QED  BY <2>1, <2>2 DEF RowsAreLater
<1>4. SidecarsWereTrue
  <2>1. \A p \in Path : /\ sidecar[p] \in {NoSidecar, SidecarOf(p, 1)}
                        /\ copying[p] = 0 /\ at[p] = 1
    BY DEF Init
  <2>2. NoSidecar.stamp = 0  BY DEF NoSidecar
  <2>3. \A p \in Path : /\ SidecarOf(p, 1).stamp = History[p][1].stamp
                        /\ SidecarOf(p, 1).md5 = History[p][1].content
    BY DEF SidecarOf
  <2>4. 0 <= 1 /\ 1 \in 1 .. 1  OBVIOUS
  <2> QED  BY <2>1, <2>2, <2>3, <2>4 DEF SidecarsWereTrue
<1>5. HashNotOlderThanScan /\ ReusedHashesAreYoung
  BY DEF Init, HashNotOlderThanScan, ReusedHashesAreYoung
<1> QED  BY <1>1, <1>2, <1>3, <1>4, <1>5 DEF CacheInv

-----------------------------------------------------------------------------
(* The world moves: nothing but the clock and the file changes.            *)

LEMMA TickCache == CacheInv /\ Tick => CacheInv'
<1> SUFFICES ASSUME CacheInv, Tick PROVE CacheInv'  OBVIOUS
<1>1. TypeOK'
  BY HistoryAssumption DEF CacheInv, TypeOK, Tick
<1>2. Looked'  BY DEF CacheInv, Looked, InCall, Tick
<1>3. OnItsWay'  BY DEF CacheInv, OnItsWay, Since, Tick, TypeOK
<1>4. RowsAreLater' /\ SidecarsWereTrue'
  BY DEF CacheInv, RowsAreLater, SidecarsWereTrue, Since, Tick
<1>5. HashNotOlderThanScan' /\ ReusedHashesAreYoung'
  BY DEF CacheInv, HashNotOlderThanScan, ReusedHashesAreYoung,
         FromSidecar, ReadLately, Scanned, NoStampReturns, Tick
<1> QED  BY <1>1, <1>2, <1>3, <1>4, <1>5 DEF CacheInv

(* Another version is put in place of p, by whoever.                       *)
LEMMA GrowCache ==
  ASSUME CacheInv, NEW p \in Path, at[p] < Len(History[p]),
         at' = [at EXCEPT ![p] = @ + 1],
         copying' \in [Path -> Nat],
         \A q \in Path : copying'[q] = copying[q] \/ (q = p /\ copying'[q] = at[q] + 1),
         UNCHANGED <<clock, sidecar, row, opt, born, scan, op, hash, answer>>
  PROVE  CacheInv'
<1> USE DEF CacheInv
<1>1. \A q \in Path : /\ at[q] \in Nat \ {0} /\ at'[q] \in Nat \ {0}
                      /\ at[q] <= at'[q] /\ at'[q] <= Len(History[q])
                      /\ at'[q] = (IF q = p THEN at[q] + 1 ELSE at[q])
  BY HistoryAssumption DEF TypeOK
<1>2. TypeOK'  BY <1>1 DEF TypeOK
<1>3. Looked'  BY <1>1 DEF Looked, InCall
<1>4. OnItsWay'
  <2> SUFFICES ASSUME NEW r \in Run, NEW q \in Path
               PROVE  /\ born[r] <= clock
                      /\ op[r][q] = "store" => Since(q, scan[r][q], hash[r][q].md5)'
                                               /\ born[r] <= hash[r][q].time
                                               /\ hash[r][q].from = "file"
    BY DEF OnItsWay
  <2>1. scan[r][q] \in Nat  BY DEF TypeOK
  <2> QED  BY <1>1, <2>1, SinceGrows DEF OnItsWay
<1>5. RowsAreLater'
  <2> SUFFICES ASSUME NEW q \in Path, row[q].stamp # 0
               PROVE  \E s \in 1 .. at'[q] : /\ row[q].stamp = History[q][s].stamp
                                             /\ Since(q, s, row[q].hash.md5)'
    BY DEF RowsAreLater
  <2>1. PICK s \in 1 .. at[q] : /\ row[q].stamp = History[q][s].stamp
                                /\ Since(q, s, row[q].hash.md5)
    BY DEF RowsAreLater
  <2>2. s \in 1 .. at'[q]  BY <1>1
  <2> QED  BY <1>1, <2>1, <2>2, SinceGrows
<1>6. SidecarsWereTrue'
  <2> SUFFICES ASSUME NEW q \in Path
               PROVE  /\ copying'[q] <= at'[q]
                      /\ sidecar[q].stamp # 0 =>
                           \E s \in 1 .. at'[q] : /\ sidecar[q].stamp = History[q][s].stamp
                                                 /\ sidecar[q].md5 = History[q][s].content
    BY DEF SidecarsWereTrue
  <2>1. copying'[q] <= at'[q]  BY <1>1 DEF SidecarsWereTrue, TypeOK
  <2>2. ASSUME NEW s \in 1 .. at[q] PROVE s \in 1 .. at'[q]  BY <1>1
  <2> QED  BY <2>1, <2>2 DEF SidecarsWereTrue
<1>7. HashNotOlderThanScan'
  <2> SUFFICES ASSUME NoStampReturns, NEW r \in Run, NEW q \in Path, answer[r][q] # NoHash
               PROVE  \E v \in scan[r][q] .. at'[q] : answer[r][q].md5 = History[q][v].content
    BY DEF HashNotOlderThanScan, NoStampReturns
  <2>1. Since(q, scan[r][q], answer[r][q].md5)  BY DEF HashNotOlderThanScan, Since
  <2>2. scan[r][q] \in Nat  BY DEF TypeOK
  <2> QED  BY <1>1, <2>1, <2>2 DEF Since
<1>8. ReusedHashesAreYoung'
  <2>1. \A q \in Path : \A v \in 1 .. at[q] : v \in 1 .. at'[q]  BY <1>1
  <2>2. \A r \in Run, q \in Path : FromSidecar(r, q, answer[r][q]) => FromSidecar(r, q, answer[r][q])'
    BY <2>1 DEF FromSidecar, Scanned
  <2>3. \A r \in Run, q \in Path : ReadLately(r, answer[r][q]) => ReadLately(r, answer[r][q])'
    BY DEF ReadLately
  <2> QED  BY <2>2, <2>3 DEF ReusedHashesAreYoung
<1> QED  BY <1>2, <1>3, <1>4, <1>5, <1>6, <1>7, <1>8

LEMMA WriteCache == ASSUME NEW p \in Path PROVE CacheInv /\ Write(p) => CacheInv'
<1> SUFFICES ASSUME CacheInv, Write(p) PROVE CacheInv'  OBVIOUS
<1>1. copying' \in [Path -> Nat] /\ \A q \in Path : copying'[q] = copying[q]
  BY DEF Write, CacheInv, TypeOK
<1> QED  BY <1>1, GrowCache DEF Write

LEMMA CopyCache == ASSUME NEW p \in Path PROVE CacheInv /\ CopyTo(p) => CacheInv'
<1> SUFFICES ASSUME CacheInv, CopyTo(p) PROVE CacheInv'  OBVIOUS
<1>1. copying' \in [Path -> Nat]
  BY DEF CopyTo, CacheInv, TypeOK
<1>2. \A q \in Path : copying'[q] = copying[q] \/ (q = p /\ copying'[q] = at[q] + 1)
  BY DEF CopyTo, CacheInv, TypeOK
<1> QED  BY <1>1, <1>2, GrowCache DEF CopyTo

LEMMA SidecarCache == ASSUME NEW p \in Path PROVE CacheInv /\ WriteSidecar(p) => CacheInv'
<1> SUFFICES ASSUME CacheInv, WriteSidecar(p) PROVE CacheInv'  OBVIOUS
<1> DEFINE v == History[p][copying[p]]
           new == [md5 |-> v.content, stamp |-> v.stamp]
<1> USE DEF CacheInv
<1>1. copying[p] \in 1 .. at[p] /\ copying[p] \in 1 .. Len(History[p])
  BY HistoryAssumption DEF WriteSidecar, SidecarsWereTrue, TypeOK
<1>2. new \in Sidecar  BY <1>1, VersionFields DEF Sidecar
<1>3. sidecar' = [sidecar EXCEPT ![p] = new] /\ copying' = [copying EXCEPT ![p] = 0]
  BY DEF WriteSidecar, SidecarOf
<1>4. TypeOK'  BY <1>2, <1>3 DEF TypeOK, WriteSidecar
<1>5. SidecarsWereTrue'
  <2> SUFFICES ASSUME NEW q \in Path
               PROVE  /\ copying'[q] <= at[q]
                      /\ sidecar'[q].stamp # 0 =>
                           \E s \in 1 .. at[q] : /\ sidecar'[q].stamp = History[q][s].stamp
                                                /\ sidecar'[q].md5 = History[q][s].content
    BY DEF SidecarsWereTrue, WriteSidecar
  <2>1. CASE q = p
    <3>1. sidecar'[q] = new /\ copying'[q] = 0  BY <1>3, <2>1 DEF TypeOK
    <3>2. at[q] \in Nat \ {0}  BY DEF TypeOK
    <3>3. new.stamp = v.stamp /\ new.md5 = v.content  OBVIOUS
    <3>4. 0 <= at[q]  BY <3>2
    <3> QED  BY <1>1, <2>1, <3>1, <3>3, <3>4
  <2>2. CASE q # p  BY <1>3, <2>2 DEF SidecarsWereTrue, TypeOK
  <2> QED  BY <2>1, <2>2
<1>6. Looked' /\ OnItsWay' /\ RowsAreLater'
  BY DEF WriteSidecar, Looked, InCall, OnItsWay, RowsAreLater, Since
<1>7. HashNotOlderThanScan' /\ ReusedHashesAreYoung'
  BY DEF WriteSidecar, HashNotOlderThanScan, ReusedHashesAreYoung,
         FromSidecar, ReadLately, Scanned, NoStampReturns
<1> QED  BY <1>4, <1>5, <1>6, <1>7

-----------------------------------------------------------------------------
(* Run r opens the cache and walks to p.                                   *)

LEMMA OpenCache == ASSUME NEW r \in Run PROVE CacheInv /\ Open(r) => CacheInv'
<1> SUFFICES ASSUME CacheInv, Open(r) PROVE CacheInv'  OBVIOUS
<1> USE DEF CacheInv
<1>1. /\ born' = [born EXCEPT ![r] = clock]
      /\ op' = [op EXCEPT ![r] = [p \in Path |-> "unscanned"]]
      /\ \A p \in Path : op[r][p] = "unborn"
      /\ UNCHANGED <<clock, at, sidecar, copying, row, opt, scan, hash, answer>>
  BY DEF Open, world
<1>2. TypeOK'
  <2>1. [p \in Path |-> "unscanned"] \in [Path -> Stages]  BY DEF Stages
  <2> QED  BY <1>1, <2>1 DEF TypeOK
<1>3. \A s \in Run \ {r} : born'[s] = born[s] /\ op'[s] = op[s]
  BY <1>1 DEF TypeOK
<1>4. born'[r] = clock /\ \A p \in Path : op'[r][p] = "unscanned"
  BY <1>1 DEF TypeOK
<1>5. \A p \in Path : answer[r][p] = NoHash  BY <1>1 DEF Looked, InCall
<1>6. Looked'  BY <1>1, <1>3, <1>4, <1>5 DEF Looked, InCall
<1>7. OnItsWay'
  <2>1. clock <= clock  BY HistoryAssumption DEF TypeOK
  <2> QED  BY <1>1, <1>3, <1>4, <2>1 DEF OnItsWay, Since
<1>8. RowsAreLater' /\ SidecarsWereTrue'
  BY <1>1 DEF RowsAreLater, SidecarsWereTrue, Since
<1>9. HashNotOlderThanScan'  BY <1>1 DEF HashNotOlderThanScan, NoStampReturns
<1>10. ReusedHashesAreYoung'
  BY <1>1, <1>3, <1>5 DEF ReusedHashesAreYoung, FromSidecar, ReadLately, Scanned
<1> QED  BY <1>2, <1>6, <1>7, <1>8, <1>9, <1>10

LEMMA ScanCache ==
  ASSUME NEW r \in Run, NEW p \in Path PROVE CacheInv /\ Scan(r, p) => CacheInv'
<1> SUFFICES ASSUME CacheInv, Scan(r, p) PROVE CacheInv'  OBVIOUS
<1> USE DEF CacheInv
<1>1. /\ scan' = [scan EXCEPT ![r][p] = at[p]] /\ op' = [op EXCEPT ![r][p] = "idle"]
      /\ op[r][p] = "unscanned"
      /\ UNCHANGED <<clock, at, sidecar, copying, row, opt, born, hash, answer>>
  BY DEF Scan, world
<1>2. TypeOK'  BY <1>1 DEF TypeOK, Stages
<1>3. \A s \in Run, q \in Path : s # r \/ q # p => scan'[s][q] = scan[s][q] /\ op'[s][q] = op[s][q]
  BY <1>1 DEF TypeOK
<1>4. scan'[r][p] = at[p] /\ op'[r][p] = "idle" /\ answer[r][p] = NoHash
  BY <1>1 DEF TypeOK, Looked, InCall
<1>5. at[p] \in 1 .. at[p]  BY DEF TypeOK
<1>6. Looked'  BY <1>1, <1>3, <1>4, <1>5 DEF Looked, InCall
<1>7. OnItsWay'  BY <1>1, <1>3, <1>4 DEF OnItsWay, Since
<1>8. RowsAreLater' /\ SidecarsWereTrue' /\ ReusedHashesAreYoung'
  <2>1. RowsAreLater' /\ SidecarsWereTrue'  BY <1>1 DEF RowsAreLater, SidecarsWereTrue, Since
  <2>2. ReusedHashesAreYoung'
    BY <1>1, <1>3, <1>4 DEF ReusedHashesAreYoung, FromSidecar, ReadLately, Scanned
  <2> QED  BY <2>1, <2>2
<1>9. HashNotOlderThanScan'
  BY <1>1, <1>3, <1>4 DEF HashNotOlderThanScan, NoStampReturns
<1> QED  BY <1>2, <1>6, <1>7, <1>8, <1>9

-----------------------------------------------------------------------------
(* The steps of Hash.                                                      *)

(* Hash returns h, having looked at p before.                              *)
LEMMA ReturnCache ==
  ASSUME CacheInv, NEW r \in Run, NEW p \in Path, NEW h \in Hash,
         InCall(r, p), InCall(r, p)',
         Return(r, p, h),
         op' \in [Run -> [Path -> Stages]],
         \A s \in Run, q \in Path : s # r \/ q # p => op'[s][q] = op[s][q],
         op'[r][p] # "store",
         h # NoHash /\ NoStampReturns => Since(p, scan[r][p], h.md5),
         h # NoHash => FromSidecar(r, p, h) \/ ReadLately(r, h),
         UNCHANGED <<clock, at, sidecar, copying, opt, born, scan>>,
         TypeOK => row' \in [Path -> Row] /\ hash' \in [Run -> [Path -> Hash]],
         \A s \in Run, q \in Path : s # r \/ q # p => hash'[s][q] = hash[s][q],
         RowsAreLater'
  PROVE  CacheInv'
<1> USE DEF CacheInv
<1>1. answer' = [answer EXCEPT ![r][p] = h]  BY DEF Return
<1>2. answer'[r][p] = h
      /\ \A s \in Run, q \in Path : s # r \/ q # p => answer'[s][q] = answer[s][q]
  BY <1>1 DEF TypeOK
<1>3. TypeOK'  BY <1>1 DEF TypeOK
<1>4. Looked'
  <2> SUFFICES ASSUME NEW s \in Run, NEW q \in Path
               PROVE  IF InCall(s, q)' THEN scan[s][q] \in 1 .. at[q] ELSE answer'[s][q] = NoHash
    BY DEF Looked
  <2>1. CASE s = r /\ q = p  BY <2>1 DEF Looked
  <2>2. CASE s # r \/ q # p  BY <1>2, <2>2 DEF Looked, InCall
  <2> QED  BY <2>1, <2>2
<1>5. OnItsWay'
  <2> SUFFICES ASSUME NEW s \in Run, NEW q \in Path
               PROVE  /\ born[s] <= clock
                      /\ op'[s][q] = "store" => Since(q, scan[s][q], hash'[s][q].md5)
                                               /\ born[s] <= hash'[s][q].time
                                               /\ hash'[s][q].from = "file"
    BY DEF OnItsWay, Since
  <2>1. CASE s = r /\ q = p  BY <2>1 DEF OnItsWay
  <2>2. CASE s # r \/ q # p  BY <2>2 DEF OnItsWay
  <2> QED  BY <2>1, <2>2
<1>6. SidecarsWereTrue'  BY DEF SidecarsWereTrue
<1>7. HashNotOlderThanScan'
  <2> SUFFICES ASSUME NoStampReturns, NEW s \in Run, NEW q \in Path, answer'[s][q] # NoHash
               PROVE  Since(q, scan[s][q], answer'[s][q].md5)
    BY DEF HashNotOlderThanScan, NoStampReturns, Since
  <2>1. CASE s = r /\ q = p  BY <1>2, <2>1
  <2>2. CASE s # r \/ q # p  BY <1>2, <2>2 DEF HashNotOlderThanScan, Since
  <2> QED  BY <2>1, <2>2
<1>8. ReusedHashesAreYoung'
  <2> SUFFICES ASSUME NEW s \in Run, NEW q \in Path, answer'[s][q] # NoHash
               PROVE  FromSidecar(s, q, answer'[s][q]) \/ ReadLately(s, answer'[s][q])
    BY DEF ReusedHashesAreYoung, FromSidecar, ReadLately, Scanned
  <2>1. CASE s = r /\ q = p  BY <1>2, <2>1
  <2>2. CASE s # r \/ q # p  BY <1>2, <2>2 DEF ReusedHashesAreYoung
  <2> QED  BY <2>1, <2>2
<1> QED  BY <1>3, <1>4, <1>5, <1>6, <1>7, <1>8

(* The version a run scanned is one of the path's.                         *)
LEMMA ScannedFields ==
  ASSUME CacheInv, NEW r \in Run, NEW p \in Path, InCall(r, p)
  PROVE  /\ scan[r][p] \in 1 .. at[p] /\ scan[r][p] \in 1 .. Len(History[p])
         /\ scan[r][p] \in Nat /\ at[p] \in 1 .. Len(History[p])
         /\ Scanned(r, p) \in Version
         /\ Scanned(r, p).stamp \in Nat \ {0} /\ Scanned(r, p).inode \in Nat
<1>1. scan[r][p] \in 1 .. at[p]  BY DEF CacheInv, Looked
<1>2. at[p] \in Nat \ {0} /\ at[p] <= Len(History[p]) /\ Len(History[p]) \in Nat
  <2>1. Len(History[p]) \in Nat \ {0}  BY HistoryLength
  <2> QED  BY <2>1 DEF CacheInv, TypeOK
<1>3. scan[r][p] \in 1 .. Len(History[p]) /\ at[p] \in 1 .. Len(History[p])
  BY <1>1, <1>2
<1>4. Scanned(r, p) \in Version /\ Scanned(r, p).stamp \in Nat \ {0}
      /\ Scanned(r, p).inode \in Nat
  BY <1>3, VersionFields DEF Scanned
<1> QED  BY <1>1, <1>3, <1>4

(* If no stamp returns, what matches the scan is of the scanned version.   *)
LEMMA StampIdentifies ==
  ASSUME CacheInv, NEW r \in Run, NEW p \in Path, InCall(r, p), NoStampReturns,
         NEW s \in 1 .. at[p], History[p][s].stamp = Scanned(r, p).stamp
  PROVE  s = scan[r][p]
<1>1. scan[r][p] \in 1 .. Len(History[p]) /\ at[p] \in 1 .. Len(History[p])
  BY ScannedFields
<1>2. Len(History[p]) \in Nat \ {0}  BY HistoryLength
<1>3. s \in 1 .. Len(History[p])  BY <1>1, <1>2
<1>4. s \in DOMAIN History[p] /\ scan[r][p] \in DOMAIN History[p]
  BY <1>1, <1>3, VersionFields
<1> QED  BY <1>4 DEF NoStampReturns, Scanned

LEMMA SidecarHashCache ==
  ASSUME NEW r \in Run, NEW p \in Path
  PROVE  CacheInv /\ HashFromSidecar(r, p) => CacheInv'
<1> SUFFICES ASSUME CacheInv, HashFromSidecar(r, p) PROVE CacheInv'  OBVIOUS
<1> DEFINE h == [md5 |-> sidecar[p].md5, time |-> 0, from |-> "sidecar"]
<1>1. InCall(r, p) /\ InCall(r, p)'  BY DEF HashFromSidecar, InCall
<1>2. h \in Hash /\ h.from # "file" /\ h.md5 = sidecar[p].md5
  <2>1. sidecar[p] \in Sidecar  BY DEF CacheInv, TypeOK
  <2>2. sidecar[p].md5 \in Nat /\ 0 \in 0 .. MaxTime
    BY <2>1, HistoryAssumption DEF Sidecar
  <2> QED  BY <2>2 DEF Hash
<1>3. ASSUME NoStampReturns PROVE Since(p, scan[r][p], h.md5)
  <2>1. sidecar[p].stamp = Scanned(r, p).stamp /\ sidecar[p].stamp # 0
    BY <1>1, ScannedFields DEF HashFromSidecar, SidecarFresh
  <2>2. PICK s \in 1 .. at[p] : /\ sidecar[p].stamp = History[p][s].stamp
                                /\ sidecar[p].md5 = History[p][s].content
    BY <2>1 DEF CacheInv, SidecarsWereTrue
  <2>3. s = scan[r][p]  BY <1>1, <1>3, <2>1, <2>2, StampIdentifies
  <2>4. s \in s .. at[p]  BY <2>2
  <2> QED  BY <1>2, <2>2, <2>3, <2>4 DEF Since
<1>4. /\ Return(r, p, h) /\ op[r][p] = "idle"
      /\ UNCHANGED <<clock, at, sidecar, copying, row, opt, born, scan, op, hash>>
  BY DEF HashFromSidecar, world
<1>5. RowsAreLater' /\ op' \in [Run -> [Path -> Stages]] /\ op'[r][p] # "store"
  BY <1>4 DEF CacheInv, TypeOK, RowsAreLater, Since
<1>6. FromSidecar(r, p, h)
  <2>1. sidecar[p].stamp = Scanned(r, p).stamp /\ sidecar[p].stamp # 0
    BY <1>1, ScannedFields DEF HashFromSidecar, SidecarFresh
  <2>2. PICK s \in 1 .. at[p] : /\ sidecar[p].stamp = History[p][s].stamp
                                /\ sidecar[p].md5 = History[p][s].content
    BY <2>1 DEF CacheInv, SidecarsWereTrue
  <2> QED  BY <2>1, <2>2 DEF FromSidecar
<1> HIDE DEF h
<1> QED  BY <1>1, <1>2, <1>3, <1>4, <1>5, <1>6, ReturnCache DEF TypeOK

LEMMA RowHashCache ==
  ASSUME NEW r \in Run, NEW p \in Path
  PROVE  CacheInv /\ HashFromRow(r, p) => CacheInv'
<1> SUFFICES ASSUME CacheInv, HashFromRow(r, p) PROVE CacheInv'  OBVIOUS
<1> DEFINE h == row[p].hash
<1>1. InCall(r, p) /\ InCall(r, p)'  BY DEF HashFromRow, InCall
<1>2. h \in Hash /\ row[p].seen \in Nat
  BY HashFields DEF CacheInv, TypeOK
<1>3. ASSUME NoStampReturns PROVE Since(p, scan[r][p], h.md5)
  <2>1. row[p].stamp = Scanned(r, p).stamp /\ row[p].stamp # 0
    BY <1>1, ScannedFields DEF HashFromRow, RowServes, RowMatches
  <2>2. PICK s \in 1 .. at[p] : /\ row[p].stamp = History[p][s].stamp
                                /\ Since(p, s, row[p].hash.md5)
    BY <2>1 DEF CacheInv, RowsAreLater
  <2>3. s = scan[r][p]  BY <1>1, <1>3, <2>1, <2>2, StampIdentifies
  <2> QED  BY <2>2, <2>3
<1>4. /\ Return(r, p, h) /\ op[r][p] = "idle"
      /\ UNCHANGED <<clock, at, sidecar, copying, row, opt, born, scan, op, hash>>
  BY DEF HashFromRow, world
<1>5. RowsAreLater' /\ op' \in [Run -> [Path -> Stages]] /\ op'[r][p] # "store"
  BY <1>4 DEF CacheInv, TypeOK, RowsAreLater, Since
<1>6. opt[r].maxAge # 0 => born[r] <= h.time + opt[r].maxAge
  <2>1. row[p].seen <= h.time  BY DEF CacheInv, RowsAreLater
  <2>2. h.time \in Nat  BY <1>2, HashFields, HistoryAssumption
  <2>3. opt[r].maxAge \in Nat  BY OptionFields DEF CacheInv
  <2>4. born[r] \in Nat  BY HistoryAssumption DEF CacheInv, TypeOK
  <2>5. opt[r].maxAge # 0 => born[r] <= row[p].seen + opt[r].maxAge
    BY DEF HashFromRow, RowServes, YoungEnough
  <2> HIDE DEF h
  <2> QED  BY <1>2, <2>1, <2>2, <2>3, <2>4, <2>5
<1>7. opt[r].cached /\ ~opt[r].rehash
  BY DEF HashFromRow, RowServes, YoungEnough
<1>8. ReadLately(r, h)
  <2>1. row[p].stamp # 0
    BY <1>1, ScannedFields DEF HashFromRow, RowServes, RowMatches
  <2>2. h.from = "file"  BY <2>1 DEF CacheInv, RowsAreLater
  <2> HIDE DEF h
  <2> QED  BY <1>6, <1>7, <2>2 DEF ReadLately
<1> HIDE DEF h
<1> QED  BY <1>1, <1>2, <1>3, <1>4, <1>5, <1>8, ReturnCache DEF TypeOK

LEMMA MissCache ==
  ASSUME NEW r \in Run, NEW p \in Path PROVE CacheInv /\ Miss(r, p) => CacheInv'
<1> SUFFICES ASSUME CacheInv, Miss(r, p) PROVE CacheInv'  OBVIOUS
<1> USE DEF CacheInv
<1>1. /\ op' = [op EXCEPT ![r][p] = "read"] /\ op[r][p] = "idle"
      /\ UNCHANGED <<clock, at, sidecar, copying, row, opt, born, scan, hash, answer>>
  BY DEF Miss, world
<1>2. TypeOK'  BY <1>1 DEF TypeOK, Stages
<1>3. \A s \in Run, q \in Path : /\ op'[s][q] = "store" => op[s][q] = "store"
                                 /\ InCall(s, q)' <=> InCall(s, q)
  BY <1>1 DEF TypeOK, InCall
<1>4. Looked' /\ OnItsWay'
  BY <1>1, <1>3 DEF Looked, OnItsWay, Since
<1>5. RowsAreLater' /\ SidecarsWereTrue' /\ HashNotOlderThanScan' /\ ReusedHashesAreYoung'
  BY <1>1 DEF RowsAreLater, SidecarsWereTrue, Since, HashNotOlderThanScan,
              ReusedHashesAreYoung,
         FromSidecar, ReadLately, Scanned, NoStampReturns
<1> QED  BY <1>2, <1>4, <1>5

LEMMA ReadFailsCache ==
  ASSUME NEW r \in Run, NEW p \in Path
  PROVE  CacheInv /\ ReadFails(r, p) => CacheInv'
<1> SUFFICES ASSUME CacheInv, ReadFails(r, p) PROVE CacheInv'  OBVIOUS
<1>1. /\ op' = [op EXCEPT ![r][p] = "idle"] /\ op[r][p] = "read"
      /\ Return(r, p, NoHash)
      /\ UNCHANGED <<clock, at, sidecar, copying, row, opt, born, scan, hash>>
  BY DEF ReadFails, world
<1>2. /\ op' \in [Run -> [Path -> Stages]] /\ op'[r][p] = "idle"
      /\ \A s \in Run, q \in Path : s # r \/ q # p => op'[s][q] = op[s][q]
  BY <1>1 DEF CacheInv, TypeOK, Stages
<1>3. InCall(r, p) /\ InCall(r, p)'  BY <1>1, <1>2 DEF InCall
<1>4. RowsAreLater'  BY <1>1 DEF CacheInv, RowsAreLater, Since
<1>5. NoHash \in Hash /\ NoHash.from # "file"  BY HashFields
<1> QED  BY <1>1, <1>2, <1>3, <1>4, <1>5, ReturnCache DEF TypeOK

LEMMA ReadFileCache ==
  ASSUME NEW r \in Run, NEW p \in Path
  PROVE  CacheInv /\ ReadFile(r, p) => CacheInv'
<1> SUFFICES ASSUME CacheInv, ReadFile(r, p) PROVE CacheInv'  OBVIOUS
<1> DEFINE h == [md5 |-> History[p][at[p]].content, time |-> clock, from |-> "file"]
<1>1. op[r][p] = "read" /\ InCall(r, p)  BY DEF ReadFile, InCall
<1>2. at[p] \in scan[r][p] .. at[p] /\ at[p] \in 1 .. Len(History[p])
  BY <1>1, ScannedFields
<1>3. h \in Hash /\ h.from = "file" /\ h.md5 = History[p][at[p]].content /\ h.time = clock
  <2>1. History[p][at[p]].content \in Nat  BY <1>2, VersionFields
  <2>2. clock \in 0 .. MaxTime  BY DEF CacheInv, TypeOK
  <2> QED  BY <2>1, <2>2 DEF Hash
<1>4. Since(p, scan[r][p], h.md5)  BY <1>2, <1>3 DEF Since
<1>5. born[r] <= h.time /\ born[r] \in Nat /\ h.time \in Nat
  BY <1>3, HistoryAssumption DEF CacheInv, OnItsWay, TypeOK
<1>6. UNCHANGED <<clock, at, sidecar, copying, row, opt, born, scan>>
  BY DEF ReadFile, world
<1>7. CASE opt[r].cached
  <2>1. /\ hash' = [hash EXCEPT ![r][p] = h] /\ op' = [op EXCEPT ![r][p] = "store"]
        /\ answer' = answer
    BY <1>7 DEF ReadFile
  <2> HIDE DEF h
  <2>2. TypeOK'  BY <1>3, <1>6, <2>1 DEF CacheInv, TypeOK, Stages
  <2>3. /\ hash'[r][p] = h /\ op'[r][p] = "store"
        /\ \A s \in Run, q \in Path : s # r \/ q # p =>
             hash'[s][q] = hash[s][q] /\ op'[s][q] = op[s][q]
    BY <2>1 DEF CacheInv, TypeOK
  <2>4. \A s \in Run, q \in Path : InCall(s, q)' <=> InCall(s, q)
    BY <1>1, <2>3 DEF InCall
  <2>5. Looked'  BY <1>6, <2>1, <2>4 DEF CacheInv, Looked
  <2>6. OnItsWay'
    <3> SUFFICES ASSUME NEW s \in Run, NEW q \in Path
                 PROVE  /\ born[s] <= clock
                        /\ op'[s][q] = "store" => Since(q, scan[s][q], hash'[s][q].md5)
                                                 /\ born[s] <= hash'[s][q].time
                                               /\ hash'[s][q].from = "file"
      BY <1>6 DEF OnItsWay, Since
    <3>1. CASE s = r /\ q = p  BY <1>3, <1>4, <1>5, <2>3, <3>1 DEF CacheInv, OnItsWay
    <3>2. CASE s # r \/ q # p  BY <2>3, <3>2 DEF CacheInv, OnItsWay
    <3> QED  BY <3>1, <3>2
  <2>7. RowsAreLater' /\ SidecarsWereTrue' /\ HashNotOlderThanScan' /\ ReusedHashesAreYoung'
    BY <1>6, <2>1 DEF CacheInv, RowsAreLater, SidecarsWereTrue, Since, HashNotOlderThanScan,
                      ReusedHashesAreYoung,
         FromSidecar, ReadLately, Scanned, NoStampReturns
  <2> QED  BY <2>2, <2>5, <2>6, <2>7 DEF CacheInv
<1>8. CASE ~opt[r].cached
  <2>1. Return(r, p, h) /\ op' = [op EXCEPT ![r][p] = "idle"] /\ hash' = hash
    BY <1>8 DEF ReadFile
  <2>2. /\ op' \in [Run -> [Path -> Stages]] /\ op'[r][p] = "idle"
        /\ \A s \in Run, q \in Path : s # r \/ q # p => op'[s][q] = op[s][q]
    BY <2>1 DEF CacheInv, TypeOK, Stages
  <2>3. InCall(r, p)'  BY <2>2 DEF InCall
  <2>4. RowsAreLater'  BY <1>6 DEF CacheInv, RowsAreLater, Since
  <2> HIDE DEF h
  <2>5. opt[r].maxAge # 0 => born[r] <= h.time + opt[r].maxAge
    BY <1>5, OptionFields DEF CacheInv
  <2>6. /\ row' \in [Path -> Row] /\ hash' \in [Run -> [Path -> Hash]]
        /\ \A s \in Run, q \in Path : hash'[s][q] = hash[s][q]
    BY <1>6, <2>1 DEF CacheInv, TypeOK
  <2>7. op'[r][p] # "store"  BY <2>2
  <2>8. ReadLately(r, h)  BY <1>3, <1>5, <2>5 DEF ReadLately
  <2> QED  BY <1>1, <1>3, <1>4, <1>6, <2>1, <2>2, <2>3, <2>4, <2>6, <2>7, <2>8, ReturnCache
<1> QED  BY <1>7, <1>8

LEMMA StoreCache ==
  ASSUME NEW r \in Run, NEW p \in Path
  PROVE  CacheInv /\ Store(r, p) => CacheInv'
<1> SUFFICES ASSUME CacheInv, Store(r, p) PROVE CacheInv'  OBVIOUS
<1> DEFINE h == hash[r][p]
<1>1. /\ op[r][p] = "store" /\ op' = [op EXCEPT ![r][p] = "idle"]
      /\ row' = [row EXCEPT ![p] = RowOf(r, p)] \/ row' = row
      /\ hash' = [hash EXCEPT ![r][p] = NoHash]
      /\ Return(r, p, h)
      /\ UNCHANGED <<clock, at, sidecar, copying, opt, born, scan>>
  BY DEF Store, world
<1>2. /\ op' \in [Run -> [Path -> Stages]] /\ op'[r][p] = "idle"
      /\ \A s \in Run, q \in Path : s # r \/ q # p =>
           op'[s][q] = op[s][q] /\ hash'[s][q] = hash[s][q]
  BY <1>1 DEF CacheInv, TypeOK, Stages
<1>3. InCall(r, p) /\ InCall(r, p)'  BY <1>1, <1>2 DEF InCall
<1>4. h \in Hash /\ h.time \in Nat /\ born[r] \in Nat
  BY HashFields, HistoryAssumption DEF CacheInv, TypeOK
<1>5. Since(p, scan[r][p], h.md5) /\ born[r] <= h.time /\ h.from = "file"
  BY <1>1 DEF CacheInv, OnItsWay
<1>6. /\ RowOf(r, p) \in Row /\ RowOf(r, p).hash = h /\ RowOf(r, p).seen = born[r]
      /\ RowOf(r, p).stamp = History[p][scan[r][p]].stamp
  BY <1>3, <1>4, ScannedFields DEF RowOf, Row, Scanned
<1>7. row' \in [Path -> Row] /\ hash' \in [Run -> [Path -> Hash]]
  BY <1>1, <1>6, HashFields DEF CacheInv, TypeOK
<1>8. RowsAreLater'
  <2> SUFFICES ASSUME NEW q \in Path
               PROVE  /\ row'[q].seen <= row'[q].hash.time
                      /\ row'[q].stamp # 0 => row'[q].hash.from = "file"
                      /\ row'[q].stamp # 0 =>
                           \E s \in 1 .. at[q] : /\ row'[q].stamp = History[q][s].stamp
                                                /\ Since(q, s, row'[q].hash.md5)
    BY <1>1 DEF RowsAreLater, Since
  <2>1. CASE row'[q] = row[q]  BY <2>1 DEF CacheInv, RowsAreLater
  <2>2. CASE q = p /\ row'[q] = RowOf(r, p)
    <3>1. scan[r][p] \in 1 .. at[p]  BY <1>3, ScannedFields
    <3> HIDE DEF h
    <3> QED  BY <1>5, <1>6, <2>2, <3>1
  <2>3. row'[q] = row[q] \/ (q = p /\ row'[q] = RowOf(r, p))
    BY <1>1 DEF CacheInv, TypeOK
  <2> QED  BY <2>1, <2>2, <2>3
<1> HIDE DEF h
<1>9. opt[r].maxAge # 0 => born[r] <= h.time + opt[r].maxAge
  BY <1>4, <1>5, OptionFields DEF CacheInv
<1>10. ReadLately(r, h)  BY <1>5, <1>9 DEF ReadLately
<1> QED  BY <1>1, <1>2, <1>3, <1>4, <1>5, <1>7, <1>8, <1>10, ReturnCache

-----------------------------------------------------------------------------
LEMMA NextCache == CacheInv /\ [Next]_vars => CacheInv'
<1> SUFFICES ASSUME CacheInv, [Next]_vars PROVE CacheInv'  OBVIOUS
<1>1. CASE Tick  BY <1>1, TickCache
<1>2. ASSUME NEW p \in Path, Write(p) \/ CopyTo(p) \/ WriteSidecar(p) PROVE CacheInv'
  BY <1>2, WriteCache, CopyCache, SidecarCache
<1>3. ASSUME NEW r \in Run, Open(r) PROVE CacheInv'  BY <1>3, OpenCache
<1>4. ASSUME NEW r \in Run, NEW p \in Path, Call(r, p) PROVE CacheInv'
  BY <1>4, ScanCache, SidecarHashCache, RowHashCache, MissCache, ReadFileCache,
     ReadFailsCache, StoreCache DEF Call
<1>5. CASE UNCHANGED vars
  <2>1. UNCHANGED <<clock, at, sidecar, copying, row, opt, born, scan, op, hash, answer>>
    BY <1>5 DEF vars, world
  <2>2. TypeOK'  BY <2>1 DEF CacheInv, TypeOK
  <2>3. Looked' /\ OnItsWay'  BY <2>1 DEF CacheInv, Looked, InCall, OnItsWay, Since
  <2>4. RowsAreLater' /\ SidecarsWereTrue'
    BY <2>1 DEF CacheInv, RowsAreLater, Since, SidecarsWereTrue
  <2>5. HashNotOlderThanScan' /\ ReusedHashesAreYoung'
    BY <2>1 DEF CacheInv, HashNotOlderThanScan, NoStampReturns, ReusedHashesAreYoung,
           FromSidecar, ReadLately, Scanned
  <2> QED  BY <2>2, <2>3, <2>4, <2>5 DEF CacheInv
<1> QED  BY <1>1, <1>2, <1>3, <1>4, <1>5 DEF Next, World

(* The invariant holds in every reachable state.                           *)
THEOREM CacheInvariance == Spec => []CacheInv
BY InitCache, NextCache, PTL DEF Spec

(* Rows, sidecars, calls and answers of the cache keep their shape.        *)
THEOREM CacheTypeCorrect == Spec => []TypeOK
<1>1. CacheInv => TypeOK  BY DEF CacheInv
<1> QED  BY <1>1, CacheInvariance, PTL

(* Hash never returns what a file held before the run that asks scanned    *)
(* it, for any number of runs sharing the cache and any writes and copies  *)
(* between their steps, if no size and mtime returns.                      *)
THEOREM HashIsNotOlder == Spec => []HashNotOlderThanScan
<1>1. CacheInv => HashNotOlderThanScan  BY DEF CacheInv
<1> QED  BY <1>1, CacheInvariance, PTL

(* Every hash returned is a sidecar's, true of the size and mtime        *)
(* scanned, or was read no longer than --cache-max-age before the run      *)
(* started, under --rehash and --no-cache since it started, whichever runs *)
(* wrote the row with whatever notion of now.                              *)
THEOREM HashIsYoung == Spec => []ReusedHashesAreYoung
<1>1. CacheInv => ReusedHashesAreYoung  BY DEF CacheInv
<1> QED  BY <1>1, CacheInvariance, PTL
=============================================================================
