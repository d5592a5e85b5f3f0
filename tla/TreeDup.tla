------------------------------ MODULE TreeDup ------------------------------
(***************************************************************************)
(* Incremental detection of identical directory trees (TreeDupState of     *)
(* tree_dup.go): every batch of duplicate groups the checksum pass emits   *)
(* proposes pairs of directories, a pool of workers verifies those never   *)
(* checked before against the index of all groups so far, and the verified *)
(* ones that no confirmed pair dominates are confirmed, shortest paths     *)
(* first.  The store is read-only by then, so the count memo of            *)
(* memoizeDirCounter always holds the true count and is left out.          *)
(***************************************************************************)
EXTENDS Naturals, Sequences, FiniteSets

CONSTANTS
  File,      \* the files in the scan store
  Dir,       \* the directories above them, Top included
  Top,       \* "/", which no pair is formed of
  DirOf,     \* DirOf[f]: the directory that holds f
  Parent,    \* filepath.Dir
  Subtree,   \* Subtree[d]: d and every directory below it
  PathLen,   \* the length of each directory's path
  Class,     \* sets of files with identical content
  Groups,    \* the duplicate groups the checksum pass will emit
  MaxDirs,   \* maxDirsPerGroup
  MaxDepth,  \* how many levels newCandidatePairs walks up
  Flaky,     \* pairs whose verification may fail with a store error
  Seeds,     \* what the fast pass may have confirmed before
  Worker

Pair == {p \in SUBSET Dir : Cardinality(p) = 2}
Idle == {}   \* a worker that holds no pair

RangeOf(s) == {s[k] : k \in DOMAIN s}

FilesUnder(d) == {f \in File : DirOf[f] \in Subtree[d]}

SameContent(f, g) == \E c \in Class : f \in c /\ g \in c

(* Each of the two directories holds a copy of every file of the other.    *)
Twins(p) ==
  \A a, b \in p : a # b =>
    \A f \in FilesUnder(a) : \E g \in FilesUnder(b) : g # f /\ SameContent(f, g)

ASSUME DirAssumption ==
  /\ IsFiniteSet(Dir) /\ Top \in Dir
  /\ DirOf \in [File -> Dir]
  /\ Parent \in [Dir -> Dir] /\ Parent[Top] = Top
  /\ Subtree \in [Dir -> SUBSET Dir]
  /\ \A d, e \in Dir : e \in Subtree[d] <=> e = d \/ (e # Top /\ Parent[e] \in Subtree[d])
  /\ PathLen \in [Dir -> Nat]
  /\ \A d \in Dir \ {Top} : PathLen[Parent[d]] < PathLen[d]

(* A group lists copies of one content once each, and no file is in two    *)
(* groups.  With --checksum the seeds were verified by content.            *)
ASSUME GroupAssumption ==
  /\ Class \subseteq SUBSET File
  /\ Groups \subseteq Seq(File)
  /\ \A g \in Groups : \E c \in Class : RangeOf(g) \subseteq c
  /\ \A g, h \in Groups : g = h \/ RangeOf(g) \cap RangeOf(h) = {}
  /\ Flaky \subseteq Pair
  /\ \A s \in Seeds : s \subseteq Pair /\ \A p \in s : Twins(p)

(* Any two copies of one content end up in one group: what the checksum    *)
(* pass makes of files it can read.                                        *)
GroupsAreComplete ==
  \A f, g \in File : f # g /\ SameContent(f, g) => \E h \in Groups : {f, g} \subseteq RangeOf(h)

ASSUME LimitAssumption == MaxDirs \in Nat /\ MaxDepth \in Nat

VARIABLES
  phase,     \* "idle" between two calls of AddGroups, "verify", "collect"
  todo,      \* groups not emitted yet
  index,     \* dupIndex: the group of each file, {} while it has none
  checked,   \* checkedPairs
  channel,   \* pairs no worker has taken yet
  busy,      \* the pair each worker is verifying
  found,     \* this batch's verified pairs, not yet weighed
  confirmed, \* Confirmed, as pairs; partnerOf is read off it
  batch,     \* the pairs this batch added to it
  rejected   \* pairs whose verification did not succeed

vars == <<phase, todo, index, checked, channel, busy, found, confirmed, batch, rejected>>

-----------------------------------------------------------------------------
(* Candidates.                                                             *)

(* filepath.Dir, k times.                                                  *)
Up(d, k) == LET up[n \in Nat] == IF n = 0 THEN d ELSE Parent[up[n - 1]] IN up[k]

(* The first MaxDirs distinct directories that hold files of the group.    *)
GroupDirs(g) ==
  {DirOf[g[k]] : k \in {k \in DOMAIN g :
     Cardinality({DirOf[g[j]] : j \in 1 .. k}) <= MaxDirs}}

(* Mutant of WalksTo: the walk goes on where both meet.                    *)
WalksOn(a, b, k) == \A j \in 0 .. k : Up(a, j) # Top /\ Up(b, j) # Top

(* The walk up from two directories is still on k levels up: it stops at   *)
(* the root and where both meet.                                           *)
WalksTo(a, b, k) ==
  \A j \in 0 .. k : Up(a, j) # Top /\ Up(b, j) # Top /\ Up(a, j) # Up(b, j)

(* newCandidatePairs                                                       *)
CandidatePairs(gs) ==
  UNION {{{Up(t[1], t[3]), Up(t[2], t[3])} :
            t \in {t \in GroupDirs(g) \X GroupDirs(g) \X (0 .. MaxDepth) :
                     t[3] < MaxDepth /\ WalksTo(t[1], t[2], t[3])}} : g \in gs}

-----------------------------------------------------------------------------
(* Verification and domination.                                            *)

(* Mutant of Covered: a file counts as its own duplicate.                  *)
CoveredBySelf(a, b) ==
  \A f \in FilesUnder(a) : \E g \in index[f] : g \in FilesUnder(b)

(* CoverageAndSize, allCoveredByIndex: each file under a has a member of   *)
(* its group, other than itself, under b.                                  *)
Covered(a, b) ==
  \A f \in FilesUnder(a) : \E g \in index[f] \ {f} : g \in FilesUnder(b)

SameCount(a, b) ==
  FilesUnder(a) # {} /\ Cardinality(FilesUnder(a)) = Cardinality(FilesUnder(b))

(* verifyPair                                                              *)
Verifies(p) == \A a, b \in p : a # b => SameCount(a, b) /\ Covered(a, b)

(* Mutant of Dominates: it is enough that one side lies below q.           *)
TouchesPair(q, p) == \E a \in p, c \in q : a \in Subtree[c]

(* Pair p lies below pair q, side by side.                                 *)
Dominates(q, p) ==
  \E a, b \in p, c, d \in q :
    a # b /\ c # d /\ a \in Subtree[c] /\ b \in Subtree[d]

(* treeDominated: the walk up never looks up "/", which no pair contains.  *)
TreeDominated(p) == \E q \in confirmed : Dominates(q, p)

Length(p) == LET a == CHOOSE d \in p : TRUE
                 b == CHOOSE d \in p : d # a
             IN PathLen[a] + PathLen[b]

-----------------------------------------------------------------------------
(* AddConfirmed has registered the early pairs, if there are any.          *)
Init ==
  /\ phase = "idle" /\ todo = Groups
  /\ index = [f \in File |-> {}]
  /\ checked = {} /\ channel = {} /\ found = {} /\ batch = {} /\ rejected = {}
  /\ busy = [w \in Worker |-> Idle]
  /\ confirmed \in Seeds

(* Mutant of AddGroups: the index holds the latest batch only.             *)
AddGroupsForgetting(gs) ==
  /\ phase = "idle" /\ gs # {}
  /\ todo' = todo \ gs
  /\ index' = [f \in File |->
                 UNION {RangeOf(g) : g \in {h \in gs : f \in RangeOf(h)}}]
  /\ channel' = CandidatePairs(gs) \ checked
  /\ checked' = checked \cup CandidatePairs(gs)
  /\ phase' = "verify" /\ batch' = {}
  /\ UNCHANGED <<busy, found, confirmed, rejected>>

(* AddGroups is called with the next groups: index them, propose pairs     *)
(* from them alone, and mark the unchecked ones before they are verified.  *)
AddGroups(gs) ==
  /\ phase = "idle" /\ gs # {}
  /\ todo' = todo \ gs
  /\ index' = [f \in File |->
                 index[f] \cup
                 UNION {RangeOf(g) : g \in {h \in gs : f \in RangeOf(h)}}]
  /\ channel' = CandidatePairs(gs) \ checked
  /\ checked' = checked \cup CandidatePairs(gs)
  /\ phase' = "verify" /\ batch' = {}
  /\ UNCHANGED <<busy, found, confirmed, rejected>>

(* A worker receives a pair from the channel.                              *)
Take(w, p) ==
  /\ phase = "verify" /\ busy[w] = Idle /\ p \in channel
  /\ channel' = channel \ {p}
  /\ busy' = [busy EXCEPT ![w] = p]
  /\ UNCHANGED <<phase, todo, index, checked, found, confirmed, batch, rejected>>

Report(w, ok) ==
  /\ busy' = [busy EXCEPT ![w] = Idle]
  /\ IF ok THEN found' = found \cup {busy[w]} /\ UNCHANGED rejected
           ELSE rejected' = rejected \cup {busy[w]} /\ UNCHANGED found
  /\ UNCHANGED <<phase, todo, index, checked, channel, confirmed, batch>>

(* Mutant of Verify: a worker that finds a difference ends.                *)
VerifyOrLeave(w) == busy[w] # Idle /\ Verifies(busy[w]) /\ Report(w, TRUE)

(* A worker fills the result slot of its pair.  Nothing it reads is        *)
(* written while workers run.                                              *)
Verify(w) == busy[w] # Idle /\ Report(w, Verifies(busy[w]))

(* The store query fails: the pair counts as not identical.                *)
StoreError(w) == busy[w] \in Flaky /\ Report(w, FALSE)

(* wg.Wait: every worker has seen the closed channel.                      *)
Collect ==
  /\ phase = "verify" /\ channel = {} /\ \A w \in Worker : busy[w] = Idle
  /\ phase' = "collect"
  /\ UNCHANGED <<todo, index, checked, channel, busy, found, confirmed, batch, rejected>>

(* Mutant of Weigh: pairs are taken in no order.                           *)
WeighAny(p) ==
  /\ phase = "collect" /\ p \in found
  /\ found' = found \ {p}
  /\ IF TreeDominated(p) THEN UNCHANGED <<confirmed, batch>>
     ELSE confirmed' = confirmed \cup {p} /\ batch' = batch \cup {p}
  /\ UNCHANGED <<phase, todo, index, checked, channel, busy, rejected>>

(* The next pair in order of length is confirmed unless it is dominated,   *)
(* and dominates the longer ones from then on.                             *)
Weigh(p) ==
  /\ phase = "collect" /\ p \in found
  /\ \A q \in found : Length(p) <= Length(q)
  /\ found' = found \ {p}
  /\ IF TreeDominated(p) THEN UNCHANGED <<confirmed, batch>>
     ELSE confirmed' = confirmed \cup {p} /\ batch' = batch \cup {p}
  /\ UNCHANGED <<phase, todo, index, checked, channel, busy, rejected>>

(* AddGroups returns.                                                      *)
Return ==
  /\ phase = "collect" /\ found = {}
  /\ phase' = "idle"
  /\ UNCHANGED <<todo, index, checked, channel, busy, found, confirmed, batch, rejected>>

Next ==
  \/ \E gs \in SUBSET todo : AddGroups(gs)
  \/ \E w \in Worker, p \in channel : Take(w, p)
  \/ \E w \in Worker : Verify(w) \/ StoreError(w)
  \/ Collect
  \/ \E p \in found : Weigh(p)
  \/ Return

Spec == Init /\ [][Next]_vars

(* The workers and the collecting goroutine keep running.                  *)
FairSpec == Spec /\ WF_vars(Next)

-----------------------------------------------------------------------------
(* The state has the shape the Go maps and slices give it.                 *)
TypeOK ==
  /\ phase \in {"idle", "verify", "collect"}
  /\ todo \subseteq Groups
  /\ index \in [File -> SUBSET File]
  /\ checked \subseteq Pair /\ channel \subseteq Pair /\ found \subseteq Pair
  /\ confirmed \subseteq Pair /\ batch \subseteq Pair /\ rejected \subseteq Pair
  /\ busy \in [Worker -> Pair \cup {Idle}]

(* Each side of a confirmed pair has another copy of every file of the     *)
(* other side below it (TreeDupPair, "byte-identical content"), in         *)
(* whatever order the groups arrive and the workers finish.                *)
ConfirmedAreTwins == \A p \in confirmed : Twins(p)

(* Within one batch no confirmed pair lies below another: sorting by path  *)
(* length puts every dominator first (the comment above the sort).         *)
BatchIsFlat == \A p, q \in batch : Dominates(q, p) => p = q

(* Two sides below the two sides of a pair that is offered.                *)
Offered(p) ==
  \E q \in confirmed : \E c, d \in q : c # d /\
    \E a, b \in p : a # b /\ FilesUnder(a) \subseteq FilesUnder(c)
                          /\ FilesUnder(b) \subseteq FilesUnder(d)

(* Between two calls every pair ever proposed was either found different   *)
(* or is offered, on its own or as part of a larger pair: no result of a   *)
(* worker is lost, none is dropped for a pair that does not contain it.    *)
NothingFoundIsLost ==
  phase = "idle" => \A p \in checked \ rejected : Offered(p)

(* Twins of equal count are only ever turned down because the store        *)
(* failed, or because a group of their files is still to come: checked     *)
(* pairs are never verified again, so this is what one batch guarantees    *)
(* and several may miss (TestAddGroupsIncrementalAcrossBatches).           *)
TurnedDownForCause ==
  [][\A p \in rejected' \ rejected :
       (\A a, b \in p : a # b => SameCount(a, b)) /\ Twins(p) =>
         \/ p \in Flaky
         \/ \E g \in todo, d \in p : RangeOf(g) \cap FilesUnder(d) # {}]_vars

(* Every call of AddGroups returns.                                        *)
AddGroupsReturns == [](phase # "idle" => <>(phase = "idle"))

(* Deleting either side of an offered pair leaves a copy of each file it   *)
(* held ("a tree-dup pair" in the deletion queue, where one side is kept;  *)
(* the test of allCoveredByIndex: nested pairs must not be confirmed,      *)
(* "risking deletion of non-duplicate trees").                             *)
EitherSideMayGo ==
  \A p \in confirmed : \A d \in p : \A f \in FilesUnder(d) :
    \E g \in File \ FilesUnder(d) : SameContent(f, g)
=============================================================================
