--------------------------- MODULE TreeDupProofs ---------------------------
(***************************************************************************)
(* What AddGroups confirms, for every directory tree, every order of the   *)
(* groups, any number of workers and whatever store errors: pairs of twins *)
(* only, none inside another one of its batch, no result lost, and none    *)
(* turned down without a cause.                                            *)
(***************************************************************************)
EXTENDS TreeDup, FiniteSetTheorems, WellFoundedInduction, TLAPS

(* The index names copies only: every group it was built from is one.      *)
IndexIsSound ==
  /\ todo \subseteq Groups
  /\ \A f \in File : \A g \in index[f] : SameContent(f, g)

(* What the workers have found and the seeds are twins; with a sound index *)
(* every later verification finds twins too.                               *)
TwinInv == IndexIsSound /\ (\A p \in found : Twins(p)) /\ ConfirmedAreTwins

(* A verified pair is a pair of twins.                                     *)
LEMMA VerifiedAreTwins ==
  ASSUME IndexIsSound, NEW p, Verifies(p)
  PROVE  Twins(p)
<1> SUFFICES ASSUME NEW a \in p, NEW b \in p, a # b, NEW f \in FilesUnder(a)
             PROVE  \E g \in FilesUnder(b) : g # f /\ SameContent(f, g)
  BY DEF Twins
<1>1. PICK g \in index[f] \ {f} : g \in FilesUnder(b)
  BY DEF Verifies, Covered
<1>2. f \in File
  BY DEF FilesUnder
<1>3. SameContent(f, g)
  BY <1>1, <1>2 DEF IndexIsSound
<1> QED BY <1>1, <1>3

(* Twins is a matter of the files alone.                                   *)
LEMMA InitTwins == Init => TwinInv
<1> SUFFICES ASSUME Init PROVE TwinInv
  OBVIOUS
<1>1. IndexIsSound
  BY DEF Init, IndexIsSound
<1>2. ConfirmedAreTwins
  BY GroupAssumption DEF Init, ConfirmedAreTwins
<1> QED BY <1>1, <1>2 DEF Init, TwinInv

(* New groups keep the index sound.                                        *)
LEMMA AddGroupsTwins ==
  ASSUME TwinInv, NEW gs \in SUBSET todo, AddGroups(gs)
  PROVE  TwinInv'
<1>1. gs \subseteq Groups /\ todo' \subseteq Groups
  BY DEF TwinInv, IndexIsSound, AddGroups
<1>2. ASSUME NEW f \in File, NEW x \in index'[f] PROVE SameContent(f, x)
  <2>1. x \in index[f] \/ \E g \in gs : f \in RangeOf(g) /\ x \in RangeOf(g)
    BY <1>2 DEF AddGroups
  <2>2. CASE x \in index[f]
    BY <2>2 DEF TwinInv, IndexIsSound
  <2>3. CASE \E g \in gs : f \in RangeOf(g) /\ x \in RangeOf(g)
    <3>1. PICK g \in gs : f \in RangeOf(g) /\ x \in RangeOf(g)
      BY <2>3
    <3>2. PICK c \in Class : RangeOf(g) \subseteq c
      BY <1>1, GroupAssumption
    <3> QED BY <3>1, <3>2 DEF SameContent
  <2> QED BY <2>1, <2>2, <2>3
<1>3. IndexIsSound'
  BY <1>1, <1>2 DEF IndexIsSound, SameContent
<1> QED BY <1>3 DEF TwinInv, AddGroups, ConfirmedAreTwins, Twins, FilesUnder, SameContent

(* Steps that leave the index and the groups to come alone.                *)
LEMMA QuietTwins ==
  ASSUME TwinInv, UNCHANGED <<todo, index>>,
         \A p \in found' \cup confirmed' : p \in found \cup confirmed \/ Twins(p)
  PROVE  TwinInv'
<1>1. \A p \in found' \cup confirmed' : Twins(p)
  BY DEF TwinInv, ConfirmedAreTwins
<1>2. IndexIsSound'
  BY DEF TwinInv, IndexIsSound, SameContent
<1> QED BY <1>1, <1>2 DEF TwinInv, ConfirmedAreTwins, Twins, FilesUnder, SameContent

(* Every step of the pool and of the collection keeps it.                  *)
LEMMA NextTwins == TwinInv /\ [Next]_vars => TwinInv'
<1> SUFFICES ASSUME TwinInv, [Next]_vars PROVE TwinInv'
  OBVIOUS
<1>1. ASSUME NEW gs \in SUBSET todo, AddGroups(gs) PROVE TwinInv'
  BY <1>1, AddGroupsTwins
<1>2. ASSUME NEW w \in Worker, NEW p \in channel, Take(w, p) PROVE TwinInv'
  BY <1>2, QuietTwins DEF Take
<1>3. ASSUME NEW w \in Worker, Verify(w) PROVE TwinInv'
  <2>1. Verifies(busy[w]) => Twins(busy[w])
    BY VerifiedAreTwins DEF TwinInv
  <2>2. UNCHANGED <<todo, index, confirmed>>
    BY <1>3 DEF Verify, Report
  <2>3. \A p \in found' : p \in found \/ (p = busy[w] /\ Verifies(busy[w]))
    BY <1>3 DEF Verify, Report
  <2> QED BY <2>1, <2>2, <2>3, QuietTwins
<1>4. ASSUME NEW w \in Worker, StoreError(w) PROVE TwinInv'
  BY <1>4, QuietTwins DEF StoreError, Report
<1>5. CASE Collect
  BY <1>5, QuietTwins DEF Collect
<1>6. ASSUME NEW p \in found, Weigh(p) PROVE TwinInv'
  <2>1. UNCHANGED <<todo, index>> /\ found' \subseteq found /\ confirmed' \subseteq confirmed \cup {p}
    BY <1>6 DEF Weigh
  <2> QED BY <2>1, QuietTwins
<1>7. CASE Return
  BY <1>7, QuietTwins DEF Return
<1>8. CASE UNCHANGED vars
  BY <1>8, QuietTwins DEF vars
<1> QED BY <1>1, <1>2, <1>3, <1>4, <1>5, <1>6, <1>7, <1>8 DEF Next

(* Each side of a confirmed pair holds another copy of every file of the   *)
(* other side (AddGroups, CoverageAndSize).                                *)
THEOREM ConfirmedTwins == Spec => []ConfirmedAreTwins
<1>1. TwinInv => ConfirmedAreTwins
  BY DEF TwinInv
<1>2. Spec => []TwinInv
  BY InitTwins, NextTwins, PTL DEF Spec
<1> QED BY <1>1, <1>2, PTL

-----------------------------------------------------------------------------
(* A set of naturals has a least element: the form in which what follows   *)
(* goes up the directories step by step.                                   *)
LEMMA LeastNumber == ASSUME NEW S, S \subseteq Nat, S # {}
                     PROVE  \E m \in S : \A k \in S : m <= k
<1>1. PICK R : IsWellFoundedOn(R, Nat) /\ \A y, z \in Nat : y < z => <<y, z>> \in R
  <2>1. \A y, z \in Nat : y < z => <<y, z>> \in OpToRel(<, Nat)  BY Zenon DEF OpToRel
  <2> QED  BY <2>1, NatLessThanWellFounded, Zenon
<1>2. PICK x \in S : \A y \in S : ~ (<<y, x>> \in R)  BY <1>1, WFMin, ZenonT(60)
<1>3. ASSUME NEW y \in S PROVE x <= y
  <2>1. x \in Nat /\ y \in Nat  OBVIOUS
  <2>2. <<y, x>> \notin R  BY <1>2
  <2>3. ~(y < x)  BY <1>1, <2>1, <2>2
  <2> QED  BY <2>1, <2>3
<1> QED  BY <1>2, <1>3

LEMMA ShortestPath ==
  ASSUME NEW D, D \subseteq Dir, D # {}
  PROVE  \E d \in D : \A e \in D : PathLen[d] <= PathLen[e]
<1> DEFINE S == {PathLen[d] : d \in D}
<1>1. S \subseteq Nat /\ S # {}  BY DirAssumption
<1>2. PICK m \in S : \A k \in S : m <= k  BY <1>1, LeastNumber, Zenon
<1>3. PICK d \in D : m = PathLen[d]  BY <1>2
<1> QED  BY <1>2, <1>3

(* What filepath.Dir gives k times is a directory.                         *)
LEMMA UpIsDir == ASSUME NEW d \in Dir, NEW k \in Nat PROVE Up(d, k) \in Dir
<1> DEFINE Climb(s, n) == /\ s \in [0 .. n -> Dir] /\ s[0] = d
                          /\ \A j \in 1 .. n : s[j] = Parent[s[j - 1]]
<1>1. \A n \in Nat : \E s : Climb(s, n)
  <2> DEFINE N == {n \in Nat : ~ \E s : Climb(s, n)}
  <2> SUFFICES ASSUME N # {} PROVE FALSE  OBVIOUS
  <2>1. N \subseteq Nat  OBVIOUS
  <2>2. PICK n \in N : \A m \in N : n <= m
    <3> HIDE DEF N
    <3> QED  BY <2>1, LeastNumber, Zenon
  <2>3. n \in Nat  BY <2>1
  <2>4. n # 0
    <3>1. Climb([j \in 0 .. 0 |-> d], 0)  OBVIOUS
    <3> QED  BY <3>1, <2>2
  <2>5. n - 1 \in Nat /\ n - 1 \notin N  BY <2>2, <2>3, <2>4
  <2>6. PICK s : Climb(s, n - 1)  BY <2>5
  <2> DEFINE t == [j \in 0 .. n |-> IF j < n THEN s[j] ELSE Parent[s[n - 1]]]
  <2>7. Climb(t, n)
    <3>1. t \in [0 .. n -> Dir]  BY <2>3, <2>4, <2>6, DirAssumption
    <3>2. t[0] = d  BY <2>3, <2>4, <2>6
    <3>3. \A j \in 1 .. n : t[j] = Parent[t[j - 1]]  BY <2>3, <2>4, <2>6
    <3> QED  BY <3>1, <3>2, <3>3
  <2> QED  BY <2>2, <2>7
<1>2. ASSUME NEW n \in Nat, NEW m \in Nat, NEW s, NEW t, Climb(s, n), Climb(t, m)
      PROVE  \A j \in Nat : j <= n /\ j <= m => s[j] = t[j]
  <2> DEFINE N == {j \in Nat : j <= n /\ j <= m /\ s[j] # t[j]}
  <2> SUFFICES ASSUME N # {} PROVE FALSE  OBVIOUS
  <2>1. N \subseteq Nat  OBVIOUS
  <2>2. PICK j \in N : \A i \in N : j <= i
    <3> HIDE DEF N
    <3> QED  BY <2>1, LeastNumber, Zenon
  <2>3. j \in Nat /\ j # 0 /\ j <= n /\ j <= m  BY <1>2, <2>2
  <2>4. j - 1 \in Nat /\ j - 1 \notin N  BY <2>2, <2>3
  <2>5. s[j - 1] = t[j - 1]  BY <2>3, <2>4
  <2>6. s[j] = Parent[s[j - 1]] /\ t[j] = Parent[t[j - 1]]  BY <1>2, <2>3
  <2> QED  BY <2>2, <2>5, <2>6
<1> DEFINE s(n) == CHOOSE s : Climb(s, n)
           f == [n \in Nat |-> s(n)[n]]
           Unfolds(g) == g = [n \in Nat |-> IF n = 0 THEN d ELSE Parent[g[n - 1]]]
<1>3. \A n \in Nat : Climb(s(n), n)  BY <1>1
<1>4. \A n \in Nat : f[n] \in Dir /\ f[n] = IF n = 0 THEN d ELSE Parent[f[n - 1]]
  <2> SUFFICES ASSUME NEW n \in Nat PROVE f[n] \in Dir /\ f[n] = IF n = 0 THEN d ELSE Parent[f[n - 1]]
    OBVIOUS
  <2>1. Climb(s(n), n) /\ f[n] = s(n)[n]  BY <1>3
  <2> HIDE DEF s
  <2>2. f[n] \in Dir  BY <2>1
  <2>3. CASE n = 0  BY <2>1, <2>2, <2>3
  <2>4. CASE n # 0
    <3>1. n - 1 \in Nat /\ n - 1 <= n  BY <2>4
    <3>2. Climb(s(n - 1), n - 1) /\ f[n - 1] = s(n - 1)[n - 1]  BY <1>3, <3>1
    <3>3. s(n)[n] = Parent[s(n)[n - 1]]  BY <2>1, <2>4
    <3>4. s(n - 1)[n - 1] = s(n)[n - 1]
      <4> HIDE DEF Climb
      <4> QED  BY <1>2, <2>1, <3>1, <3>2
    <3> QED  BY <2>1, <2>2, <2>4, <3>2, <3>3, <3>4
  <2> QED  BY <2>3, <2>4
<1>5. Unfolds(f)
  <2> HIDE DEF s
  <2> QED  BY <1>4
<1> DEFINE up == CHOOSE g : Unfolds(g)
<1>6. Unfolds(up)  BY <1>5
<1>7. Up(d, k) = up[k]  BY DEF Up
<1>8. up[k] \in Dir
  <2> DEFINE N == {n \in Nat : up[n] \notin Dir}
  <2> SUFFICES ASSUME N # {} PROVE FALSE  OBVIOUS
  <2>1. N \subseteq Nat  OBVIOUS
  <2>2. PICK n \in N : \A m \in N : n <= m
    <3> HIDE DEF N
    <3> QED  BY <2>1, LeastNumber, Zenon
  <2> HIDE DEF up
  <2>3. up[n] = IF n = 0 THEN d ELSE Parent[up[n - 1]]  BY <1>6, <2>2
  <2>4. n # 0 => up[n - 1] \in Dir  BY <2>2
  <2> QED  BY <2>2, <2>3, <2>4, DirAssumption
<1> QED  BY <1>7, <1>8
(* What a pair is made of.                                                 *)
LEMMA Pairs ==
  /\ \A p \in Pair : \E a, b \in Dir : a # b /\ p = {a, b}
  /\ \A a, b \in Dir : a # b => {a, b} \in Pair
<1>1. ASSUME NEW p \in Pair PROVE \E a, b \in Dir : a # b /\ p = {a, b}
  <2>1. p \subseteq Dir /\ Cardinality(p) = 2  BY DEF Pair
  <2>2. IsFiniteSet(p)  BY <2>1, DirAssumption, FS_Subset
  <2>3. PICK a : a \in p  BY <2>1, <2>2, FS_EmptySet
  <2>4. IsFiniteSet(p \ {a}) /\ Cardinality(p \ {a}) = 1
    BY <2>1, <2>2, <2>3, FS_RemoveElement
  <2>5. PICK b : p \ {a} = {b}  BY <2>4, FS_Singleton
  <2> QED  BY <2>1, <2>3, <2>5
<1>2. ASSUME NEW a \in Dir, NEW b \in Dir, a # b PROVE {a, b} \in Pair
  <2>1. IsFiniteSet({a}) /\ Cardinality({a}) = 1  BY FS_Singleton
  <2>2. Cardinality({a} \cup {b}) = 2  BY <1>2, <2>1, FS_AddElement
  <2>3. {a} \cup {b} = {a, b}  OBVIOUS
  <2> QED  BY <2>2, <2>3 DEF Pair
<1> QED  BY <1>1, <1>2

(* newCandidatePairs proposes pairs of directories.                        *)
LEMMA CandidatesArePairs ==
  ASSUME NEW gs \in SUBSET Groups
  PROVE  CandidatePairs(gs) \subseteq Pair
<1> SUFFICES ASSUME NEW g \in gs, NEW a \in GroupDirs(g), NEW b \in GroupDirs(g),
                    NEW k \in 0 .. MaxDepth, WalksTo(a, b, k)
             PROVE  {Up(a, k), Up(b, k)} \in Pair
  BY DEF CandidatePairs
<1>1. k \in Nat  BY LimitAssumption
<1>2. g \in Seq(File)  BY GroupAssumption
<1>3. \A i \in DOMAIN g : g[i] \in File  BY <1>2
<1>4. a \in Dir /\ b \in Dir
  <2>1. (\E i \in DOMAIN g : a = DirOf[g[i]]) /\ (\E i \in DOMAIN g : b = DirOf[g[i]])
    BY DEF GroupDirs
  <2> QED  BY <1>3, <2>1, DirAssumption
<1>5. Up(a, k) \in Dir /\ Up(b, k) \in Dir  BY <1>1, <1>4, UpIsDir
<1>6. Up(a, k) # Up(b, k)  BY <1>1 DEF WalksTo
<1> QED  BY <1>5, <1>6, Pairs

(* A directory below another one has the longer path.                      *)
LEMMA BelowIsLonger ==
  ASSUME NEW d \in Dir, NEW e \in Subtree[d]
  PROVE  e \in Dir /\ (e = d \/ PathLen[d] < PathLen[e])
<1>1. e \in Dir  BY DirAssumption
<1> DEFINE D == {x \in Dir : x \in Subtree[d] /\ x # d /\ ~(PathLen[d] < PathLen[x])}
<1>2. D = {}
  <2> SUFFICES ASSUME D # {} PROVE FALSE  OBVIOUS
  <2>1. PICK x \in D : \A y \in D : PathLen[x] <= PathLen[y]
    <3>1. D \subseteq Dir  OBVIOUS
    <3> HIDE DEF D
    <3> QED  BY <3>1, ShortestPath
  <2>2. x # Top /\ Parent[x] \in Subtree[d] /\ Parent[x] \in Dir  BY <2>1, DirAssumption
  <2>3. /\ PathLen[Parent[x]] < PathLen[x]
        /\ PathLen[Parent[x]] \in Nat /\ PathLen[x] \in Nat /\ PathLen[d] \in Nat
    BY <2>1, <2>2, DirAssumption
  <2>4. Parent[x] \notin D  BY <2>1, <2>2, <2>3
  <2>5. Parent[x] = d \/ PathLen[d] < PathLen[Parent[x]]  BY <2>2, <2>4
  <2> QED  BY <2>1, <2>3, <2>5
<1> QED  BY <1>1, <1>2

(* What is below a directory below another one is below that one.          *)
LEMMA BelowIsTransitive ==
  ASSUME NEW c \in Dir, NEW d \in Subtree[c]
  PROVE  Subtree[d] \subseteq Subtree[c]
<1>1. d \in Dir /\ Subtree[d] \subseteq Dir  BY DirAssumption
<1> DEFINE D == Subtree[d] \ Subtree[c]
<1> SUFFICES ASSUME D # {} PROVE FALSE  OBVIOUS
<1>2. PICK x \in D : \A y \in D : PathLen[x] <= PathLen[y]
  <2>1. D \subseteq Dir  BY <1>1
  <2> HIDE DEF D
  <2> QED  BY <2>1, ShortestPath
<1>3. x \in Dir /\ x # d  BY <1>1, <1>2
<1>4. x # Top /\ Parent[x] \in Subtree[d] /\ Parent[x] \in Dir  BY <1>1, <1>2, <1>3, DirAssumption
<1>5. PathLen[Parent[x]] < PathLen[x] /\ PathLen[Parent[x]] \in Nat /\ PathLen[x] \in Nat
  BY <1>3, <1>4, DirAssumption
<1>6. Parent[x] \in Subtree[c]  BY <1>2, <1>4, <1>5
<1> QED  BY <1>2, <1>3, <1>4, <1>6, DirAssumption

LEMMA BelowHasFewer ==
  ASSUME NEW c \in Dir, NEW a \in Subtree[c]
  PROVE  FilesUnder(a) \subseteq FilesUnder(c)
BY BelowIsTransitive DEF FilesUnder

LEMMA LengthOfPair ==
  ASSUME NEW a \in Dir, NEW b \in Dir, a # b
  PROVE  Length({a, b}) = PathLen[a] + PathLen[b]
<1> DEFINE x == CHOOSE d \in {a, b} : TRUE
           y == CHOOSE d \in {a, b} : d # x
<1>1. x \in {a, b}  OBVIOUS
<1>2. y \in {a, b} /\ y # x
  <2> HIDE DEF x
  <2> QED  BY <1>1
<1>3. Length({a, b}) = PathLen[x] + PathLen[y]  BY DEF Length
<1> HIDE DEF x, y
<1>4. PathLen[a] \in Nat /\ PathLen[b] \in Nat  BY DirAssumption
<1> QED  BY <1>1, <1>2, <1>3, <1>4

(* A pair that dominates another one is shorter.                           *)
LEMMA DominatorIsShorter ==
  ASSUME NEW p \in Pair, NEW q \in Pair, Dominates(q, p), p # q
  PROVE  Length(q) < Length(p)
<1>1. PICK a \in p, b \in p, c \in q, d \in q :
        a # b /\ c # d /\ a \in Subtree[c] /\ b \in Subtree[d]
  BY DEF Dominates
<1>2. a \in Dir /\ b \in Dir /\ c \in Dir /\ d \in Dir  BY DEF Pair
<1>3. p = {a, b} /\ q = {c, d}  BY <1>1, Pairs
<1>4. (a = c \/ PathLen[c] < PathLen[a]) /\ (b = d \/ PathLen[d] < PathLen[b])
  BY <1>1, <1>2, BelowIsLonger
<1>5. Length(p) = PathLen[a] + PathLen[b] /\ Length(q) = PathLen[c] + PathLen[d]
  BY <1>1, <1>2, <1>3, LengthOfPair
<1>6. PathLen[a] \in Nat /\ PathLen[b] \in Nat /\ PathLen[c] \in Nat /\ PathLen[d] \in Nat
  BY <1>2, DirAssumption
<1> QED  BY <1>3, <1>4, <1>5, <1>6

LEMMA DominatedIsOffered ==
  ASSUME NEW p \in Pair, TreeDominated(p), confirmed \subseteq Pair
  PROVE  Offered(p)
<1>1. PICK q \in confirmed : Dominates(q, p)  BY DEF TreeDominated
<1>2. PICK a \in p, b \in p, c \in q, d \in q :
        a # b /\ c # d /\ a \in Subtree[c] /\ b \in Subtree[d]
  BY <1>1 DEF Dominates
<1>3. c \in Dir /\ d \in Dir  BY DEF Pair
<1>4. FilesUnder(a) \subseteq FilesUnder(c) /\ FilesUnder(b) \subseteq FilesUnder(d)
  BY <1>2, <1>3, BelowHasFewer
<1> QED  BY <1>2, <1>4 DEF Offered

-----------------------------------------------------------------------------
(* Where the pairs ever proposed are.                                      *)
Accounted ==
  \A p \in checked :
    \/ p \in channel \cup found \cup rejected
    \/ \E w \in Worker : busy[w] = p
    \/ Offered(p)

(* What each phase leaves behind it.                                       *)
InPhase ==
  /\ phase = "verify" => batch = {}
  /\ phase = "idle" => found = {}
  /\ phase \in {"idle", "collect"} => channel = {} /\ \A w \in Worker : busy[w] = Idle

(* What is confirmed in this batch is no longer than what is still to be   *)
(* weighed.                                                                *)
ShortestFirst ==
  /\ batch \subseteq confirmed
  /\ \A p \in batch, q \in found : Length(p) <= Length(q)

PairInv == TypeOK /\ InPhase /\ Accounted /\ ShortestFirst /\ BatchIsFlat

LEMMA InitPairs == Init => PairInv
<1> SUFFICES ASSUME Init PROVE PairInv  OBVIOUS
<1>1. confirmed \subseteq Pair  BY GroupAssumption DEF Init
<1>2. TypeOK  BY <1>1 DEF Init, TypeOK
<1> QED  BY <1>2 DEF Init, PairInv, InPhase, Accounted, ShortestFirst, BatchIsFlat

LEMMA IndexType ==
  ASSUME TypeOK, NEW gs \in SUBSET todo, AddGroups(gs)
  PROVE  index' \in [File -> SUBSET File]
<1> SUFFICES ASSUME NEW f \in File,
                    NEW g \in gs, NEW x \in RangeOf(g)
             PROVE  x \in File
  BY DEF AddGroups, TypeOK
<1>1. g \in Seq(File)  BY GroupAssumption DEF TypeOK
<1> QED  BY <1>1 DEF RangeOf

LEMMA AddGroupsPairs ==
  ASSUME PairInv, NEW gs \in SUBSET todo, AddGroups(gs)
  PROVE  PairInv'
<1>1. /\ phase = "idle" /\ phase' = "verify" /\ batch' = {} /\ todo' = todo \ gs
      /\ channel' = CandidatePairs(gs) \ checked /\ checked' = checked \cup CandidatePairs(gs)
      /\ UNCHANGED <<busy, found, confirmed, rejected>>
  BY DEF AddGroups
<1>2. CandidatePairs(gs) \subseteq Pair  BY CandidatesArePairs DEF PairInv, TypeOK
<1>3. TypeOK'  BY <1>1, <1>2, IndexType DEF PairInv, TypeOK
<1>4. Accounted'
  BY <1>1 DEF PairInv, InPhase, Accounted, Offered
<1> QED  BY <1>1, <1>3, <1>4 DEF PairInv, InPhase, ShortestFirst, BatchIsFlat

LEMMA TakePairs ==
  ASSUME PairInv, NEW w \in Worker, NEW p \in channel, Take(w, p)
  PROVE  PairInv'
<1>1. /\ phase = "verify" /\ busy[w] = Idle
      /\ channel' = channel \ {p} /\ busy' = [busy EXCEPT ![w] = p]
      /\ UNCHANGED <<phase, todo, index, checked, found, confirmed, batch, rejected>>
  BY DEF Take
<1>2. p \in Pair /\ busy \in [Worker -> Pair \cup {Idle}]  BY DEF PairInv, TypeOK
<1>3. TypeOK'  BY <1>1, <1>2 DEF PairInv, TypeOK
<1>4. Idle \notin Pair  BY Pairs DEF Idle
<1>5. Accounted'
  <2> SUFFICES ASSUME NEW x \in checked
               PROVE  \/ x \in channel' \cup found \cup rejected
                      \/ \E v \in Worker : busy'[v] = x
                      \/ Offered(x)
    BY <1>1 DEF Accounted, Offered
  <2>1. CASE x = p  BY <1>1, <1>2, <2>1
  <2>2. ASSUME NEW v \in Worker, busy[v] = x PROVE \E u \in Worker : busy'[u] = x
    <3>1. x \in Pair  BY DEF PairInv, TypeOK
    <3>2. v # w  BY <1>1, <1>4, <2>2, <3>1
    <3> QED  BY <1>1, <1>2, <2>2, <3>2
  <2> QED  BY <1>1, <2>1, <2>2 DEF PairInv, Accounted
<1> QED  BY <1>1, <1>3, <1>5 DEF PairInv, InPhase, ShortestFirst, BatchIsFlat

LEMMA ReportPairs ==
  ASSUME PairInv, NEW w \in Worker, busy[w] # Idle, NEW ok \in BOOLEAN, Report(w, ok)
  PROVE  PairInv'
<1>1. /\ busy' = [busy EXCEPT ![w] = Idle]
      /\ found' \cup rejected' = found \cup rejected \cup {busy[w]}
      /\ UNCHANGED <<phase, todo, index, checked, channel, confirmed, batch>>
  BY DEF Report
<1>2. busy[w] \in Pair /\ busy \in [Worker -> Pair \cup {Idle}]  BY DEF PairInv, TypeOK
<1>3. found' \subseteq found \cup {busy[w]} /\ rejected' \subseteq rejected \cup {busy[w]}
  BY DEF Report
<1>4. TypeOK'  BY <1>1, <1>2, <1>3 DEF PairInv, TypeOK
<1>5. phase = "verify" /\ batch = {}  BY DEF PairInv, InPhase, TypeOK
<1>6. Accounted'
  <2> SUFFICES ASSUME NEW x \in checked
               PROVE  \/ x \in channel \cup found' \cup rejected'
                      \/ \E v \in Worker : busy'[v] = x
                      \/ Offered(x)
    BY <1>1 DEF Accounted, Offered
  <2>1. ASSUME NEW v \in Worker, busy[v] = x
        PROVE  x \in found' \cup rejected' \/ \E u \in Worker : busy'[u] = x
    <3>1. v # w => busy'[v] = x  BY <1>1, <1>2, <2>1
    <3> QED  BY <1>1, <2>1, <3>1
  <2> QED  BY <1>1, <2>1 DEF PairInv, Accounted
<1> QED  BY <1>1, <1>4, <1>5, <1>6 DEF PairInv, InPhase, ShortestFirst, BatchIsFlat

LEMMA WeighPairs ==
  ASSUME PairInv, NEW p \in found, Weigh(p)
  PROVE  PairInv'
<1>1. /\ phase = "collect" /\ \A q \in found : Length(p) <= Length(q)
      /\ found' = found \ {p}
      /\ UNCHANGED <<phase, todo, index, checked, channel, busy, rejected>>
  BY DEF Weigh
<1>2. p \in Pair /\ confirmed \subseteq Pair /\ batch \subseteq Pair /\ batch \subseteq confirmed
  BY DEF PairInv, TypeOK, ShortestFirst
<1>3. CASE TreeDominated(p)
  <2>1. UNCHANGED <<confirmed, batch>>  BY <1>3 DEF Weigh
  <2>2. Offered(p)  BY <1>2, <1>3, DominatedIsOffered
  <2>3. Accounted'  BY <1>1, <2>1, <2>2 DEF PairInv, Accounted, Offered
  <2>4. TypeOK'  BY <1>1, <2>1 DEF PairInv, TypeOK
  <2> QED  BY <1>1, <2>1, <2>3, <2>4 DEF PairInv, InPhase, ShortestFirst, BatchIsFlat
<1>4. CASE ~TreeDominated(p)
  <2>1. confirmed' = confirmed \cup {p} /\ batch' = batch \cup {p}  BY <1>4 DEF Weigh
  <2>2. TypeOK'  BY <1>1, <1>2, <2>1 DEF PairInv, TypeOK
  <2>3. \A x : Offered(x) => Offered(x)'  BY <2>1 DEF Offered
  <2>4. Offered(p)'
    <3>1. PICK a \in Dir, b \in Dir : a # b /\ p = {a, b}  BY <1>2, Pairs
    <3>2. p \in confirmed' /\ a \in p /\ b \in p  BY <2>1, <3>1
    <3> QED  BY <3>1, <3>2 DEF Offered
  <2>5. Accounted'  BY <1>1, <2>3, <2>4 DEF PairInv, Accounted
  <2>6. BatchIsFlat'
    <3> SUFFICES ASSUME NEW x \in batch', NEW y \in batch', Dominates(y, x) PROVE x = y
      BY DEF BatchIsFlat, Dominates
    <3>1. CASE x \in batch /\ y \in batch  BY <3>1 DEF PairInv, BatchIsFlat
    <3>2. CASE x = p /\ y \in batch  BY <1>2, <1>4, <3>2 DEF TreeDominated
    <3>3. CASE y = p /\ x \in batch
      <4> SUFFICES ASSUME x # p PROVE FALSE  BY <3>3
      <4>1. Length(p) < Length(x)  BY <1>2, <3>3, DominatorIsShorter
      <4>2. Length(x) <= Length(p)  BY <3>3 DEF PairInv, ShortestFirst
      <4>3. Length(x) \in Nat /\ Length(p) \in Nat
        BY <1>2, <3>3, Pairs, LengthOfPair, DirAssumption
      <4> QED  BY <4>1, <4>2, <4>3
    <3> QED  BY <2>1, <3>1, <3>2, <3>3
  <2>7. ShortestFirst'
    <3>1. batch' \subseteq confirmed'  BY <1>2, <2>1
    <3>2. ASSUME NEW x \in batch', NEW y \in found' PROVE Length(x) <= Length(y)
      <4>1. x \in batch \/ x = p  BY <2>1
      <4> QED  BY <1>1, <4>1 DEF PairInv, ShortestFirst
    <3> QED  BY <3>1, <3>2 DEF ShortestFirst, Length
  <2> QED  BY <1>1, <2>2, <2>5, <2>6, <2>7 DEF PairInv, InPhase
<1> QED  BY <1>3, <1>4

LEMMA NextPairs == PairInv /\ [Next]_vars => PairInv'
<1> SUFFICES ASSUME PairInv, [Next]_vars PROVE PairInv'  OBVIOUS
<1>1. ASSUME NEW gs \in SUBSET todo, AddGroups(gs) PROVE PairInv'
  BY <1>1, AddGroupsPairs
<1>2. ASSUME NEW w \in Worker, NEW p \in channel, Take(w, p) PROVE PairInv'
  BY <1>2, TakePairs
<1>3. ASSUME NEW w \in Worker, Verify(w) \/ StoreError(w) PROVE PairInv'
  <2>1. busy[w] # Idle /\ \E ok \in BOOLEAN : Report(w, ok)
    <3>1. Idle \notin Pair /\ Flaky \subseteq Pair  BY Pairs, GroupAssumption DEF Idle
    <3>2. Verifies(busy[w]) \in BOOLEAN  BY DEF Verifies
    <3> QED  BY <1>3, <3>1, <3>2 DEF Verify, StoreError
  <2> QED  BY <2>1, ReportPairs
<1>4. ASSUME NEW p \in found, Weigh(p) PROVE PairInv'
  BY <1>4, WeighPairs
<1>5. ASSUME UNCHANGED <<todo, index, checked, channel, busy, found, confirmed, batch, rejected>>,
             InPhase', phase' \in {"idle", "verify", "collect"}
      PROVE  PairInv'
  <2>1. TypeOK'  BY <1>5 DEF PairInv, TypeOK
  <2>2. Accounted'  BY <1>5 DEF PairInv, Accounted, Offered
  <2>3. ShortestFirst' /\ BatchIsFlat'
    BY <1>5 DEF PairInv, ShortestFirst, BatchIsFlat, Length, Dominates
  <2> QED  BY <1>5, <2>1, <2>2, <2>3 DEF PairInv
<1>6. CASE Collect
  BY <1>5, <1>6 DEF Collect, InPhase
<1>7. CASE Return
  BY <1>5, <1>7 DEF Return, InPhase, PairInv
<1>8. CASE UNCHANGED vars
  BY <1>5, <1>8 DEF vars, InPhase, PairInv, TypeOK
<1> QED  BY <1>1, <1>2, <1>3, <1>4, <1>6, <1>7, <1>8 DEF Next

LEMMA PairInvariance == Spec => []PairInv
BY InitPairs, NextPairs, PTL DEF Spec

(* Pairs, index and result slots keep their shape; the walk up from two    *)
(* directories never proposes one directory twice.                         *)
THEOREM TreesTyped == Spec => []TypeOK
<1>1. PairInv => TypeOK  BY DEF PairInv
<1> QED  BY <1>1, PairInvariance, PTL

(* Whatever the workers find in whatever order, no pair that one call of   *)
(* AddGroups confirms lies below another it confirms.                      *)
THEOREM BatchesAreFlat == Spec => []BatchIsFlat
<1>1. PairInv => BatchIsFlat  BY DEF PairInv
<1> QED  BY <1>1, PairInvariance, PTL

(* Between two calls every pair ever proposed was turned down or is        *)
(* offered, by itself or inside a larger pair.                             *)
THEOREM NothingIsLost == Spec => []NothingFoundIsLost
<1>1. PairInv => NothingFoundIsLost
  <2> SUFFICES ASSUME PairInv, phase = "idle", NEW p \in checked \ rejected PROVE Offered(p)
    BY DEF NothingFoundIsLost
  <2>1. p \in Pair /\ Idle \notin Pair  BY Pairs DEF PairInv, TypeOK, Idle
  <2> QED  BY <2>1 DEF PairInv, InPhase, Accounted
<1> QED  BY <1>1, PairInvariance, PTL

-----------------------------------------------------------------------------
(* A group once added is in the entry of each of its files.                *)
IndexIsComplete ==
  /\ index \in [File -> SUBSET File]
  /\ \A h \in Groups \ todo : \A f \in RangeOf(h) : RangeOf(h) \subseteq index[f]

LEMMA GroupFiles == \A h \in Groups : RangeOf(h) \subseteq File
<1> SUFFICES ASSUME NEW h \in Groups, NEW x \in RangeOf(h) PROVE x \in File  OBVIOUS
<1>1. h \in Seq(File)  BY GroupAssumption
<1> QED  BY <1>1 DEF RangeOf

LEMMA InitIndex == Init => IndexIsComplete
BY DEF Init, IndexIsComplete

(* The index only grows, and by all that AddGroups is called with.         *)
LEMMA NextIndex == PairInv /\ IndexIsComplete /\ [Next]_vars => IndexIsComplete'
<1> SUFFICES ASSUME PairInv, IndexIsComplete, [Next]_vars PROVE IndexIsComplete'  OBVIOUS
<1>1. ASSUME UNCHANGED <<todo, index>> PROVE IndexIsComplete'
  BY <1>1 DEF IndexIsComplete
<1>2. ASSUME NEW gs \in SUBSET todo, AddGroups(gs) PROVE IndexIsComplete'
  <2> DEFINE Added(f) == UNION {RangeOf(g) : g \in {h \in gs : f \in RangeOf(h)}}
  <2>1. todo' = todo \ gs /\ index' = [f \in File |-> index[f] \cup Added(f)]
    BY <1>2 DEF AddGroups
  <2>2. ASSUME NEW f \in File, NEW h \in Groups \ todo', f \in RangeOf(h)
        PROVE  RangeOf(h) \subseteq index'[f]
    <3>1. CASE h \notin todo  BY <2>1, <2>2, <3>1 DEF IndexIsComplete
    <3>2. CASE h \in gs
      <4>1. RangeOf(h) \subseteq Added(f)  BY <2>2, <3>2
      <4> QED  BY <2>1, <4>1
    <3> QED  BY <2>1, <2>2, <3>1, <3>2
  <2>3. index' \in [File -> SUBSET File]  BY <1>2, IndexType DEF PairInv
  <2> QED  BY <2>2, <2>3, GroupFiles DEF IndexIsComplete
<1>3. ASSUME NEW w \in Worker, Verify(w) \/ StoreError(w) PROVE UNCHANGED <<todo, index>>
  BY <1>3 DEF Verify, StoreError, Report
<1> QED  BY <1>1, <1>2, <1>3 DEF Next, Take, Collect, Weigh, Return, vars

(* Two sides of equal count, each with a copy of every file of the other   *)
(* below it, whose groups have all come: the index covers both.            *)
LEMMA KnownTwinsVerify ==
  ASSUME GroupsAreComplete, PairInv, IndexIsComplete, NEW p \in Pair, Twins(p),
         \A a, b \in p : a # b => SameCount(a, b),
         \A g \in todo, d \in p : RangeOf(g) \cap FilesUnder(d) = {}
  PROVE  Verifies(p)
<1> SUFFICES ASSUME NEW a \in p, NEW b \in p, a # b, NEW f \in FilesUnder(a)
             PROVE  \E g \in index[f] \ {f} : g \in FilesUnder(b)
  BY DEF Verifies, Covered
<1>1. PICK g \in FilesUnder(b) : g # f /\ SameContent(f, g)  BY DEF Twins
<1>2. f \in File /\ g \in File  BY <1>1 DEF FilesUnder
<1>3. PICK h \in Groups : {f, g} \subseteq RangeOf(h)  BY <1>1, <1>2 DEF GroupsAreComplete
<1>4. h \notin todo  BY <1>3
<1> QED  BY <1>1, <1>3, <1>4 DEF IndexIsComplete

(* A pair of twins of equal count is turned down by a worker only when the *)
(* store failed or a group of their files is still to come, provided the   *)
(* groups hold all copies: AddGroups, verifyPair and the index together.   *)
THEOREM TurnedDownWithCause == GroupsAreComplete => (Spec => TurnedDownForCause)
<1> SUFFICES ASSUME GroupsAreComplete PROVE Spec => TurnedDownForCause  OBVIOUS
<1> DEFINE Cause(p) == \/ p \in Flaky
                       \/ \E g \in todo, d \in p : RangeOf(g) \cap FilesUnder(d) # {}
           Turned == \A p \in rejected' \ rejected :
                       (\A a, b \in p : a # b => SameCount(a, b)) /\ Twins(p) => Cause(p)
<1>1. PairInv /\ IndexIsComplete /\ [Next]_vars => Turned \/ UNCHANGED vars
  <2> SUFFICES ASSUME PairInv, IndexIsComplete, Next,
                      NEW p \in rejected' \ rejected, Twins(p),
                      \A a, b \in p : a # b => SameCount(a, b)
               PROVE  Cause(p)
    OBVIOUS
  <2>1. PICK w \in Worker : Verify(w) \/ StoreError(w)
    BY DEF Next, AddGroups, Take, Collect, Weigh, Return
  <2>2. p = busy[w] /\ busy[w] # Idle /\ p \in Pair
    <3>1. Idle \notin Pair /\ Flaky \subseteq Pair  BY Pairs, GroupAssumption DEF Idle
    <3>2. busy[w] \in Pair \cup {Idle}  BY DEF PairInv, TypeOK
    <3>3. p = busy[w]  BY <2>1 DEF Verify, StoreError, Report
    <3> QED  BY <2>1, <3>1, <3>2, <3>3 DEF Verify, StoreError
  <2>3. CASE StoreError(w)  BY <2>2, <2>3 DEF StoreError
  <2>4. CASE Verify(w)
    <3>1. ~Verifies(p)  BY <2>2, <2>4 DEF Verify, Report
    <3> QED  BY <2>2, <3>1, KnownTwinsVerify
  <2> QED  BY <2>1, <2>3, <2>4
<1>2. Spec => []IndexIsComplete
  <2>1. PairInv /\ IndexIsComplete /\ [Next]_vars => (PairInv /\ IndexIsComplete)'
    BY NextPairs, NextIndex
  <2> QED  BY <2>1, InitPairs, InitIndex, PTL DEF Spec
<1>3. Turned \/ UNCHANGED vars <=> [Turned]_vars  OBVIOUS
<1> QED  BY <1>1, <1>2, <1>3, PairInvariance, PTL DEF Spec, TurnedDownForCause
=============================================================================
