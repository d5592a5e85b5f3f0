-------------------------- MODULE FastTreesProofs --------------------------
(***************************************************************************)
(* The scan store is exact for every tree, every set of roots and rules    *)
(* and whatever appears or vanishes during the walk.  Each root's walk     *)
(* keeps book of three things: a directory it has come by is cut off for a *)
(* reason the flags give or was listed, no cut lies around a wanted file,  *)
(* and an inode it remembers is served as well as it will ever be.  Of the *)
(* tree pass over that store: what it offers is whole, because the guard's *)
(* count was of the same files, and twins are not lost, because sums do    *)
(* not depend on the order they are taken in.                              *)
(***************************************************************************)
EXTENDS FastTrees, FiniteSetTheorems, FunctionTheorems, WellFoundedInduction, TLAPS

-----------------------------------------------------------------------------
(* The walk has come by n, and nothing is cut off around it.               *)
Walked(n) == \E k \in 1 .. pos : Order[k] = n
Open(n) == \A c \in cut : ~Within(c, n)

Served(f) == \E w \in rows : Inode[w.file] = Inode[f] /\ (SoleLink(f, File) => w.file = f)

WalkTyped ==
  /\ opt \in Options /\ root \in DOMAIN opt.roots /\ pos \in 0 .. Len(Order)
  /\ cut \subseteq Dir /\ disk \subseteq File
  /\ rows \subseteq [file : File, source : DOMAIN opt.roots]

Decided ==
  \A d \in Dir : Walked(d) /\ Within(Here, d) /\ Open(d) =>
                   d \in cut \/ (~LeftOut(d) /\ d \notin Unreadable)

CutsDeserved ==
  /\ Here \in Unreadable => Here \in cut
  /\ \A c \in cut : \/ c = Here /\ c \in Unreadable
                    \/ Within(Here, c) /\ (LeftOut(c) \/ c \in Unreadable)

ListingsKnown ==
  \A d \in Dir \ Unreadable :
    d = Here \/ (Walked(d) /\ Within(Here, d) /\ Open(d) /\ d \notin cut) =>
      InDir(d) \cap Steady \subseteq listed

SeenAreServed ==
  \A f \in File : Inode[f] \in seen => ~SoleLink(f, File) /\ (SizeFits(f) => Served(f))

NamesSeen ==
  \A w \in rows, g \in Steady :
    Link[g] # Link[w.file] /\ Inode[g] = Inode[w.file] => Inode[g] \in seen

RowsWanted == \A w \in rows : Wanted(w.source, w.file)

RowsUnique ==
  \A w, v \in rows :
    {w.file, v.file} \subseteq Steady /\ Inode[w.file] = Inode[v.file] =>
      w = v \/ SoleLink(w.file, Steady)

WantedServed ==
  \A f \in Steady, i \in DOMAIN opt.roots :
    Wanted(i, f) /\ (phase # "walk" \/ i < root \/ (i = root /\ Walked(f))) => Served(f)

WalkInv ==
  /\ WalkTyped /\ Decided /\ CutsDeserved /\ ListingsKnown
  /\ SeenAreServed /\ NamesSeen /\ RowsWanted /\ RowsUnique /\ WantedServed

-----------------------------------------------------------------------------
(* Min, which a CHOOSE defines, is the least element there is.             *)
LEMMA MinIsLeast == ASSUME NEW S, S \subseteq Nat, S # {}
                    PROVE  Min(S) \in S /\ \A k \in S : Min(S) <= k
<1>1. PICK R : IsWellFoundedOn(R, Nat) /\ \A y, z \in Nat : y < z => <<y, z>> \in R
  <2>1. \A y, z \in Nat : y < z => <<y, z>> \in OpToRel(<, Nat)  BY Zenon DEF OpToRel
  <2> QED  BY <2>1, NatLessThanWellFounded, Zenon
<1>2. PICK x \in S : \A y \in S : ~ (<<y, x>> \in R)  BY <1>1, WFMin, ZenonT(60)
<1>3. ASSUME NEW y \in S PROVE x <= y
  <2>1. x \in Nat /\ y \in Nat  OBVIOUS
  <2>2. <<y, x>> \notin R  BY <1>2
  <2>3. ~(y < x)  BY <1>1, <2>1, <2>2
  <2> QED  BY <2>1, <2>3
<1> QED  BY <1>2, <1>3 DEF Min

(* Two sequences of the same length and elements are one.                  *)
LEMMA SameSequence ==
  ASSUME NEW C, NEW s \in Seq(C), NEW t \in Seq(C), Len(s) = Len(t),
         \A i \in 1 .. Len(s) : s[i] = t[i]
  PROVE  s = t
OBVIOUS

LEMMA TailLength ==
  ASSUME NEW C, NEW s \in Seq(C), NEW n \in Nat, n <= Len(s)
  PROVE  Len(SubSeq(s, n + 1, Len(s))) = Len(s) - n
OBVIOUS

LEMMA PathType == \A n \in Node : PathTo[n] \in Seq(UNION {ToSet(PathTo[m]) : m \in Node})
BY ScanAssumption

LEMMA WithinElements ==
  ASSUME NEW m \in Node, NEW n \in Node
  PROVE  /\ Within(m, n) <=> /\ m # n /\ Len(PathTo[m]) <= Len(PathTo[n])
                             /\ \A i \in 1 .. Len(PathTo[m]) : PathTo[m][i] = PathTo[n][i]
         /\ Len(PathTo[m]) \in Nat
<1>1. PathTo[m] = PathTo[n] => m = n  BY ScanAssumption
<1>2. PathTo[m] \in Seq(UNION {ToSet(PathTo[k]) : k \in Node})
      /\ PathTo[n] \in Seq(UNION {ToSet(PathTo[k]) : k \in Node})
  BY PathType
<1> DEFINE s == PathTo[m]
           t == PathTo[n]
<1>3. ASSUME NEW C, s \in Seq(C), t \in Seq(C)
      PROVE  /\ IsPrefix(s, t) <=> Len(s) <= Len(t) /\ \A i \in 1 .. Len(s) : s[i] = t[i]
             /\ Len(s) \in Nat
  <2> HIDE DEF s, t
  <2> QED  BY <1>3 DEF IsPrefix
<1> QED  BY <1>1, <1>2, <1>3 DEF Within, IsStrictPrefix

(* Paths from the top: below is a strict order, and what lies above one    *)
(* and the same file lies on one line.                                     *)
LEMMA WithinTransitive ==
  ASSUME NEW a \in Node, NEW b \in Node, NEW c \in Node, Within(a, b), Within(b, c)
  PROVE  Within(a, c)
<1>1. Len(PathTo[a]) <= Len(PathTo[c])
      /\ \A i \in 1 .. Len(PathTo[a]) : PathTo[a][i] = PathTo[c][i]
  BY WithinElements
<1>2. a # c
  <2> SUFFICES ASSUME a = c PROVE FALSE  OBVIOUS
  <2>1. Len(PathTo[a]) = Len(PathTo[b])  BY WithinElements
  <2>2. PathTo[a] = PathTo[b]  BY <2>1, WithinElements, PathType, SameSequence
  <2> QED  BY <2>2, ScanAssumption, WithinElements
<1> QED  BY <1>1, <1>2, WithinElements

LEMMA WithinAsymmetric ==
  ASSUME NEW a \in Node, NEW b \in Node, Within(a, b)
  PROVE  ~Within(b, a) /\ a # b
BY WithinTransitive, WithinElements

LEMMA WithinOneLine ==
  ASSUME NEW a \in Node, NEW b \in Node, NEW c \in Node, Within(a, c), Within(b, c)
  PROVE  a = b \/ Within(a, b) \/ Within(b, a)
BY WithinElements

(* The directory a name is in.                                             *)
LEMMA Parent ==
  ASSUME NEW f \in File
  PROVE  \E d \in Dir : f \in InDir(d) /\ \A r \in Dir : Within(r, f) => r = d \/ Within(r, d)
<1>1. f \in Node /\ f # Top  BY ScanAssumption DEF Node
<1>2. PICK d \in Dir : Within(d, f) /\ Len(RelPath(d, f)) = 1  BY <1>1, ScanAssumption
<1>3. d \in Node  BY DEF Node
<1>4. Len(PathTo[f]) = Len(PathTo[d]) + 1
  <2>1. Len(PathTo[d]) <= Len(PathTo[f])  BY <1>1, <1>2, <1>3, WithinElements
  <2>2. Len(PathTo[d]) \in Nat /\ Len(PathTo[f]) \in Nat  BY <1>1, <1>3, WithinElements
  <2>3. Len(RelPath(d, f)) = Len(PathTo[f]) - Len(PathTo[d])
    BY <1>1, <2>1, <2>2, PathType, TailLength DEF RelPath
  <2>4. Len(PathTo[f]) - Len(PathTo[d]) = 1  BY <1>2, <2>3
  <2> QED  BY <2>2, <2>4
<1>5. ASSUME NEW r \in Dir, Within(r, f) PROVE r = d \/ Within(r, d)
  <2>1. r \in Node  BY DEF Node
  <2>2. ~Within(d, r)
    <3> SUFFICES ASSUME Within(d, r) PROVE FALSE  OBVIOUS
    <3>1. Len(PathTo[r]) = Len(PathTo[d]) \/ Len(PathTo[r]) = Len(PathTo[f])
      BY <1>1, <1>3, <1>4, <1>5, <2>1, WithinElements
    <3>2. Len(PathTo[r]) = Len(PathTo[d]) => PathTo[d] = PathTo[r]
      BY <1>3, <2>1, WithinElements, PathType, SameSequence
    <3>3. Len(PathTo[r]) = Len(PathTo[f]) => PathTo[r] = PathTo[f]
      BY <1>1, <1>5, <2>1, WithinElements, PathType, SameSequence
    <3> QED  BY <1>1, <1>3, <1>5, <2>1, <3>1, <3>2, <3>3, WithinElements, ScanAssumption
  <2> QED  BY <1>1, <1>2, <1>3, <1>5, <2>1, <2>2, WithinOneLine
<1> QED  BY <1>2, <1>5 DEF InDir
-----------------------------------------------------------------------------
LEMMA NodeKinds == Dir \subseteq Node /\ File \subseteq Node /\ Dir \cap File = {}
BY ScanAssumption DEF Node

LEMMA Roots ==
  ASSUME WalkTyped, NoRootIsTop
  PROVE  /\ \A i \in DOMAIN opt.roots : opt.roots[i] \in Dir /\ opt.roots[i] # Top
         /\ \A i, j \in DOMAIN opt.roots : opt.roots[i] = opt.roots[j] => i = j
         /\ DOMAIN opt.roots = 1 .. Len(opt.roots) /\ Len(opt.roots) \in Nat \ {0}
         /\ Here \in Dir
<1>1. opt.roots \in Seq(Dir) /\ opt.roots # <<>> /\ IsInjective(opt.roots) /\ root \in DOMAIN opt.roots
  BY ScanAssumption DEF WalkTyped
<1>2. \A i \in DOMAIN opt.roots : opt.roots[i] # Top  BY DEF NoRootIsTop, WalkTyped
<1>3. \A i, j \in DOMAIN opt.roots : opt.roots[i] = opt.roots[j] => i = j
  BY <1>1 DEF IsInjective
<1> QED  BY <1>1, <1>2, <1>3 DEF Here

(* What the walk comes to next.                                            *)
LEMMA NextName ==
  ASSUME NEW n \in Upcoming
  PROVE  LET m == Min(Ahead) IN
         /\ phase = "walk" /\ m \in DOMAIN Order /\ m > pos /\ n = Order[m] /\ Reached(n)
         /\ \A k \in Ahead : m <= k
<1>1. phase = "walk" /\ Ahead # {} /\ n = Order[Min(Ahead)]  BY DEF Upcoming
<1>2. Ahead \subseteq DOMAIN Order /\ DOMAIN Order \subseteq Nat
  BY ScanAssumption DEF Ahead
<1>3. Min(Ahead) \in Ahead /\ \A k \in Ahead : Min(Ahead) <= k  BY <1>1, <1>2, MinIsLeast
<1> QED  BY <1>1, <1>3 DEF Ahead

(* A directory left out is around no file that is wanted from this root.   *)
LEMMA WantedIsOpen ==
  ASSUME WalkTyped, NoRootIsTop, CutsDeserved, NEW f \in File, Wanted(root, f)
  PROVE  Open(f)
<1> SUFFICES ASSUME NEW c \in cut, Within(c, f) PROVE FALSE  BY DEF Open
<1>1. c \in Dir /\ Here \in Dir /\ root \in DOMAIN opt.roots  BY Roots DEF WalkTyped
<1>2. Here \notin Unreadable  BY DEF Wanted, Here
<1>3. Within(Here, c) /\ (LeftOut(c) \/ c \in Unreadable)  BY <1>2 DEF CutsDeserved
<1>4. ~ShouldExclude(RelPath(Here, c), Rules(opt)) /\ opt.recursive /\ c \notin Unreadable
      /\ (opt.oneFileSystem => Device[c] = Device[Here])
  BY <1>1, <1>3 DEF Wanted, Here
<1>5. PICK e \in Nested(root) : c = e \/ IsSubdir(e, c)
  BY <1>3, <1>4 DEF LeftOut, Excluded
<1>6. PICK j \in DOMAIN opt.roots : e = opt.roots[j] /\ j # root /\ Within(Here, e)
  BY <1>5 DEF Nested, IsSubdir, Here
<1>7. e \in Dir  BY <1>6, Roots
<1>8. Within(e, f)  BY <1>1, <1>5, <1>7, NodeKinds, WithinTransitive DEF IsSubdir
<1>9. Within(e, Here)  BY <1>6, <1>8 DEF Wanted, Innermost, Here
<1> QED  BY <1>1, <1>6, <1>7, <1>9, NodeKinds, WithinAsymmetric

(* A wanted file is not passed by: it comes after the directory it is in,  *)
(* which the walk has listed by then.                                      *)
LEMMA WantedIsAhead ==
  ASSUME WalkInv, NoRootIsTop, NEW f \in Steady, Wanted(root, f),
         NEW k \in DOMAIN Order, Order[k] = f, \A m \in Ahead : k <= m
  PROVE  k <= pos \/ k \in Ahead
<1> SUFFICES ASSUME k > pos PROVE Reached(f)
  BY ScanAssumption DEF Ahead, WalkInv, WalkTyped
<1>1. f \in File /\ Open(f) /\ Here \in Dir /\ Here \notin Unreadable
  BY WantedIsOpen, Roots DEF WalkInv, WalkTyped, Steady, Wanted, Here
<1>2. Within(Here, f)  BY DEF Wanted, Innermost, Here
<1>3. PICK d \in Dir : f \in InDir(d) /\ (Here = d \/ Within(Here, d))
  BY <1>1, <1>2, Parent
<1>4. f \in listed
  <2>1. CASE Here = d  BY <1>1, <1>3, <2>1 DEF WalkInv, ListingsKnown
  <2>2. CASE Within(Here, d)
    <3>1. Within(d, f)  BY <1>3 DEF InDir
    <3>2. d \notin Unreadable  BY <1>3, <2>2, <3>1 DEF Wanted, Here
    <3>3. Open(d) /\ d \notin cut
      <4>1. ASSUME NEW c \in cut, Within(c, d) PROVE FALSE
        <5>1. c \in Dir  BY DEF WalkInv, WalkTyped
        <5>2. Within(c, f)  BY <1>1, <3>1, <4>1, <5>1, NodeKinds, WithinTransitive
        <5> QED  BY <1>1, <5>2 DEF Open
      <4> QED  BY <1>1, <3>1, <4>1 DEF Open
    <3>4. PICK j \in DOMAIN Order : Order[j] = d
      BY ScanAssumption, NodeKinds DEF ToSet
    <3>5. j < k  BY <3>1, <3>4, ScanAssumption
    <3>6. Reached(d)  BY <1>1, <2>2, <3>3, NodeKinds DEF Reached, Open
    <3>7. j \in Nat \ {0} /\ k \in Nat /\ pos \in Nat
      BY ScanAssumption DEF WalkInv, WalkTyped
    <3>8. j <= pos
      <4>1. j > pos => j \in Ahead  BY <3>4, <3>6 DEF Ahead
      <4> QED  BY <3>5, <3>7, <4>1
    <3>9. Walked(d)  BY <3>4, <3>7, <3>8 DEF Walked
    <3> QED  BY <1>3, <2>2, <3>2, <3>3, <3>9 DEF WalkInv, ListingsKnown
  <2> QED  BY <1>3, <2>1, <2>2
<1> QED  BY <1>1, <1>2, <1>4 DEF Reached, Open
-----------------------------------------------------------------------------
(* The flags do not change, and with them what they mean.                  *)
LEMMA SameFlags ==
  ASSUME opt' = opt
  PROVE  /\ \A f \in File : SizeFits(f)' <=> SizeFits(f)
         /\ \A f \in File : \A i : Wanted(i, f)' <=> Wanted(i, f)
BY DEF Wanted, Innermost, SizeFits

LEMMA SameRoot ==
  ASSUME opt' = opt, root' = root
  PROVE  Here' = Here /\ \A d \in Dir : LeftOut(d)' <=> LeftOut(d)
BY DEF LeftOut, Excluded, Nested, IsSubdir, Here

(* What a step of the walk leaves known of all names it comes by, if it    *)
(* deals with the one it comes to.                                         *)
LEMMA Advance ==
  ASSUME WalkInv, NoRootIsTop, NEW n \in Upcoming, Step,
         UNCHANGED <<opt, root, phase, disk>>,
         cut \subseteq cut', listed \subseteq listed', rows \subseteq rows',
         n \in Dir => n \in cut' \/ (~LeftOut(n) /\ n \notin Unreadable),
         n \in Dir \ Unreadable => n \in cut' \/ InDir(n) \cap Steady \subseteq listed',
         n \in Steady /\ Wanted(root, n) => Served(n)'
  PROVE  pos' \in 0 .. Len(Order) /\ Decided' /\ ListingsKnown' /\ WantedServed'
<1> DEFINE m == Min(Ahead)
<1>1. /\ phase = "walk" /\ m \in DOMAIN Order /\ m > pos /\ n = Order[m] /\ Reached(n)
      /\ \A k \in Ahead : m <= k
      /\ pos' = m
  BY NextName DEF Step
<1>2. m \in Nat /\ pos \in Nat /\ DOMAIN Order = 1 .. Len(Order) /\ Len(Order) \in Nat
  BY <1>1, ScanAssumption DEF WalkInv, WalkTyped
<1>3. Here' = Here /\ (\A d \in Dir : LeftOut(d)' <=> LeftOut(d)) /\ Steady' = Steady
      /\ \A x : Open(x)' => Open(x)
  BY SameRoot DEF Steady, Open
<1> HIDE DEF m
<1>4. ASSUME NEW x, Walked(x)'
      PROVE  \/ Walked(x) \/ x = n
             \/ \E k \in DOMAIN Order : k > pos /\ k < m /\ Order[k] = x /\ k \notin Ahead
  <2>1. PICK k \in 1 .. m : Order[k] = x  BY <1>1, <1>4 DEF Walked
  <2>2. k \in DOMAIN Order /\ (k < m => k \notin Ahead)  BY <1>1, <1>2, <2>1
  <2> QED  BY <1>1, <1>2, <2>1, <2>2 DEF Walked
<1>5. ASSUME NEW d \in Dir, Walked(d)', Within(Here, d), Open(d)
      PROVE  Walked(d) \/ d = n
  <2> SUFFICES ASSUME NEW k \in DOMAIN Order, k > pos, Order[k] = d, k \notin Ahead PROVE FALSE
    BY <1>4, <1>5
  <2>1. ~Reached(d)  BY DEF Ahead
  <2> QED  BY <1>5, <2>1, NodeKinds DEF Reached, Open
<1>6. Decided'
  <2> SUFFICES ASSUME NEW d \in Dir, Walked(d)', Within(Here, d), Open(d)'
               PROVE  d \in cut' \/ (~LeftOut(d) /\ d \notin Unreadable)
    BY <1>3 DEF Decided
  <2> QED  BY <1>3, <1>5 DEF WalkInv, Decided
<1>7. ListingsKnown'
  <2> SUFFICES ASSUME NEW d \in Dir \ Unreadable,
                      d = Here \/ (Walked(d)' /\ Within(Here, d) /\ Open(d)' /\ d \notin cut')
               PROVE  InDir(d) \cap Steady \subseteq listed'
    BY <1>3 DEF ListingsKnown
  <2>1. CASE d = Here  BY <2>1 DEF WalkInv, ListingsKnown
  <2>2. CASE Walked(d) /\ Within(Here, d) /\ Open(d) /\ d \notin cut
    BY <2>2 DEF WalkInv, ListingsKnown
  <2> QED  BY <1>3, <1>5, <2>1, <2>2
<1>8. WantedServed'
  <2> SUFFICES ASSUME NEW f \in Steady, NEW i \in DOMAIN opt.roots, Wanted(i, f),
                      i < root \/ (i = root /\ Walked(f)')
               PROVE  Served(f)'
    BY <1>1, <1>3, SameFlags DEF WantedServed, Steady, WalkInv, WalkTyped
  <2>1. Served(f) => Served(f)'  BY DEF Served
  <2>2. CASE i < root \/ Walked(f)
    BY <2>1, <2>2 DEF WalkInv, WantedServed
  <2>3. CASE i = root /\ f = n  BY <2>3
  <2>4. ASSUME i = root, NEW k \in DOMAIN Order, k > pos, k < m, Order[k] = f, k \notin Ahead
        PROVE  FALSE
    <3>1. \A j \in Ahead : j \in Nat  BY ScanAssumption DEF Ahead
    <3>2. \A j \in Ahead : k <= j  BY <1>1, <1>2, <2>4, <3>1
    <3> QED  BY <1>2, <2>4, <3>2, WantedIsAhead
  <2> QED  BY <1>4, <2>2, <2>3, <2>4
<1> QED  BY <1>1, <1>2, <1>6, <1>7, <1>8

(* What a step leaves alone when rows and inodes stay.                     *)
LEMMA RowsStay ==
  ASSUME WalkInv, UNCHANGED <<opt, rows, seen>>, Steady' \subseteq Steady
  PROVE  SeenAreServed' /\ NamesSeen' /\ RowsWanted' /\ RowsUnique'
<1>1. SeenAreServed'  BY SameFlags DEF WalkInv, SeenAreServed, Served
<1>2. NamesSeen'  BY DEF WalkInv, NamesSeen
<1>3. RowsWanted'  BY SameFlags DEF WalkInv, WalkTyped, RowsWanted
<1>4. RowsUnique'  BY DEF WalkInv, RowsUnique, SoleLink
<1> QED  BY <1>1, <1>2, <1>3, <1>4

LEMMA CutsStay ==
  ASSUME WalkInv, UNCHANGED <<opt, root>>, cut \subseteq cut', cut' \subseteq Dir,
         \A c \in cut' \ cut : Within(Here, c) /\ (LeftOut(c) \/ c \in Unreadable)
  PROVE  CutsDeserved'
BY SameRoot DEF WalkInv, WalkTyped, CutsDeserved

LEMMA SkipDirInv == ASSUME WalkInv, NoRootIsTop, NEW d \in Dir, SkipDir(d) PROVE WalkInv'
<1>1. d \in Upcoming /\ LeftOut(d) /\ Step /\ cut' = cut \cup {d}
      /\ UNCHANGED <<opt, disk, phase, root, listed, seen, rows>>
  BY DEF SkipDir
<1>2. Within(Here, d)  BY <1>1, NextName DEF Reached
<1>3. Steady' = Steady /\ d \notin Steady
  BY <1>1, NodeKinds DEF Steady, WalkInv, WalkTyped
<1>4. pos' \in 0 .. Len(Order) /\ Decided' /\ ListingsKnown' /\ WantedServed'
  BY <1>1, <1>3, Advance
<1>5. CutsDeserved'  BY <1>1, <1>2, CutsStay DEF WalkInv, WalkTyped
<1>6. WalkTyped'  BY <1>1, <1>4 DEF WalkInv, WalkTyped
<1> QED  BY <1>1, <1>3, <1>4, <1>5, <1>6, RowsStay DEF WalkInv

LEMMA EnterDirInv == ASSUME WalkInv, NoRootIsTop, NEW d \in Dir, EnterDir(d) PROVE WalkInv'
<1>1. d \in Upcoming /\ ~LeftOut(d) /\ Step /\ cut' = cut \cup ({d} \cap Unreadable)
      /\ listed' = listed \cup Listing(d)
      /\ UNCHANGED <<opt, disk, phase, root, seen, rows>>
  BY DEF EnterDir
<1>2. Within(Here, d)  BY <1>1, NextName DEF Reached
<1>3. Steady' = Steady /\ d \notin Steady
  BY <1>1, NodeKinds DEF Steady, WalkInv, WalkTyped
<1>4. d \notin Unreadable => InDir(d) \cap Steady \subseteq listed'
  BY <1>1 DEF Listing, Steady
<1>5. pos' \in 0 .. Len(Order) /\ Decided' /\ ListingsKnown' /\ WantedServed'
  <2>1. d \in cut' \/ (~LeftOut(d) /\ d \notin Unreadable)  BY <1>1
  <2> QED  BY <1>1, <1>3, <1>4, <2>1, Advance
<1>6. CutsDeserved'  BY <1>1, <1>2, CutsStay DEF WalkInv, WalkTyped
<1>7. WalkTyped'  BY <1>1, <1>5 DEF WalkInv, WalkTyped
<1> QED  BY <1>1, <1>3, <1>5, <1>6, <1>7, RowsStay DEF WalkInv

LEMMA PassOverInv == ASSUME WalkInv, NoRootIsTop, NEW f \in File, PassOver(f) PROVE WalkInv'
<1>1. f \in Upcoming /\ Passed(f) /\ Step
      /\ UNCHANGED <<opt, disk, phase, root, cut, listed, seen, rows>>
  BY DEF PassOver
<1>2. Steady' = Steady /\ f \notin Dir  BY <1>1, NodeKinds DEF Steady
<1>3. ~(f \in Steady /\ Wanted(root, f))
  <2> SUFFICES ASSUME f \in Steady, Wanted(root, f) PROVE FALSE  OBVIOUS
  <2>1. f \notin Special \cup Sidecar /\ f \in disk  BY DEF Wanted, Steady
  <2>2. ~ShouldExclude(RelPath(Here, f), Rules(opt))  BY DEF Wanted, Here
  <2>3. PICK e \in Nested(root) : f = e \/ IsSubdir(e, f)
    BY <1>1, <2>1, <2>2 DEF Passed, Excluded
  <2>4. PICK j \in DOMAIN opt.roots : e = opt.roots[j] /\ j # root /\ Within(Here, e)
    BY <2>3 DEF Nested, IsSubdir, Here
  <2>5. e \in Dir /\ Here \in Dir /\ root \in DOMAIN opt.roots
    BY <2>4, Roots DEF WalkInv, WalkTyped
  <2>6. Within(e, f)  BY <1>2, <2>3, <2>5 DEF IsSubdir
  <2>7. Within(e, Here)  BY <2>4, <2>6 DEF Wanted, Innermost, Here
  <2> QED  BY <2>4, <2>5, <2>7, NodeKinds, WithinAsymmetric
<1>4. pos' \in 0 .. Len(Order) /\ Decided' /\ ListingsKnown' /\ WantedServed'
  BY <1>1, <1>2, <1>3, Advance
<1>5. CutsDeserved'  BY <1>1, CutsStay DEF WalkInv, WalkTyped
<1>6. WalkTyped'  BY <1>1, <1>4 DEF WalkInv, WalkTyped
<1> QED  BY <1>1, <1>2, <1>4, <1>5, <1>6, RowsStay DEF WalkInv
LEMMA SkipHardlinkInv ==
  ASSUME WalkInv, NoRootIsTop, NEW f \in File, SkipHardlink(f)
  PROVE  WalkInv'
<1>1. f \in Upcoming /\ Inode[f] \in seen /\ Step
      /\ UNCHANGED <<opt, disk, phase, root, cut, listed, seen, rows>>
  BY DEF SkipHardlink, Again
<1>2. Steady' = Steady /\ f \notin Dir  BY <1>1, NodeKinds DEF Steady
<1>3. Wanted(root, f) => Served(f)'
  BY <1>1 DEF WalkInv, SeenAreServed, Served, Wanted
<1>4. pos' \in 0 .. Len(Order) /\ Decided' /\ ListingsKnown' /\ WantedServed'
  BY <1>1, <1>2, <1>3, Advance
<1>5. CutsDeserved'  BY <1>1, CutsStay DEF WalkInv, WalkTyped
<1>6. WalkTyped'  BY <1>1, <1>4 DEF WalkInv, WalkTyped
<1> QED  BY <1>1, <1>2, <1>4, <1>5, <1>6, RowsStay DEF WalkInv

(* What the walk comes to through the directories it entered is wanted.    *)
LEMMA ReachedIsWanted ==
  ASSUME WalkInv, NoRootIsTop, NEW f \in File, f \in Upcoming, ~Passed(f), SizeFits(f)
  PROVE  Wanted(root, f)
<1>1. /\ Within(Here, f) /\ Open(f)
      /\ \E m \in DOMAIN Order : Order[m] = f /\ \A k \in Ahead : m <= k
  BY NextName DEF Reached, Open
<1>2. Here \in Dir /\ root \in DOMAIN opt.roots  BY Roots DEF WalkInv, WalkTyped
<1>3. Innermost(root, f)
  <2> SUFFICES ASSUME NEW j \in DOMAIN opt.roots, Within(opt.roots[j], f), j # root
               PROVE  Within(opt.roots[j], Here)
    BY <1>1 DEF Innermost, Here
  <2>1. opt.roots[j] \in Dir /\ opt.roots[j] # Top /\ opt.roots[j] # Here /\ Here # Top
    BY <1>2, Roots DEF WalkInv, Here
  <2>2. ~Within(Here, opt.roots[j])
    <3> SUFFICES ASSUME Within(Here, opt.roots[j]) PROVE FALSE  OBVIOUS
    <3>1. opt.roots[j] \in Nested(root)  BY <2>1 DEF Nested, IsSubdir, Here
    <3>2. Excluded(f)  BY <2>1, <3>1 DEF Excluded, IsSubdir
    <3> QED  BY <3>2 DEF Passed
  <2> QED  BY <1>1, <1>2, <2>1, <2>2, NodeKinds, WithinOneLine
<1>4. ASSUME NEW d \in Dir, Within(Here, d), Within(d, f)
      PROVE  ~LeftOut(d) /\ d \notin Unreadable
  <2>1. PICK m \in DOMAIN Order : Order[m] = f /\ \A k \in Ahead : m <= k  BY <1>1
  <2>2. PICK j \in DOMAIN Order : Order[j] = d
    BY ScanAssumption, NodeKinds DEF ToSet
  <2>3. j < m  BY <1>4, <2>1, <2>2, ScanAssumption
  <2>4. Open(d) /\ d \notin cut
    <3>1. ASSUME NEW c \in cut, Within(c, d) PROVE FALSE
      <4>1. c \in Dir  BY DEF WalkInv, WalkTyped
      <4>2. Within(c, f)  BY <1>4, <3>1, <4>1, NodeKinds, WithinTransitive
      <4> QED  BY <1>1, <4>2 DEF Open
    <3> QED  BY <1>1, <1>4, <3>1 DEF Open
  <2>5. Reached(d)  BY <1>4, <2>4, NodeKinds DEF Reached, Open
  <2>6. j \in Nat \ {0} /\ m \in Nat /\ pos \in Nat
    BY ScanAssumption DEF WalkInv, WalkTyped
  <2>7. j > pos => j \in Ahead  BY <2>2, <2>5 DEF Ahead
  <2>8. Walked(d)  BY <2>1, <2>2, <2>3, <2>6, <2>7 DEF Walked
  <2> QED  BY <1>4, <2>4, <2>8 DEF WalkInv, Decided
<1>5. Here \notin Unreadable  BY <1>1 DEF WalkInv, CutsDeserved, Open
<1>6. ~ShouldExclude(RelPath(Here, f), Rules(opt)) /\ f \notin Special \cup Sidecar
  BY DEF Passed, Excluded
<1>7. \A d \in Dir : Within(Here, d) /\ Within(d, f) =>
        /\ ~ShouldExclude(RelPath(Here, d), Rules(opt)) /\ opt.recursive
        /\ opt.oneFileSystem => Device[d] = Device[Here]
        /\ d \notin Unreadable
  BY <1>4 DEF LeftOut, Excluded
<1> QED  BY <1>3, <1>5, <1>6, <1>7 DEF Wanted, Here

(* A name's innermost root is one.                                         *)
LEMMA OneInnermost ==
  ASSUME WalkTyped, NoRootIsTop, NEW f \in File, NEW i \in DOMAIN opt.roots,
         NEW j \in DOMAIN opt.roots, Wanted(i, f), Wanted(j, f)
  PROVE  i = j
<1>1. opt.roots[i] \in Node /\ opt.roots[j] \in Node  BY Roots, NodeKinds
<1> QED  BY <1>1, WithinAsymmetric DEF Wanted, Innermost

LEMMA EmitInv == ASSUME WalkInv, NoRootIsTop, NEW f \in File, Emit(f) PROVE WalkInv'
<1> DEFINE row == [file |-> f, source |-> root]
<1>1. f \in Upcoming /\ ~Passed(f) /\ ~Again(f) /\ Step
      /\ seen' = (IF ManyNames(f) THEN seen \cup {Inode[f]} ELSE seen)
      /\ rows' = (IF SizeFits(f) THEN rows \cup {row} ELSE rows)
      /\ UNCHANGED <<opt, disk, phase, root, cut, listed>>
  BY DEF Emit
<1>2. Steady' = Steady /\ f \notin Dir  BY <1>1, NodeKinds DEF Steady
<1>e. ASSUME SizeFits(f), NEW g, Inode[g] = Inode[f], g = f \/ ~SoleLink(g, File)
      PROVE  Served(g)'
  <2>1. row \in rows' /\ row.file = f  BY <1>1, <1>e
  <2> HIDE DEF row
  <2> QED  BY <1>e, <2>1 DEF Served
<1>3. Wanted(root, f) => Served(f)'  BY <1>e DEF Wanted
<1>4. pos' \in 0 .. Len(Order) /\ Decided' /\ ListingsKnown' /\ WantedServed'
  BY <1>1, <1>2, <1>3, Advance
<1>5. CutsDeserved'  BY <1>1, CutsStay DEF WalkInv, WalkTyped
<1>6. WalkTyped'
  <2>1. row \in [file : File, source : DOMAIN opt.roots]  BY DEF WalkInv, WalkTyped
  <2> QED  BY <1>1, <1>4, <2>1 DEF WalkInv, WalkTyped
<1>7. SeenAreServed'
  <2> SUFFICES ASSUME NEW g \in File, Inode[g] \in seen'
               PROVE  ~SoleLink(g, File) /\ (SizeFits(g) => Served(g)')
    BY <1>1, SameFlags DEF SeenAreServed
  <2>1. CASE Inode[g] \in seen  BY <1>1, <2>1 DEF WalkInv, SeenAreServed, Served
  <2>2. CASE Inode[g] = Inode[f] /\ ManyNames(f)
    <3>1. SizeFits(g) => SizeFits(f)  BY <2>2, ScanAssumption DEF SizeFits
    <3>2. PICK h \in disk : Inode[h] = Inode[f] /\ Link[h] # Link[f]  BY <2>2 DEF ManyNames
    <3>3. h \in File  BY <3>2 DEF WalkInv, WalkTyped
    <3>4. ~SoleLink(g, File)  BY <2>2, <3>2, <3>3 DEF SoleLink
    <3> QED  BY <1>e, <2>2, <3>1, <3>4
  <2> QED  BY <1>1, <2>1, <2>2
<1>8. NamesSeen'
  <2> SUFFICES ASSUME NEW w \in rows', NEW g \in Steady, Link[g] # Link[w.file],
                      Inode[g] = Inode[w.file]
               PROVE  Inode[g] \in seen'
    BY <1>2 DEF NamesSeen
  <2>1. CASE w \in rows  BY <1>1, <2>1 DEF WalkInv, NamesSeen
  <2>2. CASE w = row
    <3>1. ManyNames(f)  BY <2>2 DEF ManyNames, Steady
    <3> QED  BY <1>1, <2>2, <3>1
  <2> QED  BY <1>1, <2>1, <2>2
<1>9. SizeFits(f) => Wanted(root, f)  BY <1>1, ReachedIsWanted
<1>10. RowsWanted'  BY <1>1, <1>9, SameFlags DEF WalkInv, WalkTyped, RowsWanted
<1>11. RowsUnique'
  <2>1. ASSUME NEW w \in rows, SizeFits(f), f \in Steady, w.file \in Steady,
               Inode[w.file] = Inode[f]
        PROVE  SoleLink(w.file, Steady) /\ SoleLink(f, Steady)
    <3>1. ASSUME NEW g \in Steady, Inode[g] = Inode[f], Link[g] # Link[f] PROVE FALSE
      <4>1. ManyNames(f)  BY <3>1 DEF ManyNames, Steady
      <4>2. Inode[f] \in seen
        <5>1. CASE Link[w.file] = Link[f]  BY <2>1, <3>1, <5>1 DEF WalkInv, NamesSeen
        <5>2. CASE Link[w.file] # Link[f]  BY <2>1, <5>2 DEF WalkInv, NamesSeen
        <5> QED  BY <5>1, <5>2
      <4> QED  BY <1>1, <4>1, <4>2 DEF Again
    <3>2. Link[w.file] = Link[f]  BY <2>1, <3>1
    <3> QED  BY <2>1, <3>1, <3>2 DEF SoleLink
  <2>2. SUFFICES ASSUME NEW w \in rows', NEW v \in rows', w.file \in Steady, v.file \in Steady,
                        Inode[w.file] = Inode[v.file]
                 PROVE  w = v \/ SoleLink(w.file, Steady)
    BY <1>2 DEF RowsUnique, SoleLink
  <2>3. CASE w \in rows /\ v \in rows  BY <2>2, <2>3 DEF WalkInv, RowsUnique
  <2>4. CASE SizeFits(f) /\ w = row /\ v \in rows  BY <2>1, <2>2, <2>4
  <2>5. CASE SizeFits(f) /\ v = row /\ w \in rows  BY <2>1, <2>2, <2>5
  <2> QED  BY <1>1, <2>2, <2>3, <2>4, <2>5
<1> QED  BY <1>4, <1>5, <1>6, <1>7, <1>8, <1>10, <1>11 DEF WalkInv

(* The root walked is done: all that is wanted of it is served.            *)
LEMMA RootIsDone ==
  ASSUME WalkInv, NoRootIsTop, Ahead = {}, NEW f \in Steady, Wanted(root, f)
  PROVE  Served(f)
<1>1. f \in File /\ root \in DOMAIN opt.roots  BY DEF WalkInv, WalkTyped, Steady
<1>2. PICK k \in DOMAIN Order : Order[k] = f  BY <1>1, ScanAssumption, NodeKinds DEF ToSet
<1>3. k <= pos  BY <1>2, WantedIsAhead
<1>4. Walked(f)  BY <1>2, <1>3, ScanAssumption DEF Walked, WalkInv, WalkTyped
<1> QED  BY <1>1, <1>4 DEF WalkInv, WantedServed

LEMMA NextRootInv == ASSUME WalkInv, NoRootIsTop, NextRoot PROVE WalkInv'
<1>1. /\ phase = "walk" /\ Ahead = {} /\ root < Len(opt.roots)
      /\ root' = root + 1 /\ pos' = 0 /\ cut' = {opt.roots[root + 1]} \cap Unreadable
      /\ listed' = Listing(opt.roots[root + 1])
      /\ UNCHANGED <<opt, disk, phase, seen, rows>>
  BY DEF NextRoot
<1>2. root \in Nat /\ root' \in DOMAIN opt.roots /\ Here' = opt.roots[root + 1] /\ Here' \in Dir
      /\ DOMAIN opt.roots = 1 .. Len(opt.roots)
  BY <1>1, Roots DEF WalkInv, WalkTyped, Here
<1>3. Steady' = Steady  BY <1>1 DEF Steady
<1>4. \A x : ~Walked(x)'  BY <1>1 DEF Walked
<1>5. WalkTyped'
  <2>1. pos' \in 0 .. Len(Order)  BY <1>1, ScanAssumption
  <2> QED  BY <1>1, <1>2, <2>1 DEF WalkInv, WalkTyped
<1>6. Decided' /\ CutsDeserved'  BY <1>1, <1>2, <1>4 DEF Decided, CutsDeserved
<1>7. ListingsKnown'
  BY <1>1, <1>2, <1>3, <1>4 DEF ListingsKnown, Listing, Steady
<1>8. WantedServed'
  <2> SUFFICES ASSUME NEW f \in Steady, NEW i \in DOMAIN opt.roots, Wanted(i, f), i < root + 1
               PROVE  Served(f)
    BY <1>1, <1>3, <1>4, SameFlags DEF WantedServed, Served, Steady, WalkInv, WalkTyped
  <2>1. i < root \/ i = root  BY <1>2
  <2> QED  BY <1>1, <2>1, RootIsDone DEF WalkInv, WantedServed
<1> QED  BY <1>1, <1>3, <1>5, <1>6, <1>7, <1>8, RowsStay DEF WalkInv

(* Steps that leave the walk where it is: names come and go, the walk ends *)
(* and the passes after it.                                                *)
LEMMA WalkStays ==
  ASSUME WalkInv, UNCHANGED <<opt, root, pos, cut, listed, seen, rows>>,
         disk' \subseteq File, Steady' \subseteq Steady,
         phase' = phase \/ phase # "walk"
                        \/ \A f \in Steady, i \in DOMAIN opt.roots : Wanted(i, f) => Served(f)
  PROVE  WalkInv'
<1>1. Here' = Here /\ (\A d \in Dir : LeftOut(d)' <=> LeftOut(d))
      /\ \A x : (Open(x)' <=> Open(x)) /\ (Walked(x)' <=> Walked(x)) /\ (Served(x)' <=> Served(x))
  BY SameRoot DEF Open, Walked, Served
<1>2. WalkTyped'  BY DEF WalkInv, WalkTyped
<1>3. Decided' /\ CutsDeserved'
  BY <1>1 DEF WalkInv, Decided, WalkTyped, CutsDeserved
<1>4. ListingsKnown'  BY <1>1 DEF WalkInv, ListingsKnown
<1>5. WantedServed'
  <2> SUFFICES ASSUME NEW f \in Steady, NEW i \in DOMAIN opt.roots, Wanted(i, f),
                      phase' # "walk" \/ i < root \/ (i = root /\ Walked(f))
               PROVE  Served(f)
    BY <1>1, SameFlags DEF WantedServed, Steady, WalkInv, WalkTyped
  <2> QED  BY DEF WalkInv, WantedServed
<1> QED  BY <1>2, <1>3, <1>4, <1>5, RowsStay DEF WalkInv

LEMMA EndOfWalkInv == ASSUME WalkInv, NoRootIsTop, EndOfWalk PROVE WalkInv'
<1>1. /\ phase = "walk" /\ Ahead = {} /\ root = Len(opt.roots)
      /\ UNCHANGED <<opt, disk, root, pos, cut, listed, seen, rows>>
  BY DEF EndOfWalk
<1>2. ASSUME NEW f \in Steady, NEW i \in DOMAIN opt.roots, Wanted(i, f) PROVE Served(f)
  <2>1. i < root \/ i = root  BY <1>1, Roots DEF WalkInv
  <2> QED  BY <1>1, <1>2, <2>1, RootIsDone DEF WalkInv, WantedServed
<1>3. Steady' = Steady /\ disk' \subseteq File  BY <1>1 DEF Steady, WalkInv, WalkTyped
<1> QED  BY <1>1, <1>2, <1>3, WalkStays

LEMMA InitWalk == Init /\ NoRootIsTop => WalkInv
<1> SUFFICES ASSUME Init, NoRootIsTop PROVE WalkInv  OBVIOUS
<1>1. /\ opt \in Options /\ disk = File \ Fresh /\ phase = "walk" /\ root = 1 /\ pos = 0
      /\ cut = {opt.roots[1]} \cap Unreadable /\ listed = Listing(opt.roots[1])
      /\ seen = {} /\ rows = {}
  BY DEF Init, ScanInit
<1>2. opt.roots \in Seq(Dir) /\ opt.roots # <<>>  BY <1>1, ScanAssumption
<1>3. 1 \in DOMAIN opt.roots /\ opt.roots[1] \in Dir /\ Here = opt.roots[1]
      /\ DOMAIN opt.roots = 1 .. Len(opt.roots)
  BY <1>1, <1>2 DEF Here
<1>4. WalkTyped
  <2>1. pos \in 0 .. Len(Order)  BY <1>1, ScanAssumption
  <2> QED  BY <1>1, <1>3, <2>1 DEF WalkTyped
<1>5. \A x : ~Walked(x)  BY <1>1 DEF Walked
<1>6. Decided /\ CutsDeserved  BY <1>1, <1>3, <1>5 DEF Decided, CutsDeserved
<1>7. ListingsKnown  BY <1>1, <1>3, <1>5 DEF ListingsKnown, Listing, Steady
<1>8. SeenAreServed /\ NamesSeen /\ RowsWanted /\ RowsUnique
  BY <1>1 DEF SeenAreServed, NamesSeen, RowsWanted, RowsUnique
<1>9. WantedServed
  <2>1. \A i \in DOMAIN opt.roots : ~(i < root)  BY <1>1, <1>3
  <2> QED  BY <1>1, <1>5, <2>1 DEF WantedServed
<1> QED  BY <1>4, <1>6, <1>7, <1>8, <1>9 DEF WalkInv

LEMMA NextWalk == ASSUME WalkInv, NoRootIsTop, [Next]_vars PROVE WalkInv'
<1>0. \A n \in Upcoming : phase = "walk"  BY DEF Upcoming
<1>1. ASSUME NEW d \in Upcoming, SkipDir(d) \/ EnterDir(d) PROVE WalkInv'
  <2>1. d \in Dir  BY <1>1 DEF SkipDir, EnterDir
  <2> QED  BY <1>1, <2>1, SkipDirInv, EnterDirInv
<1>2. ASSUME NEW f \in Upcoming, PassOver(f) \/ SkipHardlink(f) \/ Emit(f) PROVE WalkInv'
  <2>1. f \in File  BY <1>2 DEF PassOver, SkipHardlink, Emit
  <2> QED  BY <1>2, <2>1, PassOverInv, SkipHardlinkInv, EmitInv
<1>3. ASSUME UNCHANGED <<opt, disk, root, pos, cut, listed, seen, rows>>,
             phase # "walk" \/ phase' = phase
      PROVE  WalkInv'
  <2>1. Steady' = Steady /\ disk' \subseteq File  BY <1>3 DEF Steady, WalkInv, WalkTyped
  <2> QED  BY <1>3, <2>1, WalkStays
<1>4. CASE HashDirs  BY <1>3, <1>4 DEF HashDirs
<1>5. CASE FormPairs  BY <1>3, <1>5 DEF FormPairs
<1>6. ASSUME NEW p \in pairs, (\E d \in p : Count(p, d)) \/ TurnDown(p) \/ Confirm(p) PROVE WalkInv'
  BY <1>3, <1>6 DEF Count, TurnDown, Confirm, scanVars
<1>7. CASE EndOfVerify  BY <1>3, <1>7 DEF EndOfVerify
<1>8. ASSUME NEW p \in pairs, KeepPair(p) \/ DropPair(p) PROVE WalkInv'
  BY <1>3, <1>8 DEF KeepPair, DropPair, scanVars
<1>9. CASE EndOfPass  BY <1>3, <1>9 DEF EndOfPass
<1>10. ASSUME NEW f \in Fresh, Arrive(f) PROVE WalkInv'
  <2>1. /\ disk' = disk \cup PathsOf(f) /\ PathsOf(f) \subseteq File \cap Fresh
        /\ UNCHANGED <<opt, phase, root, pos, cut, listed, seen, rows>>
    BY <1>10, ScanAssumption DEF Arrive, Appear, PathsOf
  <2>2. Steady' \subseteq Steady /\ disk' \subseteq File
    BY <2>1, ScanAssumption DEF Steady, WalkInv, WalkTyped
  <2> QED  BY <2>1, <2>2, WalkStays
<1>11. ASSUME NEW f \in Fleeting, Vanish(f) PROVE WalkInv'
  <2>1. disk' = disk \ PathsOf(f) /\ UNCHANGED <<opt, phase, root, pos, cut, listed, seen, rows>>
    BY <1>11 DEF Vanish
  <2>2. Steady' \subseteq Steady /\ disk' \subseteq File
    BY <2>1 DEF Steady, WalkInv, WalkTyped
  <2> QED  BY <2>1, <2>2, WalkStays
<1>12. CASE UNCHANGED vars  BY <1>3, <1>12 DEF vars, scanVars
<1> QED
  BY <1>1, <1>2, <1>4, <1>5, <1>6, <1>7, <1>8, <1>9, <1>10, <1>11, <1>12, NextRootInv, EndOfWalkInv
  DEF Next

-----------------------------------------------------------------------------
(* The scan store is exact for every tree, rules and roots below "/",      *)
(* whatever names appear and vanish between any two steps of the walk: one *)
(* row for all hard links of a file, one for each path of a single link.   *)
THEOREM InventoryExact == NoRootIsTop => (Spec => []InventoryIsExact)
<1> SUFFICES ASSUME NoRootIsTop PROVE Spec => []InventoryIsExact  OBVIOUS
<1>1. Init => WalkInv  BY InitWalk
<1>2. WalkInv /\ [Next]_vars => WalkInv'  BY NextWalk
<1>3. WalkInv => InventoryIsExact
  BY DEF WalkInv, RowsWanted, RowsUnique, WantedServed, Served, InventoryIsExact
<1> QED  BY <1>1, <1>2, <1>3, PTL DEF Spec

-----------------------------------------------------------------------------
(* What the passes after the walk know.  The guard's count was right about *)
(* the files that are still there; names that come later are late.         *)
RowsWereThere == \A w \in rows : w.file \in disk \cup gone

FullIsWhole ==
  \A d \in Dir : counted[d] = "full" /\ FilesUnderDir(d) \cap gone = {} =>
                   OnDisk(d) \ late \subseteq FilesUnderDir(d)

NothingVerifiedYet ==
  phase \in {"walk", "hash", "pair"} =>
    pairs = {} /\ confirmed = {} /\ \A d \in Dir : counted[d] = "not"

ConfirmedVerified ==
  /\ pairs \subseteq Pair /\ confirmed \subseteq Pair
  /\ \A p \in confirmed : SameListing(p) /\ Complete(p)

ContentCompared ==
  /\ phase \in {"content", "done"} /\ opt.checksum =>
       \A p \in confirmed \ pairs : SameContent(p) \/ p \subseteq Flaky
  /\ phase = "done" => pairs = {}

PassInv ==
  /\ counted \in [Dir -> {"not", "full", "short"}]
  /\ RowsWereThere /\ FullIsWhole /\ NothingVerifiedYet /\ ConfirmedVerified /\ ContentCompared

LEMMA FilesFinite == IsFiniteSet(File)
<1>1. Order \in Seq(Node) /\ ToSet(Order) = Node  BY ScanAssumption
<1>2. IsFiniteSet(DOMAIN Order)
  <2>1. DOMAIN Order = 1 .. Len(Order) /\ Len(Order) \in Nat  BY <1>1
  <2> QED  BY <2>1, FS_Interval
<1>3. Order \in Surjection(DOMAIN Order, Node)
  BY <1>1 DEF Surjection, ToSet
<1>4. IsFiniteSet(Node)  BY <1>2, <1>3, FS_Surjection
<1> QED  BY <1>4, NodeKinds, FS_Subset

(* A file has one row.                                                     *)
LEMMA OneRow ==
  ASSUME WalkInv, NoRootIsTop, NEW w \in rows, NEW v \in rows, w.file = v.file
  PROVE  w = v
<1>1. w \in [file : File, source : DOMAIN opt.roots] /\ v \in [file : File, source : DOMAIN opt.roots]
  BY DEF WalkInv, WalkTyped
<1>2. w.source = v.source  BY <1>1, OneInnermost DEF WalkInv, RowsWanted
<1> QED  BY <1>1, <1>2

LEMMA CountIsOfFiles ==
  ASSUME WalkInv, NoRootIsTop, NEW d \in Dir
  PROVE  /\ FilesUnderDir(d) \subseteq File /\ IsFiniteSet(FilesUnderDir(d))
         /\ CountUnderDir(d) = Cardinality(FilesUnderDir(d))
<1>1. FilesUnderDir(d) \subseteq File
  BY DEF FilesUnderDir, RowsUnder, WalkInv, WalkTyped
<1>2. IsFiniteSet(FilesUnderDir(d))  BY <1>1, FilesFinite, FS_Subset
<1> DEFINE fileOf == [w \in RowsUnder(d) |-> w.file]
<1>3. fileOf \in Bijection(RowsUnder(d), FilesUnderDir(d))
  <2>1. fileOf \in [RowsUnder(d) -> FilesUnderDir(d)]  BY DEF FilesUnderDir
  <2>2. \A w, v \in RowsUnder(d) : fileOf[w] = fileOf[v] => w = v
    BY OneRow DEF RowsUnder
  <2>3. \A f \in FilesUnderDir(d) : \E w \in RowsUnder(d) : fileOf[w] = f
    BY DEF FilesUnderDir
  <2> QED  BY <2>1, <2>2, <2>3 DEF Bijection, Injection, IsInjective, Surjection
<1>4. fileOf \in Injection(RowsUnder(d), FilesUnderDir(d))
      /\ fileOf \in Surjection(RowsUnder(d), FilesUnderDir(d))
  BY <1>3 DEF Bijection
<1>5. Cardinality(RowsUnder(d)) = Cardinality(FilesUnderDir(d))
  BY <1>2, <1>4, FS_Injection
<1> QED  BY <1>1, <1>2, <1>5 DEF CountUnderDir

(* As many files on the disk as in the store: they are the same, if none   *)
(* of those in the store is gone.                                          *)
LEMMA FullCount ==
  ASSUME WalkInv, NoRootIsTop, RowsWereThere, NEW d \in Dir,
         Cardinality(OnDisk(d)) = CountUnderDir(d), FilesUnderDir(d) \cap gone = {}
  PROVE  OnDisk(d) = FilesUnderDir(d)
<1>1. FilesUnderDir(d) \subseteq OnDisk(d)
  BY DEF RowsWereThere, FilesUnderDir, RowsUnder, OnDisk, WalkInv, RowsWanted, Wanted
<1>2. IsFiniteSet(OnDisk(d))
  BY FilesFinite, FS_Subset DEF OnDisk, WalkInv, WalkTyped
<1> QED  BY <1>1, <1>2, CountIsOfFiles, FS_Subset

LEMMA InitPass == Init => PassInv
BY DEF Init, ScanInit, TreeInit, PassInv, RowsWereThere, FullIsWhole, NothingVerifiedYet,
       ConfirmedVerified, ContentCompared

(* The store is what it was when a pair was verified.                      *)
LEMMA SameStore ==
  ASSUME rows' = rows
  PROVE  /\ \A d : FilesUnderDir(d)' = FilesUnderDir(d) /\ CountUnderDir(d)' = CountUnderDir(d)
         /\ \A p : (SameListing(p)' <=> SameListing(p)) /\ (SameContent(p)' <=> SameContent(p))
BY DEF FilesUnderDir, RowsUnder, CountUnderDir, SameListing, SameContent

LEMMA SameGuard ==
  ASSUME UNCHANGED <<opt, counted>>
  PROVE  (Armed' <=> Armed) /\ \A p : Complete(p)' <=> Complete(p)
BY DEF Armed, Complete

(* Steps that neither verify nor count.                                    *)
LEMMA QuietPass ==
  ASSUME PassInv, UNCHANGED <<opt, rows, counted, confirmed>>,
         \A d \in Dir : counted[d] = "full" => OnDisk(d)' \ late' \subseteq OnDisk(d) \ late,
         gone \subseteq gone', disk \subseteq disk' \cup gone',
         NothingVerifiedYet', pairs' \subseteq Pair, ContentCompared'
  PROVE  PassInv'
<1>1. RowsWereThere'  BY DEF PassInv, RowsWereThere
<1>2. FullIsWhole'
  BY SameStore DEF PassInv, FullIsWhole
<1>3. ConfirmedVerified'  BY SameStore, SameGuard DEF PassInv, ConfirmedVerified
<1> QED  BY <1>1, <1>2, <1>3 DEF PassInv

LEMMA StillDisk == ASSUME UNCHANGED <<disk, late>>
                   PROVE  \A d : OnDisk(d)' \ late' = OnDisk(d) \ late
BY DEF OnDisk

(* The walk: no directory is counted yet, and a row is of a file that is   *)
(* there.                                                                  *)
LEMMA WalkPass ==
  ASSUME WalkInv, PassInv, phase = "walk", phase' \in {"walk", "hash"},
         UNCHANGED <<opt, disk, gone, treeVars>>, \A w \in rows' : w \in rows \/ w.file \in disk
  PROVE  PassInv'
<1>1. UNCHANGED <<accum, pairs, counted, late, confirmed, turned>>  BY DEF treeVars
<1>2. pairs = {} /\ confirmed = {} /\ \A d \in Dir : counted[d] = "not"
  BY DEF PassInv, NothingVerifiedYet
<1>3. RowsWereThere'  BY DEF PassInv, RowsWereThere
<1>4. FullIsWhole' /\ NothingVerifiedYet' /\ ConfirmedVerified' /\ ContentCompared'
  BY <1>1, <1>2 DEF FullIsWhole, NothingVerifiedYet, ConfirmedVerified, ContentCompared
<1> QED  BY <1>1, <1>3, <1>4 DEF PassInv

LEMMA CountPass ==
  ASSUME WalkInv, NoRootIsTop, PassInv, NEW p \in pairs, NEW d \in p, Count(p, d)
  PROVE  PassInv'
<1>1. /\ phase = "verify" /\ counted[d] = "not"
      /\ counted' = [counted EXCEPT ![d] =
           IF CanCount(d) /\ Cardinality(OnDisk(d)) = CountUnderDir(d) THEN "full" ELSE "short"]
      /\ UNCHANGED <<opt, disk, gone, phase, rows, pairs, late, confirmed>>
  BY DEF Count, Turn, scanVars
<1>2. d \in Dir  BY DEF PassInv, ConfirmedVerified, Pair
<1>3. RowsWereThere'  BY <1>1 DEF PassInv, RowsWereThere
<1>4. ASSUME NEW e \in Dir, counted'[e] = "full", FilesUnderDir(e) \cap gone = {}
      PROVE  OnDisk(e) \ late \subseteq FilesUnderDir(e)
  <2>1. CASE e = d
    <3>1. Cardinality(OnDisk(d)) = CountUnderDir(d)  BY <1>1, <1>2, <1>4, <2>1 DEF PassInv
    <3> QED  BY <1>2, <1>4, <2>1, <3>1, FullCount DEF PassInv
  <2>2. CASE e # d  BY <1>1, <1>2, <1>4, <2>2 DEF PassInv, FullIsWhole
  <2> QED  BY <2>1, <2>2
<1>5. FullIsWhole'  BY <1>1, <1>4, SameStore DEF FullIsWhole, OnDisk
<1>6. ConfirmedVerified'
  <2>1. Armed /\ Armed'  BY <1>1 DEF Count, Armed
  <2>2. ASSUME NEW q \in confirmed, NEW e \in q PROVE counted'[e] = "full"
    <3>1. e \in Dir /\ counted[e] = "full"
      BY <2>1 DEF PassInv, ConfirmedVerified, Pair, Complete
    <3> QED  BY <1>1, <3>1 DEF PassInv
  <2>3. \A q \in confirmed : Complete(q)'  BY <2>2 DEF Complete
  <2> QED  BY <1>1, <2>3, SameStore DEF PassInv, ConfirmedVerified
<1>7. counted' \in [Dir -> {"not", "full", "short"}]  BY <1>1, <1>2 DEF PassInv
<1> QED  BY <1>1, <1>3, <1>5, <1>6, <1>7 DEF PassInv, NothingVerifiedYet, ContentCompared

LEMMA ConfirmPass ==
  ASSUME PassInv, NEW p \in pairs, Confirm(p)
  PROVE  PassInv'
<1>1. /\ phase = "verify" /\ Complete(p) /\ SameListing(p)
      /\ pairs' = pairs \ {p} /\ confirmed' = confirmed \cup {p}
      /\ UNCHANGED <<opt, disk, gone, phase, rows, counted, late>>
  BY DEF Confirm, Turn, scanVars
<1>3. ConfirmedVerified'
  BY <1>1, SameStore, SameGuard DEF PassInv, ConfirmedVerified
<1>4. FullIsWhole'  BY <1>1, SameStore DEF PassInv, FullIsWhole, OnDisk
<1>5. RowsWereThere' /\ NothingVerifiedYet' /\ ContentCompared'
  BY <1>1 DEF PassInv, RowsWereThere, NothingVerifiedYet, ContentCompared
<1> QED  BY <1>1, <1>3, <1>4, <1>5 DEF PassInv

LEMMA DropPass ==
  ASSUME PassInv, NEW p \in pairs, DropPair(p)
  PROVE  PassInv'
<1>1. /\ phase = "content" /\ pairs' = pairs \ {p} /\ confirmed' = confirmed \ {p}
      /\ UNCHANGED <<opt, disk, gone, phase, rows, counted, late>>
  BY DEF DropPair, scanVars
<1>2. ConfirmedVerified'
  BY <1>1, SameStore, SameGuard DEF PassInv, ConfirmedVerified
<1>3. FullIsWhole'  BY <1>1, SameStore DEF PassInv, FullIsWhole, OnDisk
<1>4. ContentCompared'  BY <1>1, SameStore DEF PassInv, ContentCompared
<1>5. RowsWereThere' /\ NothingVerifiedYet'
  BY <1>1 DEF PassInv, RowsWereThere, NothingVerifiedYet
<1> QED  BY <1>1, <1>2, <1>3, <1>4, <1>5 DEF PassInv

LEMMA NextPass ==
  ASSUME WalkInv, PassInv, NoRootIsTop, [Next]_vars
  PROVE  PassInv'
<1>1. ASSUME NEW n \in Upcoming, UNCHANGED treeVars,
             SkipDir(n) \/ EnterDir(n) \/ PassOver(n) \/ SkipHardlink(n)
      PROVE  PassInv'
  <2>1. phase = "walk"  BY <1>1 DEF Upcoming
  <2>2. UNCHANGED <<opt, disk, gone, phase, rows>>
    BY <1>1 DEF SkipDir, EnterDir, PassOver, SkipHardlink
  <2> QED  BY <1>1, <2>1, <2>2, WalkPass
<1>2. ASSUME NEW f \in Upcoming, Emit(f), UNCHANGED treeVars PROVE PassInv'
  <2>1. phase = "walk"  BY <1>2 DEF Upcoming
  <2>2. UNCHANGED <<opt, disk, gone, phase>> /\ f \in disk
        /\ rows' \subseteq rows \cup {[file |-> f, source |-> root]}
    BY <1>2 DEF Emit, Passed
  <2>3. \A w \in rows' : w \in rows \/ w.file \in disk  BY <2>2
  <2> QED  BY <1>2, <2>1, <2>2, <2>3, WalkPass
<1>3. CASE (NextRoot \/ EndOfWalk) /\ UNCHANGED treeVars
  <2>1. phase = "walk" /\ phase' \in {"walk", "hash"} /\ UNCHANGED <<opt, disk, gone, rows>>
    BY <1>3 DEF NextRoot, EndOfWalk
  <2> QED  BY <1>3, <2>1, WalkPass
<1>4. CASE HashDirs
  <2>1. phase = "hash" /\ phase' = "pair" /\ UNCHANGED <<opt, disk, gone, rows, pairs, counted, late, confirmed>>
    BY <1>4 DEF HashDirs
  <2> QED  BY <2>1, QuietPass, StillDisk DEF PassInv, NothingVerifiedYet, ContentCompared, ConfirmedVerified
<1>5. CASE FormPairs
  <2>1. phase = "pair" /\ phase' = "verify" /\ pairs' = Topmost(Candidates)
        /\ UNCHANGED <<opt, disk, gone, rows, counted, late, confirmed>>
    BY <1>5 DEF FormPairs
  <2>2. pairs' \subseteq Pair  BY <2>1 DEF Topmost, Candidates
  <2> QED  BY <2>1, <2>2, QuietPass, StillDisk DEF NothingVerifiedYet, ContentCompared
<1>6. ASSUME NEW p \in pairs, NEW d \in p, Count(p, d) PROVE PassInv'
  BY <1>6, CountPass
<1>7. ASSUME NEW p \in pairs, TurnDown(p) PROVE PassInv'
  <2>1. phase = "verify" /\ pairs' = pairs \ {p}
        /\ UNCHANGED <<opt, disk, gone, phase, rows, counted, late, confirmed>>
    BY <1>7 DEF TurnDown, Turn, scanVars
  <2> QED
    BY <2>1, QuietPass, StillDisk DEF PassInv, ConfirmedVerified, NothingVerifiedYet, ContentCompared
<1>8. ASSUME NEW p \in pairs, Confirm(p) PROVE PassInv'
  BY <1>8, ConfirmPass
<1>9. CASE EndOfVerify
  <2>1. phase = "verify" /\ pairs' = (IF opt.checksum THEN confirmed ELSE {})
        /\ phase' = (IF opt.checksum THEN "content" ELSE "done")
        /\ UNCHANGED <<opt, disk, gone, rows, counted, late, confirmed>>
    BY <1>9 DEF EndOfVerify
  <2>2. pairs' \subseteq Pair  BY <2>1 DEF PassInv, ConfirmedVerified
  <2>3. NothingVerifiedYet'  BY <2>1 DEF NothingVerifiedYet
  <2>4. ContentCompared'  BY <2>1 DEF ContentCompared
  <2> QED  BY <2>1, <2>2, <2>3, <2>4, QuietPass, StillDisk
<1>10. ASSUME NEW p \in pairs, KeepPair(p) PROVE PassInv'
  <2>1. phase = "content" /\ (SameContent(p) \/ p \subseteq Flaky) /\ pairs' = pairs \ {p}
        /\ UNCHANGED <<opt, disk, gone, phase, rows, counted, late, confirmed>>
    BY <1>10 DEF KeepPair, PartsAgree, scanVars
  <2>2. ContentCompared'  BY <2>1, SameStore DEF PassInv, ContentCompared
  <2>3. NothingVerifiedYet' /\ pairs' \subseteq Pair
    BY <2>1 DEF PassInv, NothingVerifiedYet, ConfirmedVerified
  <2> QED  BY <2>1, <2>2, <2>3, QuietPass, StillDisk
<1>11. ASSUME NEW p \in pairs, DropPair(p) PROVE PassInv'
  BY <1>11, DropPass
<1>12. CASE EndOfPass
  <2>1. phase = "content" /\ pairs = {} /\ phase' = "done"
        /\ UNCHANGED <<opt, disk, gone, rows, pairs, counted, late, confirmed>>
    BY <1>12 DEF EndOfPass, treeVars
  <2>2. ContentCompared'  BY <2>1, SameStore DEF PassInv, ContentCompared
  <2> QED  BY <2>1, <2>2, QuietPass, StillDisk DEF NothingVerifiedYet, PassInv, ConfirmedVerified
<1>13. ASSUME UNCHANGED <<opt, phase, rows, pairs, counted, confirmed>>,
              \A d \in Dir : counted[d] = "full" => OnDisk(d)' \ late' \subseteq OnDisk(d) \ late,
              gone \subseteq gone', disk \subseteq disk' \cup gone'
       PROVE  PassInv'
  <2>1. NothingVerifiedYet'  BY <1>13 DEF PassInv, NothingVerifiedYet
  <2>2. ContentCompared'  BY <1>13, SameStore DEF PassInv, ContentCompared
  <2> QED  BY <1>13, <2>1, <2>2, QuietPass DEF PassInv, ConfirmedVerified
<1>14. ASSUME NEW f \in Fresh, Arrive(f) PROVE PassInv'
  <2>1. /\ disk' = disk \cup PathsOf(f)
        /\ late' = late \cup {g \in PathsOf(f) : \E d \in Dir : counted[d] # "not" /\ Within(d, g)}
        /\ UNCHANGED <<opt, gone, phase, rows, pairs, counted, confirmed>>
    BY <1>14 DEF Arrive, Appear
  <2>2. \A d \in Dir : counted[d] = "full" => OnDisk(d)' \ late' \subseteq OnDisk(d) \ late
    BY <2>1 DEF OnDisk
  <2> QED  BY <1>13, <2>1, <2>2
<1>15. ASSUME NEW f \in Fleeting, Vanish(f), UNCHANGED treeVars PROVE PassInv'
  <2>1. /\ disk' = disk \ PathsOf(f) /\ gone' = gone \cup PathsOf(f)
        /\ UNCHANGED <<opt, phase, rows, pairs, counted, late, confirmed>>
    BY <1>15 DEF Vanish, treeVars
  <2>2. \A d \in Dir : OnDisk(d)' \ late' \subseteq OnDisk(d) \ late
    BY <2>1 DEF OnDisk
  <2> QED  BY <1>13, <2>1, <2>2
<1>16. CASE UNCHANGED vars
  BY <1>13, <1>16, StillDisk DEF vars, scanVars, treeVars
<1> QED
  BY <1>1, <1>2, <1>3, <1>4, <1>5, <1>6, <1>7, <1>8, <1>9, <1>10, <1>11, <1>12, <1>14, <1>15, <1>16
  DEF Next

(* Below one directory a relative path names one file.                     *)
LEMMA RelPathNames ==
  ASSUME NEW e \in Dir, NEW f \in File, NEW g \in File, Within(e, f), Within(e, g),
         RelPath(e, f) = RelPath(e, g)
  PROVE  f = g
<1> DEFINE C == UNION {ToSet(PathTo[m]) : m \in Node}
           s == PathTo[f]
           t == PathTo[g]
           n == Len(PathTo[e])
<1>1. s \in Seq(C) /\ t \in Seq(C)  BY PathType, NodeKinds
<1>2. n \in Nat /\ n <= Len(s) /\ n <= Len(t) /\ \A i \in 1 .. n : s[i] = t[i]
  BY NodeKinds, WithinElements
<1>3. SubSeq(s, n + 1, Len(s)) = SubSeq(t, n + 1, Len(t))  BY DEF RelPath
<1>4. s = t
  <2> HIDE DEF C, s, t, n
  <2>1. Len(s) - n = Len(t) - n  BY <1>1, <1>2, <1>3, TailLength
  <2>2. Len(s) = Len(t) /\ Len(s) \in Nat  BY <1>1, <1>2, <2>1
  <2>3. ASSUME NEW i \in n + 1 .. Len(s) PROVE s[i] = t[i]
    <3>1. i - n \in 1 .. Len(s) - n  BY <1>2, <2>2, <2>3
    <3>2. SubSeq(s, n + 1, Len(s))[i - n] = s[i] /\ SubSeq(t, n + 1, Len(t))[i - n] = t[i]
      BY <1>1, <1>2, <2>2, <2>3, <3>1
    <3> QED  BY <1>3, <3>2
  <2>4. \A i \in 1 .. Len(s) : s[i] = t[i]
    <3> SUFFICES ASSUME NEW i \in 1 .. Len(s) PROVE s[i] = t[i]  OBVIOUS
    <3>1. i \in 1 .. n \/ i \in n + 1 .. Len(s)  BY <1>2, <2>2
    <3> QED  BY <1>2, <2>3, <3>1
  <2> QED  BY <1>1, <2>2, <2>4, SameSequence
<1> QED  BY <1>4, ScanAssumption, NodeKinds

(* A tree is only offered whole, for every tree, every flag and whatever   *)
(* appears or vanishes during the pass: each file below one side has its   *)
(* counterpart below the other, unless it came after the guard's count, of *)
(* the same content where the store can list one of the sides              *)
(* (store_tree.go, countFilesOnDisk, incompleteDir, treePairContentEqual). *)
THEOREM TreesAreWhole == NoRootIsTop /\ RulesAlwaysSet => (Spec => []WholeTrees)
<1> SUFFICES ASSUME NoRootIsTop, RulesAlwaysSet PROVE Spec => []WholeTrees  OBVIOUS
<1>1. WalkInv /\ PassInv => WholeTrees
  <2> SUFFICES ASSUME WalkInv, PassInv, phase = "done", NEW p \in confirmed,
                      \A d \in p : FilesUnderDir(d) \cap gone = {},
                      NEW d \in p, NEW e \in p, d # e, NEW f \in OnDisk(d) \ late
               PROVE  \E g \in OnDisk(e) :
                        IF p \subseteq Flaky THEN Entry(d, f) = Entry(e, g)
                        ELSE Counterpart(d, f, e, g)
    BY DEF WholeTrees
  <2>1. SameListing(p) /\ counted[d] = "full" /\ d \in Dir /\ e \in Dir
    <3>1. SameListing(p) /\ Complete(p) /\ d \in Dir /\ e \in Dir
      BY DEF PassInv, ConfirmedVerified, Pair
    <3> QED  BY <3>1 DEF Complete, Armed, RulesAlwaysSet, WalkInv, WalkTyped
  <2>2. f \in FilesUnderDir(d)  BY <2>1 DEF PassInv, FullIsWhole
  <2>3. PICK g \in FilesUnderDir(e) : Entry(e, g) = Entry(d, f)  BY <2>1, <2>2 DEF SameListing
  <2>4. g \in OnDisk(e) /\ g \in File /\ Within(e, g)
    BY DEF PassInv, RowsWereThere, FilesUnderDir, RowsUnder, OnDisk, WalkInv, WalkTyped, RowsWanted, Wanted
  <2>5. ASSUME opt.checksum, ~(p \subseteq Flaky) PROVE Content[f] = Content[g]
    <3>1. SameContent(p)  BY <2>5 DEF PassInv, ContentCompared
    <3>2. PICK h \in FilesUnderDir(e) : RelPath(e, h) = RelPath(d, f) /\ Content[h] = Content[f]
      BY <2>2, <3>1 DEF SameContent
    <3>3. h \in File /\ Within(e, h)
      BY DEF FilesUnderDir, RowsUnder, WalkInv, WalkTyped
    <3>4. RelPath(e, g) = RelPath(d, f)  BY <2>3 DEF Entry
    <3> QED  BY <2>1, <2>4, <3>2, <3>3, <3>4, RelPathNames
  <2> QED  BY <2>3, <2>4, <2>5 DEF Counterpart
<1>2. Init => WalkInv /\ PassInv  BY InitWalk, InitPass
<1>3. WalkInv /\ PassInv /\ [Next]_vars => (WalkInv /\ PassInv)'  BY NextWalk, NextPass
<1> QED  BY <1>1, <1>2, <1>3, PTL DEF Spec

-----------------------------------------------------------------------------
(* Sums over sets.  MapThenSumSet takes the elements in an order CHOOSE    *)
(* gives; that no order matters goes by the number of elements.            *)
Rest(s) == s \ {CHOOSE x \in s : TRUE}
Sums(g, v, S) ==
  g = [s \in SUBSET S |-> IF s = {} THEN 0 ELSE v[CHOOSE x \in s : TRUE] + g[Rest(s)]]

LEMMA SumOf ==
  ASSUME NEW g, NEW v, NEW S, Sums(g, v, S), NEW s \in SUBSET S
  PROVE  g[s] = IF s = {} THEN 0 ELSE v[CHOOSE x \in s : TRUE] + g[Rest(s)]
BY DEF Sums

LEMMA RestIsSmaller ==
  ASSUME NEW s, IsFiniteSet(s), s # {}
  PROVE  /\ (CHOOSE x \in s : TRUE) \in s /\ Rest(s) \subseteq s /\ IsFiniteSet(Rest(s))
         /\ Cardinality(Rest(s)) \in Nat /\ Cardinality(s) \in Nat
         /\ Cardinality(Rest(s)) < Cardinality(s)
<1>1. (CHOOSE x \in s : TRUE) \in s  OBVIOUS
<1>2. IsFiniteSet(Rest(s)) /\ Cardinality(Rest(s)) = Cardinality(s) - 1
  BY <1>1, FS_RemoveElement DEF Rest
<1> QED  BY <1>1, <1>2, FS_CardinalityType DEF Rest

(* Two sums over sets that hold s agree on s.                              *)
LEMMA SumsAgree ==
  ASSUME NEW v, NEW S, NEW T, IsFiniteSet(S), NEW g, NEW h, Sums(g, v, S), Sums(h, v, T)
  PROVE  \A s \in SUBSET S : s \subseteq T => g[s] = h[s]
<1> DEFINE Bad == {s \in SUBSET S : s \subseteq T /\ g[s] # h[s]}
           Sizes == {n \in Nat : \E s \in Bad : Cardinality(s) = n}
<1>0. \A s \in SUBSET S : IsFiniteSet(s) /\ Cardinality(s) \in Nat  BY FS_Subset, FS_CardinalityType
<1> SUFFICES ASSUME Bad # {} PROVE FALSE  OBVIOUS
<1>1. Sizes \subseteq Nat /\ Sizes # {}  BY <1>0
<1>2. Min(Sizes) \in Sizes /\ \A k \in Sizes : Min(Sizes) <= k
  <2> HIDE DEF Sizes
  <2> QED  BY <1>1, MinIsLeast
<1>3. PICK s \in Bad : Cardinality(s) = Min(Sizes)  BY <1>2
<1>4. s \in SUBSET S /\ s \in SUBSET T /\ g[s] # h[s]  BY <1>3
<1>5. s # {}  BY <1>4, SumOf
<1>6. Rest(s) \in SUBSET S /\ Rest(s) \subseteq T /\ Cardinality(Rest(s)) < Cardinality(s)
      /\ Cardinality(Rest(s)) \in Nat
  BY <1>0, <1>4, <1>5, RestIsSmaller
<1>7. g[Rest(s)] = h[Rest(s)]
  <2>1. Cardinality(Rest(s)) \notin Sizes  BY <1>2, <1>3, <1>6
  <2> QED  BY <1>6, <2>1
<1> QED  BY <1>4, <1>5, <1>7, SumOf

(* Over a finite set there is a sum.                                       *)
LEMMA SumsExist ==
  ASSUME NEW v, NEW S, IsFiniteSet(S)
  PROVE  \E g : Sums(g, v, S)
<1> DEFINE Bad == {s \in SUBSET S : ~\E g : Sums(g, v, s)}
           Sizes == {n \in Nat : \E s \in Bad : Cardinality(s) = n}
<1>0. \A s \in SUBSET S : IsFiniteSet(s) /\ Cardinality(s) \in Nat  BY FS_Subset, FS_CardinalityType
<1> SUFFICES ASSUME Bad # {} PROVE FALSE  OBVIOUS
<1>1. Sizes \subseteq Nat /\ Sizes # {}  BY <1>0
<1>2. Min(Sizes) \in Sizes /\ \A k \in Sizes : Min(Sizes) <= k
  <2> HIDE DEF Sizes
  <2> QED  BY <1>1, MinIsLeast
<1>3. PICK B \in Bad : Cardinality(B) = Min(Sizes)  BY <1>2
<1>4. B \in SUBSET S /\ ~\E g : Sums(g, v, B)  BY <1>3
<1> DEFINE Part(t) == CHOOSE g : Sums(g, v, t)
           G == [s \in SUBSET B |->
                   IF s = {} THEN 0 ELSE v[CHOOSE x \in s : TRUE] + Part(Rest(s))[Rest(s)]]
<1>5. ASSUME NEW t \in SUBSET B, t # B PROVE Sums(Part(t), v, t)
  <2>1. Cardinality(t) < Cardinality(B) /\ t \in SUBSET S
    <3>1. IsFiniteSet(B) /\ t \in SUBSET S  BY <1>0, <1>4
    <3>2. Cardinality(t) <= Cardinality(B) /\ Cardinality(t) # Cardinality(B)
      BY <1>5, <3>1, FS_Subset
    <3> QED  BY <1>0, <1>4, <3>1, <3>2
  <2>2. Cardinality(t) \notin Sizes  BY <1>0, <1>2, <1>3, <1>4, <2>1
  <2>3. \E g : Sums(g, v, t)  BY <1>0, <2>1, <2>2
  <2> QED  BY <2>3
<1> HIDE DEF Part
<1>6. ASSUME NEW s \in SUBSET B, s # {} PROVE G[Rest(s)] = Part(Rest(s))[Rest(s)]
  <2> DEFINE t == Rest(s)
  <2>1. t \in SUBSET B /\ t # B /\ IsFiniteSet(t)
    <3>1. IsFiniteSet(s) /\ s \in SUBSET S  BY <1>0, <1>4
    <3>2. (CHOOSE x \in s : TRUE) \in s  BY <1>6
    <3>3. (CHOOSE x \in s : TRUE) \notin t  BY DEF Rest
    <3> QED  BY <1>6, <3>1, <3>2, <3>3, RestIsSmaller
  <2>2. Sums(Part(t), v, t)
    <3> HIDE DEF t
    <3> QED  BY <1>5, <2>1
  <2>3. CASE t = {}
    <3>1. Part(t)[t] = 0  BY <2>2, <2>3, SumOf
    <3> QED  BY <2>1, <2>3, <3>1
  <2>4. CASE t # {}
    <3> DEFINE u == Rest(t)
    <3>1. u \in SUBSET t /\ u # t /\ u \in SUBSET B /\ u # B /\ IsFiniteSet(u)
      <4>1. (CHOOSE x \in t : TRUE) \in t  BY <2>4
      <4>2. (CHOOSE x \in t : TRUE) \notin u  BY DEF Rest
      <4>3. u \subseteq t /\ IsFiniteSet(u)  BY <2>1, <2>4, RestIsSmaller
      <4> QED  BY <2>1, <4>1, <4>2, <4>3
    <3>2. Sums(Part(u), v, u)
      <4> HIDE DEF u
      <4> QED  BY <1>5, <3>1
    <3>3. Part(t)[u] = Part(u)[u]
      <4> HIDE DEF u, t
      <4> QED  BY <2>1, <2>2, <3>1, <3>2, SumsAgree
    <3>4. Part(t)[t] = v[CHOOSE x \in t : TRUE] + Part(t)[u]
      <4> HIDE DEF t
      <4> QED  BY <2>2, <2>4, SumOf
    <3>5. G[t] = v[CHOOSE x \in t : TRUE] + Part(u)[u]
      BY <2>1, <2>4
    <3> QED  BY <3>3, <3>4, <3>5
  <2> QED  BY <2>3, <2>4
<1>7. G = [s \in SUBSET B |-> IF s = {} THEN 0 ELSE v[CHOOSE x \in s : TRUE] + G[Rest(s)]]
  <2> DEFINE H == [s \in SUBSET B |-> IF s = {} THEN 0 ELSE v[CHOOSE x \in s : TRUE] + G[Rest(s)]]
  <2>1. ASSUME NEW s \in SUBSET B PROVE G[s] = H[s]
    <3>1. CASE s = {}  BY <3>1
    <3>2. CASE s # {}
      <4>1. G[s] = v[CHOOSE x \in s : TRUE] + Part(Rest(s))[Rest(s)]  BY <3>2
      <4>2. H[s] = v[CHOOSE x \in s : TRUE] + G[Rest(s)]
        <5> HIDE DEF G
        <5> QED  BY <3>2
      <4> HIDE DEF G, H
      <4> QED  BY <1>6, <3>2, <4>1, <4>2
    <3> QED  BY <3>1, <3>2
  <2>2. DOMAIN G = SUBSET B /\ DOMAIN H = SUBSET B  OBVIOUS
  <2>3. G = [s \in SUBSET B |-> G[s]] /\ H = [s \in SUBSET B |-> H[s]]  OBVIOUS
  <2> HIDE DEF G, H
  <2>4. G = H  BY <2>1, <2>2, <2>3
  <2> QED  BY <2>4 DEF H
<1>8. Sums(G, v, B)  BY <1>7 DEF Sums
<1> QED  BY <1>4, <1>8

(* Sums of naturals, and any element of a set taken first.                 *)
LEMMA SumIsNat ==
  ASSUME NEW S, IsFiniteSet(S), NEW v \in [S -> Nat], NEW g, Sums(g, v, S)
  PROVE  \A s \in SUBSET S : g[s] \in Nat
<1> DEFINE Bad == {s \in SUBSET S : g[s] \notin Nat}
           Sizes == {n \in Nat : \E s \in Bad : Cardinality(s) = n}
<1>0. \A s \in SUBSET S : IsFiniteSet(s) /\ Cardinality(s) \in Nat  BY FS_Subset, FS_CardinalityType
<1> SUFFICES ASSUME Bad # {} PROVE FALSE  OBVIOUS
<1>1. Sizes \subseteq Nat /\ Sizes # {}  BY <1>0
<1>2. Min(Sizes) \in Sizes /\ \A k \in Sizes : Min(Sizes) <= k
  <2> HIDE DEF Sizes
  <2> QED  BY <1>1, MinIsLeast
<1>3. PICK s \in Bad : Cardinality(s) = Min(Sizes)  BY <1>2
<1>4. s \in SUBSET S /\ g[s] \notin Nat  BY <1>3
<1>5. s # {}  BY <1>4, SumOf
<1>6. Rest(s) \in SUBSET S /\ Cardinality(Rest(s)) < Cardinality(s)
      /\ Cardinality(Rest(s)) \in Nat /\ (CHOOSE x \in s : TRUE) \in S
  BY <1>0, <1>4, <1>5, RestIsSmaller
<1>7. g[Rest(s)] \in Nat
  <2>1. Cardinality(Rest(s)) \notin Sizes  BY <1>2, <1>3, <1>6
  <2> QED  BY <1>6, <2>1
<1>8. v[CHOOSE x \in s : TRUE] \in Nat  BY <1>6
<1>9. g[s] = v[CHOOSE x \in s : TRUE] + g[Rest(s)]  BY <1>4, <1>5, SumOf
<1> QED  BY <1>4, <1>7, <1>8, <1>9

LEMMA AnyFirst ==
  ASSUME NEW S, IsFiniteSet(S), NEW v \in [S -> Nat], NEW g, Sums(g, v, S)
  PROVE  \A s \in SUBSET S : \A y \in s : g[s] = v[y] + g[s \ {y}]
<1> DEFINE Bad == {s \in SUBSET S : \E y \in s : g[s] # v[y] + g[s \ {y}]}
           Sizes == {n \in Nat : \E s \in Bad : Cardinality(s) = n}
<1>0. \A s \in SUBSET S : IsFiniteSet(s) /\ Cardinality(s) \in Nat  BY FS_Subset, FS_CardinalityType
<1> SUFFICES ASSUME Bad # {} PROVE FALSE  OBVIOUS
<1>1. Sizes \subseteq Nat /\ Sizes # {}  BY <1>0
<1>2. Min(Sizes) \in Sizes /\ \A k \in Sizes : Min(Sizes) <= k
  <2> HIDE DEF Sizes
  <2> QED  BY <1>1, MinIsLeast
<1>3. PICK s \in Bad : Cardinality(s) = Min(Sizes)  BY <1>2
<1>4. PICK y \in s : g[s] # v[y] + g[s \ {y}]  BY <1>3
<1>5. s \in SUBSET S /\ s # {}  BY <1>3, <1>4
<1> DEFINE x == CHOOSE x \in s : TRUE
<1>6. g[s] = v[x] + g[s \ {x}] /\ x \in s
  BY <1>5, SumOf DEF Rest
<1>7. ASSUME NEW z \in s, NEW w \in s \ {z} PROVE g[s \ {z}] = v[w] + g[(s \ {z}) \ {w}]
  <2>1. s \ {z} \in SUBSET S /\ Cardinality(s \ {z}) < Cardinality(s)
    <3>1. IsFiniteSet(s)  BY <1>0, <1>5
    <3>2. Cardinality(s \ {z}) = Cardinality(s) - 1  BY <3>1, FS_RemoveElement
    <3> QED  BY <1>0, <1>5, <3>2
  <2>2. Cardinality(s \ {z}) \notin Sizes
    <3>1. Cardinality(s \ {z}) \in Nat /\ Cardinality(s) \in Nat  BY <1>0, <1>5, <2>1
    <3> HIDE DEF Sizes, Bad
    <3> QED  BY <1>2, <1>3, <2>1, <3>1
  <2>3. s \ {z} \notin Bad  BY <1>0, <2>1, <2>2
  <2> QED  BY <2>1, <2>3
<1>8. x # y  BY <1>4, <1>6
<1> HIDE DEF x
<1>9. g[s \ {x}] = v[y] + g[(s \ {x}) \ {y}] /\ g[s \ {y}] = v[x] + g[(s \ {y}) \ {x}]
  BY <1>6, <1>7, <1>8
<1>10. (s \ {x}) \ {y} = (s \ {y}) \ {x}  OBVIOUS
<1>11. v[x] \in Nat /\ v[y] \in Nat /\ g[(s \ {x}) \ {y}] \in Nat
  <2>1. (s \ {x}) \ {y} \in SUBSET S  BY <1>5
  <2> QED  BY <1>5, <1>6, <2>1, SumIsNat
<1>12. g[s] = v[x] + (v[y] + g[(s \ {x}) \ {y}])  BY <1>6, <1>9
<1>13. v[y] + g[s \ {y}] = v[y] + (v[x] + g[(s \ {x}) \ {y}])  BY <1>9, <1>10
<1>14. g[s] = v[y] + g[s \ {y}]  BY <1>11, <1>12, <1>13
<1> QED  BY <1>4, <1>14

(* Equal values in any arrangement have equal sums.                        *)
LEMMA SumsMatch ==
  ASSUME NEW S, NEW T, IsFiniteSet(S), IsFiniteSet(T), NEW v \in [S -> Nat], NEW u \in [T -> Nat],
         NEW g, NEW h, Sums(g, v, S), Sums(h, u, T),
         NEW b \in Bijection(S, T), \A x \in S : v[x] = u[b[x]]
  PROVE  g[S] = h[T]
<1> DEFINE Image(s) == {b[x] : x \in s}
           Bad == {s \in SUBSET S : g[s] # h[Image(s)]}
           Sizes == {n \in Nat : \E s \in Bad : Cardinality(s) = n}
<1>0. \A s \in SUBSET S : IsFiniteSet(s) /\ Cardinality(s) \in Nat  BY FS_Subset, FS_CardinalityType
<1>b. b \in [S -> T] /\ (\A x, y \in S : b[x] = b[y] => x = y) /\ Image(S) = T
  BY DEF Bijection, Injection, IsInjective, Surjection
<1>1. Bad = {}
  <2> SUFFICES ASSUME Bad # {} PROVE FALSE  OBVIOUS
  <2>1. Sizes \subseteq Nat /\ Sizes # {}  BY <1>0
  <2>2. Min(Sizes) \in Sizes /\ \A k \in Sizes : Min(Sizes) <= k
    <3> HIDE DEF Sizes
    <3> QED  BY <2>1, MinIsLeast
  <2>3. PICK s \in Bad : Cardinality(s) = Min(Sizes)  BY <2>2
  <2>4. s \in SUBSET S /\ g[s] # h[Image(s)]  BY <2>3
  <2>5. s # {}
    <3> SUFFICES ASSUME s = {} PROVE FALSE  OBVIOUS
    <3>1. Image(s) = {}  OBVIOUS
    <3>2. g[{}] = 0 /\ h[{}] = 0  BY SumOf
    <3> QED  BY <2>4, <3>1, <3>2
  <2>6. PICK x \in s : TRUE  BY <2>5
  <2> DEFINE r == s \ {x}
  <2>7. r \in SUBSET S /\ Cardinality(r) < Cardinality(s)
    <3>1. IsFiniteSet(s)  BY <1>0, <2>4
    <3>2. Cardinality(r) = Cardinality(s) - 1  BY <3>1, FS_RemoveElement
    <3> QED  BY <1>0, <2>4, <3>2
  <2>8. Cardinality(r) \notin Sizes
    <3>1. Cardinality(r) \in Nat /\ Cardinality(s) \in Nat  BY <1>0, <2>4, <2>7
    <3> HIDE DEF Sizes, Bad, r
    <3> QED  BY <2>2, <2>3, <2>7, <3>1
  <2>9. g[r] = h[Image(r)]  BY <1>0, <2>7, <2>8
  <2>10. Image(r) = Image(s) \ {b[x]}  BY <1>b, <2>4
  <2>11. Image(s) \in SUBSET T /\ b[x] \in Image(s)  BY <1>b, <2>4
  <2>12. h[Image(s)] = u[b[x]] + h[Image(s) \ {b[x]}]
    <3> HIDE DEF Image
    <3> QED  BY <2>11, AnyFirst
  <2>13. g[s] = v[x] + g[r]  BY <2>4, AnyFirst
  <2>14. v[x] = u[b[x]]  BY <2>4
  <2> HIDE DEF Image, r
  <2> QED  BY <2>4, <2>9, <2>10, <2>12, <2>13, <2>14
<1> QED  BY <1>1, <1>b

-----------------------------------------------------------------------------
(* What becomes of a pair of whole twins.  Its files neither come nor go,  *)
(* so it is the same pair from the hashing of the directories on.          *)
DirHash(d) == MapThenSumSet(LAMBDA w : HashOf[Entry(d, w.file)], RowsUnder(d)) % HashMod

IsSteady(d) == {f \in File : Within(d, f)} \cap (Fresh \cup Fleeting) = {}

Hashed ==
  phase \notin {"walk", "hash"} =>
    \A d \in Dir : accum[d] = [hash |-> DirHash(d), fileCount |-> CountUnderDir(d)]

SteadyStays == File \ (Fresh \cup Fleeting) \subseteq disk /\ disk \subseteq File /\ gone \subseteq Fleeting

ShortForCause ==
  \A d \in Dir : counted[d] = "short" /\ IsSteady(d) =>
                   ~(CanCount(d) /\ Cardinality(OnDisk(d)) = CountUnderDir(d))

Considered ==
  /\ phase = "verify" => Topmost(Candidates) \subseteq pairs \cup confirmed \cup turned
  /\ phase \in {"content", "done"} => Topmost(Candidates) \subseteq confirmed \cup turned

TurnedForCause ==
  /\ phase \in {"walk", "hash", "pair"} => turned = {}
  /\ \A p \in turned : p \in Pair /\ ~Twins(p)

LostInv ==
  /\ Hashed /\ SteadyStays /\ ShortForCause /\ Considered /\ TurnedForCause
  /\ phase = "content" => opt.checksum

LEMMA SteadyOnDisk ==
  ASSUME SteadyStays, NEW d, IsSteady(d)
  PROVE  OnDisk(d) = {f \in File \ Special : Within(d, f)}
BY DEF SteadyStays, IsSteady, OnDisk

(* The rows of the two sides match one another.                            *)
LEMMA RowsMatch ==
  ASSUME WalkInv, NoRootIsTop, NEW p \in Pair, Twins(p), NEW d \in p, NEW e \in p, d # e
  PROVE  \E b \in Bijection(RowsUnder(d), RowsUnder(e)) :
           \A w \in RowsUnder(d) : Entry(d, w.file) = Entry(e, b[w].file)
<1> DEFINE Match(w, v) == Entry(d, w.file) = Entry(e, v.file)
           b == [w \in RowsUnder(d) |-> CHOOSE v \in RowsUnder(e) : Match(w, v)]
<1>1. d \in Dir /\ e \in Dir  BY DEF Pair
<1>2. \A w \in RowsUnder(d) : w \in rows /\ w.file \in File /\ Within(d, w.file)
  BY DEF RowsUnder, WalkInv, WalkTyped
<1>3. \A w \in RowsUnder(e) : w \in rows /\ w.file \in File /\ Within(e, w.file)
  BY DEF RowsUnder, WalkInv, WalkTyped
<1>4. ASSUME NEW w \in RowsUnder(d) PROVE \E v \in RowsUnder(e) : Match(w, v)
  <2>1. w.file \in OnDisk(d)  BY DEF Twins, FilesUnderDir
  <2>2. PICK g \in OnDisk(e) : Entry(d, w.file) = Entry(e, g)  BY <2>1 DEF Twins, Counterpart
  <2> QED  BY <2>2 DEF Twins, FilesUnderDir
<1>5. ASSUME NEW v \in RowsUnder(e) PROVE \E w \in RowsUnder(d) : Match(w, v)
  <2>1. v.file \in OnDisk(e)  BY DEF Twins, FilesUnderDir
  <2>2. PICK g \in OnDisk(d) : Entry(e, v.file) = Entry(d, g)  BY <2>1 DEF Twins, Counterpart
  <2> QED  BY <2>2 DEF Twins, FilesUnderDir
<1>6. ASSUME NEW w \in RowsUnder(d), NEW x \in RowsUnder(d), Entry(d, w.file) = Entry(d, x.file)
      PROVE  w = x
  <2>1. RelPath(d, w.file) = RelPath(d, x.file)  BY <1>6 DEF Entry
  <2> QED  BY <1>1, <1>2, <2>1, RelPathNames, OneRow
<1>7. ASSUME NEW v \in RowsUnder(e), NEW x \in RowsUnder(e), Entry(e, v.file) = Entry(e, x.file)
      PROVE  v = x
  <2>1. RelPath(e, v.file) = RelPath(e, x.file)  BY <1>7 DEF Entry
  <2> QED  BY <1>1, <1>3, <2>1, RelPathNames, OneRow
<1>8. \A w \in RowsUnder(d) : b[w] \in RowsUnder(e) /\ Match(w, b[w])
  <2> HIDE DEF Match
  <2> QED  BY <1>4
<1>9. b \in [RowsUnder(d) -> RowsUnder(e)]  BY <1>8
<1> HIDE DEF b
<1>10. \A w, x \in RowsUnder(d) : b[w] = b[x] => w = x  BY <1>6, <1>8
<1>11. \A v \in RowsUnder(e) : \E w \in RowsUnder(d) : b[w] = v  BY <1>5, <1>7, <1>8
<1>12. b \in Bijection(RowsUnder(d), RowsUnder(e))
  BY <1>9, <1>10, <1>11 DEF Bijection, Injection, IsInjective, Surjection
<1> QED  BY <1>8, <1>12

LEMMA RowsFinite ==
  ASSUME WalkInv, NoRootIsTop, NEW d \in Dir
  PROVE  IsFiniteSet(RowsUnder(d))
<1> DEFINE fileOf == [w \in RowsUnder(d) |-> w.file]
<1>1. fileOf \in [RowsUnder(d) -> FilesUnderDir(d)]  BY DEF FilesUnderDir
<1>2. \A w, v \in RowsUnder(d) : fileOf[w] = fileOf[v] => w = v  BY OneRow DEF RowsUnder
<1>3. fileOf \in Injection(RowsUnder(d), FilesUnderDir(d))  BY <1>1, <1>2 DEF Injection, IsInjective
<1> QED  BY <1>3, CountIsOfFiles, FS_Injection

LEMMA DirHashIsSum ==
  ASSUME WalkInv, NoRootIsTop, NEW d \in Dir
  PROVE  \E v \in [RowsUnder(d) -> Nat] : \E g :
           /\ \A w \in RowsUnder(d) : v[w] = HashOf[Entry(d, w.file)]
           /\ Sums(g, v, RowsUnder(d)) /\ DirHash(d) = g[RowsUnder(d)] % HashMod
<1> DEFINE v == [w \in RowsUnder(d) |-> HashOf[Entry(d, w.file)]]
<1>1. v \in [RowsUnder(d) -> Nat]
  BY TreeAssumption DEF RowsUnder, WalkInv, WalkTyped, Entry
<1>2. IsFiniteSet(RowsUnder(d))  BY RowsFinite
<1> DEFINE Shape(g) == g = [s \in SUBSET RowsUnder(d) |->
                              IF s = {} THEN 0
                              ELSE HashOf[Entry(d, (CHOOSE x \in s : TRUE).file)]
                                   + g[s \ {CHOOSE x \in s : TRUE}]]
           it == CHOOSE g : Shape(g)
<1>3. DirHash(d) = it[RowsUnder(d)] % HashMod
  BY DEF DirHash, MapThenSumSet, MapThenFoldSet
<1>4. \E g : Sums(g, v, RowsUnder(d))  BY <1>2, SumsExist
<1>5. ASSUME NEW g PROVE Sums(g, v, RowsUnder(d)) <=> Shape(g)
  <2>1. \A s \in SUBSET RowsUnder(d) : s # {} =>
          v[CHOOSE x \in s : TRUE] = HashOf[Entry(d, (CHOOSE x \in s : TRUE).file)]
    OBVIOUS
  <2> HIDE DEF v
  <2> QED  BY <2>1 DEF Sums, Rest
<1>6. Sums(it, v, RowsUnder(d))
  <2> HIDE DEF v, Shape
  <2>1. Shape(it)  BY <1>4, <1>5
  <2> HIDE DEF it
  <2> QED  BY <1>5, <2>1
<1>7. \A w \in RowsUnder(d) : v[w] = HashOf[Entry(d, w.file)]  OBVIOUS
<1> HIDE DEF v, it, Shape
<1> QED  BY <1>1, <1>3, <1>6, <1>7

(* Whole twins hash and count alike, whichever way the sums were taken.    *)
LEMMA TwinsHashAlike ==
  ASSUME WalkInv, NoRootIsTop, NEW p \in Pair, Twins(p), NEW d \in p, NEW e \in p
  PROVE  DirHash(d) = DirHash(e) /\ CountUnderDir(d) = CountUnderDir(e)
<1>0. d \in Dir /\ e \in Dir  BY DEF Pair
<1> SUFFICES ASSUME d # e PROVE DirHash(d) = DirHash(e) /\ CountUnderDir(d) = CountUnderDir(e)
  OBVIOUS
<1>1. PICK b \in Bijection(RowsUnder(d), RowsUnder(e)) :
             \A w \in RowsUnder(d) : Entry(d, w.file) = Entry(e, b[w].file)
  BY RowsMatch
<1>2. b \in [RowsUnder(d) -> RowsUnder(e)] /\ b \in Injection(RowsUnder(d), RowsUnder(e))
      /\ b \in Surjection(RowsUnder(d), RowsUnder(e))
  BY DEF Bijection, Injection
<1>3. PICK v \in [RowsUnder(d) -> Nat] : \E g :
           /\ \A w \in RowsUnder(d) : v[w] = HashOf[Entry(d, w.file)]
           /\ Sums(g, v, RowsUnder(d)) /\ DirHash(d) = g[RowsUnder(d)] % HashMod
  BY <1>0, DirHashIsSum
<1>4. PICK u \in [RowsUnder(e) -> Nat] : \E h :
           /\ \A w \in RowsUnder(e) : u[w] = HashOf[Entry(e, w.file)]
           /\ Sums(h, u, RowsUnder(e)) /\ DirHash(e) = h[RowsUnder(e)] % HashMod
  BY <1>0, DirHashIsSum
<1>5. \A w \in RowsUnder(d) : v[w] = u[b[w]]  BY <1>1, <1>2, <1>3, <1>4
<1>6. IsFiniteSet(RowsUnder(d)) /\ IsFiniteSet(RowsUnder(e))  BY <1>0, RowsFinite
<1>7. PICK g : Sums(g, v, RowsUnder(d)) /\ DirHash(d) = g[RowsUnder(d)] % HashMod  BY <1>3
<1>8. PICK h : Sums(h, u, RowsUnder(e)) /\ DirHash(e) = h[RowsUnder(e)] % HashMod  BY <1>4
<1>9. g[RowsUnder(d)] = h[RowsUnder(e)]  BY <1>5, <1>6, <1>7, <1>8, SumsMatch
<1>10. CountUnderDir(d) = CountUnderDir(e)
  BY <1>2, <1>6, FS_Surjection DEF CountUnderDir
<1> QED  BY <1>7, <1>8, <1>9, <1>10

-----------------------------------------------------------------------------
LEMMA TwinsAreAlike ==
  ASSUME WalkInv, NoRootIsTop, NEW p \in Pair, Twins(p)
  PROVE  SameListing(p)
<1> SUFFICES ASSUME NEW d \in p, NEW e \in p
             PROVE  /\ CountUnderDir(d) = CountUnderDir(e) /\ CountUnderDir(d) > 0
                    /\ {Entry(d, f) : f \in FilesUnderDir(d)} = {Entry(e, f) : f \in FilesUnderDir(e)}
  BY DEF SameListing
<1>1. d \in Dir /\ e \in Dir  BY DEF Pair
<1>2. CountUnderDir(d) = CountUnderDir(e)  BY TwinsHashAlike
<1>3. CountUnderDir(d) > 0
  <2>1. Cardinality(FilesUnderDir(d)) \in MinFiles .. Cardinality(File)  BY DEF Twins
  <2>2. Cardinality(FilesUnderDir(d)) \in Nat  BY <1>1, CountIsOfFiles, FS_CardinalityType
  <2>3. Cardinality(File) \in Nat  BY FilesFinite, FS_CardinalityType
  <2> QED  BY <1>1, <2>1, <2>2, <2>3, CountIsOfFiles, TreeAssumption
<1>4. ASSUME NEW a \in p, NEW b \in p, NEW f \in FilesUnderDir(a)
      PROVE  \E g \in FilesUnderDir(b) : Entry(b, g) = Entry(a, f)
  BY DEF Twins, Counterpart
<1> QED  BY <1>2, <1>3, <1>4

LEMMA TwinsHoldTheSame ==
  ASSUME NEW p, Twins(p), opt.checksum
  PROVE  SameContent(p)
<1> SUFFICES ASSUME NEW d \in p, NEW e \in p, NEW f \in FilesUnderDir(d)
             PROVE  \E g \in FilesUnderDir(e) :
                      RelPath(e, g) = RelPath(d, f) /\ Content[g] = Content[f]
  BY DEF SameContent
<1> QED  BY DEF Twins, Counterpart, Entry

(* Twins are a candidate pair.                                             *)
LEMMA TwinsAreCandidates ==
  ASSUME WalkInv, NoRootIsTop, Hashed, phase \notin {"walk", "hash"}, NEW p \in Pair, Twins(p)
  PROVE  p \in Candidates
<1> SUFFICES ASSUME NEW d \in p, NEW e \in p
             PROVE  /\ d # Top /\ accum[e] = accum[d] /\ ~IsSubdir(d, e)
                    /\ accum[d].fileCount >= MinFiles /\ Cardinality(Bucket(d)) <= MaxDirs
  BY DEF Candidates
<1>1. d \in Dir /\ e \in Dir  BY DEF Pair
<1>2. accum[d] = [hash |-> DirHash(d), fileCount |-> CountUnderDir(d)]
      /\ accum[e] = [hash |-> DirHash(e), fileCount |-> CountUnderDir(e)]
  BY <1>1 DEF Hashed
<1>3. accum[e] = accum[d]  BY <1>2, TwinsHashAlike
<1>4. accum[d].fileCount >= MinFiles
  <2>1. Cardinality(FilesUnderDir(d)) \in MinFiles .. Cardinality(File)  BY DEF Twins
  <2>2. Cardinality(FilesUnderDir(d)) \in Nat  BY <1>1, CountIsOfFiles, FS_CardinalityType
  <2>3. Cardinality(File) \in Nat  BY FilesFinite, FS_CardinalityType
  <2>4. Cardinality(FilesUnderDir(d)) >= MinFiles  BY <2>1, <2>2, <2>3, TreeAssumption
  <2> QED  BY <1>1, <1>2, <2>4, CountIsOfFiles
<1> QED  BY <1>3, <1>4 DEF Twins

-----------------------------------------------------------------------------
(* removeSubPairsFast: what it drops lies below a pair it keeps.           *)
LEMMA PairOf ==
  ASSUME NEW p \in Pair
  PROVE  \E a, b \in Dir : a # b /\ p = {a, b}
<1>1. PICK a \in Dir, b \in Dir : p = {a, b}  BY DEF Pair
<1>2. a # b
  <2>1. Cardinality({a}) = 1  BY FS_Singleton
  <2> QED  BY <1>1, <2>1 DEF Pair
<1> QED  BY <1>1, <1>2

LEMMA HoldsTransitive ==
  ASSUME NEW a \in Dir, NEW b \in Dir, NEW c \in Dir, Holds(a, b), Holds(b, c)
  PROVE  Holds(a, c)
BY NodeKinds, WithinTransitive DEF Holds, IsSubdir

Depth(d) == Len(PathTo[d])

LEMMA DepthIsNat == \A d \in Dir : Depth(d) \in Nat
BY NodeKinds, WithinElements DEF Depth

LEMMA HolderIsShorter ==
  ASSUME NEW a \in Dir, NEW c \in Dir, Holds(c, a), c # a
  PROVE  Depth(c) < Depth(a)
<1>1. c \in Node /\ a \in Node /\ Within(c, a)  BY NodeKinds DEF Holds, IsSubdir
<1>2. Len(PathTo[c]) \in Nat /\ Len(PathTo[a]) \in Nat /\ Len(PathTo[c]) <= Len(PathTo[a])
      /\ \A i \in 1 .. Len(PathTo[c]) : PathTo[c][i] = PathTo[a][i]
  BY <1>1, WithinElements
<1>3. Len(PathTo[c]) # Len(PathTo[a])
  <2> SUFFICES ASSUME Len(PathTo[c]) = Len(PathTo[a]) PROVE FALSE  OBVIOUS
  <2>1. PathTo[c] = PathTo[a]  BY <1>1, <1>2, PathType, SameSequence
  <2> QED  BY <1>1, <2>1, ScanAssumption
<1> QED  BY <1>2, <1>3 DEF Depth

(* Two sides around two sides.                                             *)
LEMMA Around ==
  ASSUME NEW q \in Pair, NEW p \in Pair, Dominates(q, p)
  PROVE  \E a, b, c, d \in Dir : /\ a # b /\ c # d /\ p = {a, b} /\ q = {c, d}
                                 /\ Holds(c, a) /\ Holds(d, b)
<1>1. PICK x \in Dir, y \in Dir : x # y /\ p = {x, y}  BY PairOf
<1>2. PICK z \in Dir, w \in Dir : z # w /\ q = {z, w}  BY PairOf
<1>3. PICK a \in p, b \in p, c \in q, d \in q : a # b /\ c # d /\ Holds(c, a) /\ Holds(d, b)
  BY DEF Dominates
<1>4. p = {a, b} /\ q = {c, d}  BY <1>1, <1>2, <1>3
<1> QED  BY <1>1, <1>2, <1>3, <1>4

LEMMA DominatesTransitive ==
  ASSUME NEW p \in Pair, NEW q \in Pair, NEW r \in Pair, Dominates(r, q), Dominates(q, p)
  PROVE  Dominates(r, p)
<1>1. PICK a \in Dir, b \in Dir, c \in Dir, d \in Dir :
        a # b /\ c # d /\ p = {a, b} /\ q = {c, d} /\ Holds(c, a) /\ Holds(d, b)
  BY Around
<1>2. PICK c2 \in Dir, d2 \in Dir, x \in Dir, y \in Dir :
        c2 # d2 /\ x # y /\ q = {c2, d2} /\ r = {x, y} /\ Holds(x, c2) /\ Holds(y, d2)
  BY Around
<1>3. \E u, v \in r : u # v /\ Holds(u, c) /\ Holds(v, d)
  BY <1>1, <1>2
<1>4. PICK u \in r, v \in r : u # v /\ Holds(u, c) /\ Holds(v, d)  BY <1>3
<1>5. u \in Dir /\ v \in Dir  BY <1>2
<1>6. Holds(u, a) /\ Holds(v, b)  BY <1>1, <1>4, <1>5, HoldsTransitive
<1> QED  BY <1>1, <1>4, <1>6 DEF Dominates

(* Measured by the paths of its sides.                                     *)
Measure(p, n) == \E a, b \in Dir : a # b /\ p = {a, b} /\ n = Depth(a) + Depth(b)

LEMMA MeasureIsOne ==
  ASSUME NEW p \in Pair
  PROVE  /\ \E n \in Nat : Measure(p, n)
         /\ \A m, n : Measure(p, m) /\ Measure(p, n) => m = n /\ m \in Nat
<1>1. \A d \in Dir : Depth(d) \in Nat  BY DepthIsNat
<1>2. PICK a \in Dir, b \in Dir : a # b /\ p = {a, b}  BY PairOf
<1> DEFINE n == Depth(a) + Depth(b)
<1>3. n \in Nat /\ Measure(p, n)  BY <1>1, <1>2 DEF Measure
<1>4. ASSUME NEW m, Measure(p, m) PROVE m = n
  <2>1. PICK x \in Dir, y \in Dir : x # y /\ p = {x, y} /\ m = Depth(x) + Depth(y)
    BY <1>4 DEF Measure
  <2>2. (x = a /\ y = b) \/ (x = b /\ y = a)  BY <1>2, <2>1
  <2> QED  BY <1>1, <2>1, <2>2
<1> HIDE DEF n
<1> QED  BY <1>3, <1>4

LEMMA DominatorMeasuresLess ==
  ASSUME NEW p \in Pair, NEW q \in Pair, Dominates(q, p), q # p,
         NEW m, NEW n, Measure(q, m), Measure(p, n)
  PROVE  m < n
<1>1. PICK a \in Dir, b \in Dir, c \in Dir, d \in Dir :
        a # b /\ c # d /\ p = {a, b} /\ q = {c, d} /\ Holds(c, a) /\ Holds(d, b)
  BY Around
<1>2. m = Depth(c) + Depth(d) /\ n = Depth(a) + Depth(b)
  <2>1. Measure(q, Depth(c) + Depth(d)) /\ Measure(p, Depth(a) + Depth(b))  BY <1>1 DEF Measure
  <2> QED  BY <2>1, MeasureIsOne
<1>3. \A e \in Dir : Depth(e) \in Nat  BY DepthIsNat
<1>4. c # a \/ d # b  BY <1>1
<1>5. (c # a => Depth(c) < Depth(a)) /\ (d # b => Depth(d) < Depth(b))
  BY <1>1, HolderIsShorter
<1> QED  BY <1>2, <1>3, <1>4, <1>5

LEMMA ALargerPairIsKept ==
  ASSUME NEW p \in Candidates
  PROVE  \E q \in Topmost(Candidates) : Dominates(q, p)
<1> DEFINE Above == {q \in Candidates : Dominates(q, p)}
           Sizes == {n \in Nat : \E q \in Above : Measure(q, n)}
<1>1. Candidates \subseteq Pair  BY DEF Candidates
<1>2. p \in Above
  <2>1. PICK a \in Dir, b \in Dir : a # b /\ p = {a, b}  BY <1>1, PairOf
  <2> QED  BY <2>1 DEF Dominates, Holds
<1>3. Sizes \subseteq Nat /\ Sizes # {}  BY <1>1, <1>2, MeasureIsOne
<1>4. Min(Sizes) \in Sizes /\ \A k \in Sizes : Min(Sizes) <= k
  <2> HIDE DEF Sizes
  <2> QED  BY <1>3, MinIsLeast
<1>5. PICK q \in Above : Measure(q, Min(Sizes))  BY <1>4
<1>6. ASSUME NEW r \in Candidates, Dominates(r, q) PROVE r = q
  <2> SUFFICES ASSUME r # q PROVE FALSE  OBVIOUS
  <2>1. PICK m \in Nat : Measure(r, m)  BY <1>1, MeasureIsOne
  <2>2. m < Min(Sizes)  BY <1>1, <1>5, <1>6, <2>1, DominatorMeasuresLess
  <2>3. r \in Above  BY <1>1, <1>5, <1>6, DominatesTransitive
  <2>4. Min(Sizes) <= m /\ Min(Sizes) \in Nat  BY <1>3, <1>4, <2>1, <2>3
  <2> HIDE DEF Sizes
  <2> QED  BY <2>2, <2>4
<1> QED  BY <1>5, <1>6 DEF Topmost

-----------------------------------------------------------------------------
(* The steps.                                                              *)
LEMMA InitLost == Init => LostInv
BY ScanAssumption
   DEF Init, ScanInit, TreeInit, LostInv, Hashed, SteadyStays, ShortForCause, Considered, TurnedForCause

(* Twins of a later state were twins before, once the walk is over.        *)
LEMMA TwinsWereTwins ==
  ASSUME SteadyStays, SteadyStays', UNCHANGED <<opt, rows, accum>>, NEW p, Twins(p)'
  PROVE  Twins(p)
<1>1. \A d : FilesUnderDir(d)' = FilesUnderDir(d) /\ Bucket(d)' = Bucket(d)
  BY SameStore DEF Bucket
<1>2. \A d : IsSteady(d) => OnDisk(d) = {f \in File \ Special : Within(d, f)}
                            /\ OnDisk(d)' = {f \in File \ Special : Within(d, f)}
  BY SteadyOnDisk DEF SteadyStays, IsSteady, OnDisk
<1>3. \A d \in p : IsSteady(d)  BY DEF Twins, IsSteady
<1>4. \A d \in p : OnDisk(d)' = OnDisk(d)  BY <1>2, <1>3
<1>5. \A d, e, f, g : Counterpart(d, f, e, g)' <=> Counterpart(d, f, e, g)
  BY DEF Counterpart, Entry
<1>6. /\ \A d, e \in p : ~IsSubdir(d, e)
      /\ \A d \in p :
           /\ d # Top /\ d \notin Flaky /\ CanCount(d)
           /\ {f \in File : Within(d, f)} \cap (Fresh \cup Fleeting \cup Unreadable) = {}
           /\ OnDisk(d) = FilesUnderDir(d)
           /\ Cardinality(OnDisk(d)) \in MinFiles .. Cardinality(File)
           /\ Cardinality(Bucket(d)) <= MaxDirs
  BY <1>1, <1>4 DEF Twins
<1>7. \A d, e \in p : d # e => \A f \in OnDisk(d) : \E g \in OnDisk(e) : Counterpart(d, f, e, g)
  BY <1>4, <1>5 DEF Twins
<1> QED  BY <1>6, <1>7 DEF Twins

(* During the walk, and until the directories are hashed, nothing has been *)
(* counted or turned down.                                                 *)
LEMMA WalkLost ==
  ASSUME PassInv, LostInv, phase \in {"walk", "hash"}, phase' \in {"walk", "hash"},
         UNCHANGED <<counted, turned>>, SteadyStays'
  PROVE  LostInv'
<1>1. turned = {} /\ \A d \in Dir : counted[d] = "not"
  BY DEF PassInv, NothingVerifiedYet, LostInv, TurnedForCause
<1>2. Hashed' /\ ShortForCause' /\ Considered' /\ TurnedForCause'
  BY <1>1 DEF Hashed, ShortForCause, Considered, TurnedForCause
<1> QED  BY <1>2 DEF LostInv

(* What was hashed and found short stays so.                               *)
LEMMA HashStays ==
  ASSUME LostInv, UNCHANGED <<opt, rows, accum>>, SteadyStays', phase \notin {"walk", "hash"}
  PROVE  /\ Hashed'
         /\ \A d : RowsUnder(d)' = RowsUnder(d) /\ CountUnderDir(d)' = CountUnderDir(d)
         /\ \A d : IsSteady(d) => OnDisk(d)' = OnDisk(d)
<1>1. \A d : RowsUnder(d)' = RowsUnder(d) /\ CountUnderDir(d)' = CountUnderDir(d)
  BY DEF CountUnderDir, RowsUnder
<1>2. ASSUME NEW d PROVE DirHash(d)' = DirHash(d)
  BY DEF DirHash, RowsUnder, MapThenSumSet, MapThenFoldSet, Entry
<1>3. \A d : IsSteady(d) => OnDisk(d)' = OnDisk(d)
  <2> SUFFICES ASSUME NEW d, IsSteady(d) PROVE OnDisk(d)' = OnDisk(d)  OBVIOUS
  <2>1. OnDisk(d)' = {f \in File \ Special : Within(d, f)}
    BY DEF SteadyStays, IsSteady, OnDisk
  <2> QED  BY <2>1, SteadyOnDisk DEF LostInv
<1> QED  BY <1>1, <1>2, <1>3 DEF LostInv, Hashed

LEMMA CandidatesStay ==
  ASSUME UNCHANGED accum
  PROVE  Topmost(Candidates)' = Topmost(Candidates)
BY DEF Topmost, Candidates, Bucket, Dominates, Holds

(* Steps after the walk that do not count.                                 *)
LEMMA QuietLost ==
  ASSUME LostInv, UNCHANGED <<opt, rows, accum, counted>>, SteadyStays',
         phase \notin {"walk", "hash"}, Considered', phase' = "content" => opt.checksum,
         phase' \in {"walk", "hash", "pair"} => turned' = {},
         \A p \in turned' : p \in turned \/ (p \in Pair /\ ~Twins(p))
  PROVE  LostInv'
<1>1. ShortForCause'
  <2> SUFFICES ASSUME NEW d \in Dir, counted[d] = "short", IsSteady(d)
               PROVE  ~(CanCount(d) /\ Cardinality(OnDisk(d)') = CountUnderDir(d)')
    BY DEF ShortForCause, IsSteady, CanCount
  <2> QED  BY HashStays DEF LostInv, ShortForCause
<1>2. TurnedForCause'
  BY TwinsWereTwins DEF LostInv, TurnedForCause
<1> QED  BY <1>1, <1>2, HashStays DEF LostInv

LEMMA CountLost ==
  ASSUME LostInv, PassInv, NEW p \in pairs, NEW d \in p, Count(p, d)
  PROVE  LostInv'
<1>1. /\ phase = "verify" /\ counted[d] = "not"
      /\ counted' = [counted EXCEPT ![d] =
           IF CanCount(d) /\ Cardinality(OnDisk(d)) = CountUnderDir(d) THEN "full" ELSE "short"]
      /\ UNCHANGED <<opt, disk, gone, phase, rows, accum, pairs, confirmed, turned>>
  BY DEF Count, Turn, scanVars
<1>2. d \in Dir /\ counted \in [Dir -> {"not", "full", "short"}]
  BY DEF PassInv, ConfirmedVerified, Pair
<1>3. SteadyStays'  BY <1>1 DEF LostInv, SteadyStays
<1>4. ShortForCause'
  <2> SUFFICES ASSUME NEW e \in Dir, counted'[e] = "short", IsSteady(e)
               PROVE  ~(CanCount(e) /\ Cardinality(OnDisk(e)) = CountUnderDir(e))
    BY <1>1, <1>3, HashStays DEF ShortForCause, IsSteady, CanCount
  <2> QED  BY <1>1, <1>2 DEF LostInv, ShortForCause
<1>5. Considered'  BY <1>1, CandidatesStay DEF LostInv, Considered
<1>6. TurnedForCause'  BY <1>1, <1>3, TwinsWereTwins DEF LostInv, TurnedForCause
<1> QED  BY <1>1, <1>3, <1>4, <1>5, <1>6, HashStays DEF LostInv

(* No pair of twins is turned down: the guard finds them full, the         *)
(* listings are the same, their files can be read and are equal.           *)
LEMMA TurnDownLost ==
  ASSUME WalkInv, NoRootIsTop, LostInv, PassInv, NEW p \in pairs, TurnDown(p)
  PROVE  LostInv'
<1>1. /\ phase = "verify" /\ pairs' = pairs \ {p} /\ turned' = turned \cup {p}
      /\ UNCHANGED <<opt, disk, gone, phase, rows, accum, counted, confirmed>>
      /\ (Incomplete(p) \/ ~SameListing(p))
  BY DEF TurnDown, Turn, scanVars
<1>2. p \in Pair  BY DEF PassInv, ConfirmedVerified
<1>3. ~Twins(p)
  <2> SUFFICES ASSUME Twins(p) PROVE FALSE  OBVIOUS
  <2>1. SameListing(p)  BY <1>2, TwinsAreAlike
  <2>2. PICK d \in p : counted[d] = "short"  BY <1>1, <2>1 DEF Incomplete
  <2>3. d \in Dir /\ IsSteady(d) /\ CanCount(d) /\ OnDisk(d) = FilesUnderDir(d)
    BY <1>2 DEF Pair, Twins, IsSteady
  <2>4. Cardinality(OnDisk(d)) = CountUnderDir(d)  BY <2>3, CountIsOfFiles
  <2> QED  BY <2>2, <2>3, <2>4 DEF LostInv, ShortForCause
<1>4. SteadyStays'  BY <1>1 DEF LostInv, SteadyStays
<1>5. Considered'  BY <1>1, CandidatesStay DEF LostInv, Considered
<1> QED  BY <1>1, <1>2, <1>3, <1>4, <1>5, QuietLost

LEMMA DropLost ==
  ASSUME LostInv, PassInv, NEW p \in pairs, DropPair(p)
  PROVE  LostInv'
<1>1. /\ phase = "content" /\ confirmed' = confirmed \ {p} /\ turned' = turned \cup {p}
      /\ UNCHANGED <<opt, disk, gone, phase, rows, accum, counted>>
      /\ \/ ~SameContent(p)
         \/ \E d \in p : d \in Flaky \/ FilesUnderDir(d) \cap (gone \cup Unreadable) # {}
  BY DEF DropPair, scanVars
<1>2. p \in Pair /\ opt.checksum  BY <1>1 DEF PassInv, ConfirmedVerified, LostInv
<1>3. ~Twins(p)
  <2> SUFFICES ASSUME Twins(p) PROVE FALSE  OBVIOUS
  <2>0. PICK d \in p : FilesUnderDir(d) \cap (gone \cup Unreadable) # {}
    BY <1>1, <1>2, TwinsHoldTheSame DEF Twins
  <2>1. PICK f \in FilesUnderDir(d) : f \in gone \cup Unreadable  BY <2>0
  <2>2. f \in OnDisk(d)  BY <2>1 DEF Twins
  <2>3. f \in File /\ Within(d, f)  BY <2>2 DEF OnDisk, LostInv, SteadyStays
  <2>4. f \in Fleeting \cup Unreadable  BY <2>1 DEF LostInv, SteadyStays
  <2> QED  BY <2>3, <2>4 DEF Twins
<1>4. SteadyStays'  BY <1>1 DEF LostInv, SteadyStays
<1>5. Considered'  BY <1>1, CandidatesStay DEF LostInv, Considered
<1> QED  BY <1>1, <1>2, <1>3, <1>4, <1>5, QuietLost

LEMMA HashDirsLost ==
  ASSUME LostInv, PassInv, HashDirs
  PROVE  LostInv'
<1>1. /\ phase = "hash" /\ phase' = "pair"
      /\ accum' = [d \in Dir |-> [hash |-> DirHash(d), fileCount |-> CountUnderDir(d)]]
      /\ UNCHANGED <<opt, disk, gone, rows, counted, turned>>
  BY DEF HashDirs, DirHash
<1>2. turned = {} /\ \A d \in Dir : counted[d] = "not"
  BY <1>1 DEF PassInv, NothingVerifiedYet, LostInv, TurnedForCause
<1>3. \A d : CountUnderDir(d)' = CountUnderDir(d)  BY <1>1, SameStore
<1>4. ASSUME NEW d PROVE DirHash(d)' = DirHash(d)
  BY <1>1 DEF DirHash, RowsUnder, MapThenSumSet, MapThenFoldSet, Entry
<1>5. Hashed'  BY <1>1, <1>3, <1>4 DEF Hashed
<1>6. ShortForCause' /\ Considered' /\ TurnedForCause' /\ SteadyStays'
  BY <1>1, <1>2 DEF ShortForCause, Considered, TurnedForCause, LostInv, SteadyStays
<1> QED  BY <1>1, <1>5, <1>6 DEF LostInv

LEMMA NextLost ==
  ASSUME WalkInv, PassInv, LostInv, NoRootIsTop, [Next]_vars
  PROVE  LostInv'
<1>1. ASSUME NEW n \in Upcoming, UNCHANGED treeVars,
             SkipDir(n) \/ EnterDir(n) \/ PassOver(n) \/ SkipHardlink(n) \/ Emit(n)
      PROVE  LostInv'
  <2>1. phase = "walk"  BY <1>1 DEF Upcoming
  <2>2. UNCHANGED <<disk, gone, phase>>
    BY <1>1 DEF SkipDir, EnterDir, PassOver, SkipHardlink, Emit
  <2>3. SteadyStays'  BY <2>2 DEF LostInv, SteadyStays
  <2> QED  BY <1>1, <2>1, <2>2, <2>3, WalkLost DEF treeVars
<1>2. CASE (NextRoot \/ EndOfWalk) /\ UNCHANGED treeVars
  <2>1. phase = "walk" /\ phase' \in {"walk", "hash"} /\ UNCHANGED <<disk, gone>>
    BY <1>2 DEF NextRoot, EndOfWalk
  <2>2. SteadyStays'  BY <2>1 DEF LostInv, SteadyStays
  <2> QED  BY <1>2, <2>1, <2>2, WalkLost DEF treeVars
<1>3. CASE HashDirs  BY <1>3, HashDirsLost
<1>4. ASSUME UNCHANGED <<opt, disk, gone, rows, accum, counted, turned>>,
             phase \notin {"walk", "hash"}, Considered', phase' = "content" => opt.checksum,
             phase' \notin {"walk", "hash", "pair"}
      PROVE  LostInv'
  <2>1. SteadyStays'  BY <1>4 DEF LostInv, SteadyStays
  <2> QED  BY <1>4, <2>1, QuietLost
<1>5. CASE FormPairs
  <2>1. phase = "pair" /\ phase' = "verify" /\ pairs' = Topmost(Candidates)
        /\ UNCHANGED <<opt, disk, gone, rows, accum, counted, confirmed, turned>>
    BY <1>5 DEF FormPairs
  <2>2. Considered'  BY <2>1, CandidatesStay DEF Considered
  <2> QED  BY <1>4, <2>1, <2>2
<1>6. ASSUME NEW p \in pairs, NEW d \in p, Count(p, d) PROVE LostInv'
  BY <1>6, CountLost
<1>7. ASSUME NEW p \in pairs, TurnDown(p) PROVE LostInv'
  BY <1>7, TurnDownLost
<1>8. ASSUME NEW p \in pairs, Confirm(p) PROVE LostInv'
  <2>1. phase = "verify" /\ pairs' = pairs \ {p} /\ confirmed' = confirmed \cup {p}
        /\ UNCHANGED <<opt, disk, gone, phase, rows, accum, counted, turned>>
    BY <1>8 DEF Confirm, Turn, scanVars
  <2>2. Considered'  BY <2>1, CandidatesStay DEF LostInv, Considered
  <2> QED  BY <1>4, <2>1, <2>2
<1>9. CASE EndOfVerify
  <2>1. phase = "verify" /\ pairs = {} /\ phase' = (IF opt.checksum THEN "content" ELSE "done")
        /\ UNCHANGED <<opt, disk, gone, rows, accum, counted, confirmed, turned>>
    BY <1>9 DEF EndOfVerify
  <2>2. Considered'  BY <2>1, CandidatesStay DEF LostInv, Considered
  <2> QED  BY <1>4, <2>1, <2>2
<1>10. ASSUME NEW p \in pairs, KeepPair(p) PROVE LostInv'
  <2>1. phase = "content"
        /\ UNCHANGED <<opt, disk, gone, phase, rows, accum, counted, confirmed, turned>>
    BY <1>10 DEF KeepPair, scanVars
  <2>2. Considered'  BY <2>1, CandidatesStay DEF LostInv, Considered
  <2> QED  BY <1>4, <2>1, <2>2 DEF LostInv
<1>11. ASSUME NEW p \in pairs, DropPair(p) PROVE LostInv'
  BY <1>11, DropLost
<1>12. CASE EndOfPass
  <2>1. phase = "content" /\ phase' = "done"
        /\ UNCHANGED <<opt, disk, gone, rows, accum, counted, confirmed, turned>>
    BY <1>12 DEF EndOfPass, treeVars
  <2>2. Considered'  BY <2>1, CandidatesStay DEF LostInv, Considered
  <2> QED  BY <1>4, <2>1, <2>2
<1>13. ASSUME UNCHANGED <<opt, phase, rows, accum, pairs, counted, confirmed, turned>>, SteadyStays'
       PROVE  LostInv'
  <2>1. CASE phase \in {"walk", "hash"}  BY <1>13, <2>1, WalkLost
  <2>2. CASE phase \notin {"walk", "hash"}
    <3>1. Considered'  BY <1>13, CandidatesStay DEF LostInv, Considered
    <3>2. phase = "pair" => turned = {}  BY DEF LostInv, TurnedForCause
    <3> QED  BY <1>13, <2>2, <3>1, <3>2, QuietLost DEF LostInv
  <2> QED  BY <2>1, <2>2
<1>14. ASSUME NEW f \in Fresh, Arrive(f) PROVE LostInv'
  <2>1. disk' = disk \cup PathsOf(f) /\ PathsOf(f) \subseteq File
        /\ UNCHANGED <<opt, gone, phase, rows, accum, pairs, counted, confirmed, turned>>
    BY <1>14 DEF Arrive, Appear, PathsOf
  <2>2. SteadyStays'  BY <2>1, ScanAssumption DEF LostInv, SteadyStays
  <2> QED  BY <1>13, <2>1, <2>2
<1>15. ASSUME NEW f \in Fleeting, Vanish(f), UNCHANGED treeVars PROVE LostInv'
  <2>1. /\ disk' = disk \ PathsOf(f) /\ gone' = gone \cup PathsOf(f) /\ PathsOf(f) \subseteq Fleeting
        /\ UNCHANGED <<opt, phase, rows, accum, pairs, counted, confirmed, turned>>
    BY <1>15, ScanAssumption DEF Vanish, PathsOf, treeVars
  <2>2. SteadyStays'  BY <2>1 DEF LostInv, SteadyStays
  <2> QED  BY <1>13, <2>1, <2>2
<1>16. CASE UNCHANGED vars
  <2>1. UNCHANGED <<opt, disk, gone, phase, rows, accum, pairs, counted, confirmed, turned>>
    BY <1>16 DEF vars, scanVars, treeVars
  <2>2. SteadyStays'  BY <2>1 DEF LostInv, SteadyStays
  <2> QED  BY <1>13, <2>1, <2>2
<1> QED
  BY <1>1, <1>2, <1>3, <1>5, <1>6, <1>7, <1>8, <1>9, <1>10, <1>11, <1>12, <1>14, <1>15, <1>16
  DEF Next

(* No pair of whole twins is lost, for every tree and set of flags, but    *)
(* for a larger pair around it: what is hashed alike is a candidate, what  *)
(* is dropped lies below a pair that is kept, and no twins are turned down *)
(* (store_tree.go, removeSubPairsFast, the guard and both verifications).  *)
THEOREM TwinsAreNotLost == NoRootIsTop => (Spec => []LostToALargerPair)
<1> SUFFICES ASSUME NoRootIsTop PROVE Spec => []LostToALargerPair  OBVIOUS
<1>1. WalkInv /\ LostInv => LostToALargerPair
  <2> SUFFICES ASSUME WalkInv, LostInv, phase = "done", NEW p \in Pair, Twins(p)
               PROVE  p \in confirmed \/ \E q \in (confirmed \cup turned) \ {p} : Dominates(q, p)
    BY DEF LostToALargerPair
  <2>1. p \in Candidates  BY TwinsAreCandidates DEF LostInv
  <2>2. PICK q \in Topmost(Candidates) : Dominates(q, p)  BY <2>1, ALargerPairIsKept
  <2>3. q \in confirmed \cup turned  BY <2>2 DEF LostInv, Considered
  <2>4. p \notin turned  BY DEF LostInv, TurnedForCause
  <2> QED  BY <2>2, <2>3, <2>4
<1>2. Init => WalkInv /\ PassInv /\ LostInv  BY InitWalk, InitPass, InitLost
<1>3. WalkInv /\ PassInv /\ LostInv /\ [Next]_vars => (WalkInv /\ PassInv /\ LostInv)'
  BY NextWalk, NextPass, NextLost
<1> QED  BY <1>1, <1>2, <1>3, PTL DEF Spec
=============================================================================
