---------------------------- MODULE QueueProofs ----------------------------
(***************************************************************************)
(* Theorems about the deletion queue as it is built, for every input,      *)
(* column layout and cadence the assumptions of QueueBuild allow.          *)
(***************************************************************************)
EXTENDS QueueBuild, TLAPS, FiniteSetTheorems, FunctionTheorems, WellFoundedInduction

(* R orders S strictly and totally.                                        *)
TotalOrder(R, S) ==
  /\ \A x \in S : <<x, x>> \notin R
  /\ \A x, y \in S : x = y \/ <<x, y>> \in R \/ <<y, x>> \in R
  /\ \A x, y, z \in S : <<x, y>> \in R /\ <<y, z>> \in R => <<x, z>> \in R

(* f runs through S once, in the order R.                                  *)
Lists(f, S, R) ==
  /\ f \in [1 .. Cardinality(S) -> S]
  /\ \A x \in S : \E i \in 1 .. Cardinality(S) : f[i] = x
  /\ \A i, j \in 1 .. Cardinality(S) : i < j => <<f[i], f[j]>> \in R
  /\ \A i, j \in 1 .. Cardinality(S) : f[i] = f[j] => i = j

(* Sorting loses and repeats nothing, and what comes first comes first.    *)
LEMMA InOrderLists ==
  ASSUME NEW S, IsFiniteSet(S), NEW R, TotalOrder(R, S)
  PROVE  Lists(InOrder(S, R), S, R)
<1> DEFINE n == Cardinality(S)
           below(x) == {y \in S : <<y, x>> \in R}
           place == [x \in S |-> Cardinality(below(x)) + 1]
           f == InOrder(S, R)
<1>1. n \in Nat  BY FS_CardinalityType
<1>2. ASSUME NEW x \in S PROVE IsFiniteSet(below(x)) /\ place[x] \in 1 .. n
  <2>1. below(x) \subseteq S \ {x}  BY DEF TotalOrder
  <2>2. IsFiniteSet(S \ {x}) /\ Cardinality(S \ {x}) = n - 1  BY FS_RemoveElement
  <2>3. IsFiniteSet(below(x)) /\ Cardinality(below(x)) <= n - 1
    <3> HIDE DEF below
    <3> QED  BY <2>1, <2>2, FS_Subset
  <2>4. Cardinality(below(x)) \in Nat
    <3> HIDE DEF below
    <3> QED  BY <2>3, FS_CardinalityType
  <2> HIDE DEF below, n
  <2> QED  BY <1>1, <2>3, <2>4
<1>3. ASSUME NEW x \in S, NEW y \in S, <<x, y>> \in R PROVE place[x] < place[y]
  <2>1. below(x) \subseteq below(y)  BY <1>3 DEF TotalOrder
  <2>2. x \in below(y) /\ x \notin below(x)  BY <1>3 DEF TotalOrder
  <2>3. IsFiniteSet(below(x)) /\ IsFiniteSet(below(y))  BY <1>2
  <2>4. place[x] = Cardinality(below(x)) + 1 /\ place[y] = Cardinality(below(y)) + 1  OBVIOUS
  <2> HIDE DEF below, place
  <2>5. Cardinality(below(x)) <= Cardinality(below(y)) /\ Cardinality(below(x)) # Cardinality(below(y))
    BY <2>1, <2>2, <2>3, FS_Subset
  <2>6. Cardinality(below(x)) \in Nat /\ Cardinality(below(y)) \in Nat  BY <2>3, FS_CardinalityType
  <2> QED  BY <2>4, <2>5, <2>6
<1> HIDE DEF place
<1>4. place \in [S -> 1 .. n]  BY <1>2 DEF place
<1>5. \A x, y \in S : place[x] = place[y] => x = y
  <2> SUFFICES ASSUME NEW x \in S, NEW y \in S, place[x] = place[y], x # y PROVE FALSE  OBVIOUS
  <2>1. place[x] < place[y] \/ place[y] < place[x]  BY <1>3 DEF TotalOrder
  <2>2. place[x] \in Nat /\ place[y] \in Nat  BY <1>4, <1>1
  <2> QED  BY <2>1, <2>2
<1>6. \A i \in 1 .. n : \E x \in S : place[x] = i
  <2>1. place \in Injection(S, 1 .. n)  BY <1>4, <1>5, Fun_IsInj
  <2>2. IsFiniteSet(1 .. n) /\ Cardinality(1 .. n) = n  BY <1>1, FS_Interval
  <2>3. place \in Surjection(S, 1 .. n)  BY <2>1, <2>2, FS_Injection
  <2> QED  BY <2>3, Fun_SurjectionProperties
<1>7. ASSUME NEW i \in 1 .. n PROVE f[i] \in S /\ place[f[i]] = i
  <2>1. f[i] = CHOOSE x \in S : Cardinality(below(x)) = i - 1  BY DEF InOrder
  <2>2. \A x \in S : Cardinality(below(x)) = i - 1 <=> place[x] = i
    <3> SUFFICES ASSUME NEW x \in S PROVE Cardinality(below(x)) = i - 1 <=> place[x] = i  OBVIOUS
    <3>1. place[x] = Cardinality(below(x)) + 1  BY DEF place
    <3>2. Cardinality(below(x)) \in Nat  BY <1>2, FS_CardinalityType
    <3> HIDE DEF below
    <3> QED  BY <3>1, <3>2, <1>1
  <2> HIDE DEF below, f
  <2>3. \E x \in S : Cardinality(below(x)) = i - 1  BY <2>2, <1>6
  <2> QED  BY <2>1, <2>2, <2>3
<1>8. f \in [1 .. n -> S]  
  <2> DEFINE pick(i) == CHOOSE x \in S : Cardinality({y \in S : <<y, x>> \in R}) = i - 1
  <2>1. f = [i \in 1 .. n |-> pick(i)]  BY DEF InOrder
  <2> HIDE DEF pick, f, n
  <2> QED  BY <1>7, <2>1
<1> HIDE DEF f, below
<1>9. ASSUME NEW x \in S PROVE \E i \in 1 .. n : f[i] = x
  <2>1. place[x] \in 1 .. n  BY <1>4
  <2>2. place[f[place[x]]] = place[x] /\ f[place[x]] \in S  BY <1>7, <2>1
  <2> QED  BY <2>1, <2>2, <1>5
<1>10. ASSUME NEW i \in 1 .. n, NEW j \in 1 .. n, i < j PROVE <<f[i], f[j]>> \in R
  <2>1. f[i] \in S /\ f[j] \in S /\ place[f[i]] = i /\ place[f[j]] = j  BY <1>7
  <2>2. f[i] # f[j]  BY <2>1, <1>10
  <2>3. <<f[j], f[i]>> \in R => j < i  BY <2>1, <1>3
  <2> QED  BY <2>1, <2>2, <2>3, <1>10, <1>1 DEF TotalOrder
<1>11. \A i, j \in 1 .. n : f[i] = f[j] => i = j  BY <1>7
<1> QED  BY <1>8, <1>9, <1>10, <1>11 DEF Lists, f

(* at lists the positions T of s, by descending key.                       *)
Places(at, T, key) ==
  /\ at \in [1 .. Cardinality(T) -> T] /\ Cardinality(T) \in Nat
  /\ \A k \in T : \E i \in 1 .. Cardinality(T) : at[i] = k
  /\ \A i, j \in 1 .. Cardinality(T) : at[i] = at[j] => i = j
  /\ \A i, j \in 1 .. Cardinality(T) : i < j => key[at[i]] >= key[at[j]]

(* The positions T of a sequence, stably by descending key.                *)
At(T, key) == InOrder(T, Descending(T, key))

(* A stable sort of part of a sequence permutes that part.                 *)
LEMMA SortedPartPermutes ==
  ASSUME NEW s, NEW T, IsFiniteSet(T), T \subseteq Nat, NEW key, \A k \in T : key[k] \in Int
  PROVE  /\ Places(At(T, key), T, key)
         /\ SortedPart(s, T, key) = [i \in 1 .. Cardinality(T) |-> s[At(T, key)[i]]]
<1> DEFINE R == Descending(T, key)
           at == InOrder(T, R)
<1>1. TotalOrder(R, T)
  <2>1. \A x, y \in T : <<x, y>> \in R <=> (key[x] > key[y] \/ (key[x] = key[y] /\ x < y))
    BY DEF Descending
  <2> HIDE DEF R
  <2> QED  BY <2>1 DEF TotalOrder
<1>2. Lists(at, T, R)
  <2> HIDE DEF R
  <2> QED  BY <1>1, InOrderLists
<1>3. \A x, y \in T : <<x, y>> \in R => key[x] >= key[y]  BY DEF Descending
<1>4. Places(at, T, key)
  <2>1. Cardinality(T) \in Nat  BY FS_CardinalityType
  <2> HIDE DEF R, at
  <2> QED  BY <1>2, <1>3, <2>1 DEF Places, Lists
<1>5. SortedPart(s, T, key) = [i \in 1 .. Cardinality(T) |-> s[at[i]]]
  <2>1. DOMAIN at = 1 .. Cardinality(T)  BY DEF InOrder
  <2>2. SortedPart(s, T, key) = [i \in DOMAIN at |-> s[at[i]]]  BY DEF SortedPart
  <2> HIDE DEF at
  <2> QED  BY <2>1, <2>2
<1>6. at = At(T, key)  BY DEF At
<1> HIDE DEF at
<1> QED  BY <1>4, <1>5, <1>6

(* A non-empty set of naturals has a least element.                        *)
LEMMA LeastNumber ==
  ASSUME NEW T, T \subseteq Nat, T # {}
  PROVE  \E x \in T : \A y \in T : x <= y
<1>1. PICK x \in T : \A y \in T : ~ (<<y, x>> \in OpToRel(<, Nat))
  BY NatLessThanWellFounded, WFMin
<1>2. ASSUME NEW y \in T PROVE x <= y
  <2>1. y < x => <<y, x>> \in OpToRel(<, Nat)
    BY DEF OpToRel
  <2>2. x \in Nat /\ y \in Nat
    OBVIOUS
  <2>3. ~ (y < x)
    BY <1>1, <2>1, Zenon
  <2> QED BY <2>2, <2>3
<1> QED BY <1>2

(* The reclaimable bytes of a block are a number: the recursion of SumOver *)
(* has a solution, and every solution adds up integers.                    *)
LEMMA SumIsInt ==
  ASSUME NEW f, NEW n \in Nat, Len(f) = n, \A k \in 1 .. n : f[k] \in Int
  PROVE  SumOver(f) \in Int
<1> DEFINE Unfolds(g) == g = [k \in 0 .. Len(f) |-> IF k = 0 THEN 0 ELSE g[k - 1] + f[k]]
           Adds(g, m) == g \in [0 .. m -> Int] /\ g[0] = 0 /\ \A k \in 1 .. m : g[k] = g[k - 1] + f[k]
           Stuck == {m \in 0 .. n : ~ \E g : Adds(g, m)}
<1>1. Stuck = {}
  <2> SUFFICES ASSUME Stuck # {} PROVE FALSE  OBVIOUS
  <2>1. PICK m \in Stuck : \A k \in Stuck : m <= k
    <3>1. Stuck \subseteq Nat  OBVIOUS
    <3> HIDE DEF Stuck
    <3> QED  BY <3>1, LeastNumber
  <2>2. m # 0
    <3> DEFINE g == [k \in 0 .. 0 |-> 0]
    <3>1. Adds(g, 0)  OBVIOUS
    <3> HIDE DEF Adds, g
    <3> QED  BY <3>1
  <2>3. m - 1 \in 0 .. n /\ m - 1 \notin Stuck /\ m \in 1 .. n
    <3>1. m \in 0 .. n  OBVIOUS
    <3> HIDE DEF Stuck
    <3> QED  BY <2>1, <2>2, <3>1
  <2>4. PICK g : Adds(g, m - 1)  BY <2>3
  <2> DEFINE h == [k \in 0 .. m |-> IF k = m THEN g[m - 1] + f[m] ELSE g[k]]
  <2>5. g[m - 1] + f[m] \in Int  BY <2>3, <2>4
  <2>6. h \in [0 .. m -> Int]  BY <2>3, <2>4, <2>5
  <2>7. h[0] = 0  BY <2>3, <2>4
  <2>8. \A k \in 1 .. m : h[k] = h[k - 1] + f[k]
    <3> SUFFICES ASSUME NEW k \in 1 .. m PROVE h[k] = h[k - 1] + f[k]  OBVIOUS
    <3>1. h[k - 1] = g[k - 1]  BY <2>3
    <3>2. CASE k = m  BY <3>1, <3>2, <2>3
    <3>3. CASE k # m
      <4>1. k \in 1 .. m - 1 /\ h[k] = g[k]  BY <2>3, <3>3
      <4> QED  BY <3>1, <4>1, <2>4
    <3> QED  BY <3>2, <3>3
  <2>9. Adds(h, m)  BY <2>6, <2>7, <2>8
  <2> HIDE DEF Adds, h
  <2> QED  BY <2>9
<1>2. PICK g : Adds(g, n)
  <2>1. n \notin Stuck
    <3> HIDE DEF Stuck
    <3> QED  BY <1>1
  <2>2. n \in 0 .. n  OBVIOUS
  <2> QED  BY <2>1, <2>2, Zenon
<1>3. Unfolds(g)  BY <1>2
<1> DEFINE sum == CHOOSE h : Unfolds(h)
<1>4. Unfolds(sum)  BY <1>3
<1>5. SumOver(f) = sum[Len(f)]  BY DEF SumOver
<1> HIDE DEF sum
<1>6. sum[n] \in Int
  <2> DEFINE Odd == {m \in 0 .. n : sum[m] \notin Int}
  <2> SUFFICES ASSUME Odd # {} PROVE FALSE  OBVIOUS
  <2>1. PICK m \in Odd : \A k \in Odd : m <= k
    <3>1. Odd \subseteq Nat  OBVIOUS
    <3> HIDE DEF Odd
    <3> QED  BY <3>1, LeastNumber
  <2>2. sum[m] = IF m = 0 THEN 0 ELSE sum[m - 1] + f[m]  BY <1>4
  <2>3. m # 0 => sum[m - 1] \in Int  BY <2>1
  <2> QED  BY <2>1, <2>2, <2>3
<1> QED  BY <1>5, <1>6

-----------------------------------------------------------------------------
Rearranged(s, T, key) == [i \in 1 .. Cardinality(T) |-> s[At(T, key)[i]]]

(* Sorting part of a sequence rearranges that part.                        *)
LEMMA Sorts ==
  ASSUME NEW X, NEW s \in Seq(X), NEW T \in SUBSET DOMAIN s, NEW key, \A k \in T : key[k] \in Int
  PROVE  /\ Places(At(T, key), T, key) /\ IsFiniteSet(T)
         /\ SortedPart(s, T, key) = Rearranged(s, T, key)
         /\ SortedPart(s, T, key) \in Seq(X)
         /\ Len(SortedPart(s, T, key)) = Cardinality(T)
<1> DEFINE at == At(T, key)
           p == SortedPart(s, T, key)
<1>1. DOMAIN s = 1 .. Len(s) /\ Len(s) \in Nat  OBVIOUS
<1>2. IsFiniteSet(T) /\ T \subseteq Nat
  <2>1. IsFiniteSet(1 .. Len(s))  BY <1>1, FS_Interval
  <2>2. T \subseteq 1 .. Len(s)  BY <1>1
  <2> QED  BY <2>1, <2>2, FS_Subset
<1>3. Places(at, T, key)  BY <1>2, SortedPartPermutes
<1>4. p = [i \in 1 .. Cardinality(T) |-> s[at[i]]]  BY <1>2, SortedPartPermutes
<1>5. \A i \in 1 .. Cardinality(T) : s[at[i]] \in X
  <2> HIDE DEF at
  <2> QED  BY <1>3 DEF Places
<1>6. p \in Seq(X) /\ Len(p) = Cardinality(T)
  <2>1. Cardinality(T) \in Nat  BY <1>3 DEF Places
  <2> HIDE DEF at, p
  <2> QED  BY <1>4, <1>5, <2>1
<1>7. p = Rearranged(s, T, key)  BY <1>4 DEF Rearranged
<1> HIDE DEF p, at
<1> QED  BY <1>2, <1>3, <1>6, <1>7 DEF p, at

(* f numbers the members of S, each once.                                  *)
Numbers(f, n, S) ==
  /\ n \in Nat /\ f \in [1 .. n -> S]
  /\ \A x \in S : \E i \in 1 .. n : f[i] = x
  /\ \A i, j \in 1 .. n : f[i] = f[j] => i = j

(* Part(s, T) is s at the members of T, each once.                          *)
LEMMA PartNumbers ==
  ASSUME NEW X, NEW s \in Seq(X), NEW T \in SUBSET DOMAIN s
  PROVE  \E f, n : Numbers(f, n, T) /\ Part(s, T) = [i \in 1 .. n |-> s[f[i]]]
<1> DEFINE key == [k \in T |-> 0]
           n == Cardinality(T)
           at == At(T, key)
<1>1. \A k \in T : key[k] \in Int  OBVIOUS
<1>2. Part(s, T) = SortedPart(s, T, key)  BY DEF Part
<1> HIDE DEF key
<1>3. /\ Places(At(T, key), T, key)
      /\ SortedPart(s, T, key) = Rearranged(s, T, key)
  BY <1>1, Sorts
<1>4. Part(s, T) = [i \in 1 .. n |-> s[at[i]]]  BY <1>2, <1>3 DEF Rearranged
<1>5. Numbers(at, n, T)
  <2>1. Places(at, T, key)  BY <1>3
  <2> HIDE DEF at
  <2> QED  BY <2>1 DEF Places, Numbers
<1> HIDE DEF at, n
<1> QED  BY <1>4, <1>5

(* A part of a list holds the elements at its places.                      *)
LEMMA PartIs ==
  ASSUME NEW X, NEW s \in Seq(X), NEW T \in SUBSET DOMAIN s
  PROVE  /\ Part(s, T) \in Seq(X)
         /\ RangeOf(Part(s, T)) = {s[k] : k \in T}
<1>1. PICK f, n : Numbers(f, n, T) /\ Part(s, T) = [i \in 1 .. n |-> s[f[i]]]  BY PartNumbers
<1>2. f \in [1 .. n -> T] /\ n \in Nat /\ \A k \in T : \E i \in 1 .. n : f[i] = k
  BY <1>1 DEF Numbers
<1>3. \A i \in 1 .. n : f[i] \in T /\ s[f[i]] \in X  BY <1>2
<1>4. Part(s, T) \in Seq(X)  BY <1>1, <1>2, <1>3
<1>5. RangeOf(Part(s, T)) = {s[f[i]] : i \in 1 .. n}  BY <1>1 DEF RangeOf
<1>6. {s[f[i]] : i \in 1 .. n} = {s[k] : k \in T}  BY <1>2, <1>3, Zenon
<1> QED  BY <1>4, <1>5, <1>6

(* A side of an item is the copies of the group in that column.            *)
LEMMA InColumnIs ==
  ASSUME NEW files \in Seq(DOMAIN ColOf), NEW c
  PROVE  /\ InColumn(files, c) \in Seq(DOMAIN ColOf)
         /\ RangeOf(InColumn(files, c)) = {f \in RangeOf(files) : ColOf[f] = c}
<1> DEFINE T == {k \in DOMAIN files : ColOf[files[k]] = c}
<1>1. T \in SUBSET DOMAIN files  OBVIOUS
<1>2. InColumn(files, c) = Part(files, T)  BY DEF InColumn
<1>3. {files[k] : k \in T} = {f \in RangeOf(files) : ColOf[f] = c}  BY DEF RangeOf
<1> HIDE DEF T
<1> QED  BY <1>1, <1>2, <1>3, PartIs

(* The columns of a group are those of its files.                          *)
LEMMA ColumnsOf ==
  ASSUME NEW g \in GroupAction
  PROVE  /\ Columns(g) \subseteq Column
         /\ Columns(g) = {ColOf[f] : f \in RangeOf(g.files)} \ {NoColumn}
<1>1. g.files \in Seq(DOMAIN ColOf)  BY DEF GroupAction
<1>2. \A k \in DOMAIN g.files : g.files[k] \in DOMAIN ColOf  BY <1>1
<1> QED  BY <1>2, ColumnAssumption DEF Columns, RangeOf

(* Two columns have an order.                                              *)
LEMMA PairEnds ==
  ASSUME NEW p, p \subseteq Column, Cardinality(p) = 2, IsFiniteSet(p)
  PROVE  /\ FirstOf(p) \in Column /\ SecondOf(p) \in Column /\ FirstOf(p) # SecondOf(p)
         /\ p = {FirstOf(p), SecondOf(p)}
<1>1. PICK c : c \in p
  <2>1. p # {}  BY FS_EmptySet
  <2> QED  BY <2>1
<1>2. IsFiniteSet(p \ {c}) /\ Cardinality(p \ {c}) = 1  BY <1>1, FS_RemoveElement
<1>3. PICK d : p \ {c} = {d}  BY <1>2, FS_Singleton
<1>4. p = {c, d} /\ c # d  BY <1>1, <1>3
<1>5. Order[c] \in Nat /\ Order[d] \in Nat /\ Order[c] # Order[d]  BY <1>4, ColumnAssumption
<1>6. CASE Order[c] < Order[d]
  <2>1. FirstOf(p) = c /\ SecondOf(p) = d  BY <1>4, <1>5, <1>6 DEF FirstOf, SecondOf
  <2> QED  BY <1>4, <2>1
<1>7. CASE Order[d] < Order[c]
  <2>1. FirstOf(p) = d /\ SecondOf(p) = c  BY <1>4, <1>5, <1>7 DEF FirstOf, SecondOf
  <2> QED  BY <1>4, <2>1
<1> QED  BY <1>5, <1>6, <1>7

(* A group has finitely many columns.                                      *)
LEMMA ColumnsFinite ==
  ASSUME NEW g \in GroupAction
  PROVE  IsFiniteSet(Columns(g))
<1> DEFINE D == DOMAIN g.files
           C == {ColOf[g.files[k]] : k \in D}
           f == [k \in D |-> ColOf[g.files[k]]]
<1>1. D = 1 .. Len(g.files) /\ Len(g.files) \in Nat  BY DEF GroupAction
<1>2. IsFiniteSet(D)
  <2> HIDE DEF D
  <2> QED  BY <1>1, FS_Interval
<1>3. f \in Surjection(D, C)  BY Fun_IsSurj
<1> HIDE DEF D, f
<1>4. IsFiniteSet(C)
  <2> HIDE DEF C
  <2> QED  BY <1>2, <1>3, FS_Surjection
<1>5. Columns(g) \subseteq C  BY DEF Columns, D
<1> HIDE DEF C
<1> QED  BY <1>4, <1>5, FS_Subset

(* An item has copies in both columns and only there.                      *)
LEMMA ItemIs ==
  ASSUME NEW g \in GroupAction, Cardinality(Columns(g)) = 2
  PROVE  LET it == SharedItem(g)  p == Columns(g) IN
         /\ p = {FirstOf(p), SecondOf(p)}
         /\ {ColOf[f] : f \in RangeOf(it.a)} = {FirstOf(p)}
         /\ {ColOf[f] : f \in RangeOf(it.b)} = {SecondOf(p)}
         /\ ItemFiles(it) = {f \in RangeOf(g.files) : ColOf[f] # NoColumn}
         /\ ItemFiles(it) # {}
         /\ it.size \in Int
<1> DEFINE p == Columns(g)
           c == FirstOf(p)
           d == SecondOf(p)
           R == RangeOf(g.files)
<1>1. p = {c, d} /\ c # d /\ c \in Column /\ d \in Column  BY ColumnsFinite, ColumnsOf, PairEnds
<1>2. p = {ColOf[f] : f \in R} \ {NoColumn}  BY ColumnsOf
<1>3. g.files \in Seq(DOMAIN ColOf) /\ g.size \in Nat  BY DEF GroupAction
<1>4. /\ RangeOf(SharedItem(g).a) = {f \in R : ColOf[f] = c}
      /\ RangeOf(SharedItem(g).b) = {f \in R : ColOf[f] = d}
      /\ SharedItem(g).size \in Int
  <2>1. SharedItem(g).a = InColumn(g.files, c) /\ SharedItem(g).b = InColumn(g.files, d)
        /\ SharedItem(g).size = g.size
    BY DEF SharedItem
  <2> HIDE DEF c, d
  <2> QED  BY <1>3, <2>1, InColumnIs
<1> HIDE DEF p, c, d, R
<1>5. {ColOf[f] : f \in {f \in R : ColOf[f] = c}} = {c}  BY <1>1, <1>2
<1>6. {ColOf[f] : f \in {f \in R : ColOf[f] = d}} = {d}  BY <1>1, <1>2
<1>7. {f \in R : ColOf[f] = c} \cup {f \in R : ColOf[f] = d} = {f \in R : ColOf[f] # NoColumn}
  BY <1>1, <1>2, ColumnAssumption
<1>8. {f \in R : ColOf[f] = c} # {}  BY <1>5
<1> QED  BY <1>1, <1>4, <1>5, <1>6, <1>7, <1>8 DEF ItemFiles, p, c, d, R

-----------------------------------------------------------------------------
BlockLength(length, c, n) == IF c * n < length THEN n ELSE length - (c - 1) * n

(* The number of the k-th item of block c.                                 *)
Slot(c, n, k) == (c - 1) * n + k

(* The blocks of n cover the numbers up to length.                         *)
LEMMA ChunkRange ==
  ASSUME NEW length \in Nat, NEW n \in Nat \ {0}, NEW c \in Chunks(length, n)
  PROVE  /\ BlockLength(length, c, n) \in 1 .. n
         /\ c \in Nat \ {0}
         /\ \A k \in 1 .. BlockLength(length, c, n) : (c - 1) * n + k \in 1 .. length
<1> DEFINE m == (c - 1) * n
<1>1. c \in 1 .. length /\ m < length  BY DEF Chunks
<1>2. c * n = m + n /\ m \in Nat  BY <1>1
<1>3. BlockLength(length, c, n) = IF m + n < length THEN n ELSE length - m  BY <1>2 DEF BlockLength
<1> HIDE DEF m
<1> QED  BY <1>1, <1>2, <1>3 DEF m

(* Every number up to length is in a block of n.                           *)
LEMMA Chunked ==
  ASSUME NEW length \in Nat, NEW n \in Nat \ {0}, NEW i \in 1 .. length
  PROVE  \E c \in Chunks(length, n) : \E k \in 1 .. BlockLength(length, c, n) : i = Slot(c, n, k)
<1> DEFINE S == {c \in 1 .. length : i <= c * n}
<1>1. S \subseteq Nat /\ S # {}
  <2>1. i \in Nat /\ n >= 1 /\ i * n = i + i * (n - 1)  OBVIOUS
  <2>2. i * (n - 1) >= 0
    <3>1. n - 1 \in Nat  OBVIOUS
    <3> QED  BY <2>1, <3>1
  <2>3. i * n \in Nat  OBVIOUS
  <2>4. i <= i * n  BY <2>1, <2>2, <2>3
  <2> QED  BY <2>4
<1>2. PICK c \in S : \A d \in S : c <= d
  <2> HIDE DEF S
  <2> QED  BY <1>1, LeastNumber
<1>3. c \in 1 .. length /\ i <= c * n  BY <1>2
<1>4. (c - 1) * n < i
  <2>1. CASE c = 1  BY <2>1
  <2>2. CASE c # 1
    <3>1. c - 1 \in 1 .. length /\ c - 1 \notin S
      <4>1. c - 1 \in 1 .. length  BY <1>3, <2>2
      <4> HIDE DEF S
      <4> QED  BY <1>2, <1>3, <4>1
    <3>2. (c - 1) * n \in Int  BY <1>3
    <3> QED  BY <3>1, <3>2
  <2> QED  BY <2>1, <2>2
<1> DEFINE m == (c - 1) * n
<1>5. c * n = m + n /\ m \in Nat  BY <1>3
<1>6. m < i /\ i <= m + n  BY <1>3, <1>4, <1>5
<1>7. c \in Chunks(length, n)
  <2>1. m < length  BY <1>5, <1>6
  <2> QED  BY <1>3, <2>1 DEF Chunks
<1>8. BlockLength(length, c, n) = IF m + n < length THEN n ELSE length - m  BY <1>5 DEF BlockLength
<1> HIDE DEF m
<1>9. i - m \in 1 .. BlockLength(length, c, n) /\ i = m + (i - m)  BY <1>5, <1>6, <1>8
<1> QED  BY <1>7, <1>9 DEF m, Slot

(* No number is in two blocks, or twice in one.                            *)
LEMMA ChunksApart ==
  ASSUME NEW n \in Nat \ {0}, NEW c \in Nat \ {0}, NEW d \in Nat \ {0},
         NEW j \in 1 .. n, NEW k \in 1 .. n, Slot(c, n, j) = Slot(d, n, k)
  PROVE  c = d /\ j = k
<1>1. ASSUME NEW a \in Nat \ {0}, NEW b \in Nat \ {0}, a < b,
             NEW x \in 1 .. n, NEW y \in 1 .. n
      PROVE  (a - 1) * n + x < (b - 1) * n + y
  <2>1. b - 1 - a \in Nat /\ n \in Nat  BY <1>1
  <2>2. (b - 1 - a) * n >= 0  BY <2>1
  <2>3. (b - 1) * n = (b - 1 - a) * n + (a - 1) * n + n  OBVIOUS
  <2>4. (b - 1 - a) * n \in Int /\ (a - 1) * n \in Int /\ (b - 1) * n \in Int  OBVIOUS
  <2> QED  BY <2>2, <2>3, <2>4
<1>2. /\ (c - 1) * n \in Int /\ (d - 1) * n \in Int
      /\ (c - 1) * n + j = (d - 1) * n + k
  BY DEF Slot
<1>3. ~(c < d)  BY <1>1, <1>2
<1>4. ~(d < c)  BY <1>1, <1>2
<1>5. c = d  BY <1>3, <1>4
<1> QED  BY <1>2, <1>5

(* What a list of groups holds.                                            *)
LEMMA GroupIs ==
  ASSUME NEW groups \in Seq(GroupAction), NEW k \in DOMAIN groups
  PROVE  /\ groups[k] \in GroupAction /\ groups[k].kind = "group"
         /\ groups[k].files \in Seq(DOMAIN ColOf) /\ groups[k].size \in Nat
<1>1. groups[k] \in GroupAction  OBVIOUS
<1> QED  BY <1>1 DEF GroupAction

SizeOf(groups) == [k \in DOMAIN groups |-> groups[k].size]

(* Where the items of a pair of columns come from, in the blocks' order.   *)
SharedAt(groups, pair) == At(Sharing(groups, pair), SizeOf(groups))

(* The groups two columns share are listed once, largest first.            *)
LEMMA SharedPlaces ==
  ASSUME NEW groups \in Seq(GroupAction), NEW pair
  PROVE  /\ Places(SharedAt(groups, pair), Sharing(groups, pair), SizeOf(groups))
         /\ Sharing(groups, pair) \in SUBSET DOMAIN groups
         /\ IsFiniteSet(Sharing(groups, pair))
<1> DEFINE T == Sharing(groups, pair)
<1>1. T \in SUBSET DOMAIN groups  BY DEF Sharing
<1>2. \A k \in T : SizeOf(groups)[k] \in Int
  <2>1. \A k \in DOMAIN groups : groups[k].size \in Nat  BY GroupIs
  <2> QED  BY <1>1, <2>1 DEF SizeOf
<1> HIDE DEF T
<1>3. Places(At(T, SizeOf(groups)), T, SizeOf(groups)) /\ IsFiniteSet(T)  BY <1>1, <1>2, Sorts
<1> QED  BY <1>1, <1>3 DEF SharedAt, T

(* A block by the groups its items come from.                              *)
BlockFrom(groups, pair, c, n) ==
  [kind |-> "overlap", rootA |-> FirstOf(pair), rootB |-> SecondOf(pair),
   items |-> [k \in 1 .. BlockLength(Cardinality(Sharing(groups, pair)), c, n) |->
                SharedItem(groups[SharedAt(groups, pair)[(c - 1) * n + k]])]]

(* A block made of its chunk of the sorted groups.                         *)
LEMMA BlockIs ==
  ASSUME NEW groups \in Seq(GroupAction), NEW pair, NEW n \in Nat \ {0},
         NEW c \in Chunks(Cardinality(Sharing(groups, pair)), n)
  PROVE  Block(groups, pair, c, n) = BlockFrom(groups, pair, c, n)
<1> DEFINE T == Sharing(groups, pair)
           length == Cardinality(T)
           sorted == SortedPart(groups, T, SizeOf(groups))
           at == SharedAt(groups, pair)
           len == BlockLength(length, c, n)
<1>1. T \in SUBSET DOMAIN groups /\ Places(at, T, SizeOf(groups)) /\ length \in Nat
  BY SharedPlaces DEF Places
<1>2. \A k \in T : SizeOf(groups)[k] \in Int
  <2>1. \A k \in DOMAIN groups : groups[k].size \in Nat  BY GroupIs
  <2> HIDE DEF T
  <2> QED  BY <1>1, <2>1 DEF SizeOf
<1>3. sorted = [i \in 1 .. length |-> groups[at[i]]] /\ Len(sorted) = length
  <2> HIDE DEF T
  <2>1. /\ SortedPart(groups, T, SizeOf(groups)) = Rearranged(groups, T, SizeOf(groups))
        /\ Len(SortedPart(groups, T, SizeOf(groups))) = Cardinality(T)
    BY <1>1, <1>2, Sorts
  <2>2. at = At(T, SizeOf(groups))  BY DEF SharedAt, T
  <2> QED  BY <2>1, <2>2 DEF Rearranged
<1>4. Block(groups, pair, c, n) =
        [kind |-> "overlap", rootA |-> FirstOf(pair), rootB |-> SecondOf(pair),
         items |-> [k \in 1 .. (IF c * n < Len(sorted) THEN n ELSE Len(sorted) - (c - 1) * n) |->
                      SharedItem(sorted[(c - 1) * n + k])]]
  BY DEF Block, SizeOf
<1>5. Block(groups, pair, c, n) =
        [kind |-> "overlap", rootA |-> FirstOf(pair), rootB |-> SecondOf(pair),
         items |-> [k \in 1 .. len |-> SharedItem(sorted[(c - 1) * n + k])]]
  <2>1. len = IF c * n < Len(sorted) THEN n ELSE Len(sorted) - (c - 1) * n
    <3> HIDE DEF sorted, T
    <3> QED  BY <1>3 DEF BlockLength
  <2> HIDE DEF sorted, len
  <2> QED  BY <1>4, <2>1
<1>6. \A k \in 1 .. len : sorted[(c - 1) * n + k] = groups[at[(c - 1) * n + k]]
  <2>1. \A k \in 1 .. len : (c - 1) * n + k \in 1 .. length
    <3> HIDE DEF T
    <3>1. c \in Chunks(length, n)  BY DEF T
    <3> QED  BY <1>1, <3>1, ChunkRange
  <2> HIDE DEF sorted, len, length, at
  <2> QED  BY <1>3, <2>1
<1> HIDE DEF sorted, len, length, at
<1>7. [k \in 1 .. len |-> SharedItem(sorted[(c - 1) * n + k])]
      = [k \in 1 .. len |-> SharedItem(groups[at[(c - 1) * n + k]])]
  BY <1>6
<1> QED  BY <1>5, <1>7 DEF len, length, at, BlockFrom, T

-----------------------------------------------------------------------------
(* The assumption on the inputs, for one of them.                          *)
LEMMA InputIs ==
  ASSUME NEW in \in Inputs
  PROVE  /\ in.trees \in Seq(TreeAction) /\ in.groups \in Seq(GroupAction)
         /\ in.overlap \in BOOLEAN /\ in.blockSize \in Nat \ {0} /\ in.minOverlap \in Int
         /\ \A k \in DOMAIN in.groups : in.groups[k].files # <<>>
BY InputAssumption

(* The pairs of columns that get blocks, the blocks, and the groups that   *)
(* stay as they are.                                                       *)
Pairs(in) == IF in.overlap THEN Absorbed(in.groups, in.minOverlap) ELSE {}
Keys(in) == BlockKeys(in.groups, Pairs(in), in.blockSize)
Left(in) == {k \in DOMAIN in.groups : Columns(in.groups[k]) \notin Pairs(in)}

(* A pair that gets blocks is two columns that share two files.            *)
LEMMA PairIs ==
  ASSUME NEW in \in Inputs, NEW p \in Pairs(in)
  PROVE  /\ p \subseteq Column /\ IsFiniteSet(p) /\ Cardinality(p) = 2
         /\ Cardinality(Sharing(in.groups, p)) >= 2
<1>1. in.overlap /\ p \in Absorbed(in.groups, in.minOverlap)  BY DEF Pairs
<1>2. p \in ColumnPairs(in.groups)  BY <1>1 DEF Absorbed
<1>3. Cardinality(Sharing(in.groups, p)) >= IF in.minOverlap < 2 THEN 2 ELSE in.minOverlap
  BY <1>1 DEF Absorbed
<1>4. PICK k \in DOMAIN in.groups : p = Columns(in.groups[k]) /\ Cardinality(Columns(in.groups[k])) = 2
  BY <1>2 DEF ColumnPairs
<1>5. in.groups[k] \in GroupAction  BY InputIs, GroupIs
<1>6. Cardinality(Sharing(in.groups, p)) \in Nat  BY InputIs, SharedPlaces, FS_CardinalityType
<1>7. in.minOverlap \in Int  BY InputIs
<1>8. Cardinality(Sharing(in.groups, p)) >= 2  BY <1>3, <1>6, <1>7
<1> QED  BY <1>4, <1>5, <1>8, ColumnsOf, ColumnsFinite

(* Only finitely many pairs get blocks.                                    *)
LEMMA PairsFinite ==
  ASSUME NEW in \in Inputs
  PROVE  IsFiniteSet(Pairs(in))
<1> DEFINE g == in.groups
           T == {k \in DOMAIN g : Cardinality(Columns(g[k])) = 2}
           f == [k \in T |-> Columns(g[k])]
           C == {Columns(g[k]) : k \in T}
<1>1. g \in Seq(GroupAction)  BY InputIs
<1>2. DOMAIN g = 1 .. Len(g) /\ Len(g) \in Nat
  <2> HIDE DEF g
  <2> QED  BY <1>1
<1>3. IsFiniteSet(DOMAIN g)
  <2> HIDE DEF g
  <2> QED  BY <1>2, FS_Interval
<1>4. T \subseteq DOMAIN g  OBVIOUS
<1>5. f \in Surjection(T, C)  BY Fun_IsSurj
<1> HIDE DEF f, T
<1>6. IsFiniteSet(T)  BY <1>3, <1>4, FS_Subset
<1> HIDE DEF C
<1>7. IsFiniteSet(C)  BY <1>5, <1>6, FS_Surjection
<1>8. Pairs(in) \subseteq C  BY DEF Pairs, Absorbed, ColumnPairs, C, T
<1> QED  BY <1>7, <1>8, FS_Subset

(* A block stands for a pair and the number of one of its chunks.          *)
LEMMA KeyIs ==
  ASSUME NEW in \in Inputs, NEW key \in Keys(in)
  PROVE  /\ key = <<key[1], key[2]>> /\ key[1] \in Pairs(in)
         /\ key[2] \in Chunks(Cardinality(Sharing(in.groups, key[1])), in.blockSize)
         /\ key[2] \in Nat
<1>1. key \in Pairs(in) \X (1 .. Len(in.groups))
      /\ key[2] \in Chunks(Cardinality(Sharing(in.groups, key[1])), in.blockSize)
  BY DEF Keys, BlockKeys
<1>2. Len(in.groups) \in Nat  BY InputIs
<1> QED  BY <1>1, <1>2

(* The blocks are listed once, by columns and then by number.              *)
LEMMA KeysOrdered ==
  ASSUME NEW in \in Inputs
  PROVE  Lists(InOrder(Keys(in), Before(Keys(in))), Keys(in), Before(Keys(in)))
<1> DEFINE K == Keys(in)
           R == Before(K)
           first(x) == Order[FirstOf(x[1])]
           second(x) == Order[SecondOf(x[1])]
<1>1. IsFiniteSet(K)
  <2>1. K \subseteq Pairs(in) \X (1 .. Len(in.groups))  BY DEF Keys, BlockKeys
  <2>2. Len(in.groups) \in Nat  BY InputIs
  <2>3. IsFiniteSet(1 .. Len(in.groups))  BY <2>2, FS_Interval
  <2>4. IsFiniteSet(Pairs(in) \X (1 .. Len(in.groups)))  BY <2>3, PairsFinite, FS_Product
  <2> HIDE DEF K
  <2> QED  BY <2>1, <2>4, FS_Subset
<1>2. \A x \in K : /\ first(x) \in Nat /\ second(x) \in Nat /\ x[2] \in Nat
                   /\ FirstOf(x[1]) \in Column /\ SecondOf(x[1]) \in Column
                   /\ x[1] = {FirstOf(x[1]), SecondOf(x[1])} /\ x = <<x[1], x[2]>>
  <2> SUFFICES ASSUME NEW x \in K
               PROVE /\ first(x) \in Nat /\ second(x) \in Nat /\ x[2] \in Nat
                     /\ FirstOf(x[1]) \in Column /\ SecondOf(x[1]) \in Column
                     /\ x[1] = {FirstOf(x[1]), SecondOf(x[1])} /\ x = <<x[1], x[2]>>
    OBVIOUS
  <2>1. x[1] \in Pairs(in) /\ x[2] \in Nat /\ x = <<x[1], x[2]>>  BY KeyIs
  <2>2. FirstOf(x[1]) \in Column /\ SecondOf(x[1]) \in Column /\ x[1] = {FirstOf(x[1]), SecondOf(x[1])}
    BY <2>1, PairIs, PairEnds
  <2> QED  BY <2>1, <2>2, ColumnAssumption
<1>3. \A x, y \in K : /\ (FirstOf(x[1]) = FirstOf(y[1])) = (first(x) = first(y))
                      /\ (x[1] = y[1]) = (first(x) = first(y) /\ second(x) = second(y))
                      /\ x = y <=> (first(x) = first(y) /\ second(x) = second(y) /\ x[2] = y[2])
  <2> SUFFICES ASSUME NEW x \in K, NEW y \in K
               PROVE  /\ (FirstOf(x[1]) = FirstOf(y[1])) = (first(x) = first(y))
                      /\ (x[1] = y[1]) = (first(x) = first(y) /\ second(x) = second(y))
                      /\ x = y <=> (first(x) = first(y) /\ second(x) = second(y) /\ x[2] = y[2])
    OBVIOUS
  <2>1. (FirstOf(x[1]) = FirstOf(y[1])) <=> first(x) = first(y)  BY <1>2, ColumnAssumption
  <2>2. (SecondOf(x[1]) = SecondOf(y[1])) <=> second(x) = second(y)  BY <1>2, ColumnAssumption
  <2>3. x[1] = y[1] <=> (first(x) = first(y) /\ second(x) = second(y))  BY <1>2, <2>1, <2>2
  <2>4. x = y <=> (x[1] = y[1] /\ x[2] = y[2])  BY <1>2
  <2> QED  BY <2>1, <2>3, <2>4
<1>4. \A x, y \in K : <<x, y>> \in R <=>
        \/ first(x) < first(y)
        \/ first(x) = first(y) /\ second(x) < second(y)
        \/ first(x) = first(y) /\ second(x) = second(y) /\ x[2] < y[2]
  <2> SUFFICES ASSUME NEW x \in K, NEW y \in K
               PROVE  <<x, y>> \in R <=>
                        \/ first(x) < first(y)
                        \/ first(x) = first(y) /\ second(x) < second(y)
                        \/ first(x) = first(y) /\ second(x) = second(y) /\ x[2] < y[2]
    OBVIOUS
  <2>1. <<x, y>> \in R <=>
          \/ first(x) < first(y)
          \/ FirstOf(x[1]) = FirstOf(y[1]) /\ second(x) < second(y)
          \/ x[1] = y[1] /\ x[2] < y[2]
    BY DEF Before
  <2> QED  BY <1>3, <2>1
<1> HIDE DEF K, R, first, second
<1>5. TotalOrder(R, K)
  <2>1. \A x \in K : <<x, x>> \notin R  BY <1>2, <1>4
  <2>2. ASSUME NEW x \in K, NEW y \in K PROVE x = y \/ <<x, y>> \in R \/ <<y, x>> \in R
    <3>1. /\ first(x) \in Nat /\ second(x) \in Nat /\ x[2] \in Nat
          /\ first(y) \in Nat /\ second(y) \in Nat /\ y[2] \in Nat
      BY <1>2
    <3>2. x = y <=> (first(x) = first(y) /\ second(x) = second(y) /\ x[2] = y[2])  BY <1>3
    <3>3. <<x, y>> \in R <=>
            \/ first(x) < first(y)
            \/ first(x) = first(y) /\ second(x) < second(y)
            \/ first(x) = first(y) /\ second(x) = second(y) /\ x[2] < y[2]
      BY <1>4
    <3>4. <<y, x>> \in R <=>
            \/ first(y) < first(x)
            \/ first(y) = first(x) /\ second(y) < second(x)
            \/ first(y) = first(x) /\ second(y) = second(x) /\ y[2] < x[2]
      BY <1>4
    <3> QED  BY <3>1, <3>2, <3>3, <3>4
  <2>3. ASSUME NEW x \in K, NEW y \in K, NEW z \in K, <<x, y>> \in R, <<y, z>> \in R
        PROVE  <<x, z>> \in R
    <3>1. /\ first(x) \in Nat /\ second(x) \in Nat /\ x[2] \in Nat
          /\ first(y) \in Nat /\ second(y) \in Nat /\ y[2] \in Nat
          /\ first(z) \in Nat /\ second(z) \in Nat /\ z[2] \in Nat
      BY <1>2
    <3>2. \/ first(x) < first(y)
          \/ first(x) = first(y) /\ second(x) < second(y)
          \/ first(x) = first(y) /\ second(x) = second(y) /\ x[2] < y[2]
      BY <1>4, <2>3
    <3>3. \/ first(y) < first(z)
          \/ first(y) = first(z) /\ second(y) < second(z)
          \/ first(y) = first(z) /\ second(y) = second(z) /\ y[2] < z[2]
      BY <1>4, <2>3
    <3>4. \/ first(x) < first(z)
          \/ first(x) = first(z) /\ second(x) < second(z)
          \/ first(x) = first(z) /\ second(x) = second(z) /\ x[2] < z[2]
      BY <3>1, <3>2, <3>3
    <3> QED  BY <1>4, <3>4
  <2> QED  BY <2>1, <2>2, <2>3 DEF TotalOrder
<1> QED  BY <1>1, <1>5, InOrderLists DEF K, R

Handed(in) ==
  IF in.overlap THEN BuildOverlapBlocks(in.groups, in.blockSize, in.minOverlap)
  ELSE [blocks |-> <<>>, remaining |-> in.groups]

(* The blocks are one per key, the remaining groups are those not absorbed. *)
LEMMA HandedIs ==
  ASSUME NEW in \in Inputs
  PROVE  /\ \E f, n : Numbers(f, n, Keys(in)) /\ Handed(in).blocks =
              [m \in 1 .. n |-> Block(in.groups, f[m][1], f[m][2], in.blockSize)]
         /\ \E f, n : Numbers(f, n, Left(in)) /\ Handed(in).remaining = [m \in 1 .. n |-> in.groups[f[m]]]
<1> DEFINE g == in.groups
<1>1. g \in Seq(GroupAction) /\ DOMAIN g = 1 .. Len(g) /\ Len(g) \in Nat /\ in.overlap \in BOOLEAN  BY InputIs
<1>2. CASE ~in.overlap
  <2>1. Handed(in) = [blocks |-> <<>>, remaining |-> g]  BY <1>2 DEF Handed
  <2>2. Pairs(in) = {}  BY <1>2 DEF Pairs
  <2>3. Keys(in) = {} /\ Left(in) = DOMAIN g  BY <2>2 DEF Keys, BlockKeys, Left
  <2> DEFINE e == [i \in 1 .. 0 |-> 0]
             f == [i \in 1 .. Len(g) |-> i]
  <2>4. Numbers(e, 0, Keys(in)) /\ <<>> = [m \in 1 .. 0 |-> Block(g, e[m][1], e[m][2], in.blockSize)]
    BY <2>3 DEF Numbers
  <2>5. Numbers(f, Len(g), Left(in))
    <3> HIDE DEF g
    <3> QED  BY <1>1, <2>3 DEF Numbers
  <2>6. g = [m \in 1 .. Len(g) |-> g[f[m]]]
    <3> HIDE DEF g
    <3> QED  BY <1>1
  <2> HIDE DEF e, f
  <2> QED  BY <2>1, <2>4, <2>5, <2>6
<1>3. CASE in.overlap
  <2> DEFINE K == Keys(in)
             f == InOrder(K, Before(K))
             n == Cardinality(K)
             T == Left(in)
  <2>1. Pairs(in) = Absorbed(g, in.minOverlap)  BY <1>3 DEF Pairs
  <2>2. Handed(in) = [blocks |-> [m \in DOMAIN f |-> Block(g, f[m][1], f[m][2], in.blockSize)],
                      remaining |-> Part(g, T)]
    BY <1>3, <2>1 DEF Handed, BuildOverlapBlocks, Keys, Left
  <2>3. n \in Nat /\ DOMAIN f = 1 .. n
    <3>1. Lists(f, K, Before(K))  BY KeysOrdered
    <3>2. K \subseteq Pairs(in) \X (1 .. Len(g))  BY DEF Keys, BlockKeys
    <3>3. IsFiniteSet(1 .. Len(g))
      <4> HIDE DEF g
      <4> QED  BY <1>1, FS_Interval
    <3>4. IsFiniteSet(Pairs(in) \X (1 .. Len(g)))  BY <3>3, PairsFinite, FS_Product
    <3>5. IsFiniteSet(K)
      <4> HIDE DEF K
      <4> QED  BY <3>2, <3>4, FS_Subset
    <3>6. Cardinality(K) \in Nat  BY <3>5, FS_CardinalityType
    <3>7. DOMAIN f = 1 .. n  BY DEF InOrder
    <3> QED  BY <3>6, <3>7
  <2>4. Numbers(f, n, K)
    <3>1. Lists(f, K, Before(K))  BY KeysOrdered
    <3> HIDE DEF f, K
    <3> QED  BY <2>3, <3>1 DEF Lists, Numbers
  <2>5. Handed(in).blocks = [m \in 1 .. n |-> Block(g, f[m][1], f[m][2], in.blockSize)]
    <3> HIDE DEF f, n, g, T
    <3> QED  BY <2>2, <2>3
  <2>6. Handed(in).remaining = Part(g, T)
    <3> HIDE DEF f, T
    <3> QED  BY <2>2
  <2>7. T \in SUBSET DOMAIN g  BY DEF Left
  <2> HIDE DEF T, g
  <2>8. PICK h, m2 : Numbers(h, m2, T) /\ Part(g, T) = [i \in 1 .. m2 |-> g[h[i]]]
    <3>1. g \in Seq(GroupAction)  BY <1>1
    <3> QED  BY <3>1, <2>7, PartNumbers
  <2> HIDE DEF f, n, K
  <2>12. \E ff, nn : Numbers(ff, nn, K) /\ Handed(in).blocks =
              [m \in 1 .. nn |-> Block(g, ff[m][1], ff[m][2], in.blockSize)]
    BY <2>4, <2>5
  <2>13. \E ff, nn : Numbers(ff, nn, T) /\ Handed(in).remaining = [m \in 1 .. nn |-> g[ff[m]]]
    BY <2>6, <2>8
  <2> QED  BY <2>12, <2>13 DEF K, T, g
<1> QED  BY <1>1, <1>2, <1>3

-----------------------------------------------------------------------------
(* A reoriented pair is the same pair, its longer retention kept.          *)
LEMMA PairReoriented ==
  ASSUME NEW t \in TreeAction
  PROVE  LET r == ReorientPair(t) IN
         /\ r.kind = "tree" /\ {r.a, r.b} = {t.a, t.b} /\ r.size = t.size
         /\ ~MoreFrequent(r.a, r.b)
<1>1. /\ t.kind = "tree" /\ t.a \in Path /\ t.b \in Path
      /\ t = [kind |-> t.kind, a |-> t.a, b |-> t.b, size |-> t.size]
  BY DEF TreeAction
<1>2. Cadence[t.a].rank \in Int /\ Cadence[t.b].rank \in Int  BY <1>1, CadenceAssumption
<1>3. ~MoreFrequent(t.a, t.b) \/ ~MoreFrequent(t.b, t.a)  BY <1>2 DEF MoreFrequent
<1>4. CASE MoreFrequent(t.a, t.b)
  <2>1. ReorientPair(t) = [t EXCEPT !.a = t.b, !.b = t.a]  BY <1>4 DEF ReorientPair
  <2>2. /\ ReorientPair(t).kind = t.kind /\ ReorientPair(t).a = t.b
        /\ ReorientPair(t).b = t.a /\ ReorientPair(t).size = t.size
    BY <1>1, <2>1
  <2> QED  BY <1>1, <1>3, <1>4, <2>2
<1>5. CASE ~MoreFrequent(t.a, t.b)
  <2>1. ReorientPair(t) = t  BY <1>5 DEF ReorientPair
  <2> QED  BY <1>1, <1>5, <2>1
<1> QED  BY <1>4, <1>5

(* An item as the columns of a block list it.                              *)
ItemShape(it) == it = [size |-> it.size, a |-> it.a, b |-> it.b]

(* A reoriented block has the same columns, each under its own root.       *)
LEMMA BlockReoriented ==
  ASSUME NEW b, b = [kind |-> "overlap", rootA |-> b.rootA, rootB |-> b.rootB, items |-> b.items],
         NEW n \in Nat, b.items = [k \in 1 .. n |-> b.items[k]], \A k \in 1 .. n : ItemShape(b.items[k]),
         b.rootA \in Path, b.rootB \in Path
  PROVE  LET r == ReorientBlock(b) IN
         /\ r.kind = "overlap" /\ {r.rootA, r.rootB} = {b.rootA, b.rootB}
         /\ r.items = [k \in 1 .. n |-> r.items[k]]
         /\ \A k \in 1 .. n :
              /\ r.items[k].size = b.items[k].size
              /\ \/ /\ r.items[k].a = b.items[k].a /\ r.rootA = b.rootA
                    /\ r.items[k].b = b.items[k].b /\ r.rootB = b.rootB
                 \/ /\ r.items[k].a = b.items[k].b /\ r.rootA = b.rootB
                    /\ r.items[k].b = b.items[k].a /\ r.rootB = b.rootA
         /\ ~MoreFrequent(r.rootA, r.rootB)
<1> DEFINE r == ReorientBlock(b)
<1>1. Cadence[b.rootA].rank \in Int /\ Cadence[b.rootB].rank \in Int  BY CadenceAssumption
<1>2. ~MoreFrequent(b.rootA, b.rootB) \/ ~MoreFrequent(b.rootB, b.rootA)  BY <1>1 DEF MoreFrequent
<1>3. CASE MoreFrequent(b.rootA, b.rootB)
  <2> DEFINE swapped(k) == [b.items[k] EXCEPT !.a = b.items[k].b, !.b = b.items[k].a]
             f == [k \in 1 .. n |-> swapped(k)]
  <2>1. r = [b EXCEPT !.rootA = b.rootB, !.rootB = b.rootA, !.items = [k \in DOMAIN b.items |-> swapped(k)]]
    BY <1>3 DEF ReorientBlock
  <2>2. [k \in DOMAIN b.items |-> swapped(k)] = f  OBVIOUS
  <2>3. \A k \in 1 .. n : /\ swapped(k).size = b.items[k].size
                          /\ swapped(k).a = b.items[k].b /\ swapped(k).b = b.items[k].a
    BY DEF ItemShape
  <2> HIDE DEF swapped, f, r
  <2>4. /\ r.kind = "overlap" /\ r.rootA = b.rootB /\ r.rootB = b.rootA /\ r.items = f
    BY <2>1, <2>2
  <2>5. f = [k \in 1 .. n |-> f[k]] /\ \A k \in 1 .. n : f[k] = swapped(k)  BY DEF f
  <2> QED  BY <1>2, <1>3, <2>3, <2>4, <2>5 DEF r
<1>4. CASE ~MoreFrequent(b.rootA, b.rootB)
  <2>1. r = b  BY <1>4 DEF ReorientBlock
  <2>2. b.kind = "overlap"  OBVIOUS
  <2> QED  BY <1>4, <2>1, <2>2
<1> QED  BY <1>3, <1>4

(* All members of a list share one cadence context.                        *)
OneContext(files) == \A p, q \in RangeOf(files) : SameContext(p, q)

(* A reoriented group has the same files, the longest retention first.     *)
LEMMA FilesReoriented ==
  ASSUME NEW g \in GroupAction
  PROVE  LET r == ReorientFiles(g) IN
         /\ r.kind = "group" /\ r.size = g.size /\ r.files \in Seq(DOMAIN ColOf)
         /\ RangeOf(r.files) = RangeOf(g.files) /\ Len(r.files) = Len(g.files)
         /\ OneContext(r.files) => \A p \in RangeOf(r.files) : ~MoreFrequent(r.files[1], p)
<1> DEFINE r == ReorientFiles(g)
           s == g.files
           n == Len(s)
<1>1. /\ g.kind = "group" /\ s \in Seq(DOMAIN ColOf) /\ g.size \in Nat
      /\ g = [kind |-> g.kind, files |-> g.files, size |-> g.size]
  BY DEF GroupAction
<1>2. DOMAIN s = 1 .. n /\ n \in Nat /\ \A k \in 1 .. n : s[k] \in DOMAIN ColOf /\ s[k] \in Path
  BY <1>1, ColumnAssumption
<1>3. \A p \in Path : Cadence[p].rank \in Int  BY CadenceAssumption
<1>4. CASE n >= 2 /\ \A k \in DOMAIN s : SameContext(s[1], s[k])
  <2> DEFINE key == [k \in DOMAIN s |-> Cadence[s[k]].rank]
             at == At(DOMAIN s, key)
             t == SortedPart(s, DOMAIN s, key)
  <2>1. r = [g EXCEPT !.files = t]  BY <1>4 DEF ReorientFiles, StableDescending
  <2>2. \A k \in DOMAIN s : key[k] \in Int  BY <1>2, <1>3
  <2>3. \A k \in 1 .. n : key[k] = Cadence[s[k]].rank  BY <1>2
  <2> HIDE DEF key
  <2>4. Cardinality(DOMAIN s) = n  BY <1>2, FS_Interval
  <2>5. /\ Places(At(DOMAIN s, key), DOMAIN s, key)
        /\ SortedPart(s, DOMAIN s, key) = Rearranged(s, DOMAIN s, key)
        /\ SortedPart(s, DOMAIN s, key) \in Seq(DOMAIN ColOf)
        /\ Len(SortedPart(s, DOMAIN s, key)) = Cardinality(DOMAIN s)
    <3>1. DOMAIN s \in SUBSET DOMAIN s  OBVIOUS
    <3> QED  BY <1>1, <2>2, <3>1, Sorts
  <2>6. Places(at, 1 .. n, key) /\ t = [i \in 1 .. n |-> s[at[i]]] /\ t \in Seq(DOMAIN ColOf) /\ Len(t) = n
    BY <1>2, <2>4, <2>5 DEF Rearranged
  <2> HIDE DEF at, t
  <2>7. Cardinality(1 .. n) = n  BY <1>2, <2>4
  <2>8. /\ at \in [1 .. n -> 1 .. n] /\ \A k \in 1 .. n : \E i \in 1 .. n : at[i] = k
        /\ \A i, j \in 1 .. n : i < j => key[at[i]] >= key[at[j]]
    BY <2>6, <2>7 DEF Places
  <2> HIDE DEF s, n
  <2>9. RangeOf(t) = RangeOf(s)
    <3>1. RangeOf(t) = {s[at[i]] : i \in 1 .. n}  BY <2>6 DEF RangeOf
    <3>2. RangeOf(s) = {s[i] : i \in 1 .. n}  BY <1>2 DEF RangeOf
    <3>3. \A i \in 1 .. n : at[i] \in 1 .. n  BY <2>8
    <3>4. {s[at[i]] : i \in 1 .. n} = {s[i] : i \in 1 .. n}  BY <2>8, <3>3, Zenon
    <3> QED  BY <3>1, <3>2, <3>4
  <2>10. r.kind = "group" /\ r.size = g.size /\ r.files = t  BY <1>1, <2>1
  <2>11. \A p \in RangeOf(t) : ~MoreFrequent(t[1], p)
    <3> SUFFICES ASSUME NEW i \in 1 .. n PROVE ~MoreFrequent(t[1], t[i])
      BY <2>6 DEF RangeOf
    <3>1. 1 \in 1 .. n  BY <1>2
    <3>2. t[1] = s[at[1]] /\ t[i] = s[at[i]] /\ at[1] \in 1 .. n /\ at[i] \in 1 .. n  BY <2>6, <2>8, <3>1
    <3>3. key[at[1]] >= key[at[i]]
      <4>1. CASE i = 1
        <5>1. key[at[1]] \in Int  BY <1>2, <2>2, <3>2
        <5> QED  BY <4>1, <5>1
      <4>2. CASE i # 1  BY <1>2, <2>8, <3>1, <4>2
      <4> QED  BY <4>1, <4>2
    <3>4. Cadence[t[1]].rank >= Cadence[t[i]].rank  BY <2>3, <3>2, <3>3
    <3>5. Cadence[t[1]].rank \in Int /\ Cadence[t[i]].rank \in Int  BY <1>2, <1>3, <3>2
    <3> QED  BY <3>4, <3>5 DEF MoreFrequent
  <2> QED  BY <2>6, <2>9, <2>10, <2>11 DEF s, n
<1>5. CASE ~(n >= 2 /\ \A k \in DOMAIN s : SameContext(s[1], s[k]))
  <2>1. r = g  BY <1>5 DEF ReorientFiles
  <2>2. ASSUME OneContext(s), NEW p \in RangeOf(s) PROVE ~MoreFrequent(s[1], p)
    <3>1. RangeOf(s) = {s[k] : k \in 1 .. n}  BY <1>2 DEF RangeOf
    <3>2. n # 0  BY <1>2, <3>1
    <3>3. s[1] \in RangeOf(s) /\ \A k \in DOMAIN s : s[k] \in RangeOf(s)  BY <1>2, <3>1, <3>2
    <3>4. \A k \in DOMAIN s : SameContext(s[1], s[k])  BY <2>2, <3>3 DEF OneContext
    <3>5. n = 1
      <4>1. ~(n >= 2)  BY <1>5, <3>4, Zenon
      <4> HIDE DEF n
      <4> QED  BY <1>2, <3>2, <4>1
    <3>6. p = s[1]  BY <2>2, <3>1, <3>5
    <3>7. Cadence[s[1]].rank \in Int  BY <1>2, <1>3, <3>5
    <3> QED  BY <3>6, <3>7 DEF MoreFrequent
  <2> QED  BY <1>1, <2>1, <2>2
<1> QED  BY <1>4, <1>5

-----------------------------------------------------------------------------
(* The group whose item is number k of the block of a key.                 *)
ItemGroup(in, key, k) == SharedAt(in.groups, key[1])[(key[2] - 1) * in.blockSize + k]

ItemCount(in, key) == BlockLength(Cardinality(Sharing(in.groups, key[1])), key[2], in.blockSize)

InColumns(g) == {f \in RangeOf(g.files) : ColOf[f] # NoColumn}

(* The items of a block are groups that span its two columns.              *)
LEMMA ItemGroupIs ==
  ASSUME NEW in \in Inputs, NEW key \in Keys(in)
  PROVE  /\ ItemCount(in, key) \in 1 .. in.blockSize
         /\ \A k \in 1 .. ItemCount(in, key) :
              /\ (key[2] - 1) * in.blockSize + k \in 1 .. Cardinality(Sharing(in.groups, key[1]))
              /\ ItemGroup(in, key, k) \in DOMAIN in.groups
              /\ Columns(in.groups[ItemGroup(in, key, k)]) = key[1]
<1> DEFINE T == Sharing(in.groups, key[1])
           n == in.blockSize
           len == ItemCount(in, key)
<1>1. in.groups \in Seq(GroupAction) /\ n \in Nat \ {0}  BY InputIs
<1>2. Places(SharedAt(in.groups, key[1]), T, SizeOf(in.groups))  BY <1>1, SharedPlaces
<1>3. Cardinality(T) \in Nat /\ key[2] \in Chunks(Cardinality(T), n)  BY <1>2, KeyIs DEF Places
<1>4. len \in 1 .. n /\ \A k \in 1 .. len : (key[2] - 1) * n + k \in 1 .. Cardinality(T)
  <2> HIDE DEF n, T
  <2>1. len = BlockLength(Cardinality(T), key[2], n)  BY DEF ItemCount, n, T
  <2> HIDE DEF len
  <2> QED  BY <1>1, <1>3, <2>1, ChunkRange
<1>5. ASSUME NEW k \in 1 .. len
      PROVE  ItemGroup(in, key, k) \in T
  <2>1. (key[2] - 1) * n + k \in 1 .. Cardinality(T)  BY <1>4
  <2>2. ItemGroup(in, key, k) = SharedAt(in.groups, key[1])[(key[2] - 1) * n + k]  BY DEF ItemGroup
  <2> HIDE DEF n, T, len
  <2> QED  BY <1>2, <2>1, <2>2 DEF Places
<1>6. \A j \in T : j \in DOMAIN in.groups /\ Columns(in.groups[j]) = key[1]  BY DEF Sharing
<1> HIDE DEF T
<1> QED  BY <1>4, <1>5, <1>6 DEF T

(* f is a sequence of n elements.                                          *)
Listing(f, n) == f = [i \in 1 .. n |-> f[i]]

(* The queued block of a key.                                              *)
LEMMA KeyBlock ==
  ASSUME NEW in \in Inputs, NEW key \in Keys(in)
  PROVE  LET r == ReorientBlock(Block(in.groups, key[1], key[2], in.blockSize)) IN
         /\ r.kind = "overlap" /\ {r.rootA, r.rootB} = key[1]
         /\ ~MoreFrequent(r.rootA, r.rootB)
         /\ Listing(r.items, ItemCount(in, key))
         /\ \A k \in 1 .. ItemCount(in, key) :
              /\ r.items[k].size \in Int
              /\ {ColOf[f] : f \in RangeOf(r.items[k].a)} = {r.rootA}
              /\ {ColOf[f] : f \in RangeOf(r.items[k].b)} = {r.rootB}
              /\ ItemFiles(r.items[k]) = InColumns(in.groups[ItemGroup(in, key, k)])
              /\ ItemFiles(r.items[k]) # {}
<1> DEFINE p == key[1]
           n == in.blockSize
           len == ItemCount(in, key)
           b == Block(in.groups, p, key[2], n)
           r == ReorientBlock(b)
           g(k) == in.groups[ItemGroup(in, key, k)]
<1>1. in.groups \in Seq(GroupAction) /\ n \in Nat \ {0}  BY InputIs
<1>2. p \in Pairs(in) /\ key[2] \in Chunks(Cardinality(Sharing(in.groups, p)), n)  BY KeyIs
<1>3. p \subseteq Column /\ IsFiniteSet(p) /\ Cardinality(p) = 2  BY <1>2, PairIs
<1>4. /\ FirstOf(p) \in Column /\ SecondOf(p) \in Column /\ FirstOf(p) # SecondOf(p)
      /\ p = {FirstOf(p), SecondOf(p)}
  BY <1>3, PairEnds
<1>5. len \in 1 .. n /\ \A k \in 1 .. len : g(k) \in GroupAction /\ Columns(g(k)) = p
  BY <1>1, ItemGroupIs, GroupIs
<1>6. /\ b = [kind |-> "overlap", rootA |-> FirstOf(p), rootB |-> SecondOf(p), items |-> b.items]
      /\ b.items = [k \in 1 .. len |-> SharedItem(g(k))]
  <2>1. b = BlockFrom(in.groups, p, key[2], n)  BY <1>1, <1>2, BlockIs
  <2> QED  BY <2>1 DEF BlockFrom, ItemCount, ItemGroup
<1>7. \A k \in 1 .. len :
        LET it == SharedItem(g(k)) IN
        /\ {ColOf[f] : f \in RangeOf(it.a)} = {FirstOf(p)}
        /\ {ColOf[f] : f \in RangeOf(it.b)} = {SecondOf(p)}
        /\ ItemFiles(it) = InColumns(g(k))
        /\ ItemFiles(it) # {}
        /\ it.size \in Int
  <2> SUFFICES ASSUME NEW k \in 1 .. len
               PROVE  LET it == SharedItem(g(k)) IN
                      /\ {ColOf[f] : f \in RangeOf(it.a)} = {FirstOf(p)}
                      /\ {ColOf[f] : f \in RangeOf(it.b)} = {SecondOf(p)}
                      /\ ItemFiles(it) = InColumns(g(k))
                      /\ ItemFiles(it) # {}
                      /\ it.size \in Int
    OBVIOUS
  <2>1. g(k) \in GroupAction /\ Columns(g(k)) = p /\ Cardinality(p) = 2  BY <1>3, <1>5
  <2> HIDE DEF g, p
  <2> QED  BY <2>1, ItemIs DEF InColumns
<1>8. \A k \in 1 .. len : ItemShape(SharedItem(g(k)))  BY DEF ItemShape, SharedItem
<1> HIDE DEF g, b, r, len, p, n
<1>9. /\ b.rootA = FirstOf(p) /\ b.rootB = SecondOf(p)
      /\ b = [kind |-> "overlap", rootA |-> b.rootA, rootB |-> b.rootB, items |-> b.items]
      /\ b.items = [k \in 1 .. len |-> b.items[k]]
      /\ \A k \in 1 .. len : b.items[k] = SharedItem(g(k))
  <2>1. b.rootA = FirstOf(p) /\ b.rootB = SecondOf(p)  BY <1>6
  <2>2. b.items = [k \in 1 .. len |-> b.items[k]] /\ \A k \in 1 .. len : b.items[k] = SharedItem(g(k))
    BY <1>6
  <2> QED  BY <1>6, <2>1, <2>2
<1>10. b.rootA \in Path /\ b.rootB \in Path /\ len \in Nat /\ \A k \in 1 .. len : ItemShape(b.items[k])
  BY <1>1, <1>4, <1>5, <1>8, <1>9, ColumnAssumption
<1>11. /\ r.kind = "overlap" /\ {r.rootA, r.rootB} = {b.rootA, b.rootB}
       /\ r.items = [k \in 1 .. len |-> r.items[k]]
       /\ \A k \in 1 .. len :
            /\ r.items[k].size = b.items[k].size
            /\ \/ /\ r.items[k].a = b.items[k].a /\ r.rootA = b.rootA
                  /\ r.items[k].b = b.items[k].b /\ r.rootB = b.rootB
               \/ /\ r.items[k].a = b.items[k].b /\ r.rootA = b.rootB
                  /\ r.items[k].b = b.items[k].a /\ r.rootB = b.rootA
       /\ ~MoreFrequent(r.rootA, r.rootB)
  BY <1>9, <1>10, BlockReoriented DEF r
<1>12. \A k \in 1 .. len :
         /\ r.items[k].size \in Int
         /\ {ColOf[f] : f \in RangeOf(r.items[k].a)} = {r.rootA}
         /\ {ColOf[f] : f \in RangeOf(r.items[k].b)} = {r.rootB}
         /\ ItemFiles(r.items[k]) = InColumns(g(k))
         /\ ItemFiles(r.items[k]) # {}
  <2> SUFFICES ASSUME NEW k \in 1 .. len
               PROVE  /\ r.items[k].size \in Int
                      /\ {ColOf[f] : f \in RangeOf(r.items[k].a)} = {r.rootA}
                      /\ {ColOf[f] : f \in RangeOf(r.items[k].b)} = {r.rootB}
                      /\ ItemFiles(r.items[k]) = InColumns(g(k))
                      /\ ItemFiles(r.items[k]) # {}
    OBVIOUS
  <2>1. /\ b.items[k].size \in Int
        /\ {ColOf[f] : f \in RangeOf(b.items[k].a)} = {b.rootA}
        /\ {ColOf[f] : f \in RangeOf(b.items[k].b)} = {b.rootB}
        /\ ItemFiles(b.items[k]) = InColumns(g(k))
        /\ ItemFiles(b.items[k]) # {}
    BY <1>7, <1>9
  <2>2. ItemFiles(r.items[k]) = ItemFiles(b.items[k])  BY <1>11 DEF ItemFiles
  <2> QED  BY <1>11, <2>1, <2>2
<1>13. {r.rootA, r.rootB} = p  BY <1>4, <1>9, <1>11
<1>14. Listing(r.items, len)  BY <1>11 DEF Listing
<1> QED  BY <1>11, <1>12, <1>13, <1>14 DEF r, b, p, n, len, g

(* What the actions of the queue are made from.                            *)
Source(in) ==
  {<<"tree", k>> : k \in DOMAIN in.trees} \cup {<<"overlap", key>> : key \in Keys(in)}
  \cup {<<"group", k>> : k \in Left(in)}

Made(in, src) ==
  CASE src[1] = "tree"    -> ReorientPair(in.trees[src[2]])
    [] src[1] = "overlap" -> ReorientBlock(Block(in.groups, src[2][1], src[2][2], in.blockSize))
    [] src[1] = "group"   -> ReorientFiles(in.groups[src[2]])

(* Every action has a number of reclaimable bytes, so sorting is total.    *)
LEMMA MadeWeighs ==
  ASSUME NEW in \in Inputs, NEW src \in Source(in)
  PROVE  Waste(Made(in, src)) \in Int
<1>1. CASE \E k \in DOMAIN in.trees : src = <<"tree", k>>
  <2>1. PICK k \in DOMAIN in.trees : src = <<"tree", k>>  BY <1>1
  <2>2. in.trees[k] \in TreeAction  BY InputIs
  <2>3. in.trees[k].size \in Nat  BY <2>2 DEF TreeAction
  <2>4. Made(in, src) = ReorientPair(in.trees[k])  BY <2>1 DEF Made
  <2>5. Made(in, src).kind = "tree" /\ Made(in, src).size \in Nat  BY <2>2, <2>3, <2>4, PairReoriented
  <2> QED  BY <2>5 DEF Waste
<1>2. CASE \E key \in Keys(in) : src = <<"overlap", key>>
  <2>1. PICK key \in Keys(in) : src = <<"overlap", key>>  BY <1>2
  <2> DEFINE r == ReorientBlock(Block(in.groups, key[1], key[2], in.blockSize))
             n == ItemCount(in, key)
             f == [k \in DOMAIN r.items |-> r.items[k].size]
  <2>2. Made(in, src) = r  BY <2>1 DEF Made
  <2>3. r.kind = "overlap" /\ Listing(r.items, n)
        /\ \A k \in 1 .. n : r.items[k].size \in Int
    BY KeyBlock
  <2>4. n \in Nat
    <3>1. n \in 1 .. in.blockSize /\ in.blockSize \in Nat  BY ItemGroupIs, InputIs
    <3> HIDE DEF n
    <3> QED  BY <3>1
  <2> HIDE DEF r, n
  <2>5. DOMAIN r.items = 1 .. n  BY <2>3 DEF Listing
  <2>6. f = [k \in 1 .. n |-> r.items[k].size]  BY <2>5
  <2>7. f \in [1 .. n -> Int]  BY <2>3, <2>6
  <2> HIDE DEF f
  <2>8. Len(f) = n  BY <2>4, <2>7
  <2>9. SumOver(f) \in Int  BY <2>4, <2>7, <2>8, SumIsInt
  <2> QED  BY <2>2, <2>3, <2>9 DEF Waste, f
<1>3. CASE \E k \in Left(in) : src = <<"group", k>>
  <2>1. PICK k \in Left(in) : src = <<"group", k>>  BY <1>3
  <2>2. in.groups[k] \in GroupAction /\ in.groups[k].size \in Nat  BY <2>1, InputIs, GroupIs DEF Left
  <2>3. Made(in, src) = ReorientFiles(in.groups[k])  BY <2>1 DEF Made
  <2>4. Made(in, src).kind = "group" /\ Made(in, src).size \in Nat /\ Made(in, src).files \in Seq(DOMAIN ColOf)
    BY <2>2, <2>3, FilesReoriented
  <2>5. Len(Made(in, src).files) \in Nat  BY <2>4
  <2> QED  BY <2>4, <2>5 DEF Waste
<1> QED  BY <1>1, <1>2, <1>3 DEF Source

-----------------------------------------------------------------------------
(* c is a and then b.                                                      *)
Joins(c, a, n, b, m) ==
  /\ Listing(c, n + m)
  /\ \A i \in 1 .. n : c[i] = a[i]
  /\ \A i \in 1 .. m : c[n + i] = b[i]

(* Two sequences end to end.                                               *)
LEMMA Joined ==
  ASSUME NEW n \in Nat, NEW m \in Nat, NEW a, Listing(a, n), NEW b, Listing(b, m)
  PROVE  Joins(a \o b, a, n, b, m)
<1> DEFINE X == {a[i] : i \in 1 .. n} \cup {b[i] : i \in 1 .. m}
<1>1. \A i \in 1 .. n : a[i] \in X  OBVIOUS
<1>2. \A i \in 1 .. m : b[i] \in X  OBVIOUS
<1> HIDE DEF X
<1>3. a \in [1 .. n -> X] /\ b \in [1 .. m -> X]  BY <1>1, <1>2 DEF Listing
<1>4. a \in Seq(X) /\ Len(a) = n /\ b \in Seq(X) /\ Len(b) = m  BY <1>3
<1>5. a \o b \in Seq(X) /\ Len(a \o b) = n + m  BY <1>4
<1>6. Listing(a \o b, n + m)
  <2> DEFINE c == a \o b
             l == n + m
  <2>1. c \in Seq(X) /\ Len(c) = l /\ l \in Nat  BY <1>5
  <2> HIDE DEF c, l
  <2>2. c \in [1 .. l -> X]  BY <2>1
  <2> QED  BY <2>2 DEF Listing, c, l
<1>7. \A i \in 1 .. n : (a \o b)[i] = a[i]  BY <1>4
<1>8. \A i \in 1 .. m : (a \o b)[n + i] = b[i]  BY <1>4
<1> QED  BY <1>6, <1>7, <1>8 DEF Joins

(* Three sequences end to end.                                             *)
LEMMA JoinedThrice ==
  ASSUME NEW n \in Nat, NEW m \in Nat, NEW l \in Nat,
         NEW a, Listing(a, n), NEW b, Listing(b, m), NEW c, Listing(c, l)
  PROVE  \E ab : Joins(ab, a, n, b, m) /\ Joins(a \o b \o c, ab, n + m, c, l)
<1>1. Joins(a \o b, a, n, b, m)  BY Joined
<1>2. n + m \in Nat /\ Listing(a \o b, n + m)  BY <1>1 DEF Joins
<1>3. Joins((a \o b) \o c, a \o b, n + m, c, l)  BY <1>2, Joined
<1> QED  BY <1>1, <1>3

Queued(in) == QueueOf(in.trees, in.groups, in.overlap, in.blockSize, in.minOverlap)

(* The three kinds of actions, before they are merged.                     *)
Unsorted(in) ==
  Apply(ReorientPair, in.trees) \o Apply(ReorientBlock, Handed(in).blocks)
  \o Apply(ReorientFiles, Handed(in).remaining)

(* buildCleanupActions sorts the three kinds of actions together.          *)
LEMMA QueuedIs ==
  ASSUME NEW in
  PROVE  Queued(in) = LET all == Unsorted(in)
                      IN SortedPart(all, DOMAIN all, [k \in DOMAIN all |-> Waste(all[k])])
BY DEF Queued, QueueOf, Handed, Unsorted, BuildCleanupActions, StableDescending

(* Before they are sorted, the actions are one per source.                 *)
LEMMA UnsortedMade ==
  ASSUME NEW in \in Inputs
  PROVE  \E src, n : Numbers(src, n, Source(in)) /\ Unsorted(in) = [j \in 1 .. n |-> Made(in, src[j])]
<1> DEFINE nt == Len(in.trees)
           a == Apply(ReorientPair, in.trees)
           b == Apply(ReorientBlock, Handed(in).blocks)
           c == Apply(ReorientFiles, Handed(in).remaining)
<1>1. PICK f, nb : Numbers(f, nb, Keys(in)) /\ Handed(in).blocks =
              [m \in 1 .. nb |-> Block(in.groups, f[m][1], f[m][2], in.blockSize)]
  BY HandedIs
<1>2. PICK h, nr : Numbers(h, nr, Left(in)) /\ Handed(in).remaining = [m \in 1 .. nr |-> in.groups[h[m]]]
  BY HandedIs
<1>3. nt \in Nat /\ DOMAIN in.trees = 1 .. nt /\ nb \in Nat /\ nr \in Nat  BY <1>1, <1>2, InputIs DEF Numbers
<1>4. Listing(a, nt) /\ \A k \in 1 .. nt : a[k] = Made(in, <<"tree", k>>)
  <2>1. a = [k \in DOMAIN in.trees |-> ReorientPair(in.trees[k])]  BY DEF Apply
  <2>2. \A k \in 1 .. nt : Made(in, <<"tree", k>>) = ReorientPair(in.trees[k])  BY DEF Made
  <2> HIDE DEF a, nt
  <2> QED  BY <1>3, <2>1, <2>2 DEF Listing
<1>5. Listing(b, nb) /\ \A k \in 1 .. nb : b[k] = Made(in, <<"overlap", f[k]>>)
  <2>1. b = [k \in DOMAIN Handed(in).blocks |-> ReorientBlock(Handed(in).blocks[k])]  BY DEF Apply
  <2>2. \A k \in 1 .. nb : Made(in, <<"overlap", f[k]>>)
                           = ReorientBlock(Block(in.groups, f[k][1], f[k][2], in.blockSize))
    BY DEF Made
  <2> HIDE DEF b
  <2> QED  BY <1>1, <2>1, <2>2 DEF Listing
<1>6. Listing(c, nr) /\ \A k \in 1 .. nr : c[k] = Made(in, <<"group", h[k]>>)
  <2>1. c = [k \in DOMAIN Handed(in).remaining |-> ReorientFiles(Handed(in).remaining[k])]  BY DEF Apply
  <2>2. \A k \in 1 .. nr : Made(in, <<"group", h[k]>>) = ReorientFiles(in.groups[h[k]])  BY DEF Made
  <2> HIDE DEF c
  <2> QED  BY <1>2, <2>1, <2>2 DEF Listing
<1> DEFINE all == a \o b \o c
           n == nt + nb + nr
           src == [k \in 1 .. n |->
                     IF k <= nt THEN <<"tree", k>>
                     ELSE IF k <= nt + nb THEN <<"overlap", f[k - nt]>>
                     ELSE <<"group", h[k - (nt + nb)]>>]
<1>7. all = Unsorted(in)  BY DEF Unsorted
<1> HIDE DEF a, b, c, nt
<1>8. /\ Listing(all, n)
      /\ \A i \in 1 .. nt : all[i] = a[i]
      /\ \A i \in 1 .. nb : all[nt + i] = b[i]
      /\ \A i \in 1 .. nr : all[nt + nb + i] = c[i]
  <2>1. Listing(a, nt) /\ Listing(b, nb) /\ Listing(c, nr)  BY <1>4, <1>5, <1>6
  <2>2. PICK ab : Joins(ab, a, nt, b, nb) /\ Joins(all, ab, nt + nb, c, nr)
    BY <1>3, <2>1, JoinedThrice
  <2> HIDE DEF all
  <2>3. /\ Listing(all, n)
        /\ \A i \in 1 .. (nt + nb) : all[i] = ab[i]
        /\ \A i \in 1 .. nr : all[nt + nb + i] = c[i]
    BY <2>2 DEF Joins
  <2>4. \A i \in 1 .. nt : i \in 1 .. (nt + nb) /\ ab[i] = a[i]  BY <1>3, <2>2 DEF Joins
  <2>5. \A i \in 1 .. nb : nt + i \in 1 .. (nt + nb) /\ ab[nt + i] = b[i]  BY <1>3, <2>2 DEF Joins
  <2> QED  BY <2>3, <2>4, <2>5
<1> HIDE DEF all
<1>9. ASSUME NEW k \in 1 .. n
      PROVE  \/ k \in 1 .. nt /\ src[k] = <<"tree", k>>
             \/ k - nt \in 1 .. nb /\ src[k] = <<"overlap", f[k - nt]>>
             \/ k - (nt + nb) \in 1 .. nr /\ src[k] = <<"group", h[k - (nt + nb)]>>
  BY <1>3
<1>10. \A k \in 1 .. n : all[k] = Made(in, src[k])
  <2> SUFFICES ASSUME NEW k \in 1 .. n PROVE all[k] = Made(in, src[k])  OBVIOUS
  <2> HIDE DEF src
  <2>1. CASE k \in 1 .. nt /\ src[k] = <<"tree", k>>  BY <1>4, <1>8, <2>1
  <2>2. CASE k - nt \in 1 .. nb /\ src[k] = <<"overlap", f[k - nt]>>
    <3>1. k = nt + (k - nt)  BY <1>3
    <3> QED  BY <1>5, <1>8, <2>2, <3>1
  <2>3. CASE k - (nt + nb) \in 1 .. nr /\ src[k] = <<"group", h[k - (nt + nb)]>>
    <3>1. k = nt + nb + (k - (nt + nb))  BY <1>3
    <3> QED  BY <1>6, <1>8, <2>3, <3>1
  <2> QED  BY <1>9, <2>1, <2>2, <2>3
<1>11. all = [k \in 1 .. n |-> Made(in, src[k])]
  <2> HIDE DEF src, n
  <2> QED  BY <1>8, <1>10 DEF Listing
<1>12. Numbers(src, n, Source(in))
  <2>1. n \in Nat  BY <1>3
  <2>2. \A k \in 1 .. n : src[k] \in Source(in)
    <3> SUFFICES ASSUME NEW k \in 1 .. n PROVE src[k] \in Source(in)  OBVIOUS
    <3> HIDE DEF src
    <3>1. \A i \in 1 .. nb : f[i] \in Keys(in)  BY <1>1 DEF Numbers
    <3>2. \A i \in 1 .. nr : h[i] \in Left(in)  BY <1>2 DEF Numbers
    <3> QED  BY <1>3, <1>9, <3>1, <3>2 DEF Source
  <2>3. src \in [1 .. n -> Source(in)]
    <3> DEFINE v(k) == IF k <= nt THEN <<"tree", k>>
                     ELSE IF k <= nt + nb THEN <<"overlap", f[k - nt]>>
                     ELSE <<"group", h[k - (nt + nb)]>>
    <3>1. src = [k \in 1 .. n |-> v(k)]  OBVIOUS
    <3> HIDE DEF v, src
    <3> QED  BY <2>2, <3>1
  <2>4. ASSUME NEW x \in Source(in) PROVE \E k \in 1 .. n : src[k] = x
    <3>1. CASE \E k \in DOMAIN in.trees : x = <<"tree", k>>
      <4>1. PICK k \in 1 .. nt : x = <<"tree", k>>  BY <1>3, <3>1
      <4>2. k \in 1 .. n /\ src[k] = x  BY <1>3, <4>1
      <4> QED  BY <4>2
    <3>2. CASE \E key \in Keys(in) : x = <<"overlap", key>>
      <4>1. PICK key \in Keys(in) : x = <<"overlap", key>>  BY <3>2
      <4>2. PICK k \in 1 .. nb : f[k] = key  BY <1>1 DEF Numbers
      <4>3. nt + k \in 1 .. n /\ ~(nt + k <= nt) /\ nt + k <= nt + nb /\ (nt + k) - nt = k
        <5> HIDE DEF src
        <5> QED  BY <1>3
      <4>4. src[nt + k] = <<"overlap", f[k]>>
        <5> HIDE DEF n
        <5> DEFINE pos == nt + k
        <5>1. pos \in 1 .. n /\ ~(pos <= nt) /\ pos <= nt + nb  BY <4>3
        <5> HIDE DEF pos
        <5>2. src[pos] = <<"overlap", f[pos - nt]>>  BY <5>1
        <5> HIDE DEF src
        <5>3. pos - nt = k  BY <4>3 DEF pos
        <5> QED  BY <5>2, <5>3 DEF pos
      <4> QED  BY <4>1, <4>2, <4>3, <4>4
    <3>3. CASE \E k \in Left(in) : x = <<"group", k>>
      <4>1. PICK pos \in Left(in) : x = <<"group", pos>>  BY <3>3
      <4>2. PICK k \in 1 .. nr : h[k] = pos  BY <1>2 DEF Numbers
      <4>3. /\ nt + nb + k \in 1 .. n /\ ~(nt + nb + k <= nt) /\ ~(nt + nb + k <= nt + nb)
            /\ (nt + nb + k) - (nt + nb) = k
        BY <1>3
      <4>4. src[nt + nb + k] = <<"group", h[k]>>
        <5> HIDE DEF n
        <5> DEFINE place == nt + nb + k
        <5>1. place \in 1 .. n /\ ~(place <= nt) /\ ~(place <= nt + nb)  BY <4>3
        <5> HIDE DEF place
        <5>2. src[place] = <<"group", h[place - (nt + nb)]>>  BY <5>1
        <5> HIDE DEF src
        <5>3. place - (nt + nb) = k  BY <4>3 DEF place
        <5> QED  BY <5>2, <5>3 DEF place
      <4> QED  BY <4>1, <4>2, <4>3, <4>4
    <3> QED  BY <3>1, <3>2, <3>3 DEF Source
  <2>5. ASSUME NEW i \in 1 .. n, NEW j \in 1 .. n, src[i] = src[j] PROVE i = j
    <3>1. \A x, y \in 1 .. nb : f[x] = f[y] => x = y  BY <1>1 DEF Numbers
    <3>2. \A x, y \in 1 .. nr : h[x] = h[y] => x = y  BY <1>2 DEF Numbers
    <3>3. \/ i \in 1 .. nt /\ src[i] = <<"tree", i>>
          \/ i - nt \in 1 .. nb /\ src[i] = <<"overlap", f[i - nt]>>
          \/ i - (nt + nb) \in 1 .. nr /\ src[i] = <<"group", h[i - (nt + nb)]>>
      BY <1>9
    <3>4. \/ j \in 1 .. nt /\ src[j] = <<"tree", j>>
          \/ j - nt \in 1 .. nb /\ src[j] = <<"overlap", f[j - nt]>>
          \/ j - (nt + nb) \in 1 .. nr /\ src[j] = <<"group", h[j - (nt + nb)]>>
      BY <1>9
    <3> HIDE DEF src, n
    <3>5. CASE i \in 1 .. nt /\ src[i] = <<"tree", i>>  BY <2>5, <3>4, <3>5
    <3>6. CASE i - nt \in 1 .. nb /\ src[i] = <<"overlap", f[i - nt]>>
      <4>1. j - nt \in 1 .. nb /\ f[i - nt] = f[j - nt]  BY <2>5, <3>4, <3>6
      <4>2. i - nt = j - nt  BY <3>1, <3>6, <4>1
      <4>3. i \in Int /\ j \in Int  BY DEF n
      <4> QED  BY <1>3, <4>2, <4>3
    <3>7. CASE i - (nt + nb) \in 1 .. nr /\ src[i] = <<"group", h[i - (nt + nb)]>>
      <4>1. j - (nt + nb) \in 1 .. nr /\ h[i - (nt + nb)] = h[j - (nt + nb)]  BY <2>5, <3>4, <3>7
      <4>2. i - (nt + nb) = j - (nt + nb)  BY <3>2, <3>7, <4>1
      <4>3. i \in Int /\ j \in Int  BY DEF n
      <4> QED  BY <1>3, <4>2, <4>3
    <3> QED  BY <3>3, <3>5, <3>6, <3>7
  <2> HIDE DEF src, n
  <2> QED  BY <2>1, <2>3, <2>4, <2>5 DEF Numbers
<1> HIDE DEF src, n
<1> QED  BY <1>7, <1>11, <1>12

(* The queue is one action per source, largest first.                      *)
LEMMA QueueMade ==
  ASSUME NEW in \in Inputs
  PROVE  \E src, n : /\ Numbers(src, n, Source(in))
                     /\ Queued(in) = [j \in 1 .. n |-> Made(in, src[j])]
                     /\ \A i, j \in 1 .. n : i < j => Waste(Queued(in)[i]) >= Waste(Queued(in)[j])
<1>1. PICK old, n : Numbers(old, n, Source(in)) /\ Unsorted(in) = [j \in 1 .. n |-> Made(in, old[j])]
  BY UnsortedMade
<1> DEFINE all == Unsorted(in)
           D == 1 .. n
           key == [k \in DOMAIN all |-> Waste(all[k])]
           at == At(D, key)
           X == {Made(in, src) : src \in Source(in)}
           src == [i \in D |-> old[at[i]]]
           q == Queued(in)
<1>2. n \in Nat /\ old \in [D -> Source(in)]  BY <1>1 DEF Numbers
<1>3. DOMAIN all = D /\ \A k \in D : all[k] = Made(in, old[k])  BY <1>1
<1>4. all \in Seq(X)
  <2>1. \A k \in D : Made(in, old[k]) \in X  BY <1>2
  <2> HIDE DEF X, all
  <2> QED  BY <1>1, <1>2, <2>1 DEF all
<1>5. \A k \in D : key[k] = Waste(all[k]) /\ key[k] \in Int
  <2> SUFFICES ASSUME NEW k \in D PROVE key[k] = Waste(all[k]) /\ key[k] \in Int  OBVIOUS
  <2>1. key[k] = Waste(all[k])  BY <1>3
  <2>2. old[k] \in Source(in)  BY <1>2
  <2>3. Waste(Made(in, old[k])) \in Int  BY <2>2, MadeWeighs
  <2> HIDE DEF key, all
  <2> QED  BY <1>3, <2>1, <2>3
<1>6. q = SortedPart(all, D, key)
  <2>1. q = SortedPart(all, DOMAIN all, key)  BY QueuedIs
  <2> HIDE DEF all, q, key
  <2> QED  BY <1>3, <2>1
<1>7. Cardinality(D) = n  BY <1>2, FS_Interval
<1> HIDE DEF key, all, X
<1>8. /\ Places(At(D, key), D, key)
      /\ SortedPart(all, D, key) = Rearranged(all, D, key)
  <2>1. D \in SUBSET DOMAIN all  BY <1>3
  <2>2. \A k \in D : key[k] \in Int  BY <1>5
  <2> HIDE DEF D
  <2> QED  BY <1>4, <2>1, <2>2, Sorts
<1>9. q = [i \in D |-> all[at[i]]]  BY <1>6, <1>7, <1>8 DEF Rearranged
<1>10. /\ at \in [D -> D] /\ \A k \in D : \E i \in D : at[i] = k
       /\ \A i, j \in D : at[i] = at[j] => i = j
       /\ \A i, j \in D : i < j => key[at[i]] >= key[at[j]]
  <2>1. Places(at, D, key)  BY <1>8
  <2> HIDE DEF at
  <2> QED  BY <1>7, <2>1 DEF Places
<1> HIDE DEF at, q
<1>11. \A i \in D : at[i] \in D /\ src[i] = old[at[i]] /\ q[i] = all[at[i]]  BY <1>9, <1>10
<1>12. Numbers(src, n, Source(in))
  <2>1. src \in [D -> Source(in)]  BY <1>2, <1>10
  <2>2. /\ \A x \in Source(in) : \E i \in D : old[i] = x
        /\ \A i, j \in D : old[i] = old[j] => i = j
    BY <1>1 DEF Numbers
  <2> HIDE DEF src, D
  <2>3. \A x \in Source(in) : \E i \in D : src[i] = x  BY <1>10, <1>11, <2>2
  <2>4. \A i, j \in D : src[i] = src[j] => i = j  BY <1>10, <1>11, <2>2
  <2> QED  BY <1>2, <2>1, <2>3, <2>4 DEF Numbers, D
<1>13. q = [j \in D |-> Made(in, src[j])]
  <2> HIDE DEF src, D
  <2>1. \A i \in D : all[at[i]] = Made(in, src[i])  BY <1>3, <1>11
  <2> QED  BY <1>9, <2>1
<1>14. \A i, j \in D : i < j => Waste(q[i]) >= Waste(q[j])
  <2> HIDE DEF src, D
  <2> QED  BY <1>5, <1>10, <1>11
<1> HIDE DEF src
<1> QED  BY <1>12, <1>13, <1>14 DEF q, D

-----------------------------------------------------------------------------
(* What is queued is what was handed over, made into actions.              *)
QueueInv ==
  /\ input \in Inputs /\ built \in BOOLEAN
  /\ queue = IF built THEN Queued(input) ELSE <<>>

(* The queue is what buildCleanupActions makes of the input, and stays it. *)
THEOREM QueueIsBuilt == Spec => []QueueInv
<1>1. Init => QueueInv  BY DEF Init, QueueInv
<1>2. QueueInv /\ [Next]_vars => QueueInv'
  <2> SUFFICES ASSUME QueueInv, [Next]_vars PROVE QueueInv'  OBVIOUS
  <2>1. CASE Build
    <3>1. queue' = Queued(input) /\ input' = input /\ built' = TRUE  BY <2>1 DEF Build, Queued
    <3>2. Queued(input') = Queued(input)  BY <3>1
    <3> QED  BY <3>1, <3>2 DEF QueueInv
  <2>2. CASE UNCHANGED vars  BY <2>2 DEF QueueInv, vars
  <2> QED  BY <2>1, <2>2 DEF Next
<1> QED  BY <1>1, <1>2, PTL DEF Spec

(* No file is in two groups, so any file tells the group.                  *)
LEMMA GroupsApart ==
  ASSUME NEW in \in Inputs, NEW k \in DOMAIN in.groups, NEW m \in DOMAIN in.groups,
         NEW f, f \in RangeOf(in.groups[k].files), f \in RangeOf(in.groups[m].files)
  PROVE  k = m
<1>1. PICK i \in DOMAIN in.groups[k].files : in.groups[k].files[i] = f  BY DEF RangeOf
<1>2. PICK j \in DOMAIN in.groups[m].files : in.groups[m].files[j] = f  BY DEF RangeOf
<1> QED  BY <1>1, <1>2, InputAssumption

(* The action a source is made into.                                       *)
LEMMA MadeIs ==
  ASSUME NEW in \in Inputs, NEW src \in Source(in)
  PROVE  \/ \E k \in DOMAIN in.trees :
              /\ src = <<"tree", k>> /\ Made(in, src) = ReorientPair(in.trees[k])
              /\ Made(in, src).kind = "tree" /\ in.trees[k] \in TreeAction
         \/ \E key \in Keys(in) :
              /\ src = <<"overlap", key>> /\ Made(in, src).kind = "overlap"
              /\ Made(in, src) = ReorientBlock(Block(in.groups, key[1], key[2], in.blockSize))
         \/ \E k \in Left(in) :
              /\ src = <<"group", k>> /\ Made(in, src) = ReorientFiles(in.groups[k])
              /\ Made(in, src).kind = "group" /\ in.groups[k] \in GroupAction /\ k \in DOMAIN in.groups
<1>1. ASSUME NEW k \in DOMAIN in.trees, src = <<"tree", k>>
      PROVE  /\ Made(in, src) = ReorientPair(in.trees[k])
             /\ Made(in, src).kind = "tree" /\ in.trees[k] \in TreeAction
  <2>1. in.trees[k] \in TreeAction  BY InputIs
  <2>2. Made(in, src) = ReorientPair(in.trees[k])  BY <1>1 DEF Made
  <2> QED  BY <2>1, <2>2, PairReoriented
<1>2. ASSUME NEW key \in Keys(in), src = <<"overlap", key>>
      PROVE  /\ Made(in, src) = ReorientBlock(Block(in.groups, key[1], key[2], in.blockSize))
             /\ Made(in, src).kind = "overlap"
  <2>1. Made(in, src) = ReorientBlock(Block(in.groups, key[1], key[2], in.blockSize))  BY <1>2 DEF Made
  <2> QED  BY <2>1, KeyBlock
<1>3. ASSUME NEW k \in Left(in), src = <<"group", k>>
      PROVE  /\ Made(in, src) = ReorientFiles(in.groups[k])
             /\ Made(in, src).kind = "group" /\ in.groups[k] \in GroupAction /\ k \in DOMAIN in.groups
  <2>1. k \in DOMAIN in.groups  BY DEF Left
  <2>2. in.groups[k] \in GroupAction  BY <2>1, InputIs, GroupIs
  <2>3. Made(in, src) = ReorientFiles(in.groups[k])  BY <1>3 DEF Made
  <2> QED  BY <2>1, <2>2, <2>3, FilesReoriented
<1> QED  BY <1>1, <1>2, <1>3 DEF Source

(* Whatever the input, the keep slot of no action holds a copy of a        *)
(* shorter retention than another copy in its context (the reorientation   *)
(* functions of cleanup.go).                                               *)
THEOREM SafestIsKept == Spec => []KeepSlotIsSafest
<1>1. QueueInv => KeepSlotIsSafest
  <2> SUFFICES ASSUME QueueInv, NEW j \in DOMAIN queue
               PROVE  LET a == queue[j] IN
                      /\ a.kind = "tree"    => ~MoreFrequent(a.a, a.b)
                      /\ a.kind = "overlap" => ~MoreFrequent(a.rootA, a.rootB)
                      /\ a.kind = "group" /\ (\A p, q \in RangeOf(a.files) : SameContext(p, q)) =>
                           \A p \in RangeOf(a.files) : ~MoreFrequent(a.files[1], p)
    BY DEF KeepSlotIsSafest
  <2>1. input \in Inputs /\ queue = Queued(input)
    BY DEF QueueInv
  <2>2. PICK src, n : Numbers(src, n, Source(input)) /\ queue = [i \in 1 .. n |-> Made(input, src[i])]
    BY <2>1, QueueMade
  <2>3. src[j] \in Source(input) /\ queue[j] = Made(input, src[j])  BY <2>2 DEF Numbers
  <2>4. CASE \E k \in DOMAIN input.trees : /\ queue[j] = ReorientPair(input.trees[k]) /\ queue[j].kind = "tree"
                                           /\ input.trees[k] \in TreeAction
    BY <2>4, PairReoriented
  <2>5. CASE \E key \in Keys(input) :
               /\ queue[j] = ReorientBlock(Block(input.groups, key[1], key[2], input.blockSize))
               /\ queue[j].kind = "overlap"
    BY <2>1, <2>5, KeyBlock
  <2>6. CASE \E k \in Left(input) : /\ queue[j] = ReorientFiles(input.groups[k]) /\ queue[j].kind = "group"
                                    /\ input.groups[k] \in GroupAction
    BY <2>6, FilesReoriented DEF OneContext
  <2> QED  BY <2>1, <2>3, <2>4, <2>5, <2>6, MadeIs
<1> QED  BY <1>1, QueueIsBuilt, PTL

(* Whatever the input, a queued block lists copies under their own column, *)
(* some on either side, for two columns that share at least two files      *)
(* (BuildOverlapBlocks and reorientBlockByBackupCadence).                  *)
THEOREM ColumnsStayTrue == Spec => []ColumnsAreTrue
<1>1. QueueInv => ColumnsAreTrue
  <2> SUFFICES ASSUME QueueInv, NEW j \in Blocks
               PROVE  /\ \A k \in DOMAIN queue[j].items :
                           LET it == queue[j].items[k] IN
                           /\ {ColOf[f] : f \in RangeOf(it.a)} = {queue[j].rootA}
                           /\ {ColOf[f] : f \in RangeOf(it.b)} = {queue[j].rootB}
                      /\ Cardinality({k \in DOMAIN input.groups :
                                        Columns(input.groups[k]) = {queue[j].rootA, queue[j].rootB}}) >= 2
    BY DEF ColumnsAreTrue
  <2>1. input \in Inputs /\ queue = Queued(input) /\ j \in DOMAIN queue /\ queue[j].kind = "overlap"
    BY DEF QueueInv, Blocks
  <2>2. PICK src, n : Numbers(src, n, Source(input)) /\ queue = [i \in 1 .. n |-> Made(input, src[i])]
    BY <2>1, QueueMade
  <2>3. src[j] \in Source(input) /\ queue[j] = Made(input, src[j])  BY <2>1, <2>2 DEF Numbers
  <2>4. PICK key \in Keys(input) : queue[j] = ReorientBlock(Block(input.groups, key[1], key[2], input.blockSize))
    BY <2>1, <2>3, MadeIs
  <2> DEFINE r == queue[j]
             len == ItemCount(input, key)
  <2>5. /\ {r.rootA, r.rootB} = key[1]
        /\ Listing(r.items, len)
        /\ \A k \in 1 .. len : /\ {ColOf[f] : f \in RangeOf(r.items[k].a)} = {r.rootA}
                               /\ {ColOf[f] : f \in RangeOf(r.items[k].b)} = {r.rootB}
    <3> DEFINE made == ReorientBlock(Block(input.groups, key[1], key[2], input.blockSize))
    <3>1. /\ {made.rootA, made.rootB} = key[1]
          /\ Listing(made.items, len)
          /\ \A k \in 1 .. len : /\ {ColOf[f] : f \in RangeOf(made.items[k].a)} = {made.rootA}
                                 /\ {ColOf[f] : f \in RangeOf(made.items[k].b)} = {made.rootB}
      BY <2>1, KeyBlock
    <3> HIDE DEF made, len
    <3>2. r = made  BY <2>4 DEF made
    <3> HIDE DEF r
    <3> QED  BY <3>1, <3>2
  <2>6. key[1] \in Pairs(input)  BY <2>1, KeyIs
  <2>7. Cardinality(Sharing(input.groups, key[1])) >= 2  BY <2>1, <2>6, PairIs
  <2> HIDE DEF r, len
  <2>8. DOMAIN r.items = 1 .. len  BY <2>5 DEF Listing
  <2>9. Cardinality({k \in DOMAIN input.groups : Columns(input.groups[k]) = {r.rootA, r.rootB}}) >= 2
    BY <2>5, <2>7 DEF Sharing
  <2> QED  BY <2>5, <2>8, <2>9 DEF r
<1> QED  BY <1>1, QueueIsBuilt, PTL

(* A group lists a file.                                                   *)
LEMMA GroupHasFile ==
  ASSUME NEW in \in Inputs, NEW k \in DOMAIN in.groups
  PROVE  \E f : f \in RangeOf(in.groups[k].files)
<1>1. in.groups[k].files # <<>> /\ in.groups[k].files \in Seq(DOMAIN ColOf)  BY InputIs, GroupIs
<1>2. 1 \in DOMAIN in.groups[k].files  BY <1>1
<1> QED  BY <1>2 DEF RangeOf

(* The queued actions that list group k whole, and the items that do.      *)
Whole(in, q, k) ==
  {j \in DOMAIN q : q[j].kind = "group" /\ RangeOf(q[j].files) = RangeOf(in.groups[k].files)}
Items(in, q, k) ==
  {ji \in {j \in DOMAIN q : q[j].kind = "overlap"} \X (1 .. in.blockSize) :
     ji[2] \in DOMAIN q[ji[1]].items /\ ItemFiles(q[ji[1]].items[ji[2]]) = InColumns(in.groups[k])}

(* Only the group itself is queued as that group.                          *)
LEMMA WholeIs ==
  ASSUME NEW in \in Inputs, NEW src, NEW n, Numbers(src, n, Source(in)),
         NEW q, q = [i \in 1 .. n |-> Made(in, src[i])], NEW k \in DOMAIN in.groups, NEW j \in 1 .. n
  PROVE  j \in Whole(in, q, k) <=> (k \in Left(in) /\ src[j] = <<"group", k>>)
<1>1. src[j] \in Source(in) /\ q[j] = Made(in, src[j]) /\ DOMAIN q = 1 .. n  BY DEF Numbers
<1>2. CASE \E m \in DOMAIN in.trees : src[j] = <<"tree", m>> /\ Made(in, src[j]).kind = "tree"
  BY <1>1, <1>2 DEF Whole
<1>3. CASE \E key \in Keys(in) : src[j] = <<"overlap", key>> /\ Made(in, src[j]).kind = "overlap"
  BY <1>1, <1>3 DEF Whole
<1>4. ASSUME NEW m \in Left(in), src[j] = <<"group", m>>, Made(in, src[j]) = ReorientFiles(in.groups[m]),
             Made(in, src[j]).kind = "group", in.groups[m] \in GroupAction, m \in DOMAIN in.groups
      PROVE  j \in Whole(in, q, k) <=> (k \in Left(in) /\ src[j] = <<"group", k>>)
  <2>1. q[j].kind = "group" /\ RangeOf(q[j].files) = RangeOf(in.groups[m].files)
    BY <1>1, <1>4, FilesReoriented
  <2>2. j \in Whole(in, q, k) <=> RangeOf(in.groups[m].files) = RangeOf(in.groups[k].files)
    BY <1>1, <2>1 DEF Whole
  <2>3. RangeOf(in.groups[m].files) = RangeOf(in.groups[k].files) => m = k
    BY <1>4, GroupHasFile, GroupsApart
  <2> QED  BY <1>4, <2>2, <2>3
<1> QED  BY <1>1, <1>2, <1>3, <1>4, MadeIs

(* Item i of action j is that of group k.                                  *)
ItemOf(in, src, j, i, k) ==
  \E key \in Keys(in) : /\ src[j] = <<"overlap", key>>
                         /\ i \in 1 .. ItemCount(in, key) /\ ItemGroup(in, key, i) = k

(* Only the group itself is an item of that group.                         *)
LEMMA ItemsAre ==
  ASSUME NEW in \in Inputs, NEW src, NEW n, Numbers(src, n, Source(in)),
         NEW q, q = [i \in 1 .. n |-> Made(in, src[i])], NEW k \in DOMAIN in.groups,
         NEW j \in 1 .. n, NEW i \in 1 .. in.blockSize
  PROVE  <<j, i>> \in Items(in, q, k) <=> ItemOf(in, src, j, i, k)
<1>1. src[j] \in Source(in) /\ q[j] = Made(in, src[j]) /\ DOMAIN q = 1 .. n  BY DEF Numbers
<1>2. CASE \E m \in DOMAIN in.trees : src[j] = <<"tree", m>> /\ Made(in, src[j]).kind = "tree"
  BY <1>1, <1>2 DEF Items, ItemOf
<1>3. CASE \E m \in Left(in) : src[j] = <<"group", m>> /\ Made(in, src[j]).kind = "group"
  BY <1>1, <1>3 DEF Items, ItemOf
<1>4. ASSUME NEW key \in Keys(in), src[j] = <<"overlap", key>>, Made(in, src[j]).kind = "overlap",
             Made(in, src[j]) = ReorientBlock(Block(in.groups, key[1], key[2], in.blockSize))
      PROVE  <<j, i>> \in Items(in, q, k) <=> ItemOf(in, src, j, i, k)
  <2> DEFINE len == ItemCount(in, key)
             m == ItemGroup(in, key, i)
  <2>1. /\ q[j].kind = "overlap" /\ Listing(q[j].items, len)
        /\ \A x \in 1 .. len : /\ ItemFiles(q[j].items[x]) = InColumns(in.groups[ItemGroup(in, key, x)])
                               /\ ItemFiles(q[j].items[x]) # {}
    BY <1>1, <1>4, KeyBlock
  <2>2. DOMAIN q[j].items = 1 .. len  BY <2>1 DEF Listing
  <2>3. <<j, i>> \in Items(in, q, k) <=>
          (i \in 1 .. len /\ ItemFiles(q[j].items[i]) = InColumns(in.groups[k]))
    BY <1>1, <2>1, <2>2 DEF Items
  <2>4. ASSUME i \in 1 .. len PROVE ItemFiles(q[j].items[i]) = InColumns(in.groups[k]) <=> m = k
    <3>1. m \in DOMAIN in.groups  BY <2>4, ItemGroupIs
    <3>2. ItemFiles(q[j].items[i]) = InColumns(in.groups[m]) /\ InColumns(in.groups[m]) # {}  BY <2>1, <2>4
    <3>3. PICK f : f \in InColumns(in.groups[m])  BY <3>2
    <3>4. InColumns(in.groups[m]) = InColumns(in.groups[k]) => m = k
      <4>1. SUFFICES ASSUME InColumns(in.groups[m]) = InColumns(in.groups[k]) PROVE m = k  OBVIOUS
      <4>2. f \in RangeOf(in.groups[m].files) /\ f \in RangeOf(in.groups[k].files)
        BY <3>3, <4>1 DEF InColumns
      <4> QED  BY <3>1, <4>2, GroupsApart
    <3> QED  BY <3>2, <3>4
  <2>5. \A key2 \in Keys(in) : src[j] = <<"overlap", key2>> <=> key2 = key  BY <1>4
  <2> QED  BY <2>3, <2>4, <2>5 DEF ItemOf
<1> QED  BY <1>1, <1>2, <1>3, <1>4, MadeIs

(* A group is queued whole or as an item, once.                            *)
LEMMA QueuedOnceIs ==
  ASSUME NEW in \in Inputs, NEW src, NEW n, Numbers(src, n, Source(in)),
         NEW q, q = [i \in 1 .. n |-> Made(in, src[i])], NEW k \in DOMAIN in.groups
  PROVE  Cardinality(Whole(in, q, k)) + Cardinality(Items(in, q, k)) = 1
<1> DEFINE W == Whole(in, q, k)
           I == Items(in, q, k)
           bs == in.blockSize
<1>1. /\ \A x \in Source(in) : \E j \in 1 .. n : src[j] = x
      /\ \A i, j \in 1 .. n : src[i] = src[j] => i = j
      /\ n \in Nat /\ DOMAIN q = 1 .. n
  BY DEF Numbers
<1>2. W \subseteq 1 .. n /\ I \subseteq (1 .. n) \X (1 .. bs)  BY <1>1 DEF Whole, Items
<1>3. \A j \in 1 .. n : j \in W <=> (k \in Left(in) /\ src[j] = <<"group", k>>)  BY WholeIs
<1>4. \A j \in 1 .. n, i \in 1 .. bs : <<j, i>> \in I <=> ItemOf(in, src, j, i, k)
  BY ItemsAre
<1> HIDE DEF W, I, bs
<1>5. CASE k \in Left(in)
  <2>1. PICK j0 \in 1 .. n : src[j0] = <<"group", k>>
    <3>1. <<"group", k>> \in Source(in)  BY <1>5 DEF Source
    <3> QED  BY <1>1, <3>1
  <2>2. W = {j0}  BY <1>1, <1>2, <1>3, <1>5, <2>1
  <2>3. \A key \in Keys(in) : \A i \in 1 .. ItemCount(in, key) : ItemGroup(in, key, i) # k
    <3> SUFFICES ASSUME NEW key \in Keys(in), NEW i \in 1 .. ItemCount(in, key), ItemGroup(in, key, i) = k
                 PROVE FALSE
      OBVIOUS
    <3>1. Columns(in.groups[k]) = key[1]  BY ItemGroupIs
    <3>2. key[1] \in Pairs(in)  BY KeyIs
    <3> QED  BY <1>5, <3>1, <3>2 DEF Left
  <2>4. I = {}
    <3> SUFFICES ASSUME NEW x \in I PROVE FALSE  OBVIOUS
    <3>1. PICK j \in 1 .. n, i \in 1 .. bs : x = <<j, i>>  BY <1>2
    <3> QED  BY <1>4, <2>3, <3>1 DEF ItemOf
  <2>5. Cardinality(W) = 1 /\ Cardinality(I) = 0  BY <2>2, <2>4, FS_Singleton, FS_EmptySet
  <2> QED  BY <2>5 DEF W, I
<1>6. CASE k \notin Left(in)
  <2> DEFINE p == Columns(in.groups[k])
             T == Sharing(in.groups, p)
             at == SharedAt(in.groups, p)
             L == Cardinality(T)
  <2>1. p \in Pairs(in) /\ k \in T  BY <1>6 DEF Left, Sharing
  <2>2. in.groups \in Seq(GroupAction) /\ bs \in Nat \ {0}  BY InputIs DEF bs
  <2>3. Places(at, T, SizeOf(in.groups)) /\ IsFiniteSet(T) /\ T \subseteq DOMAIN in.groups
    BY <2>2, SharedPlaces
  <2>4. /\ at \in [1 .. L -> T] /\ L \in Nat /\ \A x \in T : \E i \in 1 .. L : at[i] = x
        /\ \A i, j \in 1 .. L : at[i] = at[j] => i = j
    <3> HIDE DEF at, T
    <3> QED  BY <2>3 DEF Places
  <2>5. PICK i0 \in 1 .. L : at[i0] = k
    <3> HIDE DEF at, T, L
    <3> QED  BY <2>1, <2>4
  <2>6. PICK c0 \in Chunks(L, bs) : \E x \in 1 .. BlockLength(L, c0, bs) : i0 = Slot(c0, bs, x)
    <3>1. L \in Nat /\ i0 \in 1 .. L  BY <2>4, <2>5
    <3> HIDE DEF L
    <3> QED  BY <2>2, <3>1, Chunked
  <2>7. PICK x0 \in 1 .. BlockLength(L, c0, bs) : i0 = Slot(c0, bs, x0)  BY <2>6
  <2> DEFINE key0 == <<p, c0>>
  <2>8. L <= Len(in.groups) /\ Len(in.groups) \in Nat
    <3>1. DOMAIN in.groups = 1 .. Len(in.groups) /\ Len(in.groups) \in Nat  BY <2>2
    <3>2. IsFiniteSet(1 .. Len(in.groups)) /\ Cardinality(1 .. Len(in.groups)) = Len(in.groups)
      BY <3>1, FS_Interval
    <3> HIDE DEF T
    <3>3. T \subseteq 1 .. Len(in.groups)  BY <2>3, <3>1
    <3>4. Cardinality(T) <= Cardinality(1 .. Len(in.groups))  BY <3>2, <3>3, FS_Subset
    <3> QED  BY <3>1, <3>2, <3>4
  <2>9. key0 \in Keys(in)
    <3>1. c0 \in 1 .. L  BY DEF Chunks
    <3>2. c0 \in 1 .. Len(in.groups)
      <4> HIDE DEF L
      <4> QED  BY <2>4, <2>8, <3>1
    <3>3. c0 \in Chunks(Cardinality(Sharing(in.groups, p)), in.blockSize)  BY DEF bs
    <3> HIDE DEF p, L, T
    <3> QED  BY <2>1, <3>2, <3>3 DEF Keys, BlockKeys
  <2>10. ItemCount(in, key0) = BlockLength(L, c0, bs)  BY DEF ItemCount, bs
  <2>11. \A c, x : ItemGroup(in, <<p, c>>, x) = at[Slot(c, bs, x)]  BY DEF ItemGroup, bs, Slot
  <2>12. PICK j0 \in 1 .. n : src[j0] = <<"overlap", key0>>
    <3>1. <<"overlap", key0>> \in Source(in)  BY <2>9 DEF Source
    <3> HIDE DEF key0
    <3> QED  BY <1>1, <3>1
  <2>13. ItemCount(in, key0) \in 1 .. bs
    <3> HIDE DEF key0
    <3> QED  BY <2>9, ItemGroupIs DEF bs
  <2>14. x0 \in 1 .. bs /\ x0 \in 1 .. ItemCount(in, key0)
    <3>1. x0 \in 1 .. ItemCount(in, key0)  BY <2>10
    <3> HIDE DEF key0
    <3> QED  BY <2>2, <2>13, <3>1
  <2>15. <<j0, x0>> \in I
    <3>1. ItemGroup(in, key0, x0) = k  BY <2>5, <2>7, <2>11
    <3> HIDE DEF key0
    <3> QED  BY <1>4, <2>9, <2>12, <2>14, <3>1 DEF ItemOf
  <2>16. ASSUME NEW y \in I PROVE y = <<j0, x0>>
    <3>1. PICK j \in 1 .. n, i \in 1 .. bs : y = <<j, i>>  BY <1>2
    <3>2. PICK key \in Keys(in) : /\ src[j] = <<"overlap", key>>
                                  /\ i \in 1 .. ItemCount(in, key) /\ ItemGroup(in, key, i) = k
      BY <1>4, <2>16, <3>1 DEF ItemOf
    <3>3. key = <<key[1], key[2]>> /\ key[2] \in Chunks(Cardinality(Sharing(in.groups, key[1])), in.blockSize)
      BY KeyIs
    <3>4. key[1] = p /\ Slot(key[2], bs, i) \in 1 .. L
      <4>1. /\ (key[2] - 1) * in.blockSize + i \in 1 .. Cardinality(Sharing(in.groups, key[1]))
            /\ Columns(in.groups[ItemGroup(in, key, i)]) = key[1]
        BY <3>2, ItemGroupIs
      <4>2. key[1] = p  BY <3>2, <4>1
      <4> QED  BY <4>1, <4>2 DEF bs, Slot
    <3>5. at[Slot(key[2], bs, i)] = k  BY <2>11, <3>2, <3>3, <3>4
    <3>6. Slot(key[2], bs, i) = Slot(c0, bs, x0)
      <4> HIDE DEF at, L
      <4> QED  BY <2>4, <2>5, <2>7, <3>4, <3>5
    <3>7. key[2] \in Nat \ {0} /\ c0 \in Nat \ {0}
      <4>1. key[2] \in 1 .. Cardinality(Sharing(in.groups, key[1]))  BY <3>3 DEF Chunks
      <4>2. c0 \in 1 .. L  BY DEF Chunks
      <4>3. Sharing(in.groups, key[1]) = T  BY <3>4
      <4> HIDE DEF L
      <4> QED  BY <2>4, <4>1, <4>2, <4>3 DEF L
    <3>8. key[2] = c0 /\ i = x0  BY <2>2, <2>14, <3>1, <3>6, <3>7, ChunksApart
    <3>9. key = key0  BY <3>3, <3>4, <3>8
    <3>10. j = j0
      <4> HIDE DEF key0
      <4> QED  BY <1>1, <2>12, <3>2, <3>9
    <3> QED  BY <3>1, <3>8, <3>10
  <2>17. I = {<<j0, x0>>}  BY <2>15, <2>16
  <2>18. W = {}  BY <1>2, <1>3, <1>6
  <2>19. Cardinality(I) = 1 /\ Cardinality(W) = 0
    <3> HIDE DEF p, key0, T, at, L
    <3> QED  BY <2>17, <2>18, FS_Singleton, FS_EmptySet
  <2> QED  BY <2>19 DEF W, I
<1> QED  BY <1>5, <1>6

(* Whatever the input, the actions come largest first (the stable sort     *)
(* that ends buildCleanupActions): a run that is cut short has reclaimed   *)
(* the most it could.                                                      *)
THEOREM LargestComesFirst ==
  Spec => [](\A i, j \in DOMAIN queue : i < j => Waste(queue[i]) >= Waste(queue[j]))
<1>1. QueueInv => \A i, j \in DOMAIN queue : i < j => Waste(queue[i]) >= Waste(queue[j])
  <2>1. SUFFICES ASSUME QueueInv, built
                 PROVE  \A i, j \in DOMAIN queue : i < j => Waste(queue[i]) >= Waste(queue[j])
    BY DEF QueueInv
  <2>2. input \in Inputs /\ queue = Queued(input)  BY <2>1 DEF QueueInv
  <2>3. PICK src, n : /\ queue = [i \in 1 .. n |-> Made(input, src[i])]
                      /\ \A i, j \in 1 .. n : i < j => Waste(queue[i]) >= Waste(queue[j])
    BY <2>2, QueueMade
  <2> QED  BY <2>3
<1> QED  BY <1>1, QueueIsBuilt, PTL

(* Whatever the input, every tree is queued, and every group once: whole,  *)
(* or as one item of one block (the absorbed map and the chunks of         *)
(* BuildOverlapBlocks, the merge of buildCleanupActions).                  *)
THEOREM NothingIsLost == Spec => []QueueIsComplete
<1>1. QueueInv => QueueIsComplete
  <2> SUFFICES ASSUME QueueInv, built PROVE QueueIsComplete  BY DEF QueueIsComplete
  <2>1. input \in Inputs /\ queue = Queued(input)  BY DEF QueueInv
  <2>2. PICK src, n : Numbers(src, n, Source(input)) /\ queue = [i \in 1 .. n |-> Made(input, src[i])]
    BY <2>1, QueueMade
  <2>3. ASSUME NEW k \in DOMAIN input.trees
        PROVE  \E j \in DOMAIN queue :
                 queue[j].kind = "tree" /\ {queue[j].a, queue[j].b} = {input.trees[k].a, input.trees[k].b}
    <3>1. <<"tree", k>> \in Source(input)  BY DEF Source
    <3>2. PICK j \in 1 .. n : src[j] = <<"tree", k>>  BY <2>2, <3>1 DEF Numbers
    <3>3. j \in DOMAIN queue /\ queue[j] = Made(input, <<"tree", k>>)  BY <2>2, <3>2
    <3>4. Made(input, <<"tree", k>>) = ReorientPair(input.trees[k])  BY DEF Made
    <3>5. input.trees[k] \in TreeAction  BY <2>1, InputIs
    <3> QED  BY <3>3, <3>4, <3>5, PairReoriented
  <2>4. ASSUME NEW k \in DOMAIN input.groups
        PROVE  LET whole == {j \in DOMAIN queue :
                     queue[j].kind = "group" /\ RangeOf(queue[j].files) = RangeOf(input.groups[k].files)}
                   items == {ji \in Blocks \X (1 .. input.blockSize) :
                     ji[2] \in DOMAIN queue[ji[1]].items
                     /\ ItemFiles(queue[ji[1]].items[ji[2]]) =
                          {f \in RangeOf(input.groups[k].files) : ColOf[f] # NoColumn}}
               IN Cardinality(whole) + Cardinality(items) = 1
    <3>1. Cardinality(Whole(input, queue, k)) + Cardinality(Items(input, queue, k)) = 1
      BY <2>1, <2>2, QueuedOnceIs
    <3> QED  BY <3>1 DEF Whole, Items, InColumns, Blocks
  <2> QED  BY <2>3, <2>4 DEF QueueIsComplete
<1> QED  BY <1>1, QueueIsBuilt, PTL
=============================================================================
