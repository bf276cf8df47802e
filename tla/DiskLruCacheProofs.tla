-------------------------- MODULE DiskLruCacheProofs --------------------------
(***************************************************************************)
(* DiskLruCache for any keys, editors, lengths and limits, through         *)
(* crashes, half-written journal lines, failed writes and deletions: the   *)
(* counts are those of the entries, the journal with its buffer tells the  *)
(* entries that nobody edits, what a restart finds on the disk is whole,   *)
(* and the cache implements PersistentStore as long as no crash cuts a     *)
(* journal line. `Inv` has two parts. MemoryInv relates the entries to the *)
(* counts, the access order, the editors and the commit under way.         *)
(* JournalInv relates them to what reading the journal back would give:    *)
(* every method logs one line for an entry it changes (Logs), and a line   *)
(* that is read back makes of its entry what the method made of it         *)
(* (LogTells). `FileInv` adds the files: what the entries in memory say of *)
(* them (FilesOf), and what the journal on the disk, which is behind by    *)
(* the lines in the buffer, says of them (Fits). `StoreInv` adds what the  *)
(* refinement needs of a close, a commit and a removal under way.          *)
(***************************************************************************)
EXTENDS DiskLruCache, FiniteSetTheorems, SequenceTheorems, WellFoundedInduction, TLAPS

\* The elements a sequence lists.
Listed(s) == {s[i] : i \in DOMAIN s}

\* No element twice.
Distinct(s) == \A i, j \in DOMAIN s : s[i] = s[j] => i = j

\* The keys that have an entry.
Cached(e) == {k \in Keys : e[k] # NULL}

Lists(s, e) == Distinct(s) /\ Listed(s) = Cached(e)

(***************************************************************************)
(* Induction over numbers, and sums.                                       *)
(***************************************************************************)

\* A set of naturals that is not empty has a least element.
LEMMA LeastNatural ==
    ASSUME NEW S \in SUBSET Nat, S # {}
    PROVE  \E x \in S : \A y \in S : x <= y
<1>1. PICK n \in S : TRUE  OBVIOUS
<1> DEFINE All == 0..n
           R == StrictSubsetOrdering(All)
           T == {0..m : m \in {k \in S : k <= n}}
<1>2. IsFiniteSet(All)  BY FS_Interval
<1>3. IsWellFoundedOn(R, SUBSET All)
  <2> HIDE DEF All
  <2> QED BY <1>2, FS_StrictSubsetOrderingWellFounded, FS_FiniteSubsetsOfFinite
<1>4. T \subseteq SUBSET All  BY SMT
<1>5. 0..n \in T  BY <1>1
<1>6. PICK x \in T : \A y \in T : ~ (<<y, x>> \in R)
  <2>1. T # {}  BY <1>5
  <2> HIDE DEF T, R, All
  <2> QED BY <2>1, <1>3, <1>4, WFMin
<1>7. PICK m \in S : m <= n /\ x = 0..m  OBVIOUS
<1>8. ASSUME NEW y \in S, y < m PROVE FALSE
  <2>1. 0..y \in T  BY <1>1, <1>7, <1>8
  <2>2. 0..y \subseteq 0..m /\ 0..y # 0..m
    <3>1. m \in 0..m /\ m \notin 0..y  BY <1>8
    <3> QED BY <1>8, <3>1
  <2>3. <<0..y, x>> \in R  BY <1>4, <1>7, <2>1, <2>2 DEF StrictSubsetOrdering
  <2> QED BY <1>6, <2>1, <2>3
<1>9. \A y \in S : m <= y  BY <1>8
<1> QED BY <1>9

\* Induction over the naturals for a set: one that has 0 and the successor of
\* each of its numbers has all.
LEMMA SetInduction ==
    ASSUME NEW G, 0 \in G, \A n \in Nat : n \in G => n + 1 \in G
    PROVE  Nat \subseteq G
<1> DEFINE S == Nat \ G
<1> SUFFICES ASSUME S # {} PROVE FALSE  OBVIOUS
<1>1. PICK x \in S : \A y \in S : x <= y
  <2>1. S \in SUBSET Nat  OBVIOUS
  <2> HIDE DEF S
  <2> QED BY <2>1, LeastNatural
<1>2. x # 0 /\ x - 1 \in Nat  OBVIOUS
<1>3. x - 1 \in G  BY <1>1, <1>2
<1> QED BY <1>2, <1>3

\* The part of a sum that one argument has.
Column(x, n) == {x} \X (1..n)

LEMMA ColumnSize ==
    ASSUME NEW x, NEW n \in Nat
    PROVE  IsFiniteSet(Column(x, n)) /\ Cardinality(Column(x, n)) = n
<1>1. IsFiniteSet(1..n) /\ Cardinality(1..n) = n  BY FS_Interval
<1>2. IsFiniteSet({x}) /\ Cardinality({x}) = 1  BY FS_Singleton
<1> DEFINE J == 1..n
           K == {x}
<1>3. IsFiniteSet(K \X J) /\ Cardinality(K \X J) = Cardinality(K) * Cardinality(J)
  <2> HIDE DEF J, K
  <2> QED BY <1>1, <1>2, FS_Product DEF J, K
<1> QED BY <1>1, <1>2, <1>3 DEF Column

LEMMA DisjointSize ==
    ASSUME NEW A, IsFiniteSet(A), NEW B, IsFiniteSet(B), A \cap B = {}
    PROVE  Cardinality(A \cup B) = Cardinality(A) + Cardinality(B)
<1>1. Cardinality(A \cup B) = Cardinality(A) + Cardinality(B) - Cardinality(A \cap B)
  BY FS_Union
<1>2. Cardinality(A \cap B) = 0  BY FS_EmptySet
<1>3. Cardinality(A) \in Nat /\ Cardinality(B) \in Nat  BY FS_CardinalityType
<1> QED BY <1>1, <1>2, <1>3

LEMMA CellsFinite ==
    ASSUME NEW S, IsFiniteSet(S), NEW f \in [S -> Nat]
    PROVE  IsFiniteSet(Cells(f))
<1> DEFINE g == [x \in S |-> Column(x, f[x])]
           T == {g[x] : x \in S}
<1>1. g \in Surjection(S, T)  BY DEF Surjection
<1>2. IsFiniteSet(T)
  <2> HIDE DEF g, T
  <2> QED BY <1>1, FS_Surjection
<1>3. \A t \in T : IsFiniteSet(t)
  <2> SUFFICES ASSUME NEW x \in S PROVE IsFiniteSet(Column(x, f[x]))  OBVIOUS
  <2>1. f[x] \in Nat  OBVIOUS
  <2> QED BY <2>1, ColumnSize
<1>4. IsFiniteSet(UNION T)
  <2> HIDE DEF T
  <2> QED BY <1>2, <1>3, FS_UNION
<1>5. UNION T = Cells(f)
  <2>1. \A x \in S : g[x] = {x} \X (1..f[x])  BY DEF Column
  <2>2. DOMAIN f = S  OBVIOUS
  <2> QED BY <2>1, <2>2 DEF Cells
<1> QED BY <1>4, <1>5

\* A sum is that of one argument and that of the others.
LEMMA CellsSplit ==
    ASSUME NEW S, NEW f \in [S -> Nat], NEW x \in S
    PROVE  LET rest == {p \in Cells(f) : p[1] # x}
           IN  Cells(f) = rest \cup Column(x, f[x]) /\ rest \cap Column(x, f[x]) = {}
<1> DEFINE rest == {p \in Cells(f) : p[1] # x}
<1>1. DOMAIN f = S  OBVIOUS
<1>2. \A p : p \in Cells(f) <=> \E y \in S : p \in Column(y, f[y])
  BY <1>1 DEF Cells, Column
<1>3. \A y : \A p \in Column(y, f[y]) : p[1] = y  BY DEF Column
<1> QED BY <1>2, <1>3

LEMMA SumType ==
    ASSUME NEW S, IsFiniteSet(S), NEW f \in [S -> Nat]
    PROVE  SumOf(f) \in Nat
BY CellsFinite, FS_CardinalityType DEF SumOf

\* One value changes.
LEMMA SumChange ==
    ASSUME NEW S, IsFiniteSet(S), NEW f \in [S -> Nat], NEW g \in [S -> Nat],
           NEW x \in S, \A y \in S \ {x} : g[y] = f[y]
    PROVE  SumOf(g) = SumOf(f) - f[x] + g[x]
<1> DEFINE rest == {p \in Cells(f) : p[1] # x}
<1>1. {p \in Cells(g) : p[1] # x} = rest
  <2>1. DOMAIN f = S /\ DOMAIN g = S  OBVIOUS
  <2>2. \A p : (p \in Cells(f) /\ p[1] # x) <=> \E y \in S \ {x} : p \in Column(y, f[y])
    BY <2>1 DEF Cells, Column
  <2>3. \A p : (p \in Cells(g) /\ p[1] # x) <=> \E y \in S \ {x} : p \in Column(y, g[y])
    BY <2>1 DEF Cells, Column
  <2> QED BY <2>2, <2>3
<1>2. Cells(f) = rest \cup Column(x, f[x]) /\ rest \cap Column(x, f[x]) = {}
  BY CellsSplit
<1>3. Cells(g) = rest \cup Column(x, g[x]) /\ rest \cap Column(x, g[x]) = {}
  BY <1>1, CellsSplit
<1>4. f[x] \in Nat /\ g[x] \in Nat  OBVIOUS
<1>5. IsFiniteSet(rest)  BY CellsFinite, FS_Subset
<1> HIDE DEF rest
<1>6. Cardinality(Cells(f)) = Cardinality(rest) + f[x]
  <2>1. IsFiniteSet(Column(x, f[x])) /\ Cardinality(Column(x, f[x])) = f[x]
    BY <1>4, ColumnSize
  <2> QED BY <1>2, <1>4, <1>5, <2>1, DisjointSize
<1>7. Cardinality(Cells(g)) = Cardinality(rest) + g[x]
  <2>1. IsFiniteSet(Column(x, g[x])) /\ Cardinality(Column(x, g[x])) = g[x]
    BY <1>4, ColumnSize
  <2> QED BY <1>3, <1>4, <1>5, <2>1, DisjointSize
<1>8. Cardinality(rest) \in Nat  BY <1>5, FS_CardinalityType
<1> QED BY <1>4, <1>6, <1>7, <1>8 DEF SumOf

\* Nothing to add up.
LEMMA SumOfZeros ==
    ASSUME NEW S, NEW f \in [S -> Nat], \A x \in S : f[x] = 0
    PROVE  SumOf(f) = 0
<1>1. \A x \in S : 1..f[x] = {}  OBVIOUS
<1>2. Cells(f) = {}  BY <1>1 DEF Cells
<1> QED BY <1>2, FS_EmptySet DEF SumOf

(***************************************************************************)
(* Facts about the access order.                                           *)
(***************************************************************************)
\* A key that is used goes to the end.
LEMMA AppendLists ==
    ASSUME NEW S, NEW s \in Seq(S), NEW k \in S, Distinct(s), k \notin Listed(s)
    PROVE  /\ Append(s, k) \in Seq(S)
           /\ Listed(Append(s, k)) = Listed(s) \cup {k}
           /\ Distinct(Append(s, k))
<1> DEFINE a == Append(s, k)
<1>1. /\ a \in Seq(S) /\ Len(a) = Len(s) + 1 /\ DOMAIN a = 1..(Len(s) + 1)
      /\ \A i \in 1..Len(s) : a[i] = s[i]
      /\ a[Len(s) + 1] = k
  BY AppendProperties
<1>2. DOMAIN s = 1..Len(s) /\ Len(s) \in Nat  BY LenProperties
<1> HIDE DEF a
<1>3. Listed(a) = Listed(s) \cup {k}
  <2>1. \A i \in DOMAIN a : a[i] \in Listed(s) \cup {k}  BY <1>1, <1>2 DEF Listed
  <2>2. \A i \in DOMAIN s : i \in DOMAIN a /\ a[i] = s[i]  BY <1>1, <1>2
  <2>3. k \in Listed(a)  BY <1>1, <1>2 DEF Listed
  <2>4. Listed(s) \subseteq Listed(a)  BY <2>2 DEF Listed
  <2>5. Listed(a) \subseteq Listed(s) \cup {k}  BY <2>1 DEF Listed
  <2> QED BY <2>3, <2>4, <2>5
<1>4. Distinct(a)
  <2> SUFFICES ASSUME NEW i \in DOMAIN a, NEW j \in DOMAIN a, a[i] = a[j] PROVE i = j
    BY DEF Distinct
  <2>1. \A x \in 1..Len(s) : a[x] # k  BY <1>1, <1>2 DEF Listed
  <2>2. CASE i \in 1..Len(s) /\ j \in 1..Len(s)  BY <1>1, <1>2, <2>2 DEF Distinct
  <2>3. CASE i = Len(s) + 1 \/ j = Len(s) + 1  BY <1>1, <1>2, <2>1, <2>3
  <2> QED BY <1>1, <1>2, <2>2, <2>3
<1> QED BY <1>1, <1>3, <1>4 DEF a

\* LinkedHashMap.remove unlinks one entry and keeps the rest in order.
LEMMA WithoutDrops ==
    ASSUME NEW S, NEW s \in Seq(S), NEW k \in S, Distinct(s)
    PROVE  /\ Without(s, k) \in Seq(S)
           /\ Listed(Without(s, k)) = Listed(s) \ {k}
           /\ Distinct(Without(s, k))
<1>1. CASE ~ \E i \in 1..Len(s) : s[i] = k
  BY <1>1 DEF Without, SE!RemoveFirst, Listed, Distinct
<1>2. CASE \E i \in 1..Len(s) : s[i] = k
  <2> DEFINE I == {i \in 1..Len(s) : s[i] = k}
  <2>1. PICK i \in 1..Len(s) : s[i] = k  BY <1>2
  <2>0. Len(s) \in Nat /\ DOMAIN s = 1..Len(s) /\ i \in Nat /\ 1 <= i /\ i <= Len(s)
    BY <2>1, LenProperties
  <2>2. I = {i}  BY <2>1 DEF Distinct
  <2>3. SE!Min(I) = i  BY <2>2 DEF SE!Min
  <2>4. SE!SelectInSeq(s, LAMBDA v : v = k) = i
    BY <2>2, <2>3 DEF SE!SelectInSeq
  <2>5. Without(s, k) = SubSeq(s, 1, i-1) \o SubSeq(s, i+1, Len(s))
    BY <1>2, <2>4 DEF Without, SE!RemoveFirst, SE!RemoveAt
  <2> DEFINE f == SubSeq(s, 1, i-1)
             g == SubSeq(s, i+1, Len(s))
             w == f \o g
  <2>6. /\ f \in Seq(S) /\ Len(f) = i-1
        /\ \A j \in 1..(i-1) : f[j] = s[j]
    BY <2>1, SubSeqProperties
  <2>7. /\ g \in Seq(S) /\ Len(g) = Len(s)-i
        /\ \A j \in 1..(Len(s)-i) : g[j] = s[i+j]
    BY <2>1, SubSeqProperties
  <2>8. /\ w \in Seq(S) /\ Len(w) = Len(s)-1
        /\ \A j \in 1..(Len(s)-1) : w[j] = IF j < i THEN s[j] ELSE s[j+1]
    <3>1. /\ w \in Seq(S) /\ Len(w) = Len(f) + Len(g)
          /\ \A j \in 1..(Len(f) + Len(g)) :
                w[j] = IF j <= Len(f) THEN f[j] ELSE g[j - Len(f)]
      BY <2>6, <2>7, ConcatProperties
    <3> HIDE DEF f, g, w
    <3>2. Len(w) = Len(s)-1 /\ Len(f) + Len(g) = Len(s)-1
      BY <2>0, <2>6, <2>7, <3>1
    <3>3. ASSUME NEW j \in 1..(Len(s)-1), j < i
          PROVE  w[j] = s[j]
      <4>1. w[j] = f[j]  BY <2>0, <2>6, <3>1, <3>2, <3>3
      <4> QED BY <2>0, <2>6, <3>3, <4>1
    <3>4. ASSUME NEW j \in 1..(Len(s)-1), ~ j < i
          PROVE  w[j] = s[j+1]
      <4>1. w[j] = g[j-(i-1)]  BY <2>0, <2>6, <3>1, <3>2, <3>4
      <4>2. j-(i-1) \in 1..(Len(s)-i) /\ i + (j-(i-1)) = j+1  BY <2>0, <3>4
      <4> QED BY <2>7, <4>1, <4>2
    <3> QED BY <3>1, <3>2, <3>3, <3>4
  <2> HIDE DEF f, g, w
  <2>9. Listed(w) = Listed(s) \ {k}
    <3>1. ASSUME NEW j \in 1..(Len(s)-1)
          PROVE  w[j] \in Listed(s) \ {k}
      <4>1. PICK m \in 1..Len(s) : m # i /\ w[j] = s[m]
        <5>1. CASE j < i  BY <2>0, <2>8, <5>1
        <5>2. CASE ~ j < i
          <6>1. j + 1 \in 1..Len(s) /\ j + 1 # i  BY <2>0, <5>2
          <6>2. w[j] = s[j + 1]  BY <2>8, <5>2
          <6> QED BY <6>1, <6>2
        <5> QED BY <5>1, <5>2
      <4> QED BY <2>0, <2>1, <4>1 DEF Listed, Distinct
    <3>2. ASSUME NEW j \in 1..Len(s), s[j] # k
          PROVE  s[j] \in Listed(w)
      <4>1. CASE j < i
        <5>1. j \in 1..(Len(s)-1) /\ w[j] = s[j]  BY <2>1, <2>8, <4>1
        <5> QED BY <2>8, <5>1 DEF Listed
      <4>2. CASE j > i
        <5>1. j-1 \in 1..(Len(s)-1) /\ w[j-1] = s[j]  BY <2>1, <2>8, <4>2
        <5> QED BY <2>8, <5>1 DEF Listed
      <4> QED BY <2>1, <3>2, <4>1, <4>2
    <3> QED BY <2>8, <3>1, <3>2 DEF Listed
  <2>10. Distinct(w)
    <3> DEFINE at(j) == IF j < i THEN j ELSE j+1
    <3>1. \A j \in 1..(Len(s)-1) : at(j) \in 1..Len(s) /\ w[j] = s[at(j)]
      BY <2>0, <2>8
    <3>2. \A j, l \in 1..(Len(s)-1) : at(j) = at(l) => j = l
      BY <2>0
    <3> HIDE DEF at
    <3>3. DOMAIN w = 1..(Len(s)-1)  BY <2>8
    <3> QED BY <2>0, <3>1, <3>2, <3>3 DEF Distinct
  <2>12. Without(s, k) = w  BY <2>5 DEF w, f, g
  <2> QED BY <2>8, <2>9, <2>10, <2>12
<1> QED BY <1>1, <1>2

\* processJournal's iteration keeps the entries in S and their order.
LEMMA SiftingsStep ==
    ASSUME NEW T, NEW s \in Seq(T), NEW S
    PROVE  LET f == Siftings(s, S)
           IN  /\ f[0] = <<>>
               /\ \A i \in 1..Len(s) :
                      f[i] = IF s[i] \in S THEN Append(f[i-1], s[i]) ELSE f[i-1]
<1> DEFINE Body(f, i) == IF i = 0 THEN <<>>
                         ELSE IF s[i] \in S THEN Append(f[i-1], s[i]) ELSE f[i-1]
           P(f) == f = [i \in 0..Len(s) |-> Body(f, i)]
           E(n) == \E f : f = [i \in 0..n |-> Body(f, i)]
           G == {n \in Nat : n <= Len(s) => E(n)}
<1>0. Len(s) \in Nat  OBVIOUS
<1>1. 0 \in G
  <2>1. [i \in {0} |-> <<>>] = [i \in 0..0 |-> Body([j \in {0} |-> <<>>], i)]  OBVIOUS
  <2> QED BY <2>1
<1>2. \A n \in Nat : n \in G => n + 1 \in G
  <2> SUFFICES ASSUME NEW n \in Nat, n \in G, n + 1 <= Len(s)
               PROVE  E(n + 1)
    <3> HIDE DEF E
    <3> QED OBVIOUS
  <2>1. n \in Nat /\ n <= Len(s)  BY <1>0
  <2>2. PICK g : g = [i \in 0..n |-> Body(g, i)]  BY <2>1
  <2> DEFINE h == [i \in 0..(n + 1) |-> IF i = n + 1 THEN
                     (IF s[n + 1] \in S THEN Append(g[n], s[n + 1]) ELSE g[n]) ELSE g[i]]
  <2>3. \A i \in 0..n : h[i] = g[i]  BY <2>1
  <2>4. ASSUME NEW i \in 0..n PROVE h[i] = Body(h, i)
    <3>0. h[i] = g[i]  BY <2>3, <2>4
    <3>1. h[i] = Body(g, i)
      <4> HIDE DEF h
      <4> QED BY <2>2, <2>4, <3>0
    <3>2. CASE i = 0  BY <3>1, <3>2
    <3>3. CASE i # 0
      <4>1. i - 1 \in 0..n  BY <2>1, <2>4, <3>3
      <4>2. h[i-1] = g[i-1]  BY <2>3, <4>1
      <4> HIDE DEF h
      <4> QED BY <3>1, <4>2
    <3> QED BY <3>2, <3>3
  <2>5. h[n + 1] = Body(h, n + 1)
    <3>1. n + 1 # 0 /\ n + 1 - 1 = n /\ h[n] = g[n]  BY <2>1, <2>3
    <3> QED BY <2>1, <3>1
  <2>6. \A i \in 0..(n + 1) : i \in 0..n \/ i = n + 1  BY <2>1
  <2>7. h = [i \in 0..(n + 1) |-> Body(h, i)]
    <3>1. h = [i \in 0..(n + 1) |-> h[i]]  OBVIOUS
    <3>2. \A i \in 0..(n + 1) : h[i] = Body(h, i)  BY <2>4, <2>5, <2>6, Zenon
    <3> HIDE DEF h
    <3> QED BY <3>1, <3>2, Zenon
  <2> HIDE DEF h
  <2> QED BY <2>7, Zenon
<1>3. Len(s) \in G
  <2> HIDE DEF G
  <2> QED BY <1>0, <1>1, <1>2, SetInduction
<1>4. \E f : P(f)  BY <1>0, <1>3
<1>5. Siftings(s, S) = CHOOSE f : P(f)  BY DEF Siftings
<1>6. P(Siftings(s, S))
  <2> HIDE DEF P
  <2> QED BY <1>4, <1>5, Zenon
<1> DEFINE k == Siftings(s, S)
<1>7. k = [i \in 0..Len(s) |-> Body(k, i)]  BY <1>6, Zenon
<1> HIDE DEF k
<1>8. \A i \in 0..Len(s) : k[i] = Body(k, i)
  <2> HIDE DEF Body
  <2> QED BY <1>7
<1>9. /\ k[0] = <<>>
      /\ \A i \in 1..Len(s) :
             k[i] = IF s[i] \in S THEN Append(k[i-1], s[i]) ELSE k[i-1]
  BY <1>0, <1>8
<1> QED BY <1>9 DEF k

LEMMA SiftingsList ==
    ASSUME NEW T, NEW s \in Seq(T), NEW S, Distinct(s)
    PROVE  LET w == Siftings(s, S)[Len(s)]
           IN  w \in Seq(T) /\ Distinct(w) /\ Listed(w) = Listed(s) \cap S
<1> DEFINE f == Siftings(s, S)
           Upto(n) == {s[j] : j \in 1..n}
           Good(n) == f[n] \in Seq(T) /\ Distinct(f[n]) /\ Listed(f[n]) = Upto(n) \cap S
           G == {n \in Nat : n <= Len(s) => Good(n)}
<1>0. Len(s) \in Nat /\ DOMAIN s = 1..Len(s)  BY LenProperties
<1>1. f[0] = <<>> /\ \A i \in 1..Len(s) :
                        f[i] = IF s[i] \in S THEN Append(f[i-1], s[i]) ELSE f[i-1]
  BY SiftingsStep
<1> HIDE DEF f
<1>2. 0 \in G
  <2>1. f[0] \in Seq(T) /\ DOMAIN f[0] = {} /\ 1..0 = {}  BY <1>1
  <2> QED BY <2>1 DEF Distinct, Listed
<1>3. \A n \in Nat : n \in G => n + 1 \in G
  <2> SUFFICES ASSUME NEW n \in Nat, n \in G, n + 1 <= Len(s) PROVE Good(n + 1)
    <3> HIDE DEF Good
    <3> QED OBVIOUS
  <2>1. Good(n)  BY <1>0
  <2>2. n + 1 \in 1..Len(s) /\ n + 1 - 1 = n  BY <1>0
  <2>3. f[n + 1] = IF s[n + 1] \in S THEN Append(f[n], s[n + 1]) ELSE f[n]  BY <1>1, <2>2
  <2>4. Upto(n + 1) = Upto(n) \cup {s[n + 1]}
    <3>1. 1..(n + 1) = (1..n) \cup {n + 1}  OBVIOUS
    <3> QED BY <3>1
  <2>5. s[n + 1] \in T  BY <2>2
  <2>6. s[n + 1] \notin Upto(n)
    <3>1. \A j \in 1..n : j \in DOMAIN s /\ j # n + 1 /\ n + 1 \in DOMAIN s  BY <1>0, <2>2
    <3> QED BY <3>1 DEF Distinct
  <2> HIDE DEF Upto
  <2>7. CASE s[n + 1] \in S
    <3>1. /\ Append(f[n], s[n + 1]) \in Seq(T)
          /\ Listed(Append(f[n], s[n + 1])) = Listed(f[n]) \cup {s[n + 1]}
          /\ Distinct(Append(f[n], s[n + 1]))
      BY <2>1, <2>5, <2>6, AppendLists
    <3> QED BY <2>1, <2>3, <2>4, <2>7, <3>1
  <2>8. CASE s[n + 1] \notin S  BY <2>1, <2>3, <2>4, <2>8
  <2> QED BY <2>7, <2>8
<1>4. Len(s) \in G
  <2> HIDE DEF G
  <2> QED BY <1>0, <1>2, <1>3, SetInduction
<1>5. Good(Len(s))
  <2> HIDE DEF Good
  <2> QED BY <1>0, <1>4
<1> QED BY <1>0, <1>5 DEF f, Listed

(***************************************************************************)
(* Facts about reading a journal.                                          *)
(***************************************************************************)
LEMMA ReadingsStep ==
    ASSUME NEW s \in Seq(Lines)
    PROVE  LET f == Readings(s)
           IN  /\ f[0] = [entries |-> None, order |-> <<>>]
               /\ \A i \in 1..Len(s) :
                      f[i] = ReadJournalLine(s[i])[f[i-1]]
<1> DEFINE Body(f, i) == IF i = 0 THEN [entries |-> None, order |-> <<>>]
                         ELSE ReadJournalLine(s[i])[f[i-1]]
           P(f) == f = [i \in 0..Len(s) |-> Body(f, i)]
           E(n) == \E f : f = [i \in 0..n |-> Body(f, i)]
           G == {n \in Nat : n <= Len(s) => E(n)}
<1>0. Len(s) \in Nat  OBVIOUS
<1>1. 0 \in G
  <2>1. [i \in {0} |-> [entries |-> None, order |-> <<>>]] = [i \in 0..0 |-> Body([j \in {0} |-> [entries |-> None, order |-> <<>>]], i)]  OBVIOUS
  <2> QED BY <2>1
<1>2. \A n \in Nat : n \in G => n + 1 \in G
  <2> SUFFICES ASSUME NEW n \in Nat, n \in G, n + 1 <= Len(s)
               PROVE  E(n + 1)
    <3> HIDE DEF E
    <3> QED OBVIOUS
  <2>1. n \in Nat /\ n <= Len(s)  BY <1>0
  <2>2. PICK g : g = [i \in 0..n |-> Body(g, i)]  BY <2>1
  <2> DEFINE h == [i \in 0..(n + 1) |-> IF i = n + 1 THEN
                     ReadJournalLine(s[n + 1])[g[n]] ELSE g[i]]
  <2>3. \A i \in 0..n : h[i] = g[i]  BY <2>1
  <2>4. ASSUME NEW i \in 0..n PROVE h[i] = Body(h, i)
    <3>0. h[i] = g[i]  BY <2>3, <2>4
    <3>1. h[i] = Body(g, i)
      <4> HIDE DEF h
      <4> QED BY <2>2, <2>4, <3>0
    <3>2. CASE i = 0  BY <3>1, <3>2
    <3>3. CASE i # 0
      <4>1. i - 1 \in 0..n  BY <2>1, <2>4, <3>3
      <4>2. h[i-1] = g[i-1]  BY <2>3, <4>1
      <4> HIDE DEF h
      <4> QED BY <3>1, <4>2
    <3> QED BY <3>2, <3>3
  <2>5. h[n + 1] = Body(h, n + 1)
    <3>1. n + 1 # 0 /\ n + 1 - 1 = n /\ h[n] = g[n]  BY <2>1, <2>3
    <3> QED BY <2>1, <3>1
  <2>6. \A i \in 0..(n + 1) : i \in 0..n \/ i = n + 1  BY <2>1
  <2>7. h = [i \in 0..(n + 1) |-> Body(h, i)]
    <3>1. h = [i \in 0..(n + 1) |-> h[i]]  OBVIOUS
    <3>2. \A i \in 0..(n + 1) : h[i] = Body(h, i)  BY <2>4, <2>5, <2>6, Zenon
    <3> HIDE DEF h
    <3> QED BY <3>1, <3>2, Zenon
  <2> HIDE DEF h
  <2> QED BY <2>7, Zenon
<1>3. Len(s) \in G
  <2> HIDE DEF G
  <2> QED BY <1>0, <1>1, <1>2, SetInduction
<1>4. \E f : P(f)  BY <1>0, <1>3
<1>5. Readings(s) = CHOOSE f : P(f)  BY DEF Readings
<1>6. P(Readings(s))
  <2> HIDE DEF P
  <2> QED BY <1>4, <1>5, Zenon
<1> DEFINE k == Readings(s)
<1>7. k = [i \in 0..Len(s) |-> Body(k, i)]  BY <1>6, Zenon
<1> HIDE DEF k
<1>8. \A i \in 0..Len(s) : k[i] = Body(k, i)
  <2> HIDE DEF Body
  <2> QED BY <1>7
<1>9. /\ k[0] = [entries |-> None, order |-> <<>>]
      /\ \A i \in 1..Len(s) :
             k[i] = ReadJournalLine(s[i])[k[i-1]]
  BY <1>0, <1>8
<1> QED BY <1>9 DEF k

\* What is read of some lines does not depend on those after them.
LEMMA ReadingsAgree ==
    ASSUME NEW s \in Seq(Lines), NEW t \in Seq(Lines), NEW n \in Nat,
           n <= Len(s), n <= Len(t), \A i \in 1..n : s[i] = t[i]
    PROVE  \A i \in 0..n : Readings(s)[i] = Readings(t)[i]
<1> DEFINE f == Readings(s)
           g == Readings(t)
           G == {i \in Nat : i <= n => f[i] = g[i]}
<1>1. f[0] = g[0]  BY ReadingsStep
<1>2. \A i \in 1..Len(s) : f[i] = ReadJournalLine(s[i])[f[i-1]]  BY ReadingsStep
<1>3. \A i \in 1..Len(t) : g[i] = ReadJournalLine(t[i])[g[i-1]]  BY ReadingsStep
<1>0. Len(s) \in Nat /\ Len(t) \in Nat  BY LenProperties
<1> HIDE DEF f, g
<1>4. \A i \in Nat : i \in G => i + 1 \in G
  <2> SUFFICES ASSUME NEW i \in Nat, i \in G, i + 1 <= n PROVE f[i + 1] = g[i + 1]
    OBVIOUS
  <2>1. i + 1 \in 1..n /\ i + 1 \in 1..Len(s) /\ i + 1 \in 1..Len(t) /\ i + 1 - 1 = i /\ i <= n
    BY <1>0
  <2>2. f[i + 1] = ReadJournalLine(s[i + 1])[f[i]]  BY <1>2, <2>1
  <2>3. g[i + 1] = ReadJournalLine(t[i + 1])[g[i]]  BY <1>3, <2>1
  <2>4. f[i] = g[i] /\ s[i + 1] = t[i + 1]  BY <2>1
  <2> QED BY <2>2, <2>3, <2>4
<1>5. Nat \subseteq G
  <2> HIDE DEF G
  <2>1. 0 \in G  BY <1>1 DEF G
  <2> QED BY <1>4, <2>1, SetInduction
<1> QED BY <1>5 DEF f, g

LEMMA EntryRead ==
    ASSUME NEW x \in Journaled \cup {NULL}, NEW l \in Lines, l # Garbled
    PROVE  /\ l.key \in Keys
           /\ EntryAfter(x, l) \in Journaled \cup {NULL}
           /\ l.op = "REMOVE" <=> EntryAfter(x, l) = NULL
           /\ l.op = "CLEAN" => EntryAfter(x, l) =
                                    [readable |-> TRUE, editor |-> NULL, length |-> l.len]
           /\ l.op = "DIRTY" => EntryAfter(x, l).editor = JOURNALED
           /\ l.op = "READ" /\ x # NULL => EntryAfter(x, l) = x
<1>1. /\ l.op \in {"CLEAN", "DIRTY", "READ", "REMOVE"}
      /\ l.key \in Keys /\ l.len \in Lengths \cup {0}
  BY DEF Lines
<1>2. NULL \notin Journaled  BY NullAssumption
<1>3. Fresh \in Journaled  BY DEF Fresh, Journaled
<1> DEFINE found == IF x = NULL THEN Fresh ELSE x
<1>4. found \in Journaled  BY <1>3
<1>5. CASE l.op = "REMOVE"
  <2>1. EntryAfter(x, l) = NULL  BY <1>5 DEF EntryAfter
  <2> QED BY <1>1, <1>5, <2>1
<1>6. CASE l.op = "CLEAN"
  <2>1. EntryAfter(x, l) = [readable |-> TRUE, editor |-> NULL, length |-> l.len]
    BY <1>6 DEF EntryAfter
  <2>2. EntryAfter(x, l) \in Journaled  BY <1>1, <2>1 DEF Journaled
  <2> QED BY <1>1, <1>2, <1>6, <2>1, <2>2
<1>7. CASE l.op = "DIRTY"
  <2>1. EntryAfter(x, l) = [found EXCEPT !.editor = JOURNALED]  BY <1>7 DEF EntryAfter
  <2> HIDE DEF found
  <2>2. EntryAfter(x, l) \in Journaled /\ EntryAfter(x, l).editor = JOURNALED
    BY <1>4, <2>1 DEF Journaled
  <2> QED BY <1>1, <1>2, <1>7, <2>2
<1>8. CASE l.op = "READ"
  <2>1. EntryAfter(x, l) = found  BY <1>8 DEF EntryAfter
  <2> QED BY <1>1, <1>2, <1>4, <1>8, <2>1
<1> QED BY <1>1, <1>5, <1>6, <1>7, <1>8

\* A line changes the entry of its key and moves the key to the end.
LEMMA LineRead ==
    ASSUME NEW m \in JournalStates, NEW l \in Lines, l # Garbled,
           Lists(m.order, m.entries)
    PROVE  LET r == ReadJournalLine(l)[m]
           IN  /\ r \in JournalStates
               /\ r.entries[l.key] = EntryAfter(m.entries[l.key], l)
               /\ \A k \in Keys \ {l.key} : r.entries[k] = m.entries[k]
               /\ Lists(r.order, r.entries)
<1> DEFINE r == ReadJournalLine(l)[m]
           x == EntryAfter(m.entries[l.key], l)
           moved == IF l.op = "REMOVE" THEN Without(m.order, l.key) ELSE Touched(m.order, l.key)
<1>1. m.entries \in [Keys -> Journaled \cup {NULL}] /\ m.order \in Seq(Keys)
  BY DEF JournalStates
<1>2. l.key \in Keys /\ x \in Journaled \cup {NULL} /\ (l.op = "REMOVE" <=> x = NULL)
  <2>1. l.key \in Keys  BY DEF Lines
  <2>2. m.entries[l.key] \in Journaled \cup {NULL}  BY <1>1, <2>1
  <2> QED BY <2>2, EntryRead
<1>3. r = [entries |-> [m.entries EXCEPT ![l.key] = x], order |-> moved]
  BY DEF ReadJournalLine
<1> HIDE DEF r, x
<1>4. /\ r.entries \in [Keys -> Journaled \cup {NULL}]
      /\ r.entries[l.key] = x
      /\ \A k \in Keys \ {l.key} : r.entries[k] = m.entries[k]
  <2>1. r.entries = [m.entries EXCEPT ![l.key] = x]  BY <1>3
  <2> QED BY <1>1, <1>2, <2>1
<1>5. r.order = moved  BY <1>3
<1>6. /\ moved \in Seq(Keys)
      /\ Distinct(moved)
      /\ Listed(moved) = IF l.op = "REMOVE" THEN Listed(m.order) \ {l.key}
                         ELSE Listed(m.order) \cup {l.key}
  <2> DEFINE w == Without(m.order, l.key)
  <2>1. w \in Seq(Keys) /\ Listed(w) = Listed(m.order) \ {l.key} /\ Distinct(w)
    BY <1>1, <1>2, WithoutDrops DEF Lists
  <2> HIDE DEF w
  <2>2. /\ Append(w, l.key) \in Seq(Keys)
        /\ Listed(Append(w, l.key)) = Listed(w) \cup {l.key}
        /\ Distinct(Append(w, l.key))
    BY <1>2, <2>1, AppendLists
  <2> QED BY <2>1, <2>2 DEF w, Touched
<1> HIDE DEF moved
<1>8. r \in JournalStates
  <2>1. r = [entries |-> r.entries, order |-> r.order]  BY <1>3
  <2> QED BY <1>4, <1>5, <1>6, <2>1 DEF JournalStates
<1>9. Lists(r.order, r.entries)
  <2>1. Cached(r.entries) = IF l.op = "REMOVE" THEN Cached(m.entries) \ {l.key}
                            ELSE Cached(m.entries) \cup {l.key}
    BY <1>2, <1>4 DEF Cached
  <2> QED BY <1>5, <1>6, <2>1 DEF Lists
<1> QED BY <1>4, <1>8, <1>9 DEF r, x

\* Of uncorrupted lines, the entries and their order.
LEMMA ReadingsKeep ==
    ASSUME NEW s \in Seq(Lines), ~Corrupt(s)
    PROVE  \A i \in 0..Len(s) :
               /\ Readings(s)[i] \in JournalStates
               /\ Lists(Readings(s)[i].order, Readings(s)[i].entries)
               /\ Count(Readings(s)[i].entries) <= i
<1> DEFINE f == Readings(s)
           Good(i) == /\ f[i] \in JournalStates
                      /\ Lists(f[i].order, f[i].entries)
                      /\ Count(f[i].entries) <= i
           G == {i \in Nat : i <= Len(s) => Good(i)}
<1>0. Len(s) \in Nat /\ DOMAIN s = 1..Len(s)  BY LenProperties
<1>1. /\ f[0] = [entries |-> None, order |-> <<>>]
      /\ \A i \in 1..Len(s) : f[i] = ReadJournalLine(s[i])[f[i-1]]
  BY ReadingsStep
<1> HIDE DEF f
<1>2. Good(0)
  <2>1. f[0].entries = None /\ f[0].order = <<>>  BY <1>1
  <2>2. f[0] \in JournalStates  BY <1>1 DEF JournalStates, None
  <2>3. Cached(None) = {} /\ Listed(<<>>) = {} /\ Distinct(<<>>)
    BY DEF Cached, None, Listed, Distinct
  <2>4. Count(None) = 0  BY <2>3, FS_EmptySet DEF Count, Cached
  <2> QED BY <2>1, <2>2, <2>3, <2>4 DEF Lists
<1>3. \A i \in Nat : i \in G => i + 1 \in G
  <2> SUFFICES ASSUME NEW i \in Nat, i \in G, i + 1 <= Len(s) PROVE Good(i + 1)
    <3> HIDE DEF Good
    <3> QED OBVIOUS
  <2>1. Good(i)  BY <1>0
  <2>2. i + 1 \in 1..Len(s) /\ i + 1 - 1 = i  BY <1>0
  <2> DEFINE l == s[i + 1]
             r == ReadJournalLine(l)[f[i]]
  <2>3. f[i + 1] = r  BY <1>1, <2>2
  <2>4. l \in Lines /\ l # Garbled  BY <1>0, <2>2 DEF Corrupt
  <2> HIDE DEF l
  <2>5. /\ r \in JournalStates /\ Lists(r.order, r.entries)
        /\ \A k \in Keys \ {l.key} : r.entries[k] = f[i].entries[k]
    BY <2>1, <2>4, LineRead
  <2> HIDE DEF r
  <2>6. Count(r.entries) <= i + 1
    <3>1. Cached(r.entries) \subseteq Cached(f[i].entries) \cup {l.key}
      BY <2>5 DEF Cached
    <3>2. IsFiniteSet(Cached(f[i].entries))  BY KeysAssumption, FS_Subset DEF Cached
    <3>3. Cardinality(Cached(r.entries)) <= Cardinality(Cached(f[i].entries)) + 1
      <4> DEFINE A == Cached(f[i].entries)
                 B == A \cup {l.key}
      <4>1. IsFiniteSet(B) /\ Cardinality(B) <= Cardinality(A) + 1
        <5> HIDE DEF A
        <5>1. IsFiniteSet(A)  BY <3>2 DEF A
        <5>2. IsFiniteSet(B) /\ Cardinality(B) = IF l.key \in A THEN Cardinality(A)
                                                 ELSE Cardinality(A) + 1
          BY <5>1, FS_AddElement
        <5>3. Cardinality(A) \in Nat  BY <5>1, FS_CardinalityType
        <5> QED BY <5>2, <5>3
      <4>2. Cardinality(Cached(r.entries)) <= Cardinality(B)  BY <3>1, <4>1, FS_Subset
      <4>3. /\ Cardinality(Cached(r.entries)) \in Nat /\ Cardinality(B) \in Nat
            /\ Cardinality(A) \in Nat
        BY <3>1, <3>2, <4>1, FS_Subset, FS_CardinalityType
      <4> QED BY <4>1, <4>2, <4>3
    <3>4. Cardinality(Cached(f[i].entries)) <= i  BY <2>1 DEF Count, Cached
    <3>5. Cardinality(Cached(f[i].entries)) \in Nat /\ Cardinality(Cached(r.entries)) \in Nat
      <4>1. IsFiniteSet(Cached(r.entries))  BY KeysAssumption, FS_Subset DEF Cached
      <4> QED BY <3>2, <4>1, FS_CardinalityType
    <3> QED BY <3>3, <3>4, <3>5 DEF Count, Cached
  <2> QED BY <2>3, <2>5, <2>6
<1>4. Nat \subseteq G
  <2>1. 0 \in G  BY <1>2
  <2> HIDE DEF G
  <2> QED BY <1>3, <2>1, SetInduction
<1>5. \A i \in 0..Len(s) : Good(i)
  <2> HIDE DEF Good
  <2> QED BY <1>0, <1>4
<1> QED BY <1>5 DEF f

\* What processJournal keeps is readable only if no line broke that: an entry
\* nobody edits has been published.
Sound(r) == \A k \in Keys : r[k] # NULL /\ r[k].editor = NULL => r[k].readable

SoundJournal(s) == \A i \in 0..Len(s) : Sound(Readings(s)[i].entries)

\* One more line.
LEMMA ReadAppend ==
    ASSUME NEW s \in Seq(Lines), NEW l \in Lines
    PROVE  /\ Append(s, l) \in Seq(Lines)
           /\ Corrupt(Append(s, l)) <=> Corrupt(s) \/ l = Garbled
           /\ ReadJournal(Append(s, l)) = ReadJournalLine(l)[ReadJournal(s)]
           /\ SoundJournal(Append(s, l)) <=>
                  SoundJournal(s) /\ Sound(ReadJournal(Append(s, l)).entries)
<1> DEFINE a == Append(s, l)
           n == Len(s)
<1>1. /\ a \in Seq(Lines) /\ Len(a) = n + 1 /\ n \in Nat
      /\ \A i \in 1..n : a[i] = s[i]
      /\ a[n + 1] = l
      /\ DOMAIN a = 1..(n + 1) /\ DOMAIN s = 1..n
  BY AppendProperties, LenProperties
<1> HIDE DEF a
<1>2. \A i \in 0..n : Readings(a)[i] = Readings(s)[i]
  <2> HIDE DEF n
  <2>1. n <= Len(s) /\ n <= Len(a)  BY <1>1 DEF n
  <2>2. \A i \in 1..n : a[i] = s[i]  BY <1>1
  <2> QED BY <1>1, <2>1, <2>2, ReadingsAgree
<1>3. Readings(a)[n + 1] = ReadJournalLine(l)[Readings(s)[n]]
  <2>1. n + 1 \in 1..Len(a) /\ n + 1 - 1 = n /\ n \in 0..n  BY <1>1
  <2>2. Readings(a)[n + 1] = ReadJournalLine(a[n + 1])[Readings(a)[n]]
    <3> HIDE DEF n
    <3>1. \A i \in 1..Len(a) : Readings(a)[i] = ReadJournalLine(a[i])[Readings(a)[i-1]]
      BY <1>1, ReadingsStep
    <3>2. Readings(a)[n + 1] = ReadJournalLine(a[n + 1])[Readings(a)[n + 1 - 1]]
      BY <2>1, <3>1
    <3> QED BY <2>1, <3>2
  <2> QED BY <1>1, <1>2, <2>1, <2>2
<1>4. ReadJournal(a) = ReadJournalLine(l)[ReadJournal(s)]  BY <1>1, <1>3 DEF ReadJournal
<1>5. Corrupt(a) <=> Corrupt(s) \/ l = Garbled
  <2>1. \A i : i \in 1..(n + 1) <=> i \in 1..n \/ i = n + 1  BY <1>1
  <2> HIDE DEF n
  <2>2. Corrupt(a) <=> \E i \in 1..(n + 1) : a[i] = Garbled  BY <1>1 DEF Corrupt
  <2>3. Corrupt(s) <=> \E i \in 1..n : s[i] = Garbled  BY <1>1 DEF Corrupt
  <2> QED BY <1>1, <2>1, <2>2, <2>3
<1>6. SoundJournal(a) <=> SoundJournal(s) /\ Sound(ReadJournal(a).entries)
  <2>1. \A i : i \in 0..(n + 1) <=> i \in 0..n \/ i = n + 1  BY <1>1
  <2>2. ReadJournal(a) = Readings(a)[n + 1]  BY <1>1 DEF ReadJournal
  <2>3. SoundJournal(a) <=> \A i \in 0..(n + 1) : Sound(Readings(a)[i].entries)
    BY <1>1 DEF SoundJournal
  <2>4. SoundJournal(s) <=> \A i \in 0..n : Sound(Readings(s)[i].entries)
    BY DEF SoundJournal
  <2> HIDE DEF n
  <2> QED BY <1>2, <2>1, <2>2, <2>3, <2>4
<1> QED BY <1>1, <1>4, <1>5, <1>6 DEF a

\* Nothing is lost to the lines before when others follow.
LEMMA ReadConcat ==
    ASSUME NEW s \in Seq(Lines), NEW t \in Seq(Lines)
    PROVE  /\ s \o t \in Seq(Lines)
           /\ Corrupt(s \o t) <=> Corrupt(s) \/ Corrupt(t)
           /\ SoundJournal(s \o t) => SoundJournal(s)
<1> DEFINE c == s \o t
           n == Len(s)
           m == Len(t)
<1>1. /\ c \in Seq(Lines) /\ Len(c) = n + m
      /\ \A i \in 1..(n + m) : c[i] = IF i <= n THEN s[i] ELSE t[i - n]
  BY ConcatProperties
<1>2. n \in Nat /\ m \in Nat /\ DOMAIN c = 1..(n + m) /\ DOMAIN s = 1..n /\ DOMAIN t = 1..m
  BY <1>1, LenProperties
<1> HIDE DEF c
<1>3. ASSUME Corrupt(c) PROVE Corrupt(s) \/ Corrupt(t)
  <2>1. PICK i \in 1..(n + m) : c[i] = Garbled  BY <1>2, <1>3 DEF Corrupt
  <2>2. CASE i <= n
    <3>1. i \in 1..n /\ s[i] = Garbled  BY <1>1, <1>2, <2>1, <2>2
    <3> QED BY <1>2, <3>1 DEF Corrupt
  <2>3. CASE ~ i <= n
    <3>1. i - n \in 1..m  BY <1>2, <2>3
    <3>2. t[i - n] = Garbled  BY <1>1, <2>1, <2>3
    <3> QED BY <1>2, <3>1, <3>2 DEF Corrupt
  <2> QED BY <2>2, <2>3
<1>4. ASSUME Corrupt(s) PROVE Corrupt(c)
  <2>1. PICK i \in 1..n : s[i] = Garbled  BY <1>2, <1>4 DEF Corrupt
  <2>2. i \in 1..(n + m) /\ i <= n  BY <1>2
  <2>3. c[i] = Garbled  BY <1>1, <2>1, <2>2
  <2> QED BY <1>2, <2>2, <2>3 DEF Corrupt
<1>5. ASSUME Corrupt(t) PROVE Corrupt(c)
  <2>1. PICK i \in 1..m : t[i] = Garbled  BY <1>2, <1>5 DEF Corrupt
  <2>2. n + i \in 1..(n + m) /\ ~ n + i <= n /\ (n + i) - n = i  BY <1>2
  <2>3. c[n + i] = Garbled  BY <1>1, <2>1, <2>2
  <2> QED BY <1>2, <2>2, <2>3 DEF Corrupt
<1>6. ASSUME SoundJournal(c) PROVE SoundJournal(s)
  <2>1. n <= Len(s) /\ n <= Len(c)  BY <1>1, <1>2
  <2>2. \A i \in 1..n : s[i] = c[i]  BY <1>1, <1>2
  <2> HIDE DEF n
  <2>3. \A i \in 0..n : Readings(s)[i] = Readings(c)[i]
    BY <1>1, <1>2, <2>1, <2>2, ReadingsAgree
  <2>4. \A i \in 0..n : i \in 0..Len(c)  BY <1>1, <1>2, <2>1
  <2>5. \A i \in 0..n : Sound(Readings(s)[i].entries)
    BY <1>6, <2>3, <2>4 DEF SoundJournal
  <2> QED BY <2>5 DEF SoundJournal, n
<1> QED BY <1>1, <1>3, <1>4, <1>5, <1>6 DEF c

\* What was read fits the entries in memory: an edited entry is dirty, and what
\* open() dropped or will drop may be.
Mirrors(e, r) ==
    \A k \in Keys :
        /\ e[k] = NULL => r[k] = NULL \/ r[k].editor = JOURNALED
        /\ e[k] # NULL /\ e[k].editor = NULL => r[k] = e[k]
        /\ e[k] # NULL /\ e[k].editor # NULL => r[k] # NULL /\ r[k].editor = JOURNALED

\* The lines say what the entries are, unless open() will find them corrupt.
Tells(s, e) == Corrupt(s) \/ (SoundJournal(s) /\ Mirrors(e, ReadJournal(s).entries))

\* The line that a method logs when it changes the entries from e to f.
Logs(l, e, f) ==
    /\ l \in Lines /\ l # Garbled
    /\ \A k \in Keys \ {l.key} : f[k] = e[k]
    /\ l.op = "CLEAN" => f[l.key] = [readable |-> TRUE, editor |-> NULL, length |-> l.len]
    /\ l.op = "DIRTY" => f[l.key] # NULL /\ f[l.key].editor # NULL
    /\ l.op = "READ" => f[l.key] = e[l.key] /\ e[l.key] # NULL
    /\ l.op = "REMOVE" => f[l.key] = NULL

LEMMA JournalRead ==
    ASSUME NEW s \in Seq(Lines), ~Corrupt(s)
    PROVE  /\ ReadJournal(s) \in JournalStates
           /\ Lists(ReadJournal(s).order, ReadJournal(s).entries)
           /\ Count(ReadJournal(s).entries) <= Len(s)
           /\ SoundJournal(s) => Sound(ReadJournal(s).entries)
<1>1. Len(s) \in 0..Len(s)  BY LenProperties
<1> QED BY <1>1, ReadingsKeep DEF ReadJournal, SoundJournal

LEMMA LogTells ==
    ASSUME NEW s \in Seq(Lines), NEW l, NEW e, NEW f, Tells(s, e), Logs(l, e, f)
    PROVE  Tells(Append(s, l), f)
<1> SUFFICES ASSUME ~Corrupt(Append(s, l)) PROVE Tells(Append(s, l), f)
  BY DEF Tells
<1>0. l \in Lines /\ l # Garbled  BY DEF Logs
<1> DEFINE m == ReadJournal(s)
           r == ReadJournalLine(l)[m]
           k == l.key
<1>1. /\ ~Corrupt(s) /\ ReadJournal(Append(s, l)) = r
      /\ SoundJournal(s) /\ Sound(r.entries) => SoundJournal(Append(s, l))
  BY <1>0, ReadAppend
<1>2. SoundJournal(s) /\ Mirrors(e, m.entries)  BY <1>1 DEF Tells
<1>3. m \in JournalStates /\ Lists(m.order, m.entries) /\ Sound(m.entries)
  BY <1>1, <1>2, JournalRead
<1> HIDE DEF m
<1>4. /\ r.entries[k] = EntryAfter(m.entries[k], l)
      /\ \A j \in Keys \ {k} : r.entries[j] = m.entries[j]
  BY <1>0, <1>3, LineRead
<1>5. k \in Keys /\ l.op \in {"CLEAN", "DIRTY", "READ", "REMOVE"}
  BY <1>0 DEF Lines
<1>6. m.entries[k] \in Journaled \cup {NULL}  BY <1>3, <1>5 DEF JournalStates
<1> DEFINE x == EntryAfter(m.entries[k], l)
<1>7. /\ x \in Journaled \cup {NULL}
      /\ l.op = "REMOVE" <=> x = NULL
      /\ l.op = "CLEAN" => x = [readable |-> TRUE, editor |-> NULL, length |-> l.len]
      /\ l.op = "DIRTY" => x.editor = JOURNALED
      /\ l.op = "READ" /\ m.entries[k] # NULL => x = m.entries[k]
  BY <1>0, <1>6, EntryRead
<1>8. JOURNALED # NULL  BY NullAssumption
<1> HIDE DEF r, x
<1>9. /\ r.entries[k] = x
      /\ \A j \in Keys \ {k} : r.entries[j] = m.entries[j]
  BY <1>4 DEF x
<1> HIDE DEF k
<1>11. /\ f[k] = NULL => x = NULL \/ x.editor = JOURNALED
       /\ f[k] # NULL /\ f[k].editor = NULL => x = f[k]
       /\ f[k] # NULL /\ f[k].editor # NULL => x # NULL /\ x.editor = JOURNALED
       /\ x # NULL /\ x.editor = NULL => x.readable
  <2>1. CASE l.op = "CLEAN"
    <3>1. f[k] = x  BY <1>7, <2>1 DEF Logs, k
    <3>2. x.editor = NULL /\ x.readable  BY <1>7, <2>1
    <3>3. x # NULL  BY <1>7, <2>1
    <3> QED BY <3>1, <3>2, <3>3
  <2>2. CASE l.op = "DIRTY"
    <3>1. f[k] # NULL /\ f[k].editor # NULL  BY <2>2 DEF Logs, k
    <3>2. x.editor = JOURNALED /\ x # NULL  BY <1>7, <2>2
    <3> QED BY <1>8, <3>1, <3>2
  <2>3. CASE l.op = "READ"
    <3>1. f[k] = e[k] /\ e[k] # NULL  BY <2>3 DEF Logs, k
    <3>2. m.entries[k] # NULL  BY <1>2, <1>5, <3>1 DEF Mirrors
    <3>3. x = m.entries[k]  BY <1>7, <2>3, <3>2
    <3> QED BY <1>2, <1>3, <1>5, <3>1, <3>3 DEF Mirrors, Sound
  <2>4. CASE l.op = "REMOVE"
    <3>1. f[k] = NULL /\ x = NULL  BY <1>7, <2>4 DEF Logs, k
    <3> QED BY <3>1
  <2> QED BY <1>5, <2>1, <2>2, <2>3, <2>4
<1>12. \A j \in Keys \ {k} : f[j] = e[j]  BY DEF Logs, k
<1>13. Sound(r.entries)
  <2> SUFFICES ASSUME NEW j \in Keys, r.entries[j] # NULL, r.entries[j].editor = NULL
               PROVE  r.entries[j].readable
    BY DEF Sound
  <2>1. CASE j = k  BY <1>9, <1>11, <2>1
  <2>2. CASE j # k  BY <1>3, <1>9, <2>2 DEF Sound
  <2> QED BY <2>1, <2>2
<1>14. Mirrors(f, r.entries)
  <2> SUFFICES ASSUME NEW j \in Keys
               PROVE  /\ f[j] = NULL => r.entries[j] = NULL \/ r.entries[j].editor = JOURNALED
                      /\ f[j] # NULL /\ f[j].editor = NULL => r.entries[j] = f[j]
                      /\ f[j] # NULL /\ f[j].editor # NULL =>
                             r.entries[j] # NULL /\ r.entries[j].editor = JOURNALED
    BY DEF Mirrors
  <2>1. CASE j = k  BY <1>9, <1>11, <2>1
  <2>2. CASE j # k
    <3>1. f[j] = e[j] /\ r.entries[j] = m.entries[j]  BY <1>9, <1>12, <2>2
    <3> QED BY <1>2, <3>1 DEF Mirrors
  <2> QED BY <2>1, <2>2
<1> QED BY <1>1, <1>2, <1>13, <1>14 DEF Tells

LEMMA EmptyTells ==
    /\ Tells(<<>>, None) /\ ~Corrupt(<<>>) /\ <<>> \in Seq(Lines)
    /\ ReadJournal(<<>>).entries = None
<1>1. <<>> \in Seq(Lines) /\ Len(<<>>) = 0 /\ DOMAIN <<>> = {}  OBVIOUS
<1>2. Readings(<<>>)[0] = [entries |-> None, order |-> <<>>]  BY <1>1, ReadingsStep
<1>3. ReadJournal(<<>>).entries = None  BY <1>1, <1>2 DEF ReadJournal
<1>4. Sound(None) /\ Mirrors(None, None)  BY DEF Sound, Mirrors, None
<1>5. SoundJournal(<<>>)  BY <1>1, <1>2, <1>4 DEF SoundJournal
<1> QED BY <1>1, <1>3, <1>4, <1>5 DEF Tells, Corrupt

\* A rebuilt journal, line by line, names the entries in their order.
LEMMA SnapshotTells ==
    ASSUME entries \in [Keys -> Entries \cup {NULL}], order \in Seq(Keys),
           Lists(order, entries),
           \A k \in Cached(entries) : entries[k].editor = NULL => entries[k].readable
    PROVE  /\ SnapshotLines \in Seq(Lines)
           /\ ~Corrupt(SnapshotLines)
           /\ Tells(SnapshotLines, entries)
<1> DEFINE s == SnapshotLines
           n == Len(order)
           Named(i) == {order[j] : j \in 1..i}
           Part(i) == [k \in Keys |-> IF k \in Named(i) THEN entries[k] ELSE NULL]
           G == {i \in Nat : i <= n => Tells(SubSeq(s, 1, i), Part(i))}
<1>0. n \in Nat /\ DOMAIN order = 1..n  BY LenProperties
<1>1. \A i \in 1..n : /\ order[i] \in Keys /\ entries[order[i]] \in Entries
                      /\ entries[order[i]] # NULL
  <2> SUFFICES ASSUME NEW i \in 1..n
               PROVE  /\ order[i] \in Keys /\ entries[order[i]] \in Entries
                      /\ entries[order[i]] # NULL
    OBVIOUS
  <2>1. order[i] \in Cached(entries)  BY <1>0 DEF Lists, Listed
  <2> QED BY <2>1 DEF Cached
<1>2. \A i \in 1..n : /\ s[i] \in Lines /\ s[i] # Garbled
                      /\ s[i].key = order[i]
                      /\ entries[order[i]].editor = NULL =>
                             s[i].op = "CLEAN" /\ s[i].len = entries[order[i]].length
                      /\ entries[order[i]].editor # NULL => s[i].op = "DIRTY"
  <2> SUFFICES ASSUME NEW i \in 1..n
               PROVE  /\ s[i] \in Lines /\ s[i] # Garbled
                      /\ s[i].key = order[i]
                      /\ entries[order[i]].editor = NULL =>
                             s[i].op = "CLEAN" /\ s[i].len = entries[order[i]].length
                      /\ entries[order[i]].editor # NULL => s[i].op = "DIRTY"
    OBVIOUS
  <2>1. s[i] = IF entries[order[i]].editor # NULL THEN DirtyLine(order[i])
               ELSE CleanLine(order[i], entries[order[i]].length)
    BY <1>0 DEF SnapshotLines
  <2>2. entries[order[i]].length \in Lengths \cup {0} /\ order[i] \in Keys
    BY <1>1 DEF Entries
  <2>3. order[i] # NULL  BY <2>2, NullAssumption
  <2> QED BY <2>1, <2>2, <2>3 DEF DirtyLine, CleanLine, Line, Garbled, Lines
<1>3. s \in Seq(Lines) /\ Len(s) = n /\ DOMAIN s = 1..n
  <2>1. s = [i \in 1..n |-> s[i]]  BY <1>0 DEF SnapshotLines
  <2> HIDE DEF s
  <2> QED BY <1>0, <1>2, <2>1
<1>4. ~Corrupt(s)  BY <1>2, <1>3 DEF Corrupt
<1> HIDE DEF s
<1>5. 0 \in G
  <2>1. SubSeq(s, 1, 0) = <<>>  BY <1>3
  <2>2. Part(0) = None  BY DEF None
  <2> QED BY <2>1, <2>2, EmptyTells
<1>6. \A i \in Nat : i \in G => i + 1 \in G
  <2> SUFFICES ASSUME NEW i \in Nat, i \in G, i + 1 <= n
               PROVE  Tells(SubSeq(s, 1, i + 1), Part(i + 1))
    OBVIOUS
  <2>1. i + 1 \in 1..n /\ i <= n  BY <1>0
  <2>2. Tells(SubSeq(s, 1, i), Part(i))  BY <2>1
  <2> DEFINE l == s[i + 1]
             k == order[i + 1]
  <2>3. SubSeq(s, 1, i) \in Seq(Lines)
    <3>1. \A j \in 1..i : j \in 1..Len(s)  BY <1>0, <1>3, <2>1
    <3> QED BY <1>3, <3>1, SubSeqProperties
  <2>4. SubSeq(s, 1, i + 1) = Append(SubSeq(s, 1, i), l)
    <3>1. 1 \in Int /\ i + 1 \in Int /\ i \in 0..(Len(s) - 1)  BY <1>0, <1>3, <2>1
    <3> QED BY <1>3, <2>1, <3>1
  <2>5. Named(i + 1) = Named(i) \cup {k}
    <3>1. 1..(i + 1) = (1..i) \cup {i + 1}  OBVIOUS
    <3> QED BY <3>1
  <2>6. k \in Keys /\ Part(i + 1)[k] = entries[k] /\ entries[k] \in Entries
    BY <1>1, <2>1, <2>5
  <2>7. \A j \in Keys \ {k} : Part(i + 1)[j] = Part(i)[j]  BY <2>5
  <2>8. /\ l \in Lines /\ l # Garbled /\ l.key = k
        /\ entries[k].editor = NULL => l.op = "CLEAN" /\ l.len = entries[k].length
        /\ entries[k].editor # NULL => l.op = "DIRTY"
    BY <1>2, <2>1
  <2>9. entries[k] # NULL /\ (entries[k].editor = NULL => entries[k].readable)
    BY <1>1, <2>1, <2>6 DEF Cached
  <2>10. entries[k].editor = NULL =>
            entries[k] = [readable |-> TRUE, editor |-> NULL, length |-> entries[k].length]
    <3> SUFFICES ASSUME entries[k].editor = NULL
                 PROVE  entries[k] = [readable |-> TRUE, editor |-> NULL,
                                      length |-> entries[k].length]
      OBVIOUS
    <3>1. entries[k].readable = TRUE  BY <2>6, <2>9, Zenon DEF Entries
    <3>2. entries[k] = [readable |-> entries[k].readable, editor |-> entries[k].editor,
                        length |-> entries[k].length]
      BY <2>6 DEF Entries
    <3> QED BY <3>1, <3>2
  <2> HIDE DEF l, k, Part
  <2>11. Logs(l, Part(i), Part(i + 1))
    BY <2>6, <2>7, <2>8, <2>9, <2>10 DEF Logs
  <2> QED BY <2>2, <2>3, <2>4, <2>11, LogTells
<1>7. n \in G
  <2> HIDE DEF G
  <2> QED BY <1>0, <1>5, <1>6, SetInduction
<1>8. SubSeq(s, 1, n) = s  BY <1>0, <1>3
<1>9. Part(n) = entries
  <2>1. Named(n) = Cached(entries)  BY <1>0 DEF Lists, Listed
  <2>2. \A k \in Keys : (IF k \in Cached(entries) THEN entries[k] ELSE NULL) = entries[k]
    BY DEF Cached
  <2> QED BY <2>1, <2>2
<1>10. Tells(SubSeq(s, 1, n), Part(n))  BY <1>0, <1>7
<1> QED BY <1>3, <1>4, <1>8, <1>9, <1>10 DEF s

(***************************************************************************)
(* The journals. All of what an instance wrote, flushed or not, tells its  *)
(* entries, and so does the new journal of a rebuild before it is swapped  *)
(* in. What lies in the directory of a closed cache is at least sound.     *)
(***************************************************************************)
File(j) == j = NULL \/ (j \in Seq(Lines) /\ (~Corrupt(j) => SoundJournal(j)))

Log == OnDisk \o buffer

JournalInv ==
    /\ buffer \in Seq(Lines) /\ ~Corrupt(buffer)
    /\ File(journal) /\ File(journalTmp) /\ File(journalBackup)
    /\ torn \in {"none", "head", "dead"}
    /\ isOpen /\ torn # "dead" => Tells(Log, entries)
    /\ isOpen => (journal # NULL <=> busy.op # "swap")
    /\ busy.op = "swap" => journalBackup # NULL
    /\ busy.op \in {"backup", "swap"} =>
           /\ journalTmp # NULL /\ ~Corrupt(journalTmp) /\ Tells(journalTmp, entries)
           /\ buffer = <<>>
    /\ ~isOpen => buffer = <<>> /\ busy.op \in {"idle", "deleting"}
    /\ busy.op = "deleting" => ~isOpen

\* Lines that go to the journal.
LEMMA WrittenLines ==
    ASSUME NEW lines \in Seq(Lines), journal \in Seq(Lines)
    PROVE  /\ Written(lines) \in Seq(Lines)
           /\ torn # "dead" \/ lines = <<>> => Written(lines) = journal \o lines
           /\ torn = "dead" /\ lines # <<>> => Corrupt(Written(lines))
<1>1. CASE torn = "dead" /\ lines # <<>>
  <2> DEFINE g == <<Garbled>>
             t == Tail(lines)
             h == journal \o g
  <2>1. g \in Seq(Lines) /\ Corrupt(g)
    <3>1. Garbled \in Lines  BY DEF Lines
    <3>2. 1 \in DOMAIN g /\ g[1] = Garbled  OBVIOUS
    <3> QED BY <3>1, <3>2 DEF Corrupt
  <2>2. t \in Seq(Lines)  BY <1>1, HeadTailProperties
  <2> HIDE DEF g, t
  <2>3. h \in Seq(Lines) /\ Corrupt(h)  BY <2>1, ReadConcat
  <2> HIDE DEF h
  <2>4. h \o t \in Seq(Lines) /\ Corrupt(h \o t)  BY <2>2, <2>3, ReadConcat
  <2>5. Written(lines) = h \o t  BY <1>1 DEF Written, h, g, t
  <2> QED BY <1>1, <2>4, <2>5
<1>2. CASE ~ (torn = "dead" /\ lines # <<>>)
  <2>1. Written(lines) = journal \o lines  BY <1>2 DEF Written
  <2> QED BY <1>2, <2>1, ReadConcat
<1> QED BY <1>1, <1>2

\* A sound log is a sound journal.
LEMMA TellsFile ==
    ASSUME NEW j \in Seq(Lines), NEW e, Tells(j, e)
    PROVE  File(j)
BY DEF File, Tells

LEMMA TellsPrefix ==
    ASSUME NEW s \in Seq(Lines), NEW t \in Seq(Lines), NEW e, Tells(s \o t, e), ~Corrupt(t)
    PROVE  File(s)
BY ReadConcat DEF File, Tells

\* The log while the cache is open, and not in the middle of a swap.
LEMMA OpenLog ==
    ASSUME JournalInv, isOpen, busy.op # "swap"
    PROVE  /\ journal \in Seq(Lines) /\ journal # NULL
           /\ OnDisk = journal /\ Log = journal \o buffer /\ Log \in Seq(Lines)
<1>1. journal # NULL /\ journal \in Seq(Lines)  BY DEF JournalInv, File
<1>2. OnDisk = journal  BY <1>1 DEF OnDisk, Found
<1> QED BY <1>1, <1>2, ConcatProperties DEF JournalInv, Log

\* A change of the entries is logged, in the buffer or in the file.
LEMMA LogStep ==
    ASSUME JournalInv, isOpen, isOpen', busy.op \notin {"backup", "swap"},
           busy'.op \notin {"backup", "swap", "deleting"},
           NEW l, Logs(l, entries, entries'),
           Append1(l) \/ Flushed(Append(buffer, l))
    PROVE  JournalInv'
<1>1. /\ journal \in Seq(Lines) /\ journal # NULL
      /\ OnDisk = journal /\ Log = journal \o buffer /\ Log \in Seq(Lines)
  BY OpenLog
<1>2. l \in Lines /\ l # Garbled /\ buffer \in Seq(Lines)  BY DEF Logs, JournalInv
<1> DEFINE b == Append(buffer, l)
<1>3. b \in Seq(Lines) /\ b # <<>>
  <2>1. b \in Seq(Lines) /\ Len(b) = Len(buffer) + 1 /\ Len(buffer) \in Nat
    BY <1>2, AppendProperties
  <2> HIDE DEF b
  <2> QED BY <2>1, EmptySeq
<1>4. journal \o b = Append(Log, l)
  <2>1. b = buffer \o <<l>>  BY <1>2, AppendIsConcat
  <2>2. Append(Log, l) = Log \o <<l>>  BY <1>1, <1>2, AppendIsConcat
  <2>3. <<l>> \in Seq(Lines)  BY <1>2
  <2> QED BY <1>1, <1>2, <2>1, <2>2, <2>3, ConcatAssociative
<1>5. torn # "dead" => Tells(journal \o b, entries')
  <2> SUFFICES ASSUME torn # "dead" PROVE Tells(Append(Log, l), entries')
    BY <1>4
  <2>1. Tells(Log, entries)  BY DEF JournalInv
  <2> QED BY <1>1, <2>1, LogTells
<1>6. File(journal) /\ File(journalTmp) /\ File(journalBackup) /\ torn \in {"none", "head", "dead"}
  BY DEF JournalInv
<1> HIDE DEF b
<1>7. CASE Append1(l)
  <2>1. /\ buffer' = b
        /\ UNCHANGED <<journal, journalTmp, journalBackup, torn>>
    BY <1>7 DEF Append1, journalVars, b
  <2>2. Log' = journal \o b  BY <1>1, <2>1 DEF Log, OnDisk, Found
  <2>3. torn' # "dead" => Tells(Log', entries')  BY <1>5, <2>1, <2>2
  <2>4. ~Corrupt(b)  BY <1>2, ReadAppend DEF b, JournalInv
  <2>5. buffer' \in Seq(Lines) /\ ~Corrupt(buffer')  BY <1>3, <2>1, <2>4
  <2> QED BY <1>1, <1>6, <2>1, <2>3, <2>5 DEF JournalInv
<1>8. CASE Flushed(b)
  <2>1. /\ journal' = Written(b) /\ buffer' = <<>> /\ torn' = "none"
        /\ UNCHANGED <<journalTmp, journalBackup>>
    BY <1>3, <1>8 DEF Flushed
  <2>2. /\ journal' \in Seq(Lines)
        /\ torn # "dead" => journal' = journal \o b
        /\ torn = "dead" => Corrupt(journal')
    BY <1>1, <1>3, <2>1, WrittenLines
  <2>3. Tells(journal', entries')
    <3>1. CASE torn = "dead"  BY <2>2, <3>1 DEF Tells
    <3>2. CASE torn # "dead"  BY <1>5, <2>2, <3>2
    <3> QED BY <3>1, <3>2
  <2>4. File(journal')  BY <2>2, <2>3, TellsFile
  <2>5. journal' # NULL  BY <2>2, NullAssumption
  <2>6. Log' = journal' /\ <<>> \in Seq(Lines)
    <3>1. OnDisk' = journal'  BY <2>5 DEF OnDisk, Found
    <3> QED BY <2>1, <2>2, <3>1, ConcatEmptySeq DEF Log
  <2>7. Tells(Log', entries')  BY <2>3, <2>6
  <2>8. buffer' \in Seq(Lines) /\ ~Corrupt(buffer')  BY <2>1, EmptyTells
  <2> QED BY <1>6, <2>1, <2>4, <2>5, <2>7, <2>8 DEF JournalInv
<1> QED BY <1>7, <1>8 DEF b

\* The files and the entries stay as they are.
LEMMA JournalSame ==
    ASSUME JournalInv, isOpen, isOpen', busy.op \notin {"backup", "swap"},
           busy'.op \notin {"backup", "swap", "deleting"},
           UNCHANGED <<entries, buffer, journalVars>>
    PROVE  JournalInv'
<1>1. UNCHANGED <<entries, buffer, journal, journalTmp, journalBackup, torn>>
  BY DEF journalVars
<1>2. Log' = Log  BY <1>1 DEF Log, OnDisk, Found
<1>3. busy.op # "swap"  OBVIOUS
<1>4. torn' # "dead" => Tells(Log', entries')  BY <1>1, <1>2 DEF JournalInv
<1>5. journal' # NULL  BY <1>1, <1>3 DEF JournalInv
<1> QED BY <1>1, <1>4, <1>5 DEF JournalInv

\* The buffer is written out.
LEMMA FlushStep ==
    ASSUME JournalInv, isOpen, busy.op \notin {"backup", "swap"},
           journal' = Written(buffer), torn' = IF buffer = <<>> THEN torn ELSE "none"
    PROVE  /\ journal' # NULL /\ journal' \in Seq(Lines) /\ File(journal')
           /\ torn' \in {"none", "head", "dead"}
           /\ torn' # "dead" => Tells(journal', entries)
<1>1. /\ journal \in Seq(Lines) /\ journal # NULL
      /\ OnDisk = journal /\ Log = journal \o buffer /\ Log \in Seq(Lines)
  BY OpenLog
<1>2. buffer \in Seq(Lines)  BY DEF JournalInv
<1>3. /\ journal' \in Seq(Lines)
      /\ torn # "dead" \/ buffer = <<>> => journal' = Log
      /\ torn = "dead" /\ buffer # <<>> => Corrupt(journal')
  BY <1>1, <1>2, WrittenLines
<1>4. journal' # NULL  BY <1>3, NullAssumption
<1>5. torn \in {"none", "head", "dead"}  BY DEF JournalInv
<1>6. CASE torn = "dead" /\ buffer # <<>>
  <2>1. Corrupt(journal')  BY <1>3, <1>6
  <2> QED BY <1>3, <1>4, <1>6, <2>1 DEF Tells, File
<1>7. CASE torn = "dead" /\ buffer = <<>>
  <2>1. journal' = journal /\ torn' = "dead"  BY <1>1, <1>3, <1>7, ConcatEmptySeq
  <2>2. File(journal)  BY DEF JournalInv
  <2> QED BY <1>3, <1>4, <2>1, <2>2
<1>8. CASE torn # "dead"
  <2>1. Tells(Log, entries) /\ journal' = Log  BY <1>3, <1>8 DEF JournalInv
  <2>2. File(journal')  BY <1>3, <2>1, TellsFile
  <2> QED BY <1>3, <1>4, <1>5, <1>8, <2>1, <2>2
<1> QED BY <1>6, <1>7, <1>8

\* A spill moves all lines but the last to the file.
LEMMA SpillJournal ==
    ASSUME JournalInv, Spill
    PROVE  JournalInv'
<1> DEFINE n == Len(buffer)
           b == SubSeq(buffer, 1, n - 1)
           x == buffer[n]
<1>1. /\ isOpen /\ busy = IDLE /\ n > 0 /\ (n > 1 \/ torn = "none")
      /\ journal' = Written(b) /\ buffer' = <<x>> /\ torn' = "head"
      /\ UNCHANGED <<isOpen, entries, busy, journalTmp, journalBackup>>
  BY DEF Spill, Ready, Idle, lruVars
<1>2. buffer \in Seq(Lines) /\ n \in Nat /\ ~Corrupt(buffer) /\ DOMAIN buffer = 1..n
  BY LenProperties DEF JournalInv
<1>0. busy.op = "idle" /\ busy'.op = "idle"  BY <1>1 DEF IDLE
<1>3. /\ journal \in Seq(Lines) /\ journal # NULL
      /\ OnDisk = journal /\ Log = journal \o buffer /\ Log \in Seq(Lines)
  BY <1>0, <1>1, OpenLog
<1>4. b \in Seq(Lines) /\ Len(b) = n - 1
  <2>1. \A j \in 1..(n - 1) : j \in 1..Len(buffer)  BY <1>1, <1>2
  <2> QED BY <1>1, <1>2, <2>1, SubSeqProperties
<1>5. x \in Lines /\ x # Garbled
  <2>1. n \in 1..n  BY <1>1, <1>2
  <2> QED BY <1>2, <2>1 DEF Corrupt
<1>6. <<x>> \in Seq(Lines) /\ ~Corrupt(<<x>>)  BY <1>5 DEF Corrupt
<1> HIDE DEF b
<1>7. b \o <<x>> = buffer
  <2> DEFINE m == n - 1
  <2>1. m + 1 = n /\ m \in 0..(Len(buffer) - 1)  BY <1>1, <1>2
  <2> HIDE DEF m
  <2>2. SubSeq(buffer, 1, m + 1) = Append(SubSeq(buffer, 1, m), buffer[m + 1])
    BY <1>2, <2>1
  <2>3. SubSeq(buffer, 1, n) = buffer  BY <1>2
  <2>4. Append(b, x) = buffer  BY <2>1, <2>2, <2>3 DEF b, m
  <2> QED BY <1>4, <1>5, <2>4, AppendIsConcat
<1>8. b # <<>> <=> n > 1
  <2>1. b # <<>> <=> Len(b) # 0  BY <1>4, EmptySeq
  <2> QED BY <1>1, <1>2, <1>4, <2>1
<1>9. /\ journal' \in Seq(Lines)
      /\ torn # "dead" => journal' = journal \o b
      /\ torn = "dead" => Corrupt(journal')
  <2>1. torn = "dead" => b # <<>>  BY <1>1, <1>8
  <2> QED BY <1>1, <1>3, <1>4, <2>1, WrittenLines
<1> HIDE DEF x
<1>10. torn # "dead" => journal' \o <<x>> = Log
  <2>1. (journal \o b) \o <<x>> = journal \o (b \o <<x>>)
    BY <1>3, <1>4, <1>6, ConcatAssociative
  <2> QED BY <1>3, <1>7, <1>9, <2>1
<1>11. journal' # NULL  BY <1>9, NullAssumption
<1>12. Log' = journal' \o <<x>>
  <2>1. OnDisk' = journal'  BY <1>11 DEF OnDisk, Found
  <2> QED BY <1>1, <2>1 DEF Log
<1>13. Tells(Log', entries')
  <2>1. CASE torn = "dead"
    <3>1. Corrupt(journal' \o <<x>>)  BY <1>6, <1>9, <2>1, ReadConcat
    <3> QED BY <1>12, <3>1 DEF Tells
  <2>2. CASE torn # "dead"
    <3>1. Tells(Log, entries)  BY <1>1, <2>2 DEF JournalInv
    <3> QED BY <1>1, <1>10, <1>12, <2>2, <3>1
  <2> QED BY <2>1, <2>2
<1>14. File(journal')
  <2>1. Tells(journal' \o <<x>>, entries')  BY <1>12, <1>13
  <2> QED BY <1>6, <1>9, <2>1, TellsPrefix
<1>15. File(journalTmp') /\ File(journalBackup')  BY <1>1 DEF JournalInv
<1>16. buffer' \in Seq(Lines) /\ ~Corrupt(buffer')  BY <1>1, <1>6
<1> QED BY <1>0, <1>1, <1>11, <1>13, <1>14, <1>15, <1>16 DEF JournalInv

(***************************************************************************)
(* The entries. Their order lists them, the counts are theirs, and one     *)
(* that is edited has its editor, which has written a file when a commit   *)
(* of a new entry gets as far as that.                                     *)
(***************************************************************************)
Has(x) == x # NULL /\ x.readable

Readables(e) == {k \in Keys : Has(e[k])}

MemoryTypes ==
    /\ isOpen \in BOOLEAN /\ cleanup \in BOOLEAN /\ cut \in BOOLEAN
    /\ entries \in [Keys -> Entries \cup {NULL}]
    /\ order \in Seq(Keys)
    /\ fileCount \in Nat /\ redundant \in Nat
    /\ busy.op \in Ops
    /\ editors \in [Edits -> EditorStates \cup {NULL}]
    /\ clean \in [Keys -> Lengths \cup {NULL}] /\ dirty \in [Keys -> Lengths \cup {NULL}]
    /\ calls \in 0..MaxCalls

Publishes(e) == busy.op = "publish" /\ busy.arg = e

\* The editor of an entry.
Held(k, e) ==
    /\ e \in Edits /\ editors[e] # NULL
    /\ editors[e].key = k /\ ~editors[e].dropping
    /\ editors[e].written => dirty[k] # NULL \/ Publishes(e)

EntryInv(k) ==
    entries[k] # NULL =>
        /\ entries[k].editor = NULL => entries[k].readable
        /\ ~entries[k].readable => entries[k].length = 0
        /\ entries[k].editor # NULL => Held(k, entries[k].editor)

PublishInv ==
    busy.op = "publish" =>
        /\ busy.arg \in Edits /\ Current(busy.arg) /\ busy.new \in BOOLEAN
        /\ busy.new => clean[editors[busy.arg].key] # NULL
        /\ ~busy.new => entries[editors[busy.arg].key].readable

CountInv ==
    /\ size = Total(entries)
    /\ fileCount >= Cardinality(Readables(entries))

MemoryInv ==
    /\ MemoryTypes
    /\ Lists(order, entries)
    /\ \A k \in Keys : EntryInv(k)
    /\ PublishInv
    /\ CountInv
    /\ ~isOpen => entries = None

Inv == MemoryInv /\ JournalInv

LEMMA EntryTypes ==
    ASSUME NEW x \in Entries
    PROVE  /\ x # NULL /\ x.readable \in BOOLEAN /\ x.editor \in Edits \cup {NULL}
           /\ x.length \in Nat /\ x.length \in Lengths \cup {0}
           /\ x = [readable |-> x.readable, editor |-> x.editor, length |-> x.length]
<1>1. Lengths \subseteq Nat  BY LengthsAssumption
<1>2. x # NULL  BY NullAssumption
<1>3. x.readable \in BOOLEAN  BY Zenon DEF Entries
<1>4. x.editor \in Edits \cup {NULL} /\ x.length \in Lengths \cup {0}  BY DEF Entries
<1>5. x = [readable |-> x.readable, editor |-> x.editor, length |-> x.length]  BY DEF Entries
<1> QED BY <1>1, <1>2, <1>3, <1>4, <1>5

\* What one entry does to the counts.
LEMMA CountsChange ==
    ASSUME NEW e \in [Keys -> Entries \cup {NULL}], NEW f \in [Keys -> Entries \cup {NULL}],
           NEW k \in Keys, \A j \in Keys \ {k} : f[j] = e[j]
    PROVE  /\ Total(e) \in Nat /\ Total(f) \in Nat
           /\ LengthOf(e[k]) \in Nat /\ LengthOf(f[k]) \in Nat
           /\ Total(f) = Total(e) - LengthOf(e[k]) + LengthOf(f[k])
           /\ Cardinality(Readables(e)) \in Nat /\ Cardinality(Readables(f)) \in Nat
           /\ Has(f[k]) => Cardinality(Readables(f)) <= Cardinality(Readables(e)) + 1
           /\ Has(e[k]) \/ ~Has(f[k]) => Cardinality(Readables(f)) <= Cardinality(Readables(e))
           /\ Has(e[k]) /\ ~Has(f[k]) =>
                  /\ Cardinality(Readables(f)) = Cardinality(Readables(e)) - 1
                  /\ Cardinality(Readables(e)) >= 1
<1> DEFINE le == [j \in Keys |-> LengthOf(e[j])]
           lf == [j \in Keys |-> LengthOf(f[j])]
<1>1. \A x \in Entries \cup {NULL} : LengthOf(x) \in Nat  BY EntryTypes DEF LengthOf
<1>2. le \in [Keys -> Nat] /\ lf \in [Keys -> Nat]  BY <1>1
<1>3. \A j \in Keys \ {k} : lf[j] = le[j]  OBVIOUS
<1>4. le[k] = LengthOf(e[k]) /\ lf[k] = LengthOf(f[k])  OBVIOUS
<1>5. LengthOf(e[k]) \in Nat /\ LengthOf(f[k]) \in Nat  BY <1>1
<1> HIDE DEF le, lf
<1>6. /\ Total(e) \in Nat /\ Total(f) \in Nat
      /\ Total(f) = Total(e) - LengthOf(e[k]) + LengthOf(f[k])
  <2>1. SumOf(le) \in Nat /\ SumOf(lf) \in Nat /\ SumOf(lf) = SumOf(le) - le[k] + lf[k]
    BY <1>2, <1>3, KeysAssumption, SumType, SumChange
  <2>2. Total(e) = SumOf(le) /\ Total(f) = SumOf(lf)  BY DEF Total, le, lf
  <2> QED BY <1>4, <2>1, <2>2
<1> DEFINE A == Readables(e)
           B == Readables(f)
<1>7. IsFiniteSet(A) /\ IsFiniteSet(B)  BY KeysAssumption, FS_Subset DEF Readables
<1>8. Cardinality(A) \in Nat /\ Cardinality(B) \in Nat
  <2> HIDE DEF A, B
  <2> QED BY <1>7, FS_CardinalityType
<1>9. B \subseteq A \cup {k}  BY DEF Readables
<1>10. Has(f[k]) => Cardinality(B) <= Cardinality(A) + 1
  <2> DEFINE C == A \cup {k}
  <2> HIDE DEF A, B
  <2>1. IsFiniteSet(C) /\ Cardinality(C) = IF k \in A THEN Cardinality(A) ELSE Cardinality(A) + 1
    BY <1>7, FS_AddElement
  <2>2. Cardinality(B) <= Cardinality(C)  BY <1>9, <2>1, FS_Subset
  <2> HIDE DEF C
  <2> QED BY <1>8, <2>1, <2>2
<1>11. Has(e[k]) \/ ~Has(f[k]) => Cardinality(B) <= Cardinality(A)
  <2> SUFFICES ASSUME Has(e[k]) \/ ~Has(f[k]) PROVE Cardinality(B) <= Cardinality(A)
    OBVIOUS
  <2>1. B \subseteq A  BY DEF Readables
  <2> HIDE DEF A, B
  <2> QED BY <1>7, <2>1, FS_Subset
<1>12. Has(e[k]) /\ ~Has(f[k]) => Cardinality(B) = Cardinality(A) - 1 /\ Cardinality(A) >= 1
  <2> SUFFICES ASSUME Has(e[k]), ~Has(f[k])
               PROVE  Cardinality(B) = Cardinality(A) - 1 /\ Cardinality(A) >= 1
    OBVIOUS
  <2>1. B = A \ {k} /\ k \in A  BY DEF Readables
  <2> HIDE DEF A, B
  <2>2. Cardinality(A \ {k}) = Cardinality(A) - 1  BY <1>7, <2>1, FS_RemoveElement
  <2> QED BY <1>8, <2>1, <2>2
<1> QED BY <1>5, <1>6, <1>8, <1>10, <1>11, <1>12

\* An empty cache counts nothing.
LEMMA NoneCounts ==
    /\ None \in [Keys -> Entries \cup {NULL}]
    /\ Total(None) = 0 /\ Readables(None) = {} /\ Cardinality(Readables(None)) = 0
    /\ <<>> \in Seq(Keys) /\ Lists(<<>>, None)
<1> DEFINE l == [j \in Keys |-> LengthOf(None[j])]
<1>1. l \in [Keys -> Nat] /\ \A j \in Keys : l[j] = 0  BY DEF LengthOf, None
<1>2. Total(None) = 0
  <2>1. Total(None) = SumOf(l)  BY DEF Total
  <2> HIDE DEF l
  <2> QED BY <1>1, <2>1, SumOfZeros
<1>3. Readables(None) = {}  BY DEF Readables, Has, None
<1>4. Lists(<<>>, None)  BY DEF Lists, Distinct, Listed, Cached, None
<1>5. None \in [Keys -> Entries \cup {NULL}]  BY DEF None
<1> QED BY <1>2, <1>3, <1>4, <1>5, FS_EmptySet

\* What open() takes from a journal.
LEMMA ProcessKeeps ==
    ASSUME NEW s \in Seq(Lines), ~Corrupt(s), SoundJournal(s)
    PROVE  LET m == ReadJournal(s)
               p == ProcessJournal(m)
           IN  /\ p.entries \in [Keys -> Entries \cup {NULL}]
               /\ p.order \in Seq(Keys) /\ Lists(p.order, p.entries)
               /\ \A k \in Cached(p.entries) :
                      /\ p.entries[k] = m.entries[k]
                      /\ p.entries[k].editor = NULL /\ p.entries[k].readable
               /\ Tells(s, p.entries)
               /\ Count(p.entries) \in Nat /\ Len(s) - Count(m.entries) \in Nat
<1> DEFINE m == ReadJournal(s)
           p == ProcessJournal(m)
<1>1. /\ m \in JournalStates /\ Lists(m.order, m.entries)
      /\ Count(m.entries) <= Len(s) /\ Sound(m.entries)
  BY JournalRead
<1>2. Tells(s, p.entries) <=> Mirrors(p.entries, m.entries)  BY DEF Tells
<1>3. p = [entries |-> [k \in Keys |-> IF k \in Kept(m) THEN m.entries[k] ELSE NULL],
           order   |-> Siftings(m.order, Kept(m))[Len(m.order)]]
  BY DEF ProcessJournal
<1> HIDE DEF m, p
<1>4. m.entries \in [Keys -> Journaled \cup {NULL}] /\ m.order \in Seq(Keys)
  BY <1>1 DEF JournalStates
<1>5. p.entries = [k \in Keys |-> IF k \in Kept(m) THEN m.entries[k] ELSE NULL]  BY <1>3
<1>6. \A k \in Kept(m) : /\ k \in Keys /\ m.entries[k] \in Entries /\ m.entries[k] # NULL
                         /\ m.entries[k].editor = NULL /\ m.entries[k].readable
  BY <1>1, <1>4 DEF Kept, Journaled, Entries, Sound
<1>7. p.entries \in [Keys -> Entries \cup {NULL}]  BY <1>5, <1>6
<1>8. Cached(p.entries) = Kept(m)  BY <1>5, <1>6 DEF Cached
<1>9. p.order \in Seq(Keys) /\ Lists(p.order, p.entries)
  <2>1. /\ p.order \in Seq(Keys) /\ Distinct(p.order)
        /\ Listed(p.order) = Listed(m.order) \cap Kept(m)
    BY <1>1, <1>3, <1>4, SiftingsList DEF Lists
  <2>2. Kept(m) \subseteq Cached(m.entries)  BY DEF Kept, Cached
  <2> QED BY <1>1, <1>8, <2>1, <2>2 DEF Lists
<1>10. Mirrors(p.entries, m.entries)
  <2> SUFFICES ASSUME NEW k \in Keys
               PROVE  /\ p.entries[k] = NULL => m.entries[k] = NULL \/ m.entries[k].editor = JOURNALED
                      /\ p.entries[k] # NULL /\ p.entries[k].editor = NULL =>
                             m.entries[k] = p.entries[k]
                      /\ p.entries[k] # NULL /\ p.entries[k].editor # NULL =>
                             m.entries[k] # NULL /\ m.entries[k].editor = JOURNALED
    BY DEF Mirrors
  <2>1. CASE k \in Kept(m)  BY <1>5, <1>6, <2>1
  <2>2. CASE k \notin Kept(m)
    <3>1. p.entries[k] = NULL  BY <1>5, <2>2
    <3>2. m.entries[k] = NULL \/ m.entries[k].editor # NULL  BY <2>2 DEF Kept
    <3>3. m.entries[k] \in Journaled \cup {NULL}  BY <1>4
    <3> QED BY <3>1, <3>2, <3>3 DEF Journaled
  <2> QED BY <2>1, <2>2
<1>11. \A e : Count(e) \in Nat
  <2> SUFFICES ASSUME NEW e PROVE Count(e) \in Nat  OBVIOUS
  <2> DEFINE C == {k \in Keys : e[k] # NULL}
  <2>1. IsFiniteSet(C)  BY KeysAssumption, FS_Subset
  <2>2. Count(e) = Cardinality(C)  BY DEF Count
  <2> HIDE DEF C
  <2> QED BY <2>1, <2>2, FS_CardinalityType
<1>12. Len(s) - Count(m.entries) \in Nat
  <2>1. Count(m.entries) \in Nat /\ Len(s) \in Nat  BY <1>11, LenProperties
  <2> QED BY <1>1, <2>1
<1>13. \A k \in Cached(p.entries) : /\ p.entries[k] = m.entries[k]
                                    /\ p.entries[k].editor = NULL /\ p.entries[k].readable
  BY <1>5, <1>6, <1>8
<1> QED BY <1>2, <1>7, <1>9, <1>10, <1>11, <1>12, <1>13 DEF m, p

\* An entry, its editor and its new file stay as they are.
LEMMA EntrySame ==
    ASSUME NEW k \in Keys, EntryInv(k), entries'[k] = entries[k],
           entries[k] # NULL /\ entries[k].editor # NULL =>
               /\ editors'[entries[k].editor] = editors[entries[k].editor]
               /\ dirty'[k] = dirty[k]
               /\ ~Publishes(entries[k].editor)
    PROVE  EntryInv(k)'
<1> SUFFICES ASSUME entries[k] # NULL
             PROVE  /\ entries[k].editor = NULL => entries[k].readable
                    /\ ~entries[k].readable => entries[k].length = 0
                    /\ entries[k].editor # NULL => Held(k, entries[k].editor)'
  BY DEF EntryInv
<1>1. entries[k].editor = NULL => entries[k].readable  BY DEF EntryInv
<1>2. ~entries[k].readable => entries[k].length = 0  BY DEF EntryInv
<1>3. ASSUME entries[k].editor # NULL PROVE Held(k, entries[k].editor)'
  <2>1. PICK e : e = entries[k].editor /\ e = entries'[k].editor  OBVIOUS
  <2>2. Held(k, e)  BY <1>3, <2>1 DEF EntryInv
  <2>3. editors'[e] = editors[e] /\ dirty'[k] = dirty[k] /\ ~Publishes(e)
    BY <1>3, <2>1
  <2>4. Held(k, e)'  BY <2>2, <2>3 DEF Held
  <2> QED BY <2>1, <2>4 DEF Held
<1> QED BY <1>1, <1>2, <1>3

\* Only the order, the journal's counter and the files that no editor wrote
\* change.
LEMMA MemorySame ==
    ASSUME MemoryInv, UNCHANGED <<entries, size, fileCount, editors>>,
           busy.op # "publish", busy'.op \in Ops \ {"publish"},
           isOpen' \in BOOLEAN, cleanup' \in BOOLEAN, cut' \in BOOLEAN,
           isOpen' \/ entries = None,
           order' \in Seq(Keys), Lists(order', entries), redundant' \in Nat,
           clean' \in [Keys -> Lengths \cup {NULL}],
           dirty' \in [Keys -> Lengths \cup {NULL}], dirty' = dirty \/ entries = None,
           calls' \in 0..MaxCalls
    PROVE  MemoryInv'
<1>1. MemoryTypes'  BY DEF MemoryInv, MemoryTypes
<1>2. \A k \in Keys : EntryInv(k)'
  <2> SUFFICES ASSUME NEW k \in Keys PROVE EntryInv(k)'  OBVIOUS
  <2>1. CASE entries = None  BY <2>1 DEF EntryInv, None
  <2>2. CASE dirty' = dirty
    <3>1. EntryInv(k)  BY DEF MemoryInv
    <3>2. \A e : ~Publishes(e)  BY DEF Publishes
    <3> QED BY <2>2, <3>1, <3>2, EntrySame
  <2> QED BY <2>1, <2>2
<1>3. PublishInv'  BY DEF PublishInv
<1>4. CountInv'  BY DEF MemoryInv, CountInv
<1> QED BY <1>1, <1>2, <1>3, <1>4 DEF MemoryInv

\* The cache ends: close(), delete() or a crash.
LEMMA MemoryGone ==
    ASSUME MemoryInv, Gone, busy'.op \in Ops \ {"publish"}, cut' \in BOOLEAN,
           editors' \in [Edits -> EditorStates \cup {NULL}],
           UNCHANGED <<clean, dirty, calls>>
    PROVE  MemoryInv'
<1>1. /\ isOpen' = FALSE /\ entries' = None /\ order' = <<>>
      /\ size' = 0 /\ fileCount' = 0 /\ redundant' = 0 /\ cleanup' = FALSE
  BY DEF Gone
<1>2. MemoryTypes'
  <2>1. isOpen' \in BOOLEAN /\ cleanup' \in BOOLEAN  BY <1>1
  <2>2. fileCount' \in Nat /\ redundant' \in Nat  BY <1>1
  <2> QED BY <1>1, <2>1, <2>2, NoneCounts DEF MemoryInv, MemoryTypes
<1>3. \A k \in Keys : EntryInv(k)'  BY <1>1 DEF EntryInv, None
<1>4. PublishInv'  BY DEF PublishInv
<1>5. CountInv'  BY <1>1, NoneCounts DEF CountInv
<1>6. Lists(order', entries')  BY <1>1, NoneCounts
<1> QED BY <1>1, <1>2, <1>3, <1>4, <1>5, <1>6 DEF MemoryInv

\* A key that has an entry is used.
LEMMA TouchedLists ==
    ASSUME MemoryInv, NEW k \in Keys
    PROVE  /\ Touched(order, k) \in Seq(Keys) /\ Distinct(Touched(order, k))
           /\ Listed(Touched(order, k)) = Cached(entries) \cup {k}
           /\ Without(order, k) \in Seq(Keys) /\ Distinct(Without(order, k))
           /\ Listed(Without(order, k)) = Cached(entries) \ {k}
<1> DEFINE w == Without(order, k)
<1>1. order \in Seq(Keys) /\ Distinct(order) /\ Listed(order) = Cached(entries)
  BY DEF MemoryInv, MemoryTypes, Lists
<1>2. w \in Seq(Keys) /\ Listed(w) = Listed(order) \ {k} /\ Distinct(w)
  BY <1>1, WithoutDrops
<1> HIDE DEF w
<1>3. /\ Append(w, k) \in Seq(Keys) /\ Listed(Append(w, k)) = Listed(w) \cup {k}
      /\ Distinct(Append(w, k))
  BY <1>2, AppendLists
<1> QED BY <1>1, <1>2, <1>3 DEF w, Touched

(***************************************************************************)
(* The steps, first those that only take the monitor or give it back.      *)
(***************************************************************************)
LEMMA QuietStep ==
    ASSUME Inv, isOpen, busy.op \notin {"publish", "backup", "swap"},
           busy'.op \in {"idle", "trim", "abort", "rebuild"}, cleanup' \in BOOLEAN,
           UNCHANGED <<isOpen, lruVars, countVars, buffer, editors, fileVars,
                       journalVars, calls, cut>>
    PROVE  Inv'
<1>1. UNCHANGED <<isOpen, entries, order, size, fileCount, redundant, buffer, editors,
                  clean, dirty, calls, cut>>
  BY DEF lruVars, countVars, fileVars
<1>2. MemoryTypes /\ Lists(order, entries)  BY DEF Inv, MemoryInv
<1>3. MemoryInv'
  <2>1. busy'.op \in Ops \ {"publish"}  BY DEF Ops
  <2> QED BY <1>1, <1>2, <2>1, MemorySame DEF Inv, MemoryTypes
<1>4. JournalInv'  BY <1>1, JournalSame DEF Inv
<1> QED BY <1>3, <1>4 DEF Inv

LEMMA ReadyOps ==
    ASSUME Idle
    PROVE  busy.op = "idle"
BY DEF Idle, IDLE

LEMMA BusyOps ==
    ASSUME Inv, busy.op \notin {"idle", "deleting"}
    PROVE  isOpen /\ isOpen = TRUE
<1>1. isOpen  BY DEF Inv, JournalInv
<1>2. isOpen \in BOOLEAN  BY DEF Inv, MemoryInv, MemoryTypes
<1> QED BY <1>1, <1>2

\* The steps that only take the monitor, pass it on or give it back.
MonitorStep == Cleanup \/ Flush \/ Close \/ Delete \/ TrimThrows \/ EndCleanup

LEMMA MonitorOnly ==
    ASSUME Inv, MonitorStep
    PROVE  /\ isOpen /\ busy.op \in {"idle", "trim"}
           /\ busy'.op \in {"idle", "trim", "abort", "rebuild"}
           /\ cleanup' = FALSE \/ cleanup' = cleanup
           /\ UNCHANGED <<isOpen, lruVars, countVars, buffer, editors, fileVars,
                          journalVars, calls, cut>>
<1>1. CASE Cleanup  BY <1>1, ReadyOps DEF Cleanup, Ready, Busy, IDLE
<1>2. CASE Flush  BY <1>2, ReadyOps DEF Flush, Ready, Busy, IDLE
<1>3. CASE Close  BY <1>3, ReadyOps DEF Close, Ready, Busy, IDLE
<1>4. CASE Delete  BY <1>4, ReadyOps DEF Delete, Ready, Busy, IDLE
<1>5. CASE TrimThrows  BY <1>5, BusyOps DEF TrimThrows, IDLE
<1>6. CASE EndCleanup
  <2>1. busy.op = "trim"  BY <1>6 DEF EndCleanup, Trimmed
  <2>2. isOpen  BY <2>1, BusyOps
  <2>3. busy'.op \in {"idle", "rebuild"}
    <3>1. busy' = IDLE \/ busy' = [IDLE EXCEPT !.op = "rebuild", !.arg = NULL]
      BY <1>6 DEF EndCleanup, Busy
    <3>2. CASE busy' = IDLE
      <4>1. busy'.op = "idle"  BY <3>2 DEF IDLE
      <4> QED BY <4>1
    <3>3. CASE busy' = [IDLE EXCEPT !.op = "rebuild", !.arg = NULL]
      <4>1. busy'.op = "rebuild"  BY <3>3 DEF IDLE
      <4> QED BY <4>1
    <3> QED BY <3>1, <3>2, <3>3
  <2> QED BY <1>6, <2>1, <2>2, <2>3 DEF EndCleanup
<1> QED BY <1>1, <1>2, <1>3, <1>4, <1>5, <1>6 DEF MonitorStep

LEMMA MonitorSteps ==
    ASSUME Inv, MonitorStep
    PROVE  Inv'
<1>1. cleanup' \in BOOLEAN  BY MonitorOnly DEF Inv, MemoryInv, MemoryTypes
<1> QED BY <1>1, MonitorOnly, QuietStep

(***************************************************************************)
(* open().                                                                 *)
(***************************************************************************)
LEMMA FoundFile ==
    ASSUME Inv
    PROVE  File(Found) /\ OnDisk \in Seq(Lines) /\ (~Corrupt(OnDisk) => SoundJournal(OnDisk))
<1>1. File(Found)  BY DEF Inv, JournalInv, Found
<1>2. CASE Found = NULL
  <2>1. OnDisk = <<>>  BY <1>2 DEF OnDisk
  <2>2. SoundJournal(<<>>)  BY EmptyTells DEF Tells
  <2> QED BY <1>1, <2>1, <2>2, EmptyTells
<1>3. CASE Found # NULL
  <2>1. OnDisk = Found  BY <1>3 DEF OnDisk
  <2> QED BY <1>1, <1>3, <2>1 DEF File
<1> QED BY <1>2, <1>3

LEMMA OpenJournalKeeps ==
    ASSUME Inv, OpenJournal
    PROVE  Inv'
<1> DEFINE m == ReadJournal(OnDisk)
           p == ProcessJournal(m)
           doomed == {k \in Keys : m.entries[k] # NULL /\ k \notin Kept(m)}
<1>1. /\ ~isOpen /\ Idle /\ ~Corrupt(OnDisk)
      /\ isOpen' = TRUE
      /\ entries' = p.entries /\ order' = p.order
      /\ size' = Total(p.entries) /\ fileCount' = Count(p.entries)
      /\ redundant' = Len(OnDisk) - Count(m.entries)
      /\ clean' = [k \in Keys |-> IF k \in doomed THEN NULL ELSE clean[k]]
      /\ dirty' = [k \in Keys |-> IF k \in doomed THEN NULL ELSE dirty[k]]
      /\ journal' = OnDisk /\ journalTmp' = NULL /\ journalBackup' = NULL
      /\ UNCHANGED <<torn, buffer, cleanup, busy, editors, calls, cut>>
  BY DEF OpenJournal
<1>2. OnDisk \in Seq(Lines) /\ SoundJournal(OnDisk)  BY <1>1, FoundFile
<1>3. /\ p.entries \in [Keys -> Entries \cup {NULL}]
      /\ p.order \in Seq(Keys) /\ Lists(p.order, p.entries)
      /\ \A k \in Cached(p.entries) : p.entries[k].editor = NULL /\ p.entries[k].readable
      /\ Tells(OnDisk, p.entries)
      /\ Count(p.entries) \in Nat /\ Len(OnDisk) - Count(m.entries) \in Nat
  BY <1>1, <1>2, ProcessKeeps
<1>4. MemoryTypes  BY DEF Inv, MemoryInv
<1> HIDE DEF m, p, doomed
<1>5. busy.op = "idle" /\ busy'.op = "idle"  BY <1>1, ReadyOps
<1>6. MemoryTypes'
  <2>1. clean' \in [Keys -> Lengths \cup {NULL}] /\ dirty' \in [Keys -> Lengths \cup {NULL}]
    BY <1>1, <1>4 DEF MemoryTypes
  <2>2. isOpen' \in BOOLEAN  BY <1>1
  <2> QED BY <1>1, <1>3, <1>4, <2>1, <2>2 DEF MemoryTypes
<1>7. \A k \in Keys : EntryInv(k)'
  <2> SUFFICES ASSUME NEW k \in Keys, p.entries[k] # NULL
               PROVE  EntryInv(k)'
    BY <1>1 DEF EntryInv
  <2>1. p.entries[k].editor = NULL /\ p.entries[k].readable  BY <1>3 DEF Cached
  <2> QED BY <1>1, <2>1 DEF EntryInv
<1>8. PublishInv'  BY <1>5 DEF PublishInv
<1>9. CountInv'
  <2> DEFINE A == Readables(p.entries)
             B == Cached(p.entries)
  <2>1. A \subseteq B  BY DEF Readables, Has, Cached
  <2>2. IsFiniteSet(B)  BY KeysAssumption, FS_Subset DEF Cached
  <2>3. Cardinality(A) <= Cardinality(B)
    <3> HIDE DEF A, B
    <3> QED BY <2>1, <2>2, FS_Subset
  <2>4. Count(p.entries) = Cardinality(B)  BY DEF Count, Cached
  <2>5. Cardinality(A) \in Nat /\ Cardinality(B) \in Nat
    <3> HIDE DEF A, B
    <3> QED BY <2>1, <2>2, FS_Subset, FS_CardinalityType
  <2>6. fileCount' >= Cardinality(Readables(entries'))
    <3>1. fileCount' = Cardinality(B) /\ Readables(entries') = A  BY <1>1, <2>4
    <3> HIDE DEF A, B
    <3> QED BY <2>3, <2>5, <3>1
  <2> QED BY <1>1, <2>6 DEF CountInv
<1>10. MemoryInv'  BY <1>1, <1>3, <1>6, <1>7, <1>8, <1>9 DEF MemoryInv
<1>11. JournalInv'
  <2>1. buffer = <<>>  BY <1>1 DEF Inv, JournalInv
  <2>2. journal' # NULL /\ journal' \in Seq(Lines)  BY <1>1, <1>2, NullAssumption
  <2>3. Log' = journal'
    <3>1. OnDisk' = journal' /\ buffer' = <<>>  BY <1>1, <2>1, <2>2 DEF OnDisk, Found
    <3> QED BY <2>2, <3>1, ConcatEmptySeq DEF Log
  <2>4. Tells(Log', entries')  BY <1>1, <1>3, <2>3
  <2>5. File(journal') /\ File(journalTmp') /\ File(journalBackup')
    BY <1>1, <1>2, <2>2 DEF File
  <2> QED BY <1>1, <1>5, <2>2, <2>4, <2>5 DEF Inv, JournalInv
<1> QED BY <1>10, <1>11 DEF Inv

LEMMA OpenNewKeeps ==
    ASSUME Inv, OpenNew
    PROVE  Inv'
<1>1. /\ ~isOpen /\ Idle /\ Found = NULL /\ isOpen' = TRUE
      /\ journal' = <<>> /\ journalTmp' = NULL /\ torn' = "none"
      /\ UNCHANGED <<entries, order, size, fileCount, redundant, journalBackup, buffer,
                     cleanup, busy, editors, clean, dirty, calls, cut>>
  BY DEF OpenNew, lruVars, countVars, fileVars
<1>2. busy.op = "idle" /\ busy'.op = "idle"  BY <1>1, ReadyOps
<1>3. MemoryTypes /\ Lists(order, entries) /\ entries = None
  BY <1>1 DEF Inv, MemoryInv
<1>4. MemoryInv'
  <2>1. isOpen' \in BOOLEAN /\ busy'.op \in Ops \ {"publish"}  BY <1>1, <1>2 DEF Ops
  <2> QED BY <1>1, <1>2, <1>3, <2>1, MemorySame DEF Inv, MemoryTypes
<1>5. JournalInv'
  <2>1. buffer = <<>>  BY <1>1 DEF Inv, JournalInv
  <2>2. journal' # NULL /\ journal' \in Seq(Lines)
    <3>1. journal' \in Seq(Lines)  BY <1>1, EmptyTells
    <3> QED BY <3>1, NullAssumption
  <2>3. Log' = <<>>
    <3>1. OnDisk' = <<>> /\ buffer' = <<>>  BY <1>1, <2>1, <2>2 DEF OnDisk, Found
    <3> QED BY <3>1, EmptyTells, ConcatEmptySeq DEF Log
  <2>4. Tells(Log', entries')  BY <1>1, <1>3, <2>3, EmptyTells
  <2>5. Tells(<<>>, None)  BY EmptyTells
  <2>6. File(journal') /\ File(journalTmp') /\ File(journalBackup')
    <3>1. File(<<>>)  BY <2>5, EmptyTells, TellsFile
    <3>2. File(NULL)  BY DEF File
    <3> QED BY <1>1, <3>1, <3>2 DEF Inv, JournalInv
  <2> QED BY <1>1, <1>2, <2>2, <2>4, <2>6 DEF Inv, JournalInv
<1> QED BY <1>4, <1>5 DEF Inv

LEMMA OpenCorruptKeeps ==
    ASSUME Inv, OpenCorrupt
    PROVE  Inv'
<1>1. /\ ~isOpen /\ Idle /\ busy'.op = "deleting"
      /\ journal' = OnDisk /\ journalBackup' = NULL
      /\ UNCHANGED <<isOpen, entries, order, size, fileCount, redundant, buffer, cleanup,
                     editors, clean, dirty, journalTmp, torn, calls, cut>>
  BY DEF OpenCorrupt, lruVars, countVars, fileVars, Busy, IDLE
<1>2. busy.op = "idle"  BY <1>1, ReadyOps
<1>3. MemoryTypes /\ Lists(order, entries) /\ entries = None
  BY <1>1 DEF Inv, MemoryInv
<1>4. MemoryInv'
  <2>1. busy'.op \in Ops \ {"publish"}  BY <1>1 DEF Ops
  <2> QED BY <1>1, <1>2, <1>3, <2>1, MemorySame DEF Inv, MemoryTypes
<1>5. JournalInv'
  <2>1. File(journal') /\ File(journalBackup')  BY <1>1, FoundFile DEF File
  <2> QED BY <1>1, <2>1 DEF Inv, JournalInv
<1> QED BY <1>4, <1>5 DEF Inv

(***************************************************************************)
(* The end of an instance, and the deletion of the directory.              *)
(***************************************************************************)
LEMMA ClosedJournal ==
    ASSUME JournalInv, ~isOpen', buffer' = <<>>, busy'.op \in {"idle", "deleting"},
           File(journal'), UNCHANGED journalBackup, UNCHANGED journalTmp \/ journalTmp' = NULL,
           torn' \in {"none", "head", "dead"}
    PROVE  JournalInv'
<1>1. buffer' \in Seq(Lines) /\ ~Corrupt(buffer')  BY EmptyTells
<1>2. File(journalTmp') /\ File(journalBackup')  BY DEF JournalInv, File
<1> QED BY <1>1, <1>2 DEF JournalInv

LEMMA CrashKeeps ==
    ASSUME Inv, Crash
    PROVE  Inv'
<1>1. /\ Gone /\ buffer' = <<>> /\ busy' = IDLE /\ editors' = [e \in Edits |-> NULL]
      /\ torn' = (IF torn = "head" THEN "dead" ELSE torn)
      /\ cut' = (cut \/ busy.op = "deleting")
      /\ UNCHANGED <<clean, dirty, journal, journalTmp, journalBackup, calls>>
  BY DEF Crash, fileVars
<1>2. busy'.op = "idle"  BY <1>1 DEF IDLE
<1>3. MemoryInv'
  <2>1. busy'.op \in Ops \ {"publish"}  BY <1>2 DEF Ops
  <2>2. cut' \in BOOLEAN  BY <1>1
  <2>3. editors' \in [Edits -> EditorStates \cup {NULL}]  BY <1>1
  <2> QED BY <1>1, <2>1, <2>2, <2>3, MemoryGone DEF Inv
<1>4. JournalInv'
  <2>1. File(journal') /\ torn' \in {"none", "head", "dead"}  BY <1>1 DEF Inv, JournalInv
  <2>2. ~isOpen'  BY <1>1 DEF Gone
  <2> QED BY <1>1, <1>2, <2>1, <2>2, ClosedJournal DEF Inv
<1> QED BY <1>3, <1>4 DEF Inv

LEMMA SpillKeeps ==
    ASSUME Inv, Spill
    PROVE  Inv'
<1>1. /\ isOpen /\ Idle
      /\ UNCHANGED <<isOpen, entries, order, size, fileCount, redundant, cleanup, busy,
                     editors, clean, dirty, calls, cut>>
  BY DEF Spill, Ready, lruVars, countVars, fileVars
<1>2. busy.op = "idle"  BY <1>1, ReadyOps
<1>3. MemoryTypes /\ Lists(order, entries)  BY DEF Inv, MemoryInv
<1>4. MemoryInv'
  <2>1. busy'.op \in Ops \ {"publish"}  BY <1>1, <1>2 DEF Ops
  <2> QED BY <1>1, <1>2, <1>3, <2>1, MemorySame DEF Inv, MemoryTypes
<1> QED BY <1>4, SpillJournal DEF Inv

LEMMA EndFlushKeeps ==
    ASSUME Inv, EndFlush
    PROVE  Inv'
<1>1. /\ busy.op = "trim" /\ Flushed(buffer) /\ busy' = IDLE
      /\ UNCHANGED <<isOpen, entries, order, size, fileCount, redundant, cleanup,
                     editors, clean, dirty, calls, cut>>
  BY DEF EndFlush, Trimmed, lruVars, countVars, fileVars
<1>2. isOpen  BY <1>1, BusyOps
<1>3. busy'.op = "idle"  BY <1>1 DEF IDLE
<1>4. MemoryTypes /\ Lists(order, entries)  BY DEF Inv, MemoryInv
<1>5. MemoryInv'
  <2>1. busy'.op \in Ops \ {"publish"}  BY <1>3 DEF Ops
  <2> QED BY <1>1, <1>2, <1>4, <2>1, MemorySame DEF Inv, MemoryTypes
<1>6. /\ journal' = Written(buffer) /\ torn' = IF buffer = <<>> THEN torn ELSE "none"
      /\ buffer' = <<>> /\ UNCHANGED <<journalTmp, journalBackup>>
  BY <1>1 DEF Flushed
<1>7. /\ journal' # NULL /\ journal' \in Seq(Lines) /\ File(journal')
      /\ torn' \in {"none", "head", "dead"}
      /\ torn' # "dead" => Tells(journal', entries)
  BY <1>1, <1>2, <1>6, FlushStep DEF Inv
<1>8. Log' = journal'
  <2>1. OnDisk' = journal'  BY <1>7 DEF OnDisk, Found
  <2> QED BY <1>6, <1>7, <2>1, ConcatEmptySeq DEF Log
<1>9. JournalInv'
  <2>1. torn' # "dead" => Tells(Log', entries')  BY <1>1, <1>7, <1>8
  <2>2. buffer' \in Seq(Lines) /\ ~Corrupt(buffer')  BY <1>6, EmptyTells
  <2>3. File(journalTmp') /\ File(journalBackup')  BY <1>6 DEF Inv, JournalInv
  <2> QED BY <1>1, <1>2, <1>3, <1>7, <2>1, <2>2, <2>3 DEF JournalInv
<1> QED BY <1>5, <1>9 DEF Inv

LEMMA EndCloseKeeps ==
    ASSUME Inv, EndClose
    PROVE  Inv'
<1>1. /\ busy.op = "trim" /\ Flushed(buffer) /\ Gone
      /\ busy' = IDLE \/ busy' = [IDLE EXCEPT !.op = "deleting", !.arg = NULL]
      /\ editors' = [e \in Edits |-> IF editors[e] = NULL THEN NULL
                         ELSE [editors[e] EXCEPT !.dropping = FALSE]]
      /\ UNCHANGED <<clean, dirty, calls, cut>>
  BY DEF EndClose, Trimmed, fileVars, Busy
<1>2. isOpen  BY <1>1, BusyOps
<1>3. busy'.op \in {"idle", "deleting"}
  <2>1. CASE busy' = IDLE
    <3>1. busy'.op = "idle"  BY <2>1 DEF IDLE
    <3> QED BY <3>1
  <2>2. CASE busy' = [IDLE EXCEPT !.op = "deleting", !.arg = NULL]
    <3>1. busy'.op = "deleting"  BY <2>2 DEF IDLE
    <3> QED BY <3>1
  <2> QED BY <1>1, <2>1, <2>2
<1>4. MemoryTypes  BY DEF Inv, MemoryInv
<1>5. MemoryInv'
  <2>1. busy'.op \in Ops \ {"publish"}  BY <1>3 DEF Ops
  <2>2. editors' \in [Edits -> EditorStates \cup {NULL}]
    <3> SUFFICES ASSUME NEW e \in Edits PROVE editors'[e] \in EditorStates \cup {NULL}
      BY <1>1
    <3>1. CASE editors[e] = NULL  BY <1>1, <3>1
    <3>2. CASE editors[e] # NULL
      <4>1. editors[e] \in EditorStates  BY <1>4, <3>2 DEF MemoryTypes
      <4>2. [editors[e] EXCEPT !.dropping = FALSE] \in EditorStates  BY <4>1 DEF EditorStates
      <4>3. editors'[e] = [editors[e] EXCEPT !.dropping = FALSE]  BY <1>1, <3>2
      <4> QED BY <4>2, <4>3, Zenon
    <3> QED BY <3>1, <3>2
  <2>3. cut' \in BOOLEAN  BY <1>1, <1>4 DEF MemoryTypes
  <2> QED BY <1>1, <2>1, <2>2, <2>3, MemoryGone DEF Inv
<1>6. /\ journal' = Written(buffer) /\ torn' = IF buffer = <<>> THEN torn ELSE "none"
      /\ buffer' = <<>> /\ UNCHANGED <<journalTmp, journalBackup>>
  BY <1>1 DEF Flushed
<1>7. File(journal') /\ torn' \in {"none", "head", "dead"}
  BY <1>1, <1>2, <1>6, FlushStep DEF Inv
<1>8. JournalInv'
  <2>1. ~isOpen'  BY <1>1 DEF Gone
  <2> QED BY <1>3, <1>6, <1>7, <2>1, ClosedJournal DEF Inv
<1> QED BY <1>5, <1>8 DEF Inv

LEMMA DeleteFileKeeps ==
    ASSUME Inv, DeleteFile
    PROVE  Inv'
<1>1. /\ busy.op = "deleting"
      /\ UNCHANGED <<isOpen, entries, order, size, fileCount, redundant, buffer, cleanup,
                     busy, editors, journalBackup, calls, cut>>
  BY DEF DeleteFile, lruVars, countVars
<1>2. ~isOpen /\ buffer = <<>>  BY <1>1 DEF Inv, JournalInv
<1>3. MemoryTypes /\ Lists(order, entries) /\ entries = None
  BY <1>2 DEF Inv, MemoryInv
<1>4. /\ clean' \in [Keys -> Lengths \cup {NULL}] /\ dirty' \in [Keys -> Lengths \cup {NULL}]
      /\ journal' \in {journal, NULL} /\ journalTmp' \in {journalTmp, NULL}
      /\ torn' \in {torn, "none"}
  BY <1>3 DEF DeleteFile, MemoryTypes, fileVars
<1>5. MemoryInv'
  <2>1. busy'.op \in Ops \ {"publish"}  BY <1>1 DEF Ops
  <2> QED BY <1>1, <1>3, <1>4, <2>1, MemorySame DEF Inv, MemoryTypes
<1>6. JournalInv'
  <2>1. File(journal')  BY <1>4 DEF Inv, JournalInv, File
  <2>2. torn' \in {"none", "head", "dead"}  BY <1>4 DEF Inv, JournalInv
  <2>3. journalTmp' = journalTmp \/ journalTmp' = NULL  BY <1>4
  <2> QED BY <1>1, <1>2, <2>1, <2>2, <2>3, ClosedJournal DEF Inv
<1> QED BY <1>5, <1>6 DEF Inv

LEMMA EndDeleteKeeps ==
    ASSUME Inv, EndDelete
    PROVE  Inv'
<1>1. /\ busy.op = "deleting" /\ journal = NULL /\ busy' = IDLE
      /\ isOpen' = (busy.arg = "open")
      /\ journal' = IF busy.arg = "open" THEN <<>> ELSE NULL
      /\ UNCHANGED <<entries, order, size, fileCount, redundant, buffer, cleanup, editors,
                     clean, dirty, journalTmp, journalBackup, torn, calls, cut>>
  BY DEF EndDelete, lruVars, countVars, fileVars
<1>2. ~isOpen /\ buffer = <<>>  BY <1>1 DEF Inv, JournalInv
<1>3. MemoryTypes /\ Lists(order, entries) /\ entries = None
  BY <1>2 DEF Inv, MemoryInv
<1>4. busy'.op = "idle"  BY <1>1 DEF IDLE
<1>5. MemoryInv'
  <2>1. isOpen' \in BOOLEAN /\ busy'.op \in Ops \ {"publish"}  BY <1>1, <1>4 DEF Ops
  <2> QED BY <1>1, <1>3, <2>1, MemorySame DEF Inv, MemoryTypes
<1>6. JournalInv'
  <2>1. CASE busy.arg = "open"
    <3>1. journal' = <<>> /\ journal' \in Seq(Lines) /\ journal' # NULL
      BY <1>1, <2>1, EmptyTells, NullAssumption
    <3>2. Log' = <<>>
      <4>1. OnDisk' = <<>> /\ buffer' = <<>>  BY <1>1, <1>2, <3>1 DEF OnDisk, Found
      <4> QED BY <4>1, EmptyTells, ConcatEmptySeq DEF Log
    <3>3. Tells(Log', entries') /\ Tells(<<>>, None)  BY <1>1, <1>3, <3>2, EmptyTells
    <3>4. File(journal')  BY <3>1, <3>3, TellsFile
    <3>5. File(journalTmp') /\ File(journalBackup')  BY <1>1 DEF Inv, JournalInv
    <3>6. isOpen'  BY <1>1, <2>1
    <3> QED BY <1>1, <1>4, <3>1, <3>3, <3>4, <3>5, <3>6 DEF Inv, JournalInv
  <2>2. CASE busy.arg # "open"
    <3>1. ~isOpen' /\ File(journal')  BY <1>1, <2>2 DEF File
    <3>2. torn' \in {"none", "head", "dead"}  BY <1>1 DEF Inv, JournalInv
    <3> QED BY <1>1, <1>2, <1>4, <3>1, <3>2, ClosedJournal DEF Inv
  <2> QED BY <2>1, <2>2
<1> QED BY <1>5, <1>6 DEF Inv

(***************************************************************************)
(* rebuildJournal.                                                         *)
(***************************************************************************)
LEMMA RebuildMemory ==
    ASSUME Inv, NEW from \in {"rebuild", "backup", "swap", "unback"},
           NEW to \in {"backup", "swap", "unback", "idle"},
           busy.op = from, busy'.op = to, redundant' \in Nat,
           UNCHANGED <<isOpen, lruVars, size, fileCount, cleanup, editors, fileVars,
                       calls, cut>>
    PROVE  MemoryInv' /\ isOpen /\ isOpen' /\ entries' = entries
<1>1. UNCHANGED <<isOpen, entries, order, size, fileCount, cleanup, editors, clean, dirty,
                  calls, cut>>
  BY DEF lruVars, fileVars
<1>2. isOpen  BY BusyOps
<1>3. MemoryTypes /\ Lists(order, entries)  BY DEF Inv, MemoryInv
<1>4. busy.op # "publish" /\ busy'.op \in Ops \ {"publish"}  BY DEF Ops
<1> QED BY <1>1, <1>2, <1>3, <1>4, MemorySame DEF Inv, MemoryTypes

LEMMA RebuildWriteKeeps ==
    ASSUME Inv, RebuildWrite
    PROVE  Inv'
<1>1. /\ busy.op = "rebuild" /\ busy'.op = "backup"
      /\ journalTmp' = SnapshotLines
      /\ journal' = Written(buffer) /\ buffer' = <<>>
      /\ torn' = (IF buffer = <<>> THEN torn ELSE "none")
      /\ UNCHANGED <<isOpen, lruVars, size, fileCount, cleanup, editors, fileVars,
                     calls, cut, journalBackup, redundant>>
  BY DEF RebuildWrite, RebuildStep, Busy, IDLE
<1>2. redundant' \in Nat  BY <1>1 DEF Inv, MemoryInv, MemoryTypes
<1>3. MemoryInv' /\ isOpen /\ isOpen' /\ entries' = entries  BY <1>1, <1>2, RebuildMemory
<1>4. /\ journal' # NULL /\ journal' \in Seq(Lines) /\ File(journal')
      /\ torn' \in {"none", "head", "dead"}
      /\ torn' # "dead" => Tells(journal', entries)
  BY <1>1, <1>3, FlushStep DEF Inv
<1>5. SnapshotLines \in Seq(Lines) /\ ~Corrupt(SnapshotLines) /\ Tells(SnapshotLines, entries)
  <2>1. \A k \in Cached(entries) : entries[k].editor = NULL => entries[k].readable
    BY DEF Inv, MemoryInv, EntryInv, Cached
  <2> QED BY <2>1, SnapshotTells DEF Inv, MemoryInv, MemoryTypes
<1>6. journalTmp' # NULL /\ File(journalTmp')  BY <1>1, <1>5, NullAssumption, TellsFile
<1>7. Log' = journal'
  <2>1. OnDisk' = journal'  BY <1>4 DEF OnDisk, Found
  <2> QED BY <1>1, <1>4, <2>1, ConcatEmptySeq DEF Log
<1>8. JournalInv'
  <2>1. torn' # "dead" => Tells(Log', entries')  BY <1>3, <1>4, <1>7
  <2>2. buffer' \in Seq(Lines) /\ ~Corrupt(buffer')  BY <1>1, EmptyTells
  <2>3. File(journalBackup')  BY <1>1 DEF Inv, JournalInv
  <2>4. ~Corrupt(journalTmp') /\ Tells(journalTmp', entries')  BY <1>1, <1>3, <1>5
  <2> QED BY <1>1, <1>3, <1>4, <1>6, <2>1, <2>2, <2>3, <2>4 DEF JournalInv
<1> QED BY <1>3, <1>8 DEF Inv

LEMMA RebuildBackupKeeps ==
    ASSUME Inv, RebuildBackup
    PROVE  Inv'
<1>1. /\ busy.op = "backup" /\ busy'.op = "swap"
      /\ journalBackup' = journal /\ journal' = NULL
      /\ UNCHANGED <<isOpen, lruVars, size, fileCount, cleanup, editors, fileVars,
                     calls, cut, journalTmp, torn, buffer, redundant>>
  BY DEF RebuildBackup, RebuildStep, Busy, IDLE
<1>2. redundant' \in Nat  BY <1>1 DEF Inv, MemoryInv, MemoryTypes
<1>3. MemoryInv' /\ isOpen /\ isOpen' /\ entries' = entries  BY <1>1, <1>2, RebuildMemory
<1>4. journal \in Seq(Lines) /\ journal # NULL /\ Log = journal \o buffer
  BY <1>1, <1>3, OpenLog DEF Inv
<1>5. buffer = <<>> /\ journalTmp # NULL /\ ~Corrupt(journalTmp) /\ Tells(journalTmp, entries)
  BY <1>1 DEF Inv, JournalInv
<1>6. Log' = Log
  <2>1. OnDisk' = journal  BY <1>1, <1>4 DEF OnDisk, Found
  <2> QED BY <1>1, <1>4, <2>1 DEF Log
<1>7. JournalInv'
  <2>1. torn' # "dead" => Tells(Log', entries')  BY <1>1, <1>3, <1>6 DEF Inv, JournalInv
  <2>2. File(journal') /\ File(journalTmp') /\ File(journalBackup')
    BY <1>1 DEF Inv, JournalInv, File
  <2>3. buffer' \in Seq(Lines) /\ ~Corrupt(buffer') /\ torn' \in {"none", "head", "dead"}
    BY <1>1 DEF Inv, JournalInv
  <2>4. journalTmp' # NULL /\ ~Corrupt(journalTmp') /\ Tells(journalTmp', entries')
        /\ buffer' = <<>>
    BY <1>1, <1>3, <1>5
  <2> QED BY <1>1, <1>3, <1>4, <2>1, <2>2, <2>3, <2>4 DEF JournalInv
<1> QED BY <1>3, <1>7 DEF Inv

LEMMA RebuildSwapKeeps ==
    ASSUME Inv, RebuildSwap
    PROVE  Inv'
<1>1. /\ busy.op = "swap" /\ busy'.op = "unback"
      /\ journal' = journalTmp /\ journalTmp' = NULL /\ torn' = "none"
      /\ UNCHANGED <<isOpen, lruVars, size, fileCount, cleanup, editors, fileVars,
                     calls, cut, journalBackup, buffer, redundant>>
  BY DEF RebuildSwap, RebuildStep, Busy, IDLE
<1>2. redundant' \in Nat  BY <1>1 DEF Inv, MemoryInv, MemoryTypes
<1>3. MemoryInv' /\ isOpen /\ isOpen' /\ entries' = entries  BY <1>1, <1>2, RebuildMemory
<1>4. /\ buffer = <<>> /\ journalTmp # NULL /\ journalTmp \in Seq(Lines)
      /\ Tells(journalTmp, entries)
  BY <1>1 DEF Inv, JournalInv, File
<1>5. Log' = journalTmp
  <2>1. OnDisk' = journalTmp  BY <1>1, <1>4 DEF OnDisk, Found
  <2> QED BY <1>1, <1>4, <2>1, ConcatEmptySeq DEF Log
<1>6. JournalInv'
  <2>1. Tells(Log', entries')  BY <1>3, <1>4, <1>5
  <2>2. File(journal') /\ File(journalTmp') /\ File(journalBackup')
    BY <1>1 DEF Inv, JournalInv, File
  <2>3. buffer' \in Seq(Lines) /\ ~Corrupt(buffer')  BY <1>1 DEF Inv, JournalInv
  <2> QED BY <1>1, <1>3, <1>4, <2>1, <2>2, <2>3 DEF JournalInv
<1> QED BY <1>3, <1>6 DEF Inv

LEMMA RebuildEndKeeps ==
    ASSUME Inv, RebuildEnd
    PROVE  Inv'
<1>1. /\ busy.op = "unback" /\ busy' = IDLE
      /\ journalBackup' = NULL /\ redundant' = 0
      /\ UNCHANGED <<isOpen, lruVars, size, fileCount, buffer, cleanup, editors,
                     fileVars, journal, journalTmp, torn, calls, cut>>
  BY DEF RebuildEnd
<1>2. busy'.op = "idle"  BY <1>1 DEF IDLE
<1>3. MemoryInv' /\ isOpen /\ isOpen' /\ entries' = entries
  <2>1. redundant' \in Nat  BY <1>1
  <2> QED BY <1>1, <1>2, <2>1, RebuildMemory
<1>4. journal \in Seq(Lines) /\ journal # NULL /\ Log = journal \o buffer
  BY <1>1, <1>3, OpenLog DEF Inv
<1>5. Log' = Log
  <2>1. OnDisk' = journal  BY <1>1, <1>4 DEF OnDisk, Found
  <2> QED BY <1>1, <1>4, <2>1 DEF Log
<1>6. JournalInv'
  <2>1. torn' # "dead" => Tells(Log', entries')  BY <1>1, <1>3, <1>5 DEF Inv, JournalInv
  <2>2. File(journal') /\ File(journalTmp') /\ File(journalBackup')
    BY <1>1 DEF Inv, JournalInv, File
  <2>3. buffer' \in Seq(Lines) /\ ~Corrupt(buffer') /\ torn' \in {"none", "head", "dead"}
    BY <1>1 DEF Inv, JournalInv
  <2> QED BY <1>1, <1>2, <1>3, <1>4, <2>1, <2>2, <2>3 DEF JournalInv
<1> QED BY <1>3, <1>6 DEF Inv

(***************************************************************************)
(* Reading, editing and removing.                                          *)
(***************************************************************************)
LEMMA LineKinds ==
    ASSUME NEW k \in Keys, NEW n \in Lengths \cup {0}
    PROVE  /\ CleanLine(k, n) \in Lines /\ CleanLine(k, n) # Garbled
           /\ CleanLine(k, n).op = "CLEAN" /\ CleanLine(k, n).key = k /\ CleanLine(k, n).len = n
           /\ DirtyLine(k) \in Lines /\ DirtyLine(k) # Garbled
           /\ DirtyLine(k).op = "DIRTY" /\ DirtyLine(k).key = k
           /\ ReadLine(k) \in Lines /\ ReadLine(k) # Garbled
           /\ ReadLine(k).op = "READ" /\ ReadLine(k).key = k
           /\ RemoveLine(k) \in Lines /\ RemoveLine(k) # Garbled
           /\ RemoveLine(k).op = "REMOVE" /\ RemoveLine(k).key = k
<1>1. k # NULL  BY NullAssumption
<1>2. CleanLine(k, n) = [op |-> "CLEAN", key |-> k, len |-> n]  BY DEF CleanLine, Line
<1>3. DirtyLine(k) = [op |-> "DIRTY", key |-> k, len |-> 0]  BY DEF DirtyLine, Line
<1>4. ReadLine(k) = [op |-> "READ", key |-> k, len |-> 0]  BY DEF ReadLine, Line
<1>5. RemoveLine(k) = [op |-> "REMOVE", key |-> k, len |-> 0]  BY DEF RemoveLine, Line
<1>6. Garbled = [op |-> "garbled", key |-> NULL, len |-> 0]  BY DEF Garbled, Line
<1> QED BY <1>1, <1>2, <1>3, <1>4, <1>5, <1>6 DEF Lines

\* A key that has an entry is used; what else happens is in the journal.
LEMMA TouchedKeeps ==
    ASSUME Inv, JournalInv', NEW k \in Keys, entries[k] # NULL,
           order' = Touched(order, k), busy.op # "publish", isOpen,
           UNCHANGED <<isOpen, entries, size, fileCount, busy, editors, clean, dirty, cut>>,
           cleanup' \in BOOLEAN, redundant' \in Nat,
           calls' = calls \/ (calls < MaxCalls /\ calls' = calls + 1)
    PROVE  Inv'
<1>1. MemoryTypes  BY DEF Inv, MemoryInv
<1>2. order' \in Seq(Keys) /\ Lists(order', entries)
  <2>1. /\ Touched(order, k) \in Seq(Keys) /\ Distinct(Touched(order, k))
        /\ Listed(Touched(order, k)) = Cached(entries) \cup {k}
    BY TouchedLists DEF Inv
  <2> QED BY <2>1 DEF Lists, Cached
<1>3. calls' \in 0..MaxCalls  BY <1>1, BoundsAssumption DEF MemoryTypes
<1>4. busy'.op \in Ops \ {"publish"}  BY <1>1 DEF MemoryTypes
<1> QED BY <1>1, <1>2, <1>3, <1>4, MemorySame DEF Inv, MemoryTypes

LEMMA GetKeeps ==
    ASSUME Inv, NEW k \in Keys, Get(k)
    PROVE  Inv'
<1>1. /\ isOpen /\ Idle /\ entries[k] # NULL /\ order' = Touched(order, k)
      /\ calls < MaxCalls /\ calls' = calls + 1
      /\ UNCHANGED <<isOpen, entries, size, fileCount, busy, editors, clean, dirty, cut>>
  BY DEF Get, Ready, Called, fileVars
<1>2. busy.op = "idle"  BY <1>1, ReadyOps
<1>3. MemoryTypes  BY DEF Inv, MemoryInv
<1>4. CASE /\ redundant' = redundant + 1 /\ Append1(ReadLine(k))
           /\ SubmitIf(RebuildRequired(redundant + 1, entries))
  <2>1. cleanup' \in BOOLEAN  BY <1>4 DEF SubmitIf
  <2>2. redundant' \in Nat  BY <1>3, <1>4 DEF MemoryTypes
  <2>3. Logs(ReadLine(k), entries, entries')  BY <1>1, LineKinds DEF Logs
  <2>4. JournalInv'  BY <1>1, <1>2, <1>4, <2>3, LogStep DEF Inv
  <2> QED BY <1>1, <1>2, <1>3, <2>1, <2>2, <2>4, TouchedKeeps
<1>5. CASE UNCHANGED <<redundant, buffer, journalVars, cleanup>>
  <2>1. cleanup' \in BOOLEAN /\ redundant' \in Nat  BY <1>3, <1>5 DEF MemoryTypes
  <2>2. JournalInv'  BY <1>1, <1>2, <1>5, JournalSame DEF Inv
  <2> QED BY <1>1, <1>2, <1>3, <2>1, <2>2, TouchedKeeps
<1> QED BY <1>4, <1>5 DEF Get

\* One entry changes, and what the counts, the journal and the editors make of
\* it fits; the editors of other entries stay.
LEMMA EntryStep ==
    ASSUME Inv, JournalInv', NEW k \in Keys, NEW x \in Entries \cup {NULL},
           entries' = [entries EXCEPT ![k] = x],
           isOpen, UNCHANGED <<isOpen, cut>>,
           order' \in Seq(Keys), Distinct(order'),
           Listed(order') = IF x = NULL THEN Cached(entries) \ {k} ELSE Cached(entries) \cup {k},
           size' = size - LengthOf(entries[k]) + LengthOf(x),
           \/ fileCount' = fileCount + 1 /\ Has(x)
           \/ fileCount' = fileCount /\ (Has(entries[k]) \/ ~Has(x))
           \/ fileCount' = fileCount - 1 /\ Has(entries[k]) /\ ~Has(x),
           redundant' = redundant \/ redundant' = redundant + 1,
           cleanup' \in BOOLEAN, busy'.op \in Ops \ {"publish"},
           editors' \in [Edits -> EditorStates \cup {NULL}],
           clean' \in [Keys -> Lengths \cup {NULL}], dirty' \in [Keys -> Lengths \cup {NULL}],
           calls' = calls \/ (calls < MaxCalls /\ calls' = calls + 1),
           EntryInv(k)',
           \A j \in Keys \ {k} : dirty'[j] = dirty[j],
           \A j \in Keys \ {k} : entries[j] # NULL /\ entries[j].editor # NULL =>
               /\ editors'[entries[j].editor] = editors[entries[j].editor]
               /\ ~Publishes(entries[j].editor)
    PROVE  Inv'
<1>1. MemoryTypes /\ CountInv  BY DEF Inv, MemoryInv
<1>2. /\ entries' \in [Keys -> Entries \cup {NULL}] /\ entries'[k] = x
      /\ \A j \in Keys \ {k} : entries'[j] = entries[j]
  BY <1>1 DEF MemoryTypes
<1>3. /\ Total(entries) \in Nat /\ LengthOf(entries[k]) \in Nat /\ LengthOf(x) \in Nat
      /\ Total(entries') = Total(entries) - LengthOf(entries[k]) + LengthOf(x)
      /\ Cardinality(Readables(entries)) \in Nat /\ Cardinality(Readables(entries')) \in Nat
      /\ Has(x) => Cardinality(Readables(entries')) <= Cardinality(Readables(entries)) + 1
      /\ Has(entries[k]) \/ ~Has(x) =>
             Cardinality(Readables(entries')) <= Cardinality(Readables(entries))
      /\ Has(entries[k]) /\ ~Has(x) =>
             /\ Cardinality(Readables(entries')) = Cardinality(Readables(entries)) - 1
             /\ Cardinality(Readables(entries)) >= 1
  <2>1. entries \in [Keys -> Entries \cup {NULL}]  BY <1>1 DEF MemoryTypes
  <2>2. PICK f : f = entries'  OBVIOUS
  <2>3. f \in [Keys -> Entries \cup {NULL}] /\ f[k] = x /\ \A j \in Keys \ {k} : f[j] = entries[j]
    BY <1>2, <2>2
  <2>4. /\ Total(entries) \in Nat /\ LengthOf(entries[k]) \in Nat /\ LengthOf(f[k]) \in Nat
        /\ Total(f) = Total(entries) - LengthOf(entries[k]) + LengthOf(f[k])
        /\ Cardinality(Readables(entries)) \in Nat /\ Cardinality(Readables(f)) \in Nat
        /\ Has(f[k]) => Cardinality(Readables(f)) <= Cardinality(Readables(entries)) + 1
        /\ Has(entries[k]) \/ ~Has(f[k]) =>
               Cardinality(Readables(f)) <= Cardinality(Readables(entries))
        /\ Has(entries[k]) /\ ~Has(f[k]) =>
               /\ Cardinality(Readables(f)) = Cardinality(Readables(entries)) - 1
               /\ Cardinality(Readables(entries)) >= 1
    BY <2>1, <2>3, CountsChange
  <2>5. f[k] = x  BY <2>3
  <2> QED BY <2>2, <2>4, <2>5, Zenon
<1>4. fileCount' \in Nat /\ fileCount' >= Cardinality(Readables(entries'))
  <2>1. fileCount \in Nat /\ fileCount >= Cardinality(Readables(entries))
    BY <1>1 DEF CountInv, MemoryTypes
  <2>2. CASE fileCount' = fileCount + 1 /\ Has(x)  BY <1>3, <2>1, <2>2
  <2>3. CASE fileCount' = fileCount /\ (Has(entries[k]) \/ ~Has(x))  BY <1>3, <2>1, <2>3
  <2>4. CASE fileCount' = fileCount - 1 /\ Has(entries[k]) /\ ~Has(x)  BY <1>3, <2>1, <2>4
  <2> QED BY <2>2, <2>3, <2>4
<1>5. CountInv'
  <2>1. size' = Total(entries')  BY <1>1, <1>3 DEF CountInv
  <2> QED BY <1>4, <2>1 DEF CountInv
<1>6. redundant' \in Nat /\ calls' \in 0..MaxCalls
  BY <1>1, BoundsAssumption DEF MemoryTypes
<1>7. MemoryTypes'  BY <1>1, <1>2, <1>4, <1>6 DEF MemoryTypes
<1>8. Lists(order', entries')
  <2>1. Cached(entries') = IF x = NULL THEN Cached(entries) \ {k} ELSE Cached(entries) \cup {k}
    BY <1>2 DEF Cached
  <2> QED BY <2>1 DEF Lists
<1>9. \A j \in Keys : EntryInv(j)'
  <2> SUFFICES ASSUME NEW j \in Keys, j # k PROVE EntryInv(j)'  OBVIOUS
  <2>1. EntryInv(j)  BY DEF Inv, MemoryInv
  <2>2. entries'[j] = entries[j] /\ dirty'[j] = dirty[j]  BY <1>2
  <2> QED BY <2>1, <2>2, EntrySame
<1>10. PublishInv'  BY DEF PublishInv
<1> QED BY <1>5, <1>7, <1>8, <1>9, <1>10 DEF Inv, MemoryInv

LEMMA EditKeeps ==
    ASSUME Inv, NEW e \in Edits, NEW k \in Keys, Edit(e, k)
    PROVE  Inv'
<1> DEFINE old == IF entries[k] = NULL THEN Fresh ELSE entries[k]
           x == [old EXCEPT !.editor = e]
           s == [key |-> k, written |-> FALSE, errors |-> FALSE, dropping |-> FALSE]
<1>1. /\ isOpen /\ Idle /\ editors[e] = NULL /\ order' = Touched(order, k)
      /\ calls < MaxCalls /\ calls' = calls + 1
      /\ UNCHANGED <<isOpen, size, fileCount, redundant, cleanup, busy, clean, dirty, cut>>
  BY DEF Edit, Ready, Called, fileVars, countVars
<1>2. busy.op = "idle"  BY <1>1, ReadyOps
<1>3. MemoryTypes  BY DEF Inv, MemoryInv
<1>4. \/ old.editor # NULL /\ UNCHANGED <<entries, editors, buffer, journalVars>>
      \/ /\ old.editor = NULL /\ entries' = [entries EXCEPT ![k] = x]
         /\ editors' = [editors EXCEPT ![e] = s]
         /\ DirtyLogged(k)
  BY DEF Edit
<1>5. Fresh \in Entries /\ Fresh.editor = NULL /\ Fresh.length = 0 /\ ~Fresh.readable
  BY DEF Fresh, Entries
<1>6. CASE old.editor # NULL /\ UNCHANGED <<entries, editors, buffer, journalVars>>
  <2>1. entries[k] # NULL  BY <1>5, <1>6
  <2>2. JournalInv'  BY <1>1, <1>2, <1>6, JournalSame DEF Inv
  <2> QED BY <1>1, <1>2, <1>3, <1>6, <2>1, <2>2, TouchedKeeps DEF MemoryTypes
<1>7. CASE /\ old.editor = NULL /\ entries' = [entries EXCEPT ![k] = x]
           /\ editors' = [editors EXCEPT ![e] = s]
           /\ DirtyLogged(k)
  <2>1. old \in Entries /\ (entries[k] # NULL => old = entries[k])
    BY <1>3, <1>5 DEF MemoryTypes
  <2>2. ~old.readable => old.length = 0
    <3>1. EntryInv(k)  BY DEF Inv, MemoryInv
    <3> QED BY <1>5, <3>1 DEF EntryInv
  <2>3. LengthOf(old) = LengthOf(entries[k]) /\ (Has(old) => Has(entries[k]))
    <3>1. old # NULL  BY <2>1, EntryTypes
    <3> QED BY <1>5, <3>1 DEF LengthOf, Has
  <2>4. e # NULL  BY NullAssumption
  <2> HIDE DEF old
  <2>5. /\ x \in Entries /\ x # NULL /\ x.editor = e
        /\ x.readable = old.readable /\ x.length = old.length
    <3>1. x \in Entries  BY <2>1 DEF Entries
    <3>2. x # NULL  BY <3>1, EntryTypes
    <3> QED BY <2>1, <3>1, <3>2 DEF Entries
  <2> HIDE DEF x
  <2>6. s \in EditorStates /\ s # NULL /\ s.key = k /\ ~s.dropping /\ ~s.written
    <3>1. s \in EditorStates  BY DEF EditorStates
    <3> QED BY <3>1, NullAssumption
  <2> HIDE DEF s
  <2>7. entries'[k] = x /\ \A j \in Keys \ {k} : entries'[j] = entries[j]
    BY <1>3, <1>7 DEF MemoryTypes
  <2>8. /\ editors' \in [Edits -> EditorStates \cup {NULL}] /\ editors'[e] = s
        /\ \A d \in Edits \ {e} : editors'[d] = editors[d]
    BY <1>3, <1>7, <2>6 DEF MemoryTypes
  <2>9. JournalInv'
    <3>1. Logs(DirtyLine(k), entries, entries')  BY <2>4, <2>5, <2>7, LineKinds DEF Logs
    <3> QED BY <1>1, <1>2, <1>7, <3>1, LogStep DEF DirtyLogged, Inv
  <2>10. EntryInv(k)'
    <3>1. x.editor = NULL => x.readable  BY <2>4, <2>5
    <3>2. ~x.readable => x.length = 0  BY <2>2, <2>5
    <3>3. Held(k, e)'  BY <2>6, <2>8 DEF Held
    <3> QED BY <2>5, <2>7, <3>1, <3>2, <3>3 DEF EntryInv, Held
  <2>11. \A j \in Keys \ {k} : entries[j] # NULL /\ entries[j].editor # NULL =>
             /\ editors'[entries[j].editor] = editors[entries[j].editor]
             /\ ~Publishes(entries[j].editor)
    <3> SUFFICES ASSUME NEW j \in Keys, entries[j] # NULL, entries[j].editor # NULL
                 PROVE  /\ editors'[entries[j].editor] = editors[entries[j].editor]
                        /\ ~Publishes(entries[j].editor)
      OBVIOUS
    <3>1. Held(j, entries[j].editor)  BY DEF Inv, MemoryInv, EntryInv
    <3>2. entries[j].editor \in Edits \ {e}  BY <1>1, <3>1 DEF Held
    <3> QED BY <1>2, <2>8, <3>2 DEF Publishes
  <2>12. LengthOf(x) = LengthOf(entries[k]) /\ (Has(entries[k]) \/ ~Has(x))
    <3>1. LengthOf(x) = LengthOf(old)
      <4>1. old # NULL  BY <2>1, EntryTypes
      <4> QED BY <2>5, <4>1 DEF LengthOf
    <3>2. Has(x) => Has(old)
      <4>1. old # NULL  BY <2>1, EntryTypes
      <4> QED BY <2>5, <4>1 DEF Has
    <3> QED BY <2>3, <3>1, <3>2
  <2>13. size' = size - LengthOf(entries[k]) + LengthOf(x)
    <3>1. size \in Nat /\ LengthOf(entries[k]) \in Nat
      <4>1. entries \in [Keys -> Entries \cup {NULL}]  BY <1>3 DEF MemoryTypes
      <4>2. Total(entries) \in Nat /\ LengthOf(entries[k]) \in Nat  BY <4>1, CountsChange
      <4> QED BY <4>2 DEF Inv, MemoryInv, CountInv
    <3> QED BY <1>1, <2>12, <3>1
  <2>14. /\ order' \in Seq(Keys) /\ Distinct(order')
         /\ Listed(order') = Cached(entries) \cup {k}
    BY <1>1, TouchedLists DEF Inv
  <2>15. busy'.op \in Ops \ {"publish"}  BY <1>1, <1>2 DEF Ops
  <2>16. \A j \in Keys \ {k} : dirty'[j] = dirty[j]  BY <1>1
  <2>17. /\ cleanup' \in BOOLEAN /\ clean' \in [Keys -> Lengths \cup {NULL}]
         /\ dirty' \in [Keys -> Lengths \cup {NULL}]
    BY <1>1, <1>3 DEF MemoryTypes
  <2> QED BY <1>1, <1>7, <2>5, <2>8, <2>9, <2>10, <2>11, <2>12, <2>13, <2>14, <2>15,
             <2>16, <2>17, EntryStep
<1> QED BY <1>4, <1>6, <1>7

LEMMA CurrentFacts ==
    ASSUME Inv, NEW e \in Edits, Current(e)
    PROVE  LET k == editors[e].key
           IN  /\ isOpen /\ k \in Keys /\ editors[e] \in EditorStates
               /\ entries[k] \in Entries /\ entries[k] # NULL /\ entries[k].editor = e
               /\ Held(k, e)
               /\ ~entries[k].readable => entries[k].length = 0
               /\ \A j \in Keys \ {k} : entries[j] # NULL /\ entries[j].editor # NULL =>
                      Held(j, entries[j].editor) /\ entries[j].editor \in Edits \ {e}
<1> DEFINE k == editors[e].key
<1>1. editors[e] # NULL /\ entries[k] # NULL /\ entries[k].editor = e  BY DEF Current
<1>2. MemoryTypes /\ \A j \in Keys : EntryInv(j)  BY DEF Inv, MemoryInv
<1>3. editors[e] \in EditorStates /\ k \in Keys
  <2>1. editors[e] \in EditorStates  BY <1>1, <1>2 DEF MemoryTypes
  <2> QED BY <2>1 DEF EditorStates
<1>4. entries[k] \in Entries  BY <1>1, <1>2, <1>3 DEF MemoryTypes
<1>5. isOpen
  <2>1. entries # None  BY <1>1, <1>3 DEF None
  <2> QED BY <2>1 DEF Inv, MemoryInv
<1>6. ~entries[k].readable => entries[k].length = 0  BY <1>1, <1>2, <1>3 DEF EntryInv
<1>7. Held(k, e)  BY <1>1, <1>2, <1>3, NullAssumption DEF EntryInv
<1>8. \A j \in Keys \ {k} : entries[j] # NULL /\ entries[j].editor # NULL =>
          Held(j, entries[j].editor) /\ entries[j].editor \in Edits \ {e}
  <2> SUFFICES ASSUME NEW j \in Keys \ {k}, entries[j] # NULL, entries[j].editor # NULL
               PROVE  Held(j, entries[j].editor) /\ entries[j].editor \in Edits \ {e}
    OBVIOUS
  <2>1. Held(j, entries[j].editor)  BY <1>2 DEF EntryInv
  <2>2. editors[entries[j].editor].key = j /\ entries[j].editor \in Edits  BY <2>1 DEF Held
  <2>3. entries[j].editor # e  BY <2>2
  <2> QED BY <2>1, <2>2, <2>3
<1> QED BY <1>1, <1>3, <1>4, <1>5, <1>6, <1>7, <1>8

LEMMA JournalStays ==
    ASSUME JournalInv, UNCHANGED <<isOpen, entries, buffer, journalVars, busy>>
    PROVE  JournalInv'
<1>1. UNCHANGED <<isOpen, entries, buffer, journal, journalTmp, journalBackup, torn, busy>>
  BY DEF journalVars
<1>2. Log' = Log  BY <1>1 DEF Log, OnDisk, Found
<1> QED BY <1>1, <1>2 DEF JournalInv

LEMMA WriteKeeps ==
    ASSUME Inv, NEW e \in Edits, NEW n \in Lengths, NEW failed \in BOOLEAN, Write(e, n, failed)
    PROVE  Inv'
<1> DEFINE k == editors[e].key
           s == [editors[e] EXCEPT !.written = TRUE, !.errors = failed]
<1>1. /\ Idle /\ Current(e)
      /\ dirty' = [dirty EXCEPT ![k] = n]
      /\ editors' = [editors EXCEPT ![e].written = TRUE, ![e].errors = failed]
      /\ UNCHANGED <<isOpen, entries, order, size, fileCount, redundant, buffer, cleanup, busy,
                     clean, journalVars, calls, cut>>
  BY DEF Write, lruVars, countVars
<1>2. busy.op = "idle"  BY <1>1, ReadyOps
<1>3. /\ k \in Keys /\ editors[e] \in EditorStates /\ entries[k] # NULL /\ entries[k].editor = e
      /\ \A j \in Keys \ {k} : entries[j] # NULL /\ entries[j].editor # NULL =>
             entries[j].editor \in Edits \ {e}
  BY <1>1, CurrentFacts
<1>4. MemoryTypes /\ \A j \in Keys : EntryInv(j)  BY DEF Inv, MemoryInv
<1>5. s \in EditorStates /\ s.key = k /\ s.dropping = editors[e].dropping /\ s # NULL
  <2>1. s \in EditorStates  BY <1>3 DEF EditorStates
  <2>2. s # NULL  BY <2>1, NullAssumption
  <2> QED BY <1>3, <2>1, <2>2 DEF EditorStates
<1>6. /\ editors' \in [Edits -> EditorStates \cup {NULL}] /\ editors'[e] = s
      /\ \A d \in Edits \ {e} : editors'[d] = editors[d]
  <2>1. editors \in [Edits -> EditorStates \cup {NULL}]  BY <1>4 DEF MemoryTypes
  <2>2. editors' = [editors EXCEPT ![e] = s]  BY <1>1, <2>1
  <2> HIDE DEF s
  <2> QED BY <1>5, <2>1, <2>2
<1> HIDE DEF s
<1>7. /\ dirty' \in [Keys -> Lengths \cup {NULL}] /\ dirty'[k] # NULL
      /\ \A j \in Keys \ {k} : dirty'[j] = dirty[j]
  <2>1. n # NULL  BY NullAssumption
  <2> HIDE DEF k
  <2> QED BY <1>1, <1>3, <1>4, <2>1 DEF MemoryTypes
<1>8. \A j \in Keys : EntryInv(j)'
  <2> SUFFICES ASSUME NEW j \in Keys PROVE EntryInv(j)'  OBVIOUS
  <2>1. EntryInv(j) /\ entries'[j] = entries[j]  BY <1>1, <1>4
  <2>2. CASE j = k
    <3>1. Held(k, e)  BY <1>3, <1>4, NullAssumption DEF EntryInv
    <3>2. Held(j, e)'  BY <1>5, <1>6, <1>7, <2>2, <3>1 DEF Held
    <3>3. entries'[j].editor = e  BY <1>1, <1>3, <2>2
    <3>4. ~entries[j].readable => entries[j].length = 0  BY <1>3, <2>1, <2>2 DEF EntryInv
    <3>5. e # NULL  BY NullAssumption
    <3> QED BY <2>1, <3>2, <3>3, <3>4, <3>5 DEF EntryInv, Held
  <2>3. CASE j # k
    <3> HIDE DEF k
    <3>1. dirty'[j] = dirty[j] /\ \A d : ~Publishes(d)  BY <1>2, <1>7, <2>3 DEF Publishes
    <3>2. entries[j] # NULL /\ entries[j].editor # NULL =>
              editors'[entries[j].editor] = editors[entries[j].editor]
      BY <1>3, <1>6, <2>3
    <3> QED BY <2>1, <3>1, <3>2, EntrySame
  <2> QED BY <2>2, <2>3
<1>9. MemoryInv'
  <2>1. MemoryTypes'  BY <1>1, <1>4, <1>6, <1>7 DEF MemoryTypes
  <2>2. PublishInv'  BY <1>1, <1>2 DEF PublishInv
  <2>3. CountInv'  BY <1>1 DEF Inv, MemoryInv, CountInv
  <2>4. Lists(order', entries') /\ (~isOpen' => entries' = None)  BY <1>1 DEF Inv, MemoryInv
  <2> QED BY <1>8, <2>1, <2>2, <2>3, <2>4 DEF MemoryInv
<1>10. JournalInv'  BY <1>1, JournalStays DEF Inv
<1> QED BY <1>9, <1>10 DEF Inv

(***************************************************************************)
(* An edit ends.                                                           *)
(***************************************************************************)
LEMMA FailEditKeeps ==
    ASSUME Inv, NEW e \in Edits, Current(e), FailEdit(e),
           busy.op \in {"idle", "abort"}, busy' = busy,
           editors' \in [Edits -> EditorStates \cup {NULL}],
           \A d \in Edits \ {e} : editors'[d] = editors[d]
    PROVE  Inv'
<1>24. PICK k : k = editors[e].key  OBVIOUS
<1> DEFINE kept == entries[k].readable
           x == IF kept THEN [entries[k] EXCEPT !.editor = NULL] ELSE NULL
           l == IF kept THEN CleanLine(k, entries[k].length) ELSE RemoveLine(k)
<1>1. /\ isOpen /\ k \in Keys /\ entries[k] \in Entries /\ entries[k] # NULL
      /\ ~entries[k].readable => entries[k].length = 0
      /\ \A j \in Keys \ {k} : entries[j] # NULL /\ entries[j].editor # NULL =>
             entries[j].editor \in Edits \ {e}
  BY <1>24, CurrentFacts
<1>2. /\ dirty' = [dirty EXCEPT ![k] = NULL]
      /\ entries' = [entries EXCEPT ![k] = x]
      /\ order' = IF kept THEN order ELSE Without(order, k)
      /\ redundant' = redundant + 1
      /\ Flushed(Append(buffer, l))
      /\ SubmitIf(OverLimit \/ RebuildRequired(redundant', entries'))
      /\ UNCHANGED <<isOpen, size, fileCount, clean, calls, cut>>
  <2>1. entries' = [entries EXCEPT ![k] = IF kept THEN [@ EXCEPT !.editor = NULL] ELSE NULL]
    BY <1>24 DEF FailEdit
  <2>2. entries' = [entries EXCEPT ![k] = x]  BY <2>1
  <2> QED BY <1>24, <2>2 DEF FailEdit
<1>3. /\ entries[k].readable \in BOOLEAN /\ entries[k].length \in Lengths \cup {0}
      /\ entries[k].length \in Nat
      /\ entries[k] = [readable |-> entries[k].readable, editor |-> entries[k].editor,
                       length |-> entries[k].length]
  BY <1>1, EntryTypes
<1>4. kept => x = [readable |-> TRUE, editor |-> NULL, length |-> entries[k].length]
  <2> SUFFICES ASSUME kept PROVE x = [readable |-> TRUE, editor |-> NULL, length |-> entries[k].length]
    OBVIOUS
  <2>1. x = [entries[k] EXCEPT !.editor = NULL]  OBVIOUS
  <2>2. entries[k].readable = TRUE  BY <1>3
  <2> HIDE DEF x, kept
  <2> QED BY <1>3, <2>1, <2>2
<1>5. kept => x \in Entries /\ x # NULL
  <2>1. kept => x \in Entries  BY <1>3, <1>4 DEF Entries
  <2> QED BY <2>1, NullAssumption
<1>6. ~kept => x = NULL  OBVIOUS
<1>7. kept \in BOOLEAN  BY <1>3
<1>8. (kept => l = CleanLine(k, entries[k].length)) /\ (~kept => l = RemoveLine(k))  OBVIOUS
<1>20. Has(entries[k]) <=> kept  BY <1>1 DEF Has
<1>21. kept \/ entries[k].length = 0  BY <1>1
<1>22. order' = IF kept THEN order ELSE Without(order, k)  BY <1>2
<1> HIDE DEF kept, x, l
<1>9. entries'[k] = x /\ \A j \in Keys \ {k} : entries'[j] = entries[j]
  BY <1>1, <1>2 DEF Inv, MemoryInv, MemoryTypes
<1>10. Logs(l, entries, entries')
  <2>1. CASE kept
    <3>1. l = CleanLine(k, entries[k].length)  BY <1>8, <2>1
    <3>2. /\ l \in Lines /\ l # Garbled /\ l.op = "CLEAN" /\ l.key = k
          /\ l.len = entries[k].length
      BY <1>1, <1>3, <3>1, LineKinds
    <3>3. entries'[k] = [readable |-> TRUE, editor |-> NULL, length |-> l.len]
      BY <1>4, <1>9, <2>1, <3>2
    <3> QED BY <1>9, <3>2, <3>3 DEF Logs
  <2>2. CASE ~kept
    <3>1. l = RemoveLine(k)  BY <1>8, <2>2
    <3>2. l \in Lines /\ l # Garbled /\ l.op = "REMOVE" /\ l.key = k
      BY <1>1, <1>3, <3>1, LineKinds
    <3>3. entries'[k] = NULL  BY <1>6, <1>9, <2>2
    <3> QED BY <1>9, <3>2, <3>3 DEF Logs
  <2> QED BY <2>1, <2>2
<1>11. JournalInv'  BY <1>1, <1>2, <1>10, LogStep DEF Inv
<1>12. /\ x \in Entries \cup {NULL}
       /\ LengthOf(x) = LengthOf(entries[k]) /\ LengthOf(x) \in Nat
       /\ Has(entries[k]) \/ ~Has(x)
  <2>1. CASE kept
    <3>1. x \in Entries /\ x # NULL /\ x.length = entries[k].length  BY <1>4, <1>5, <2>1
    <3> QED BY <1>1, <1>3, <1>20, <2>1, <3>1 DEF LengthOf
  <2>2. CASE ~kept
    <3>1. x = NULL /\ entries[k].length = 0  BY <1>6, <1>21, <2>2
    <3> QED BY <1>1, <3>1 DEF LengthOf, Has
  <2> QED BY <2>1, <2>2
<1>13. EntryInv(k)'
  <2>1. CASE kept
    <3>1. entries'[k].editor = NULL /\ entries'[k].readable  BY <1>4, <1>9, <2>1
    <3>2. entries'[k].editor = NULL  BY <3>1
    <3>3. entries'[k].readable  BY <3>1
    <3> QED BY <3>2, <3>3, Zenon DEF EntryInv
  <2>2. CASE ~kept
    <3>1. entries'[k] = NULL  BY <1>6, <1>9, <2>2
    <3> QED BY <3>1, Zenon DEF EntryInv
  <2> QED BY <2>1, <2>2
<1>14. /\ order' \in Seq(Keys) /\ Distinct(order')
       /\ Listed(order') = IF x = NULL THEN Cached(entries) \ {k} ELSE Cached(entries) \cup {k}
  <2>1. order \in Seq(Keys) /\ Lists(order, entries)  BY DEF Inv, MemoryInv, MemoryTypes
  <2>2. CASE kept
    <3>1. k \in Cached(entries)  BY <1>1 DEF Cached
    <3> QED BY <1>5, <1>22, <2>1, <2>2, <3>1 DEF Lists
  <2>3. CASE ~kept
    <3> QED BY <1>1, <1>6, <1>22, <2>3, TouchedLists DEF Inv
  <2> QED BY <2>2, <2>3
<1>15. size' = size - LengthOf(entries[k]) + LengthOf(x)
  <2>1. size \in Nat
    <3>1. entries \in [Keys -> Entries \cup {NULL}]  BY DEF Inv, MemoryInv, MemoryTypes
    <3>2. Total(entries) \in Nat  BY <1>1, <3>1, CountsChange
    <3> QED BY <3>2 DEF Inv, MemoryInv, CountInv
  <2> QED BY <1>2, <1>12, <2>1
<1>16. /\ cleanup' \in BOOLEAN /\ clean' \in [Keys -> Lengths \cup {NULL}]
       /\ dirty' \in [Keys -> Lengths \cup {NULL}]
       /\ \A j \in Keys \ {k} : dirty'[j] = dirty[j]
  <2>1. cleanup' \in BOOLEAN  BY <1>2 DEF SubmitIf
  <2> QED BY <1>2, <2>1 DEF Inv, MemoryInv, MemoryTypes
<1>17. \A j \in Keys \ {k} : entries[j] # NULL /\ entries[j].editor # NULL =>
           /\ editors'[entries[j].editor] = editors[entries[j].editor]
           /\ ~Publishes(entries[j].editor)
  <2>1. \A d : ~Publishes(d)  BY DEF Publishes
  <2> QED BY <1>1, <2>1
<1>18. busy'.op \in Ops \ {"publish"}  BY DEF Ops
<1>19. UNCHANGED <<isOpen, cut>> /\ fileCount' = fileCount /\ redundant' = redundant + 1
       /\ calls' = calls
  BY <1>2
<1>23. entries' = [entries EXCEPT ![k] = x]  BY <1>2
<1> QED BY <1>1, <1>19, <1>23, <1>11, <1>12, <1>13, <1>14, <1>15, <1>16, <1>17, <1>18, EntryStep

\* An editor that no entry has may change.
LEMMA ReleaseTypes ==
    ASSUME Inv, NEW e \in Edits, Release(e)
    PROVE  /\ editors' \in [Edits -> EditorStates \cup {NULL}]
           /\ \A d \in Edits \ {e} : editors'[d] = editors[d]
BY DEF Release, Inv, MemoryInv, MemoryTypes

LEMMA EndFailedKeeps ==
    ASSUME Inv, NEW e \in Edits, Abort(e) \/ CommitNothing(e) \/ CommitFailed(e)
    PROVE  Inv'
<1>1. /\ Idle /\ Current(e) /\ FailEdit(e) /\ busy' = busy
      /\ Release(e) \/ editors' = [editors EXCEPT ![e].dropping = TRUE]
  BY DEF Abort, CommitNothing, CommitFailed
<1>2. /\ editors' \in [Edits -> EditorStates \cup {NULL}]
      /\ \A d \in Edits \ {e} : editors'[d] = editors[d]
  <2>1. CASE Release(e)  BY <2>1, ReleaseTypes
  <2>2. CASE editors' = [editors EXCEPT ![e].dropping = TRUE]
    <3> DEFINE s == [editors[e] EXCEPT !.dropping = TRUE]
    <3>1. editors[e] \in EditorStates  BY <1>1, CurrentFacts
    <3>2. s \in EditorStates  BY <3>1 DEF EditorStates
    <3>3. editors' = [editors EXCEPT ![e] = s]  BY <2>2
    <3> HIDE DEF s
    <3> QED BY <3>2, <3>3 DEF Inv, MemoryInv, MemoryTypes
  <2> QED BY <1>1, <2>1, <2>2
<1>3. busy.op = "idle"  BY <1>1, ReadyOps
<1> QED BY <1>1, <1>2, <1>3, FailEditKeeps

\* close() aborts editors that entries have.
LEMMA AbortsCurrent ==
    ASSUME Inv, \E i \in DOMAIN order : FailEdit(entries[order[i]].editor) /\ Edited(i) /\ UNCHANGED busy
    PROVE  \E e \in Edits : Current(e) /\ FailEdit(e) /\ busy' = busy
<1>1. PICK i \in DOMAIN order : FailEdit(entries[order[i]].editor) /\ Edited(i) /\ UNCHANGED busy
  OBVIOUS
<1>2. PICK k : k = order[i]  OBVIOUS
<1>3. k \in Keys /\ k \in Cached(entries)
  BY <1>1, <1>2 DEF Inv, MemoryInv, Lists, Listed, Cached
<1>4. entries[k] # NULL /\ entries[k].editor # NULL
  BY <1>1, <1>2, <1>3 DEF Cached, Edited
<1>5. PICK e : e = entries[k].editor  OBVIOUS
<1>6. Held(k, e)  BY <1>3, <1>4, <1>5 DEF Inv, MemoryInv, EntryInv
<1>7. e \in Edits /\ Current(e)  BY <1>4, <1>5, <1>6 DEF Held, Current
<1>8. FailEdit(e) /\ busy' = busy  BY <1>1, <1>2, <1>5
<1> QED BY <1>7, <1>8

LEMMA CloseAbortsKeeps ==
    ASSUME Inv, CloseAborts
    PROVE  Inv'
<1>1. busy.op = "abort" /\ editors' = editors  BY DEF CloseAborts
<1>2. isOpen  BY <1>1, BusyOps
<1>3. CASE \E i \in DOMAIN order : FailEdit(entries[order[i]].editor) /\ Edited(i) /\ UNCHANGED busy
  <2>1. PICK e \in Edits : Current(e) /\ FailEdit(e) /\ busy' = busy  BY <1>3, AbortsCurrent
  <2>2. /\ editors' \in [Edits -> EditorStates \cup {NULL}]
        /\ \A d \in Edits \ {e} : editors'[d] = editors[d]
    BY <1>1 DEF Inv, MemoryInv, MemoryTypes
  <2> QED BY <1>1, <2>1, <2>2, FailEditKeeps
<1>4. CASE /\ Busy("trim", busy.arg)
           /\ UNCHANGED <<isOpen, lruVars, countVars, buffer, cleanup, fileVars,
                          journalVars, calls, cut>>
  <2>1. busy'.op = "trim"  BY <1>4 DEF Busy, IDLE
  <2>2. cleanup' \in BOOLEAN  BY <1>4 DEF Inv, MemoryInv, MemoryTypes
  <2> QED BY <1>1, <1>2, <1>4, <2>1, <2>2, QuietStep
<1> QED BY <1>3, <1>4 DEF CloseAborts

LEMMA EndStaleKeeps ==
    ASSUME Inv, NEW e \in Edits, EndStale(e)
    PROVE  Inv'
<1>1. /\ Idle /\ ~Current(e) /\ editors[e] # NULL /\ Release(e)
      /\ UNCHANGED <<isOpen, entries, order, size, fileCount, redundant, buffer, cleanup, busy,
                     clean, dirty, journalVars, calls, cut>>
  BY DEF EndStale, lruVars, countVars, fileVars
<1>2. busy.op = "idle"  BY <1>1, ReadyOps
<1>3. /\ editors' \in [Edits -> EditorStates \cup {NULL}]
      /\ \A d \in Edits \ {e} : editors'[d] = editors[d]
  BY <1>1, ReleaseTypes
<1>4. \A j \in Keys : EntryInv(j)'
  <2> SUFFICES ASSUME NEW j \in Keys PROVE EntryInv(j)'  OBVIOUS
  <2>1. EntryInv(j) /\ entries'[j] = entries[j] /\ dirty'[j] = dirty[j]
    BY <1>1 DEF Inv, MemoryInv
  <2>2. ASSUME entries[j] # NULL, entries[j].editor # NULL
        PROVE  editors'[entries[j].editor] = editors[entries[j].editor]
    <3>1. Held(j, entries[j].editor)  BY <2>1, <2>2 DEF EntryInv
    <3>2. entries[j].editor # e  BY <1>1, <2>2, <3>1 DEF Held, Current
    <3> QED BY <1>3, <3>1, <3>2 DEF Held
  <2>3. \A d : ~Publishes(d)  BY <1>2 DEF Publishes
  <2> QED BY <2>1, <2>2, <2>3, EntrySame
<1>5. MemoryInv'
  <2>1. MemoryTypes'  BY <1>1, <1>3 DEF Inv, MemoryInv, MemoryTypes
  <2>2. PublishInv'  BY <1>1, <1>2 DEF PublishInv
  <2>3. CountInv'  BY <1>1 DEF Inv, MemoryInv, CountInv
  <2>4. Lists(order', entries') /\ (~isOpen' => entries' = None)  BY <1>1 DEF Inv, MemoryInv
  <2> QED BY <1>4, <2>1, <2>2, <2>3, <2>4 DEF MemoryInv
<1>6. JournalInv'  BY <1>1, JournalStays DEF Inv
<1> QED BY <1>5, <1>6 DEF Inv

\* The editor stays that of the entry while the commit has its files moved and
\* not its line logged.
LEMMA CommitKeeps ==
    ASSUME Inv, NEW e \in Edits, Commit(e)
    PROVE  Inv'
<1>1. PICK k : k = editors[e].key  OBVIOUS
<1>2. /\ Idle /\ Current(e)
      /\ entries[k].readable \/ editors[e].written
      /\ busy' = [op |-> "publish", arg |-> e, old |-> clean[k], new |-> dirty[k] # NULL]
      /\ clean' = IF dirty[k] # NULL THEN [clean EXCEPT ![k] = dirty[k]] ELSE clean
      /\ dirty' = [dirty EXCEPT ![k] = NULL]
      /\ UNCHANGED <<isOpen, entries, order, size, fileCount, redundant, buffer, cleanup,
                     editors, journalVars, calls, cut>>
  BY <1>1 DEF Commit, lruVars, countVars
<1>3. busy.op = "idle"  BY <1>2, ReadyOps
<1>4. /\ isOpen /\ k \in Keys /\ entries[k] # NULL /\ entries[k].editor = e /\ Held(k, e)
      /\ \A j \in Keys \ {k} : entries[j] # NULL /\ entries[j].editor # NULL =>
             entries[j].editor \in Edits \ {e}
  BY <1>1, <1>2, CurrentFacts
<1>5. MemoryTypes /\ \A j \in Keys : EntryInv(j)  BY DEF Inv, MemoryInv
<1>6. /\ busy'.op = "publish" /\ busy'.arg = e /\ busy'.new \in BOOLEAN
      /\ busy'.new <=> dirty[k] # NULL
  BY <1>2
<1>7. clean' \in [Keys -> Lengths \cup {NULL}] /\ dirty' \in [Keys -> Lengths \cup {NULL}]
  BY <1>2, <1>4, <1>5 DEF MemoryTypes
<1>8. \A j \in Keys : EntryInv(j)'
  <2> SUFFICES ASSUME NEW j \in Keys PROVE EntryInv(j)'  OBVIOUS
  <2>1. EntryInv(j) /\ entries'[j] = entries[j]  BY <1>2, <1>5
  <2>2. CASE j = k
    <3>1. Publishes(e)'  BY <1>6 DEF Publishes
    <3>2. Held(j, e)'  BY <1>2, <1>4, <2>2, <3>1 DEF Held
    <3>3. entries'[j].editor = e /\ e # NULL  BY <1>4, <2>1, <2>2, NullAssumption
    <3>4. ~entries[j].readable => entries[j].length = 0  BY <1>4, <2>1, <2>2 DEF EntryInv
    <3> QED BY <2>1, <3>2, <3>3, <3>4 DEF EntryInv, Held
  <2>3. CASE j # k
    <3>1. dirty'[j] = dirty[j] /\ \A d : ~Publishes(d)
      BY <1>2, <1>3, <1>5, <2>3 DEF Publishes, MemoryTypes
    <3> QED BY <1>2, <2>1, <3>1, EntrySame
  <2> QED BY <2>2, <2>3
<1>9. PublishInv'
  <2>1. Current(e)'  BY <1>2 DEF Current
  <2>2. busy'.new => clean'[k] # NULL
    <3>1. CASE dirty[k] # NULL  BY <1>2, <1>4, <1>5, <3>1 DEF MemoryTypes
    <3>2. CASE dirty[k] = NULL  BY <1>6, <3>2
    <3> QED BY <3>1, <3>2
  <2>3. ~busy'.new => entries'[k].readable
    <3> SUFFICES ASSUME ~busy'.new PROVE entries[k].readable  BY <1>2
    <3>1. dirty[k] = NULL  BY <1>6
    <3>2. ~Publishes(e)  BY <1>3 DEF Publishes
    <3>3. ~editors[e].written  BY <1>4, <3>1, <3>2 DEF Held
    <3> QED BY <1>2, <3>3
  <2>4. editors'[e].key = k  BY <1>1, <1>2
  <2>5. PICK d : d = busy'.arg  OBVIOUS
  <2>6. d = e  BY <1>6, <2>5
  <2> QED BY <1>6, <2>1, <2>2, <2>3, <2>4 DEF PublishInv, Current
<1>10. MemoryInv'
  <2>1. MemoryTypes'  BY <1>2, <1>5, <1>6, <1>7 DEF MemoryTypes, Ops
  <2>2. CountInv'  BY <1>2 DEF Inv, MemoryInv, CountInv
  <2>3. Lists(order', entries') /\ (~isOpen' => entries' = None)  BY <1>2 DEF Inv, MemoryInv
  <2> QED BY <1>8, <1>9, <2>1, <2>2, <2>3 DEF MemoryInv
<1>11. JournalInv'  BY <1>2, <1>3, <1>4, <1>6, JournalSame DEF Inv
<1> QED BY <1>10, <1>11 DEF Inv

LEMMA PublishKeeps ==
    ASSUME Inv, NEW e \in Edits, Publish(e)
    PROVE  Inv'
<1>1. PICK k : k = editors[e].key  OBVIOUS
<1>2. PICK n : n = NewLength(e)  OBVIOUS
<1> DEFINE x == [readable |-> TRUE, editor |-> NULL, length |-> n]
<1>3. /\ busy.op = "publish" /\ busy.arg = e
      /\ entries' = [entries EXCEPT ![k] = x]
      /\ size' = size - entries[k].length + n
      /\ fileCount' = IF busy.new THEN fileCount + 1 ELSE fileCount
      /\ redundant' = redundant + 1
      /\ Flushed(Append(buffer, CleanLine(k, n)))
      /\ Release(e) /\ busy' = IDLE
      /\ UNCHANGED <<isOpen, order, clean, dirty, calls, cut>>
  BY <1>1, <1>2 DEF Publish, PublishAs, OldLength, FilesAfter, fileVars
<1>4. cleanup' \in BOOLEAN  BY DEF Publish, PublishAs, SubmitIf
<1>5. /\ Current(e) /\ busy.new \in BOOLEAN /\ (busy.new => clean[k] # NULL)
      /\ ~busy.new => entries[k].readable
  BY <1>1, <1>3 DEF Inv, MemoryInv, PublishInv
<1>6. /\ isOpen /\ k \in Keys /\ entries[k] \in Entries /\ entries[k] # NULL
      /\ \A j \in Keys \ {k} : entries[j] # NULL /\ entries[j].editor # NULL =>
             entries[j].editor \in Edits \ {e}
  BY <1>1, <1>5, CurrentFacts
<1>7. MemoryTypes  BY DEF Inv, MemoryInv
<1>8. /\ n \in Lengths \cup {0} /\ n \in Nat
      /\ LengthOf(entries[k]) = entries[k].length /\ entries[k].length \in Nat
  <2>1. n = IF busy.new THEN clean[k] ELSE entries[k].length
    BY <1>1, <1>2 DEF NewLength, OldLength
  <2>2. clean[k] \in Lengths \cup {NULL}  BY <1>6, <1>7 DEF MemoryTypes
  <2>3. entries[k].length \in Lengths \cup {0} /\ entries[k].length \in Nat  BY <1>6, EntryTypes
  <2>4. n \in Lengths \cup {0}
    <3>1. CASE busy.new  BY <1>5, <2>1, <2>2, <3>1
    <3>2. CASE ~busy.new  BY <2>1, <2>3, <3>2
    <3> QED BY <3>1, <3>2
  <2>5. n \in Nat  BY <2>4, LengthsAssumption
  <2> QED BY <1>6, <2>3, <2>4, <2>5 DEF LengthOf
<1>9. x \in Entries /\ x # NULL
  <2>1. x \in Entries  BY <1>8 DEF Entries
  <2> QED BY <2>1, NullAssumption
<1>10. x.readable /\ x.editor = NULL /\ x.length = n  OBVIOUS
<1>11. LengthOf(x) = n /\ Has(x)  BY <1>9, <1>10 DEF LengthOf, Has
<1>12. x = [readable |-> TRUE, editor |-> NULL, length |-> n]  OBVIOUS
<1> HIDE DEF x
<1>13. entries'[k] = x /\ \A j \in Keys \ {k} : entries'[j] = entries[j]
  BY <1>3, <1>6, <1>7 DEF MemoryTypes
<1>14. JournalInv'
  <2> DEFINE l == CleanLine(k, n)
  <2>3. l \in Lines /\ l # Garbled /\ l.op = "CLEAN" /\ l.key = k /\ l.len = n
    BY <1>6, <1>8, LineKinds
  <2> HIDE DEF l
  <2>1. Logs(l, entries, entries')  BY <1>12, <1>13, <2>3 DEF Logs
  <2>2. busy'.op = "idle"  BY <1>3 DEF IDLE
  <2> QED BY <1>3, <1>6, <2>1, <2>2, LogStep DEF Inv, l
<1>15. EntryInv(k)'
  <2>1. entries'[k].editor = NULL  BY <1>10, <1>13
  <2>2. entries'[k].readable  BY <1>10, <1>13
  <2> QED BY <2>1, <2>2, Zenon DEF EntryInv
<1>16. /\ order' \in Seq(Keys) /\ Distinct(order')
       /\ Listed(order') = IF x = NULL THEN Cached(entries) \ {k} ELSE Cached(entries) \cup {k}
  <2>1. order \in Seq(Keys) /\ Lists(order, entries)  BY DEF Inv, MemoryInv, MemoryTypes
  <2>2. k \in Cached(entries)  BY <1>6 DEF Cached
  <2> QED BY <1>3, <1>9, <2>1, <2>2 DEF Lists
<1>17. size' = size - LengthOf(entries[k]) + LengthOf(x)  BY <1>3, <1>8, <1>11
<1>18. \/ fileCount' = fileCount + 1 /\ Has(x)
       \/ fileCount' = fileCount /\ (Has(entries[k]) \/ ~Has(x))
       \/ fileCount' = fileCount - 1 /\ Has(entries[k]) /\ ~Has(x)
  <2>1. CASE busy.new  BY <1>3, <1>11, <2>1
  <2>2. CASE ~busy.new
    <3>1. Has(entries[k])  BY <1>5, <1>6, <2>2 DEF Has
    <3> QED BY <1>3, <2>2, <3>1
  <2> QED BY <2>1, <2>2
<1>19. /\ editors' \in [Edits -> EditorStates \cup {NULL}]
       /\ \A d \in Edits \ {e} : editors'[d] = editors[d]
  BY <1>3, ReleaseTypes
<1>20. \A j \in Keys \ {k} : entries[j] # NULL /\ entries[j].editor # NULL =>
           /\ editors'[entries[j].editor] = editors[entries[j].editor]
           /\ ~Publishes(entries[j].editor)
  BY <1>3, <1>6, <1>19 DEF Publishes
<1>21. busy'.op \in Ops \ {"publish"}  BY <1>3 DEF Ops, IDLE
<1>22. /\ clean' \in [Keys -> Lengths \cup {NULL}] /\ dirty' \in [Keys -> Lengths \cup {NULL}]
       /\ \A j \in Keys \ {k} : dirty'[j] = dirty[j]
       /\ calls' = calls /\ redundant' = redundant + 1 /\ UNCHANGED <<isOpen, cut>>
  BY <1>3, <1>7 DEF MemoryTypes
<1>23. entries' = [entries EXCEPT ![k] = x]  BY <1>3, <1>12
<1> QED BY <1>4, <1>6, <1>9, <1>14, <1>15, <1>16, <1>17, <1>18, <1>19, <1>20, <1>21, <1>22,
           <1>23, EntryStep

(***************************************************************************)
(* Removals.                                                               *)
(***************************************************************************)
LEMMA RemoveOrTouchKeeps ==
    ASSUME Inv, NEW k \in Keys, isOpen, busy.op \in {"idle", "trim"}, RemoveOrTouch(k),
           UNCHANGED <<isOpen, busy, calls, cut>>,
           editors' \in [Edits -> EditorStates \cup {NULL}],
           \A j \in Keys : entries[j] # NULL /\ entries[j].editor # NULL =>
               editors'[entries[j].editor] = editors[entries[j].editor]
    PROVE  Inv'
<1>1. MemoryTypes /\ CountInv /\ EntryInv(k)  BY DEF Inv, MemoryInv
<1>2. order \in Seq(Keys) /\ Lists(order, entries)  BY DEF Inv, MemoryInv, MemoryTypes
<1>3. /\ Touched(order, k) \in Seq(Keys) /\ Distinct(Touched(order, k))
      /\ Listed(Touched(order, k)) = Cached(entries) \cup {k}
      /\ Without(order, k) \in Seq(Keys) /\ Distinct(Without(order, k))
      /\ Listed(Without(order, k)) = Cached(entries) \ {k}
  BY TouchedLists DEF Inv
<1>4. \A d : ~Publishes(d)  BY DEF Publishes
<1>5. busy'.op \in Ops \ {"publish"}  BY DEF Ops
<1>6. \A j \in Keys \ {k} : entries[j] # NULL /\ entries[j].editor # NULL =>
          /\ editors'[entries[j].editor] = editors[entries[j].editor]
          /\ ~Publishes(entries[j].editor)
  BY <1>4
<1>7. entries[k] \in Entries \cup {NULL}  BY <1>1 DEF MemoryTypes
<1>8. size \in Nat /\ LengthOf(entries[k]) \in Nat
  <2>1. entries \in [Keys -> Entries \cup {NULL}]  BY <1>1 DEF MemoryTypes
  <2>2. Total(entries) \in Nat /\ LengthOf(entries[k]) \in Nat  BY <2>1, CountsChange
  <2> QED BY <1>1, <2>2 DEF CountInv
<1>9. CASE Removable(k)
  <2>1. PICK x : x = NULL  OBVIOUS
  <2>2. /\ clean' = [clean EXCEPT ![k] = NULL] /\ dirty' = dirty
        /\ size' = size - entries[k].length /\ fileCount' = fileCount - 1
        /\ redundant' = redundant + 1 /\ Append1(RemoveLine(k))
        /\ entries' = [entries EXCEPT ![k] = x] /\ order' = Without(order, k)
    BY <1>9, <2>1 DEF RemoveOrTouch, RemoveEntry
  <2>3. cleanup' \in BOOLEAN  BY <1>9 DEF RemoveOrTouch, RemoveEntry, SubmitIf
  <2>4. entries[k] # NULL /\ entries[k].editor = NULL  BY <1>9 DEF Removable
  <2>5. Has(entries[k]) /\ ~Has(x)  BY <1>1, <2>1, <2>4 DEF EntryInv, Has
  <2>6. LengthOf(x) = 0 /\ LengthOf(entries[k]) = entries[k].length
    BY <2>1, <2>4 DEF LengthOf
  <2>7. entries'[k] = NULL /\ \A j \in Keys \ {k} : entries'[j] = entries[j]
    BY <1>1, <2>1, <2>2 DEF MemoryTypes
  <2>8. JournalInv'
    <3> DEFINE l == RemoveLine(k)
    <3>1. l \in Lines /\ l # Garbled /\ l.op = "REMOVE" /\ l.key = k  BY LineKinds
    <3> HIDE DEF l
    <3>2. Logs(l, entries, entries')  BY <2>7, <3>1 DEF Logs
    <3>3. Append1(l)  BY <2>2 DEF l
    <3> QED BY <3>2, <3>3, LogStep DEF Inv
  <2>9. EntryInv(k)'  BY <2>7, Zenon DEF EntryInv
  <2>10. /\ order' \in Seq(Keys) /\ Distinct(order')
         /\ Listed(order') = IF x = NULL THEN Cached(entries) \ {k} ELSE Cached(entries) \cup {k}
    BY <1>3, <2>1, <2>2
  <2>11. size' = size - LengthOf(entries[k]) + LengthOf(x)  BY <1>8, <2>2, <2>6
  <2>12. /\ clean' \in [Keys -> Lengths \cup {NULL}] /\ dirty' \in [Keys -> Lengths \cup {NULL}]
         /\ \A j \in Keys \ {k} : dirty'[j] = dirty[j]
    BY <1>1, <2>2 DEF MemoryTypes
  <2>13. x \in Entries \cup {NULL}  BY <2>1
  <2> QED BY <1>5, <1>6, <2>2, <2>3, <2>5, <2>8, <2>9, <2>10, <2>11, <2>12, <2>13, EntryStep
<1>10. CASE ~Removable(k)
  <2>1. /\ order' = IF entries[k] = NULL THEN order ELSE Touched(order, k)
        /\ UNCHANGED <<entries, size, fileCount, redundant, buffer, cleanup, clean, dirty,
                       journalVars>>
    BY <1>10 DEF RemoveOrTouch, countVars, fileVars
  <2>2. PICK x : x = entries[k]  OBVIOUS
  <2>3. entries' = [entries EXCEPT ![k] = x]  BY <1>1, <2>1, <2>2 DEF MemoryTypes
  <2>4. JournalInv'  BY <2>1, JournalSame DEF Inv
  <2>5. EntryInv(k)'  BY <1>1, <1>4, <2>1, EntrySame
  <2>6. /\ order' \in Seq(Keys) /\ Distinct(order')
        /\ Listed(order') = IF x = NULL THEN Cached(entries) \ {k} ELSE Cached(entries) \cup {k}
    <3>1. CASE x = NULL
      <4>1. Cached(entries) \ {k} = Cached(entries)  BY <2>2, <3>1 DEF Cached
      <4> QED BY <1>2, <2>1, <2>2, <3>1, <4>1 DEF Lists
    <3>2. CASE x # NULL  BY <1>3, <2>1, <2>2, <3>2
    <3> QED BY <3>1, <3>2
  <2>7. size' = size - LengthOf(entries[k]) + LengthOf(x)  BY <1>8, <2>1, <2>2
  <2>8. fileCount' = fileCount /\ (Has(entries[k]) \/ ~Has(x))  BY <2>1, <2>2
  <2>9. /\ cleanup' \in BOOLEAN
        /\ clean' \in [Keys -> Lengths \cup {NULL}] /\ dirty' \in [Keys -> Lengths \cup {NULL}]
        /\ \A j \in Keys \ {k} : dirty'[j] = dirty[j]
        /\ redundant' = redundant
    BY <1>1, <2>1 DEF MemoryTypes
  <2>10. x \in Entries \cup {NULL}  BY <1>7, <2>2
  <2> QED BY <1>5, <1>6, <2>3, <2>4, <2>5, <2>6, <2>7, <2>8, <2>9, <2>10, EntryStep
<1> QED BY <1>9, <1>10

LEMMA RemovalsKeep ==
    ASSUME Inv,
           \/ \E k \in Keys : Remove(k)
           \/ \E e \in Edits : RemoveFailed(e)
           \/ TrimEldest
    PROVE  Inv'
<1>1. MemoryTypes /\ \A j \in Keys : EntryInv(j)  BY DEF Inv, MemoryInv
<1>2. CASE \E k \in Keys : Remove(k)
  <2>1. PICK k \in Keys : Remove(k)  BY <1>2
  <2>2. isOpen /\ busy.op = "idle"  BY <2>1, ReadyOps DEF Remove, Ready
  <2>3. RemoveOrTouch(k) /\ UNCHANGED <<isOpen, busy, editors, calls, cut>>
    BY <2>1 DEF Remove
  <2> QED BY <1>1, <2>2, <2>3, RemoveOrTouchKeeps DEF MemoryTypes
<1>3. CASE \E e \in Edits : RemoveFailed(e)
  <2>1. PICK e \in Edits : RemoveFailed(e)  BY <1>3
  <2>2. isOpen /\ busy.op = "idle"  BY <2>1, ReadyOps DEF RemoveFailed, Ready
  <2>3. /\ editors[e] # NULL /\ editors[e].dropping
        /\ RemoveOrTouch(editors[e].key) /\ Release(e)
        /\ UNCHANGED <<isOpen, busy, calls, cut>>
    BY <2>1 DEF RemoveFailed
  <2>4. PICK k : k = editors[e].key  OBVIOUS
  <2>5. k \in Keys  BY <1>1, <2>3, <2>4 DEF MemoryTypes, EditorStates
  <2>6. /\ editors' \in [Edits -> EditorStates \cup {NULL}]
        /\ \A d \in Edits \ {e} : editors'[d] = editors[d]
    BY <2>3, ReleaseTypes
  <2>7. \A j \in Keys : entries[j] # NULL /\ entries[j].editor # NULL =>
            editors'[entries[j].editor] = editors[entries[j].editor]
    <3> SUFFICES ASSUME NEW j \in Keys, entries[j] # NULL, entries[j].editor # NULL
                 PROVE  editors'[entries[j].editor] = editors[entries[j].editor]
      OBVIOUS
    <3>1. Held(j, entries[j].editor)  BY <1>1 DEF EntryInv
    <3>2. entries[j].editor \in Edits \ {e}  BY <2>3, <3>1 DEF Held
    <3> QED BY <2>6, <3>2
  <2> QED BY <2>2, <2>3, <2>4, <2>5, <2>6, <2>7, RemoveOrTouchKeeps
<1>4. CASE TrimEldest
  <2>1. /\ busy.op = "trim" /\ order # <<>> /\ RemoveOrTouch(Head(order))
        /\ UNCHANGED <<isOpen, busy, editors, calls, cut>>
    BY <1>4 DEF TrimEldest
  <2>2. isOpen  BY <2>1, BusyOps
  <2>3. PICK k : k = Head(order)  OBVIOUS
  <2>4. k \in Keys  BY <1>1, <2>1, <2>3, HeadTailProperties DEF MemoryTypes
  <2> QED BY <1>1, <2>1, <2>2, <2>3, <2>4, RemoveOrTouchKeeps DEF MemoryTypes
<1> QED BY <1>2, <1>3, <1>4

(***************************************************************************)
(* The invariant, and what it says.                                        *)
(***************************************************************************)
LEMMA InitInv == Init => Inv
<1> SUFFICES ASSUME Init PROVE Inv  OBVIOUS
<1>1. /\ isOpen = FALSE /\ entries = None /\ order = <<>> /\ size = 0 /\ fileCount = 0
      /\ redundant = 0 /\ buffer = <<>> /\ cleanup = FALSE /\ busy = IDLE
      /\ editors = [e \in Edits |-> NULL] /\ clean = None /\ dirty = None
      /\ journal = NULL /\ journalTmp = NULL /\ journalBackup = NULL /\ torn = "none"
      /\ calls = 0 /\ cut = FALSE
  BY DEF Init
<1>2. busy.op = "idle"  BY <1>1 DEF IDLE
<1>3. MemoryTypes
  <2>1. None \in [Keys -> Lengths \cup {NULL}]  BY DEF None
  <2>2. isOpen \in BOOLEAN /\ cleanup \in BOOLEAN /\ cut \in BOOLEAN  BY <1>1
  <2>3. fileCount \in Nat /\ redundant \in Nat /\ calls \in 0..MaxCalls
    BY <1>1, BoundsAssumption
  <2>4. editors \in [Edits -> EditorStates \cup {NULL}]  BY <1>1
  <2> QED BY <1>1, <1>2, <2>1, <2>2, <2>3, <2>4, NoneCounts DEF MemoryTypes, Ops
<1>4. \A k \in Keys : EntryInv(k)  BY <1>1 DEF EntryInv, None
<1>5. CountInv /\ Lists(order, entries)  BY <1>1, NoneCounts DEF CountInv
<1>6. MemoryInv  BY <1>1, <1>2, <1>3, <1>4, <1>5 DEF MemoryInv, PublishInv
<1>7. JournalInv
  <2>1. buffer \in Seq(Lines) /\ ~Corrupt(buffer)  BY <1>1, EmptyTells
  <2> QED BY <1>1, <1>2, <2>1 DEF JournalInv, File
<1> QED BY <1>6, <1>7 DEF Inv

LEMMA StutterKeeps ==
    ASSUME Inv, UNCHANGED vars
    PROVE  Inv'
<1>1. UNCHANGED <<isOpen, entries, order, size, fileCount, redundant, buffer, cleanup, busy,
                  editors, clean, dirty, journalVars, calls, cut>>
  BY DEF vars, lruVars, countVars, fileVars
<1>2. MemoryTypes'  BY <1>1 DEF Inv, MemoryInv, MemoryTypes
<1>3. \A k \in Keys : EntryInv(k)'
  BY <1>1 DEF Inv, MemoryInv, EntryInv, Held, Publishes
<1>4. PublishInv' /\ CountInv'
  BY <1>1 DEF Inv, MemoryInv, PublishInv, CountInv, Current
<1>5. MemoryInv'  BY <1>1, <1>2, <1>3, <1>4 DEF Inv, MemoryInv
<1>6. JournalInv'  BY <1>1, JournalStays DEF Inv
<1> QED BY <1>5, <1>6 DEF Inv

LEMMA NextKeeps == Inv /\ [Next]_vars => Inv'
<1> SUFFICES ASSUME Inv, [Next]_vars PROVE Inv'  OBVIOUS
<1>1. CASE Call
  <2>1. CASE Open
    BY <2>1, OpenJournalKeeps, OpenNewKeeps, OpenCorruptKeeps DEF Open
  <2>2. CASE Flush \/ Close \/ Delete  BY <2>2, MonitorSteps DEF MonitorStep
  <2>3. CASE \E k \in Keys : Get(k)  BY <2>3, GetKeeps
  <2>4. CASE \E k \in Keys : Remove(k)  BY <2>4, RemovalsKeep
  <2>5. CASE \E k \in Keys, e \in Edits : Edit(e, k)  BY <2>5, EditKeeps
  <2>6. CASE \E e \in Edits, n \in Lengths, failed \in BOOLEAN : Write(e, n, failed)
    BY <2>6, WriteKeeps
  <2> QED BY <1>1, <2>1, <2>2, <2>3, <2>4, <2>5, <2>6 DEF Call
<1>2. CASE Cleanup  BY <1>2, MonitorSteps DEF MonitorStep
<1>3. CASE Inside
  <2>1. CASE \E e \in Edits : Publish(e)  BY <2>1, PublishKeeps
  <2>2. CASE CloseAborts  BY <2>2, CloseAbortsKeeps
  <2>3. CASE TrimEldest  BY <2>3, RemovalsKeep
  <2>4. CASE TrimThrows \/ EndCleanup  BY <2>4, MonitorSteps DEF MonitorStep
  <2>5. CASE EndFlush  BY <2>5, EndFlushKeeps
  <2>6. CASE EndClose  BY <2>6, EndCloseKeeps
  <2>7. CASE DeleteFile  BY <2>7, DeleteFileKeeps
  <2>8. CASE EndDelete  BY <2>8, EndDeleteKeeps
  <2>9. CASE Rebuild
    BY <2>9, RebuildWriteKeeps, RebuildBackupKeeps, RebuildSwapKeeps, RebuildEndKeeps
       DEF Rebuild
  <2> QED BY <1>3, <2>1, <2>2, <2>3, <2>4, <2>5, <2>6, <2>7, <2>8, <2>9 DEF Inside
<1>4. CASE \E e \in Edits : EndEdit(e)
  <2>1. PICK e \in Edits : EndEdit(e)  BY <1>4
  <2>2. CASE Commit(e)  BY <2>2, CommitKeeps
  <2>3. CASE CommitNothing(e) \/ CommitFailed(e) \/ Abort(e)  BY <2>3, EndFailedKeeps
  <2>4. CASE RemoveFailed(e)  BY <2>4, RemovalsKeep
  <2>5. CASE EndStale(e)  BY <2>5, EndStaleKeeps
  <2> QED BY <2>1, <2>2, <2>3, <2>4, <2>5 DEF EndEdit
<1>5. CASE Spill  BY <1>5, SpillKeeps
<1>6. CASE Crash  BY <1>6, CrashKeeps
<1>7. CASE UNCHANGED vars  BY <1>7, StutterKeeps
<1> QED BY <1>1, <1>2, <1>3, <1>4, <1>5, <1>6, <1>7 DEF Next

LEMMA InvHolds == Spec => []Inv
BY InitInv, NextKeeps, PTL DEF Spec

LEMMA InvCounts == Inv => CountsExact
<1> SUFFICES ASSUME Inv PROVE CountsExact  OBVIOUS
<1>1. MemoryTypes /\ CountInv  BY DEF Inv, MemoryInv
<1>2. JournalInv  BY DEF Inv
<1>3. size \in Nat
  <2>1. entries \in [Keys -> Entries \cup {NULL}]  BY <1>1 DEF MemoryTypes
  <2>2. Total(entries) \in Nat
    <3>1. CASE Keys = {}
      <4>1. entries = None  BY <2>1, <3>1 DEF None
      <4> QED BY <4>1, NoneCounts
    <3>2. CASE Keys # {}  BY <2>1, <3>2, CountsChange
    <3> QED BY <3>1, <3>2
  <2> QED BY <1>1, <2>2 DEF CountInv
<1>4. /\ buffer \in Seq(Lines) /\ torn \in {"none", "head", "dead"}
      /\ \A j \in {journal, journalTmp, journalBackup} : j = NULL \/ j \in Seq(Lines)
  BY <1>2 DEF JournalInv, File
<1>5. TypeOK  BY <1>1, <1>3, <1>4 DEF TypeOK, MemoryTypes
<1>6. SizeIsTotal  BY <1>1 DEF SizeIsTotal, CountInv
<1>7. FileCountCovers
  <2>1. Readables(entries) = {k \in Keys : entries[k] # NULL /\ entries[k].readable}
    BY DEF Readables, Has
  <2> QED BY <1>1, <2>1 DEF FileCountCovers, CountInv
<1> QED BY <1>5, <1>6, <1>7 DEF CountsExact

LEMMA InvMirrors == Inv => JournalMirrorsMemory
<1> DEFINE Unedited(k) == IF entries[k] # NULL /\ entries[k].editor = NULL
                          THEN entries[k] ELSE NULL
           m == ReadJournal(Log)
<1> SUFFICES ASSUME Inv, isOpen, torn # "dead", ~Corrupt(Log)
             PROVE  ProcessJournal(m).entries = [k \in Keys |-> Unedited(k)]
  BY DEF JournalMirrorsMemory, Log
<1>1. Tells(Log, entries)  BY DEF Inv, JournalInv
<1>2. Mirrors(entries, m.entries)  BY <1>1 DEF Tells
<1> HIDE DEF m
<1>3. ProcessJournal(m).entries = [k \in Keys |-> IF k \in Kept(m) THEN m.entries[k] ELSE NULL]
  BY DEF ProcessJournal
<1>4. ASSUME NEW k \in Keys
      PROVE  (IF k \in Kept(m) THEN m.entries[k] ELSE NULL) = Unedited(k)
  <2>1. JOURNALED # NULL  BY NullAssumption
  <2>2. k \in Kept(m) <=> m.entries[k] # NULL /\ m.entries[k].editor = NULL  BY DEF Kept
  <2>3. CASE entries[k] = NULL
    <3>1. m.entries[k] = NULL \/ m.entries[k].editor = JOURNALED  BY <1>2, <2>3 DEF Mirrors
    <3> QED BY <2>1, <2>2, <2>3, <3>1
  <2>4. CASE entries[k] # NULL /\ entries[k].editor = NULL
    <3>1. m.entries[k] = entries[k]  BY <1>2, <2>4 DEF Mirrors
    <3> QED BY <2>2, <2>4, <3>1
  <2>5. CASE entries[k] # NULL /\ entries[k].editor # NULL
    <3>1. m.entries[k].editor = JOURNALED  BY <1>2, <2>5 DEF Mirrors
    <3> QED BY <2>1, <2>2, <2>5, <3>1
  <2> QED BY <2>3, <2>4, <2>5
<1> QED BY <1>3, <1>4

\* The byte count that trimming compares with maxSize is the sum of the lengths
\* of the published values, and the file count is never less than their number,
\* through commits, failed edits, evictions, restarts and crashes.
THEOREM CountsStayExact == Spec => []CountsExact
BY InvHolds, InvCounts, PTL

\* The journal with its buffer, read back, gives the entries nobody edits: no
\* completed edit, removal or eviction is missing from it, during a rebuild too.
THEOREM JournalTellsAll == Spec => []JournalMirrorsMemory
BY InvHolds, InvMirrors, PTL

(***************************************************************************)
(* The files. What a restart would find, in the words of the journal as it *)
(* lies on the disk: r is what reading it makes of a key, x the entry in   *)
(* memory, c and d are the lengths of the two files. A commit under way    *)
(* has moved the new file, and its line is not yet written. `sure` is      *)
(* false once a deletion of the directory may have been cut short.         *)
(***************************************************************************)
Moved(k) == busy.op = "publish" /\ busy.new /\ editors[busy.arg].key = k

FilesOf(x, c, d, moved, sure) ==
    /\ sure /\ d # NULL => x # NULL /\ x.editor # NULL
    /\ sure /\ (x = NULL \/ (~x.readable /\ ~moved)) => c = NULL
    /\ x # NULL /\ x.readable /\ ~moved => c \in {NULL, x.length}

Fits(r, x, c, d, sure) ==
    /\ sure /\ d # NULL => r # NULL /\ r.editor = JOURNALED
    /\ sure /\ c # NULL => r # NULL
    /\ r # NULL /\ r.editor = NULL /\ c # NULL => c = r.length
    /\ x # NULL /\ x.editor # NULL => r # NULL /\ r.editor = JOURNALED

MemFiles ==
    isOpen => \A k \in Keys : FilesOf(entries[k], clean[k], dirty[k], Moved(k), ~cut)

DiskFits ==
    ~Corrupt(OnDisk) =>
        \A k \in Keys : Fits(ReadJournal(OnDisk).entries[k], entries[k], clean[k], dirty[k],
                             ~cut /\ busy.op # "deleting")

PublishFiles == busy.op = "publish" => dirty[editors[busy.arg].key] = NULL

\* Of the lines that wait in the buffer none brings an entry back.
Waits(l) == l.op \in {"READ", "REMOVE"} /\ (l.op = "REMOVE" => entries[l.key] = NULL)
BufferInv == \A i \in DOMAIN buffer : Waits(buffer[i])

BackupInv ==
    journalBackup # NULL => IF isOpen THEN busy.op \in {"swap", "unback"} ELSE busy.op = "idle"

FileInv == MemFiles /\ DiskFits /\ PublishFiles /\ BufferInv /\ BackupInv

\* Where the journal mirrors the entries, it fits the files as they do.
LEMMA MirrorsFit ==
    ASSUME NEW e, NEW r, NEW c, NEW d, NEW sure \in BOOLEAN, Mirrors(e, r),
           \A k \in Keys : e[k] # NULL /\ e[k].editor = NULL => e[k].readable,
           \A k \in Keys : FilesOf(e[k], c[k], d[k], FALSE, sure)
    PROVE  \A k \in Keys : Fits(r[k], e[k], c[k], d[k], sure)
<1> SUFFICES ASSUME NEW k \in Keys PROVE Fits(r[k], e[k], c[k], d[k], sure)  OBVIOUS
<1>1. JOURNALED # NULL  BY NullAssumption
<1>2. /\ sure /\ d[k] # NULL => e[k] # NULL /\ e[k].editor # NULL
      /\ sure /\ e[k] = NULL => c[k] = NULL
      /\ e[k] # NULL /\ e[k].readable => c[k] \in {NULL, e[k].length}
  BY DEF FilesOf
<1>3. CASE e[k] = NULL
  <2>1. r[k] = NULL \/ r[k].editor = JOURNALED  BY <1>3 DEF Mirrors
  <2> QED BY <1>1, <1>2, <1>3, <2>1 DEF Fits
<1>4. CASE e[k] # NULL /\ e[k].editor = NULL
  <2>1. r[k] = e[k]  BY <1>4 DEF Mirrors
  <2>2. e[k].readable  BY <1>4
  <2> QED BY <1>2, <1>4, <2>1, <2>2 DEF Fits
<1>5. CASE e[k] # NULL /\ e[k].editor # NULL
  <2>1. r[k] # NULL /\ r[k].editor = JOURNALED  BY <1>5 DEF Mirrors
  <2> QED BY <1>1, <2>1 DEF Fits
<1> QED BY <1>3, <1>4, <1>5

\* It still fits when files go and edits end.
LEMMA DiskSame ==
    ASSUME DiskFits, OnDisk' = OnDisk,
           ~cut' /\ busy'.op # "deleting" => ~cut /\ busy.op # "deleting",
           \A k \in Keys : /\ \/ entries'[k] = entries[k] \/ entries'[k] = NULL
                              \/ entries'[k].editor = NULL
                           /\ clean'[k] = clean[k] \/ clean'[k] = NULL
                           /\ dirty'[k] = dirty[k] \/ dirty'[k] = NULL
    PROVE  DiskFits'
<1> SUFFICES ASSUME ~Corrupt(OnDisk), NEW k \in Keys
             PROVE  Fits(ReadJournal(OnDisk).entries[k], entries'[k], clean'[k], dirty'[k],
                         ~cut' /\ busy'.op # "deleting")
  BY DEF DiskFits
<1>1. PICK r : r = ReadJournal(OnDisk).entries[k]  OBVIOUS
<1>2. Fits(r, entries[k], clean[k], dirty[k], ~cut /\ busy.op # "deleting")
  BY <1>1 DEF DiskFits
<1>3. Fits(r, entries'[k], clean'[k], dirty'[k], ~cut' /\ busy'.op # "deleting")
  BY <1>2 DEF Fits
<1> QED BY <1>1, <1>3

\* After everything was written out the journal fits if the entries do.
LEMMA DiskTold ==
    ASSUME Inv', MemFiles', isOpen', torn' # "dead", buffer' = <<>>, busy'.op # "publish"
    PROVE  DiskFits'
<1>1. Tells(Log', entries')  BY DEF Inv, JournalInv
<1>2. Log' = OnDisk'
  <2>1. OnDisk' \in Seq(Lines)
    <3>1. File(journal)' /\ File(journalBackup)'  BY DEF Inv, JournalInv
    <3>2. <<>> \in Seq(Lines)  BY EmptyTells
    <3> QED BY <3>1, <3>2 DEF File, OnDisk, Found
  <2> QED BY <2>1, ConcatEmptySeq DEF Log
<1> SUFFICES ASSUME ~Corrupt(OnDisk')
             PROVE  \A k \in Keys : Fits(ReadJournal(OnDisk').entries[k], entries'[k], clean'[k],
                                         dirty'[k], ~cut' /\ busy'.op # "deleting")
  BY DEF DiskFits
<1>3. PICK r : r = ReadJournal(OnDisk').entries  OBVIOUS
<1>4. Mirrors(entries', r)  BY <1>1, <1>2, <1>3 DEF Tells
<1>5. \A k \in Keys : entries'[k] # NULL /\ entries'[k].editor = NULL => entries'[k].readable
  BY DEF Inv, MemoryInv, EntryInv
<1>6. PICK sure \in BOOLEAN : sure <=> ~cut' /\ busy'.op # "deleting"  OBVIOUS
<1>7. \A k \in Keys : FilesOf(entries'[k], clean'[k], dirty'[k], FALSE, sure)
  <2> SUFFICES ASSUME NEW k \in Keys PROVE FilesOf(entries'[k], clean'[k], dirty'[k], FALSE, sure)
    OBVIOUS
  <2>1. FilesOf(entries'[k], clean'[k], dirty'[k], Moved(k)', ~cut')  BY DEF MemFiles
  <2>2. ~Moved(k)'  BY DEF Moved
  <2> QED BY <1>6, <2>1, <2>2 DEF FilesOf
<1>8. \A k \in Keys : Fits(r[k], entries'[k], clean'[k], dirty'[k], sure)
  BY <1>4, <1>5, <1>7, MirrorsFit
<1> QED BY <1>3, <1>6, <1>8 DEF Fits

\* One key's entry and files change.
LEMMA FilesStep ==
    ASSUME MemFiles, isOpen, cut' = cut, NEW k \in Keys,
           \A j \in Keys \ {k} : /\ entries'[j] = entries[j] /\ clean'[j] = clean[j]
                                 /\ dirty'[j] = dirty[j] /\ ~Moved(j) /\ ~Moved(j)',
           FilesOf(entries'[k], clean'[k], dirty'[k], Moved(k)', ~cut)
    PROVE  MemFiles'
<1> SUFFICES ASSUME NEW j \in Keys
             PROVE  FilesOf(entries'[j], clean'[j], dirty'[j], Moved(j)', ~cut')
  BY DEF MemFiles
<1>1. CASE j = k  BY <1>1
<1>2. CASE j # k
  <2>1. FilesOf(entries[j], clean[j], dirty[j], Moved(j), ~cut)  BY DEF MemFiles
  <2>2. /\ entries'[j] = entries[j] /\ clean'[j] = clean[j] /\ dirty'[j] = dirty[j]
        /\ ~Moved(j) /\ ~Moved(j)'
    BY <1>2
  <2> QED BY <2>1, <2>2 DEF FilesOf
<1> QED BY <1>1, <1>2

LEMMA MemSame ==
    ASSUME MemFiles, busy.op # "publish", busy'.op # "publish",
           UNCHANGED <<isOpen, entries, clean, dirty, cut>>
    PROVE  MemFiles'
<1> SUFFICES ASSUME isOpen, NEW k \in Keys
             PROVE  FilesOf(entries[k], clean[k], dirty[k], Moved(k)', ~cut)
  BY DEF MemFiles
<1>1. FilesOf(entries[k], clean[k], dirty[k], Moved(k), ~cut)  BY DEF MemFiles
<1>2. ~Moved(k) /\ ~Moved(k)'  BY DEF Moved
<1> QED BY <1>1, <1>2 DEF FilesOf

\* Nothing but the memory moves.
LEMMA CalmStep ==
    ASSUME Inv, FileInv, BufferInv', busy.op \notin {"publish", "swap", "unback", "deleting"},
           busy'.op \notin {"publish", "deleting"}, isOpen \/ busy'.op = "idle",
           UNCHANGED <<isOpen, entries, clean, dirty, cut, journalVars>>
    PROVE  FileInv'
<1>1. UNCHANGED <<journal, journalTmp, journalBackup, torn>>  BY DEF journalVars
<1>2. OnDisk' = OnDisk  BY <1>1 DEF OnDisk, Found
<1>3. DiskFits'
  <2>1. DiskFits  BY DEF FileInv
  <2> QED BY <1>2, <2>1, DiskSame
<1>4. MemFiles'  BY MemSame DEF FileInv
<1>5. BackupInv'  BY <1>1 DEF FileInv, BackupInv
<1>6. PublishFiles'  BY DEF PublishFiles
<1> QED BY <1>3, <1>4, <1>5, <1>6 DEF FileInv

\* A change of the entries is in the journal on the disk.
LEMMA FlushedStep ==
    ASSUME Inv', FileInv, MemFiles', isOpen, isOpen', torn' # "dead", buffer' = <<>>,
           busy.op \notin {"swap", "unback"}, busy'.op # "publish",
           journalBackup' = journalBackup
    PROVE  FileInv'
<1>1. DiskFits'  BY DiskTold
<1>2. BackupInv' /\ PublishFiles' /\ BufferInv'
  BY DEF FileInv, BackupInv, PublishFiles, BufferInv
<1> QED BY <1>1, <1>2 DEF FileInv

\* Lines that wait change nothing of what was read, but what they remove.
LEMMA WaitingRead ==
    ASSUME NEW s \in Seq(Lines), NEW t \in Seq(Lines), ~Corrupt(s \o t), SoundJournal(s \o t),
           \A i \in DOMAIN t : t[i].op \in {"READ", "REMOVE"}, NEW k \in Keys
    PROVE  \/ ReadJournal(s \o t).entries[k] = ReadJournal(s).entries[k]
           \/ /\ ReadJournal(s \o t).entries[k] = NULL
              /\ \E i \in DOMAIN t : t[i].op = "REMOVE" /\ t[i].key = k
<1> DEFINE c == s \o t
           n == Len(s)
           m == Len(t)
           f == Readings(c)
           Removed == \E i \in DOMAIN t : t[i].op = "REMOVE" /\ t[i].key = k
           G == {i \in Nat : i <= m => \/ f[n + i].entries[k] = f[n].entries[k]
                                       \/ f[n + i].entries[k] = NULL /\ Removed}
<1>1. /\ c \in Seq(Lines) /\ Len(c) = n + m
      /\ \A i \in 1..(n + m) : c[i] = IF i <= n THEN s[i] ELSE t[i - n]
  BY ConcatProperties
<1>2. n \in Nat /\ m \in Nat /\ DOMAIN c = 1..(n + m) /\ DOMAIN t = 1..m
  BY <1>1, LenProperties
<1>3. ~Corrupt(c) /\ SoundJournal(c)  OBVIOUS
<1> HIDE DEF c
<1>4. ReadJournal(s) = f[n]
  <2>1. n <= Len(s) /\ n <= Len(c) /\ n \in 0..n  BY <1>1, <1>2
  <2>2. \A i \in 1..n : s[i] = c[i]  BY <1>1, <1>2
  <2> HIDE DEF n, f
  <2>3. \A i \in 0..n : Readings(s)[i] = Readings(c)[i]  BY <1>1, <1>2, <2>1, <2>2, ReadingsAgree
  <2> QED BY <2>1, <2>3 DEF ReadJournal, n, f
<1>5. ReadJournal(c) = f[n + m]  BY <1>1 DEF ReadJournal
<1>6. \A i \in 1..(n + m) : f[i] = ReadJournalLine(c[i])[f[i - 1]]
  <2>1. \A i \in 1..Len(c) : f[i] = ReadJournalLine(c[i])[f[i - 1]]  BY <1>1, ReadingsStep
  <2> QED BY <1>1, <2>1
<1>7. \A i \in 0..(n + m) : /\ f[i] \in JournalStates /\ Lists(f[i].order, f[i].entries)
                            /\ Sound(f[i].entries)
  BY <1>1, <1>3, ReadingsKeep DEF SoundJournal
<1>8. \A i \in 1..(n + m) : c[i] \in Lines /\ c[i] # Garbled  BY <1>1, <1>2, <1>3 DEF Corrupt
<1>12. \A i \in 1..(n + m) : ~ i <= n => c[i] = t[i - n]  BY <1>1, <1>2
<1> HIDE DEF f, n, m
<1>9. \A i \in Nat : i \in G => i + 1 \in G
  <2> SUFFICES ASSUME NEW i \in Nat, i \in G, i + 1 <= m PROVE i + 1 \in G
    OBVIOUS
  <2>0. PICK u : u = n + (i + 1)  OBVIOUS
  <2> DEFINE l == t[i + 1]
             p == f[u - 1]
             q == f[u]
  <2>1. /\ u \in 1..(n + m) /\ u \in 0..(n + m) /\ u - 1 \in 0..(n + m) /\ u - 1 = n + i
        /\ ~ u <= n /\ u - n = i + 1 /\ i + 1 \in DOMAIN t /\ i <= m
    BY <1>2, <2>0
  <2>2. c[u] = l
    <3>1. c[u] = t[u - n]  BY <1>12, <2>1
    <3> QED BY <2>1, <3>1
  <2>3. q = ReadJournalLine(l)[p]  BY <1>6, <2>1, <2>2
  <2>4. l \in Lines /\ l # Garbled /\ l.op \in {"READ", "REMOVE"}  BY <1>8, <2>1, <2>2
  <2>5. p \in JournalStates /\ Lists(p.order, p.entries) /\ Sound(q.entries)  BY <1>7, <2>1
  <2>6. p.entries[k] = f[n].entries[k] \/ (p.entries[k] = NULL /\ Removed)  BY <2>1
  <2>7. l.op = "REMOVE" /\ l.key = k => Removed  BY <2>1
  <2> HIDE DEF l, p, q, Removed
  <2>8. /\ q.entries[l.key] = EntryAfter(p.entries[l.key], l)
        /\ \A j \in Keys \ {l.key} : q.entries[j] = p.entries[j]
    BY <2>3, <2>4, <2>5, LineRead
  <2>9. q.entries[k] = p.entries[k] \/ (q.entries[k] = NULL /\ Removed)
    <3>1. CASE l.key # k  BY <2>8, <3>1
    <3>2. CASE l.key = k
      <4>1. PICK x : x = p.entries[k]  OBVIOUS
      <4>2. x \in Journaled \cup {NULL}  BY <2>5, <4>1 DEF JournalStates
      <4>3. /\ q.entries[k] = EntryAfter(x, l)
            /\ l.op = "REMOVE" => EntryAfter(x, l) = NULL
            /\ l.op = "READ" /\ x # NULL => EntryAfter(x, l) = x
            /\ l.op = "READ" => EntryAfter(x, l) # NULL
        BY <2>4, <2>8, <3>2, <4>1, <4>2, EntryRead
      <4>4. CASE l.op = "REMOVE"  BY <2>7, <3>2, <4>3, <4>4
      <4>5. CASE l.op = "READ" /\ x # NULL  BY <4>1, <4>3, <4>5
      <4>6. CASE l.op = "READ" /\ x = NULL
        <5>1. q.entries[k] = Fresh  BY <4>3, <4>6 DEF EntryAfter
        <5>2. Fresh.editor = NULL /\ ~Fresh.readable  BY DEF Fresh
        <5>3. q.entries[k] # NULL  BY <4>3, <4>6
        <5> QED BY <2>5, <5>1, <5>2, <5>3 DEF Sound
      <4> QED BY <2>4, <4>4, <4>5, <4>6
    <3> QED BY <3>1, <3>2
  <2>10. q.entries[k] = f[n].entries[k] \/ (q.entries[k] = NULL /\ Removed)  BY <2>6, <2>9
  <2> QED BY <2>0, <2>10 DEF q
<1>10. m \in G
  <2>1. 0 \in G
    <3>1. n + 0 = n  BY <1>2
    <3> QED BY <3>1
  <2> HIDE DEF G
  <2>2. Nat \subseteq G  BY <1>9, <2>1, SetInduction
  <2> QED BY <1>2, <2>2
<1>11. f[n + m].entries[k] = f[n].entries[k] \/ (f[n + m].entries[k] = NULL /\ Removed)
  BY <1>2, <1>10
<1> QED BY <1>4, <1>5, <1>11 DEF c

\* One more line waits.
LEMMA BufferAppend ==
    ASSUME BufferInv, buffer \in Seq(Lines), NEW l \in Lines, buffer' = Append(buffer, l),
           l.op \in {"READ", "REMOVE"}, l.op = "REMOVE" => entries'[l.key] = NULL,
           \A j \in Keys : entries[j] = NULL => entries'[j] = NULL,
           ~Corrupt(buffer)
    PROVE  BufferInv'
<1> DEFINE n == Len(buffer)
<1>1. n \in Nat /\ Len(buffer') = n + 1 /\ DOMAIN buffer = 1..n /\ DOMAIN buffer' = 1..(n + 1)
      /\ (\A i \in 1..n : buffer'[i] = buffer[i]) /\ buffer'[n + 1] = l
  BY AppendProperties, LenProperties
<1> HIDE DEF n
<1> SUFFICES ASSUME NEW i \in 1..(n + 1), NEW b, b = buffer'[i]
             PROVE  b.op \in {"READ", "REMOVE"} /\ (b.op = "REMOVE" => entries'[b.key] = NULL)
  BY <1>1 DEF BufferInv, Waits
<1>2. b = buffer'[i]  OBVIOUS
<1>3. CASE i \in 1..n
  <2>1. b = buffer[i] /\ Waits(b)  BY <1>1, <1>2, <1>3 DEF BufferInv
  <2>2. b.key \in Keys
    <3>1. b \in Lines /\ b # Garbled  BY <1>1, <1>3, <2>1 DEF Corrupt
    <3> QED BY <3>1 DEF Lines
  <2> QED BY <1>2, <2>1, <2>2 DEF Waits
<1>4. CASE i = n + 1  BY <1>1, <1>2, <1>4 DEF Waits
<1> QED BY <1>1, <1>3, <1>4

LEMMA BufferSame ==
    ASSUME BufferInv, buffer \in Seq(Lines), ~Corrupt(buffer), buffer' = buffer,
           \A j \in Keys : entries[j] = NULL => entries'[j] = NULL
    PROVE  BufferInv'
<1> SUFFICES ASSUME NEW i \in DOMAIN buffer, NEW b, b = buffer[i]
             PROVE  b.op \in {"READ", "REMOVE"} /\ (b.op = "REMOVE" => entries'[b.key] = NULL)
  BY DEF BufferInv, Waits
<1>1. Waits(b)  BY DEF BufferInv
<1>2. b \in Lines /\ b # Garbled  BY DEF Corrupt
<1>3. b.key \in Keys  BY <1>1, <1>2 DEF Lines
<1> QED BY <1>1, <1>3 DEF Waits

\* A line is written out with all that waited.
LEMMA FlushedAll ==
    ASSUME Inv, NEW l \in Lines, Flushed(Append(buffer, l))
    PROVE  torn' = "none" /\ buffer' = <<>> /\ journalBackup' = journalBackup
<1> DEFINE b == Append(buffer, l)
<1>1. b # <<>>
  <2>1. b \in Seq(Lines) /\ Len(b) = Len(buffer) + 1 /\ Len(buffer) \in Nat
    BY AppendProperties, LenProperties DEF Inv, JournalInv
  <2> HIDE DEF b
  <2> QED BY <2>1, EmptySeq
<1> QED BY <1>1 DEF Flushed

LEMMA NoBackup ==
    ASSUME FileInv, isOpen, busy.op \notin {"swap", "unback"}
    PROVE  journalBackup = NULL
BY DEF FileInv, BackupInv

\* Lines of the buffer reach the file: those that name what is gone were there
\* to say so.
LEMMA SpillFiles ==
    ASSUME Inv, Inv', FileInv, Spill
    PROVE  FileInv'
<1> DEFINE n == Len(buffer)
           b == SubSeq(buffer, 1, n - 1)
           x == buffer[n]
<1>1. /\ isOpen /\ busy = IDLE /\ n > 0 /\ (n > 1 \/ torn = "none")
      /\ journal' = Written(b) /\ buffer' = <<x>>
      /\ UNCHANGED <<isOpen, entries, clean, dirty, busy, journalTmp, journalBackup, cut>>
  BY DEF Spill, Ready, Idle, lruVars, fileVars
<1>2. buffer \in Seq(Lines) /\ n \in Nat /\ ~Corrupt(buffer) /\ DOMAIN buffer = 1..n
  BY LenProperties DEF Inv, JournalInv
<1>3. busy.op = "idle" /\ busy'.op = "idle"  BY <1>1 DEF IDLE
<1>4. journal \in Seq(Lines) /\ journal # NULL /\ OnDisk = journal
  BY <1>1, <1>3, OpenLog DEF Inv
<1>5. /\ b \in Seq(Lines) /\ Len(b) = n - 1 /\ DOMAIN b = 1..(n - 1)
      /\ \A i \in 1..(n - 1) : b[i] = buffer[i]
  <2>1. \A j \in 1..(n - 1) : j \in 1..Len(buffer)  BY <1>1, <1>2
  <2>2. b \in Seq(Lines) /\ Len(b) = n - 1 /\ \A i \in 1..(n - 1) : b[i] = buffer[i]
    BY <1>1, <1>2, <2>1, SubSeqProperties
  <2> HIDE DEF b
  <2> QED BY <2>2, LenProperties
<1>6. Waits(x) /\ \A i \in DOMAIN b : Waits(b[i])
  <2>1. n \in 1..n /\ \A i \in 1..(n - 1) : i \in 1..n  BY <1>1, <1>2
  <2>2. \A i \in 1..n : Waits(buffer[i])  BY <1>2 DEF FileInv, BufferInv
  <2> HIDE DEF b
  <2> QED BY <1>5, <2>1, <2>2
<1> HIDE DEF b
<1>7. b # <<>> <=> n > 1
  <2>1. b # <<>> <=> Len(b) # 0  BY <1>5, EmptySeq
  <2> QED BY <1>1, <1>2, <1>5, <2>1
<1>8. /\ journal' \in Seq(Lines)
      /\ torn # "dead" => journal' = journal \o b
      /\ torn = "dead" => Corrupt(journal')
  <2>1. torn = "dead" => b # <<>>  BY <1>1, <1>7
  <2> QED BY <1>1, <1>4, <1>5, <2>1, WrittenLines
<1>9. OnDisk' = journal'
  <2>1. journal' # NULL  BY <1>8, NullAssumption
  <2> QED BY <2>1 DEF OnDisk, Found
<1>10. BufferInv'
  <2> SUFFICES ASSUME NEW i \in DOMAIN buffer', NEW y, y = buffer'[i]
               PROVE  y.op \in {"READ", "REMOVE"} /\ (y.op = "REMOVE" => entries'[y.key] = NULL)
    BY DEF BufferInv, Waits
  <2>1. y = x
    <3> HIDE DEF x
    <3> QED BY <1>1
  <2> HIDE DEF x
  <2> QED BY <1>1, <1>6, <2>1 DEF Waits
<1>11. MemFiles'  BY <1>1, <1>3, MemSame DEF FileInv
<1>12. DiskFits'
  <2> SUFFICES ASSUME ~Corrupt(journal'), NEW k \in Keys
               PROVE  Fits(ReadJournal(journal').entries[k], entries'[k], clean'[k], dirty'[k],
                           ~cut' /\ busy'.op # "deleting")
    BY <1>9 DEF DiskFits
  <2>1. journal' = journal \o b  BY <1>8
  <2>2. ~Corrupt(journal)  BY <1>4, <1>5, <2>1, ReadConcat
  <2>3. SoundJournal(journal')
    <3>1. File(journal)'  BY DEF Inv, JournalInv
    <3> QED BY <1>8, <3>1, NullAssumption DEF File
  <2>4. PICK r : r = ReadJournal(journal).entries[k]  OBVIOUS
  <2>5. PICK q : q = ReadJournal(journal').entries[k]  OBVIOUS
  <2>6. \/ q = r
        \/ q = NULL /\ \E i \in DOMAIN b : b[i].op = "REMOVE" /\ b[i].key = k
    <3>1. PICK s : s = journal  OBVIOUS
    <3>2. s \o b = journal'  BY <2>1, <3>1
    <3>3. \A i \in DOMAIN b : b[i].op \in {"READ", "REMOVE"}  BY <1>6 DEF Waits
    <3>4. s \in Seq(Lines) /\ ~Corrupt(s \o b) /\ SoundJournal(s \o b)
      BY <1>4, <2>3, <3>1, <3>2
    <3>5. \/ ReadJournal(s \o b).entries[k] = ReadJournal(s).entries[k]
          \/ /\ ReadJournal(s \o b).entries[k] = NULL
             /\ \E i \in DOMAIN b : b[i].op = "REMOVE" /\ b[i].key = k
      BY <1>5, <3>3, <3>4, WaitingRead
    <3> QED BY <2>4, <2>5, <3>1, <3>2, <3>5
  <2>7. Fits(r, entries[k], clean[k], dirty[k], ~cut /\ busy.op # "deleting")
    BY <1>4, <2>2, <2>4 DEF FileInv, DiskFits
  <2>8. CASE q = r  BY <1>1, <2>5, <2>7, <2>8
  <2>9. CASE q = NULL /\ \E i \in DOMAIN b : b[i].op = "REMOVE" /\ b[i].key = k
    <3>1. entries[k] = NULL  BY <1>6, <2>9 DEF Waits
    <3>2. FilesOf(entries[k], clean[k], dirty[k], Moved(k), ~cut)  BY <1>1 DEF FileInv, MemFiles
    <3> QED BY <1>1, <2>5, <2>9, <3>1, <3>2 DEF Fits, FilesOf
  <2> QED BY <2>6, <2>8, <2>9
<1>13. PublishFiles' /\ BackupInv'
  BY <1>1, <1>3 DEF PublishFiles, BackupInv, FileInv
<1> QED BY <1>10, <1>11, <1>12, <1>13 DEF FileInv

(***************************************************************************)
(* Steps that leave the files alone.                                       *)
(***************************************************************************)
LEMMA CalmSame ==
    ASSUME Inv, FileInv, busy.op \notin {"publish", "swap", "unback", "deleting"},
           busy'.op \notin {"publish", "deleting"}, isOpen \/ busy'.op = "idle",
           UNCHANGED <<isOpen, entries, buffer, clean, dirty, cut, journalVars>>
    PROVE  FileInv'
<1>1. BufferInv'  BY BufferSame DEF Inv, JournalInv, FileInv
<1> QED BY <1>1, CalmStep

LEMMA MonitorFiles ==
    ASSUME Inv, FileInv, MonitorStep
    PROVE  FileInv'
<1>1. /\ isOpen /\ busy.op \in {"idle", "trim"}
      /\ busy'.op \in {"idle", "trim", "abort", "rebuild"}
      /\ UNCHANGED <<isOpen, lruVars, buffer, fileVars, journalVars, cut>>
  BY MonitorOnly
<1> QED BY <1>1, CalmSame DEF lruVars, fileVars

LEMMA EndStaleFiles ==
    ASSUME Inv, FileInv, NEW e \in Edits, EndStale(e)
    PROVE  FileInv'
<1>1. Idle /\ UNCHANGED <<isOpen, entries, buffer, busy, clean, dirty, journalVars, cut>>
  BY DEF EndStale, lruVars, fileVars
<1> QED BY <1>1, ReadyOps, CalmSame

LEMMA GetFiles ==
    ASSUME Inv, FileInv, NEW k \in Keys, Get(k)
    PROVE  FileInv'
<1>1. /\ isOpen /\ Idle /\ entries[k] # NULL
      /\ UNCHANGED <<isOpen, entries, busy, clean, dirty, cut>>
  BY DEF Get, Ready, Called, fileVars
<1>2. busy.op = "idle"  BY <1>1, ReadyOps
<1>3. buffer \in Seq(Lines) /\ ~Corrupt(buffer) /\ BufferInv  BY DEF Inv, JournalInv, FileInv
<1>4. CASE Append1(ReadLine(k))
  <2> DEFINE l == ReadLine(k)
  <2>1. l \in Lines /\ l.op = "READ"  BY LineKinds
  <2>2. buffer' = Append(buffer, l) /\ UNCHANGED journalVars  BY <1>4 DEF Append1
  <2> HIDE DEF l
  <2>3. BufferInv'  BY <1>1, <1>3, <2>1, <2>2, BufferAppend
  <2> QED BY <1>1, <1>2, <2>2, <2>3, CalmStep
<1>5. CASE UNCHANGED <<buffer, journalVars>>  BY <1>1, <1>2, <1>5, CalmSame
<1> QED BY <1>4, <1>5 DEF Get

(***************************************************************************)
(* Steps that flush a line.                                                *)
(***************************************************************************)
LEMMA EntryFiles ==
    ASSUME Inv, Inv', FileInv, isOpen, UNCHANGED <<isOpen, cut>>,
           NEW k \in Keys, NEW l \in Lines, Flushed(Append(buffer, l)),
           busy.op \notin {"swap", "unback"}, busy'.op # "publish",
           \A j \in Keys \ {k} : /\ entries'[j] = entries[j] /\ clean'[j] = clean[j]
                                 /\ dirty'[j] = dirty[j] /\ ~Moved(j),
           FilesOf(entries'[k], clean'[k], dirty'[k], FALSE, ~cut)
    PROVE  FileInv'
<1>1. torn' = "none" /\ buffer' = <<>> /\ journalBackup' = journalBackup  BY FlushedAll
<1>2. \A j \in Keys : ~Moved(j)'  BY DEF Moved
<1>3. FilesOf(entries'[k], clean'[k], dirty'[k], Moved(k)', ~cut)  BY <1>2 DEF FilesOf
<1>4. MemFiles'  BY <1>2, <1>3, FilesStep DEF FileInv
<1> QED BY <1>1, <1>4, FlushedStep

LEMMA EditFiles ==
    ASSUME Inv, Inv', FileInv, NEW e \in Edits, NEW k \in Keys, Edit(e, k)
    PROVE  FileInv'
<1> DEFINE old == IF entries[k] = NULL THEN Fresh ELSE entries[k]
           x == [old EXCEPT !.editor = e]
           l == DirtyLine(k)
<1>1. isOpen /\ Idle /\ UNCHANGED <<isOpen, busy, clean, dirty, cut>>
  BY DEF Edit, Ready, Called, fileVars
<1>2. busy.op = "idle"  BY <1>1, ReadyOps
<1>3. MemoryTypes  BY DEF Inv, MemoryInv
<1>4. \/ UNCHANGED <<entries, buffer, journalVars>>
      \/ entries' = [entries EXCEPT ![k] = x] /\ Flushed(Append(buffer, l))
  BY DEF Edit, DirtyLogged
<1>5. CASE UNCHANGED <<entries, buffer, journalVars>>  BY <1>1, <1>2, <1>5, CalmSame
<1>6. CASE entries' = [entries EXCEPT ![k] = x] /\ Flushed(Append(buffer, l))
  <2>1. Fresh \in Entries /\ ~Fresh.readable  BY DEF Fresh, Entries
  <2>2. old \in Entries  BY <1>3, <2>1 DEF MemoryTypes
  <2>3. e # NULL  BY NullAssumption
  <2>4. /\ entries[k] = NULL => ~old.readable
        /\ entries[k] # NULL => old = entries[k]
    BY <2>1
  <2> HIDE DEF old
  <2>5. x \in Entries /\ x.editor = e /\ x.readable = old.readable /\ x.length = old.length
    BY <2>2 DEF Entries
  <2> HIDE DEF x
  <2>6. entries'[k] = x /\ \A j \in Keys \ {k} : entries'[j] = entries[j]
    BY <1>3, <1>6 DEF MemoryTypes
  <2>7. \A j \in Keys : ~Moved(j)  BY <1>2 DEF Moved
  <2>8. FilesOf(x, clean[k], dirty[k], FALSE, ~cut)
    <3>1. FilesOf(entries[k], clean[k], dirty[k], Moved(k), ~cut)
      BY <1>1 DEF FileInv, MemFiles
    <3>2. x # NULL  BY <2>5, EntryTypes
    <3> QED BY <2>3, <2>4, <2>5, <2>7, <3>1, <3>2 DEF FilesOf
  <2>9. l \in Lines
    <3>1. 0 \in Lengths \cup {0}  OBVIOUS
    <3> QED BY <3>1, LineKinds
  <2> HIDE DEF l
  <2> QED BY <1>1, <1>2, <1>6, <2>6, <2>7, <2>8, <2>9, EntryFiles
<1> QED BY <1>4, <1>5, <1>6

LEMMA FailEditFiles ==
    ASSUME Inv, Inv', FileInv, NEW e \in Edits, Current(e), FailEdit(e),
           busy.op \in {"idle", "abort"}, busy' = busy
    PROVE  FileInv'
<1>1. PICK k : k = editors[e].key  OBVIOUS
<1>2. PICK y : y = entries[k]  OBVIOUS
<1>3. isOpen /\ k \in Keys /\ y \in Entries /\ y # NULL  BY <1>1, <1>2, CurrentFacts
<1> DEFINE kept == y.readable
           x == IF kept THEN [y EXCEPT !.editor = NULL] ELSE NULL
           l == IF kept THEN CleanLine(k, y.length) ELSE RemoveLine(k)
<1>4. /\ dirty' = [dirty EXCEPT ![k] = NULL]
      /\ entries' = [entries EXCEPT ![k] = x]
      /\ Flushed(Append(buffer, l))
      /\ UNCHANGED <<isOpen, clean, cut>>
  BY <1>1, <1>2 DEF FailEdit
<1>5. l \in Lines
  <2>1. y.length \in Lengths \cup {0}  BY <1>3, EntryTypes
  <2> QED BY <1>3, <2>1, LineKinds
<1>6. \A j \in Keys : ~Moved(j)  BY DEF Moved
<1>7. FilesOf(x, clean[k], NULL, FALSE, ~cut)
  <2>1. FilesOf(y, clean[k], dirty[k], Moved(k), ~cut)  BY <1>2, <1>3 DEF FileInv, MemFiles
  <2>2. CASE kept
    <3>1. x = [y EXCEPT !.editor = NULL]  BY <2>2
    <3>2. x.length = y.length /\ x.readable = y.readable  BY <1>3, <3>1 DEF Entries
    <3>3. x.readable  BY <2>2, <3>2
    <3> HIDE DEF x
    <3>4. clean[k] \in {NULL, x.length}  BY <1>3, <1>6, <2>1, <2>2, <3>2 DEF FilesOf
    <3>5. x # NULL
      <4>1. x \in Entries  BY <1>3, <3>1, NullAssumption DEF Entries
      <4> QED BY <4>1, EntryTypes
    <3> QED BY <3>3, <3>4, <3>5 DEF FilesOf
  <2>3. CASE ~kept
    <3>1. x = NULL  BY <2>3
    <3>2. ~cut => clean[k] = NULL  BY <1>3, <1>6, <2>1, <2>3 DEF FilesOf
    <3> HIDE DEF x
    <3> QED BY <3>1, <3>2 DEF FilesOf
  <2> QED BY <2>2, <2>3
<1> HIDE DEF x, l
<1>8. /\ entries'[k] = x /\ dirty'[k] = NULL
      /\ \A j \in Keys \ {k} : entries'[j] = entries[j] /\ dirty'[j] = dirty[j]
  BY <1>3, <1>4 DEF Inv, MemoryInv, MemoryTypes
<1> QED BY <1>3, <1>4, <1>5, <1>6, <1>7, <1>8, EntryFiles

LEMMA EndFailedFiles ==
    ASSUME Inv, Inv', FileInv, NEW e \in Edits, Abort(e) \/ CommitNothing(e) \/ CommitFailed(e)
    PROVE  FileInv'
<1>1. Idle /\ Current(e) /\ FailEdit(e) /\ busy' = busy
  BY DEF Abort, CommitNothing, CommitFailed
<1> QED BY <1>1, ReadyOps, FailEditFiles

LEMMA CloseAbortsFiles ==
    ASSUME Inv, Inv', FileInv, CloseAborts
    PROVE  FileInv'
<1>1. busy.op = "abort"  BY DEF CloseAborts
<1>2. isOpen  BY <1>1, BusyOps
<1>3. CASE \E i \in DOMAIN order : FailEdit(entries[order[i]].editor) /\ Edited(i) /\ UNCHANGED busy
  <2>1. PICK e \in Edits : Current(e) /\ FailEdit(e) /\ busy' = busy  BY <1>3, AbortsCurrent
  <2> QED BY <1>1, <2>1, FailEditFiles
<1>4. CASE /\ Busy("trim", busy.arg)
           /\ UNCHANGED <<isOpen, lruVars, buffer, fileVars, journalVars, cut>>
  <2>1. busy'.op = "trim"  BY <1>4 DEF Busy, IDLE
  <2> QED BY <1>1, <1>2, <1>4, <2>1, CalmSame DEF lruVars, fileVars
<1> QED BY <1>3, <1>4 DEF CloseAborts

LEMMA PublishedFiles ==
    ASSUME Inv, Inv', FileInv, NEW e \in Edits, Publish(e)
    PROVE  FileInv'
<1>1. PICK k : k = editors[e].key  OBVIOUS
<1>2. PICK n : n = NewLength(e)  OBVIOUS
<1> DEFINE x == [readable |-> TRUE, editor |-> NULL, length |-> n]
           l == CleanLine(k, n)
<1>3. /\ busy.op = "publish" /\ busy.arg = e
      /\ entries' = [entries EXCEPT ![k] = x]
      /\ Flushed(Append(buffer, l)) /\ busy' = IDLE
      /\ UNCHANGED <<isOpen, clean, dirty, cut>>
  BY <1>1, <1>2 DEF Publish, PublishAs, fileVars
<1>4. /\ Current(e) /\ busy.new \in BOOLEAN /\ (busy.new => clean[k] # NULL)
      /\ ~busy.new => entries[k].readable
  BY <1>1, <1>3 DEF Inv, MemoryInv, PublishInv
<1>5. isOpen /\ k \in Keys /\ entries[k] \in Entries /\ entries[k] # NULL
  BY <1>1, <1>4, CurrentFacts
<1>6. n = IF busy.new THEN clean[k] ELSE entries[k].length
  BY <1>1, <1>2 DEF NewLength, OldLength
<1>7. n \in Lengths \cup {0} /\ clean[k] \in {NULL, n}
  <2>1. clean[k] \in Lengths \cup {NULL}  BY <1>5 DEF Inv, MemoryInv, MemoryTypes
  <2>2. entries[k].length \in Lengths \cup {0}  BY <1>5, EntryTypes
  <2>3. CASE busy.new  BY <1>4, <1>6, <2>1, <2>3
  <2>4. CASE ~busy.new
    <3>1. FilesOf(entries[k], clean[k], dirty[k], Moved(k), ~cut)
      BY <1>5 DEF FileInv, MemFiles
    <3>2. ~Moved(k)  BY <2>4 DEF Moved
    <3>3. clean[k] \in {NULL, entries[k].length}  BY <1>4, <1>5, <2>4, <3>1, <3>2 DEF FilesOf
    <3> QED BY <1>6, <2>2, <2>4, <3>3
  <2> QED BY <1>4, <2>3, <2>4
<1>8. dirty[k] = NULL  BY <1>1, <1>3 DEF FileInv, PublishFiles
<1>9. FilesOf(x, clean[k], dirty[k], FALSE, ~cut)
  <2>1. x.readable /\ x.length = n  OBVIOUS
  <2>2. x # NULL
    <3>1. x \in Entries  BY <1>7 DEF Entries
    <3> QED BY <3>1, NullAssumption
  <2> HIDE DEF x
  <2> QED BY <1>7, <1>8, <2>1, <2>2 DEF FilesOf
<1>10. l \in Lines  BY <1>5, <1>7, LineKinds
<1> HIDE DEF x, l
<1>11. entries'[k] = x /\ \A j \in Keys \ {k} : entries'[j] = entries[j]
  BY <1>3, <1>5 DEF Inv, MemoryInv, MemoryTypes
<1>12. \A j \in Keys \ {k} : ~Moved(j)  BY <1>1, <1>3 DEF Moved
<1>13. busy'.op = "idle"  BY <1>3 DEF IDLE
<1> QED BY <1>3, <1>5, <1>9, <1>10, <1>11, <1>12, <1>13, EntryFiles

\* The buffer is written out, to a journal that fits what the entries are.
LEMMA FlushFits ==
    ASSUME Inv, FileInv, isOpen, busy.op \notin {"publish", "backup", "swap", "deleting"},
           journal' = Written(buffer), torn' = IF buffer = <<>> THEN torn ELSE "none"
    PROVE  ~Corrupt(OnDisk') =>
               \A k \in Keys : Fits(ReadJournal(OnDisk').entries[k], entries[k], clean[k],
                                    dirty[k], ~cut)
<1>1. /\ journal' # NULL /\ journal' \in Seq(Lines)
      /\ torn' # "dead" => Tells(journal', entries)
  BY FlushStep DEF Inv
<1>2. OnDisk' = journal'  BY <1>1 DEF OnDisk, Found
<1> SUFFICES ASSUME ~Corrupt(OnDisk')
             PROVE  \A k \in Keys : Fits(ReadJournal(OnDisk').entries[k], entries[k], clean[k],
                                         dirty[k], ~cut)
  OBVIOUS
<1>3. PICK r : r = ReadJournal(OnDisk').entries  OBVIOUS
<1>4. PICK sure \in BOOLEAN : sure <=> ~cut  OBVIOUS
<1>5. CASE torn' # "dead"
  <2>1. Mirrors(entries, r)  BY <1>1, <1>2, <1>3, <1>5 DEF Tells
  <2>2. \A k \in Keys : entries[k] # NULL /\ entries[k].editor = NULL => entries[k].readable
    BY DEF Inv, MemoryInv, EntryInv
  <2>3. \A k \in Keys : FilesOf(entries[k], clean[k], dirty[k], FALSE, sure)
    <3> SUFFICES ASSUME NEW k \in Keys
                 PROVE  FilesOf(entries[k], clean[k], dirty[k], FALSE, sure)
      OBVIOUS
    <3>1. FilesOf(entries[k], clean[k], dirty[k], Moved(k), ~cut)  BY DEF FileInv, MemFiles
    <3>2. ~Moved(k)  BY DEF Moved
    <3> QED BY <1>4, <3>1, <3>2 DEF FilesOf
  <2>4. \A k \in Keys : Fits(r[k], entries[k], clean[k], dirty[k], sure)
    BY <2>1, <2>2, <2>3, MirrorsFit
  <2> QED BY <1>3, <1>4, <2>4 DEF Fits
<1>6. CASE torn' = "dead"
  <2>1. buffer = <<>>
    <3>1. "none" # "dead"  OBVIOUS
    <3> QED BY <1>6, <3>1
  <2>2. OnDisk' = OnDisk
    <3>1. journal \in Seq(Lines) /\ OnDisk = journal  BY OpenLog DEF Inv
    <3>2. journal' = journal \o <<>>  BY <2>1 DEF Written
    <3> QED BY <1>2, <3>1, <3>2, ConcatEmptySeq
  <2> SUFFICES ASSUME NEW k \in Keys
               PROVE  Fits(r[k], entries[k], clean[k], dirty[k], ~cut)
    BY <1>3
  <2>3. Fits(r[k], entries[k], clean[k], dirty[k], ~cut /\ busy.op # "deleting")
    BY <1>3, <2>2 DEF FileInv, DiskFits
  <2> QED BY <2>3 DEF Fits
<1> QED BY <1>5, <1>6

LEMMA WroteOut ==
    ASSUME Inv, FileInv, isOpen, busy.op \in {"trim", "rebuild"},
           busy'.op \in {"idle", "backup"},
           journal' = Written(buffer), torn' = IF buffer = <<>> THEN torn ELSE "none",
           buffer' = <<>>, UNCHANGED <<isOpen, entries, clean, dirty, cut, journalBackup>>
    PROVE  FileInv'
<1>1. DiskFits'
  <2> SUFFICES ASSUME ~Corrupt(OnDisk'), NEW k \in Keys
               PROVE  Fits(ReadJournal(OnDisk').entries[k], entries[k], clean[k], dirty[k],
                           ~cut /\ busy'.op # "deleting")
    BY DEF DiskFits
  <2>1. Fits(ReadJournal(OnDisk').entries[k], entries[k], clean[k], dirty[k], ~cut)
    BY FlushFits
  <2> QED BY <2>1 DEF Fits
<1>2. MemFiles'  BY MemSame DEF FileInv
<1>3. BackupInv'  BY NoBackup DEF BackupInv
<1>4. PublishFiles' /\ BufferInv'  BY DEF PublishFiles, BufferInv
<1> QED BY <1>1, <1>2, <1>3, <1>4 DEF FileInv

LEMMA FlushFiles ==
    ASSUME Inv, FileInv, EndFlush \/ RebuildWrite
    PROVE  FileInv'
<1>1. CASE EndFlush
  <2>1. /\ busy.op = "trim" /\ busy' = IDLE
        /\ journal' = Written(buffer) /\ torn' = (IF buffer = <<>> THEN torn ELSE "none")
        /\ buffer' = <<>> /\ UNCHANGED <<isOpen, entries, clean, dirty, cut, journalBackup>>
    BY <1>1 DEF EndFlush, Trimmed, Flushed, lruVars, fileVars
  <2>2. busy'.op = "idle"  BY <2>1 DEF IDLE
  <2> QED BY <2>1, <2>2, BusyOps, WroteOut
<1>2. CASE RebuildWrite
  <2>1. /\ busy.op = "rebuild" /\ busy'.op = "backup"
        /\ journal' = Written(buffer) /\ torn' = (IF buffer = <<>> THEN torn ELSE "none")
        /\ buffer' = <<>> /\ UNCHANGED <<isOpen, entries, clean, dirty, cut, journalBackup>>
    BY <1>2 DEF RebuildWrite, RebuildStep, Busy, IDLE, lruVars, fileVars
  <2> QED BY <2>1, BusyOps, WroteOut
<1> QED BY <1>1, <1>2

\* The cache ends: nothing is known of the entries any more.
LEMMA GoneFiles ==
    ASSUME ~isOpen', entries' = None, buffer' = <<>>, busy'.op \in {"idle", "deleting"},
           journalBackup' # NULL => busy'.op = "idle",
           ~Corrupt(OnDisk') =>
               \A k \in Keys : \E x : Fits(ReadJournal(OnDisk').entries[k], x, clean'[k],
                                           dirty'[k], ~cut' /\ busy'.op # "deleting")
    PROVE  FileInv'
<1>1. DiskFits'
  <2> SUFFICES ASSUME ~Corrupt(OnDisk'), NEW k \in Keys
               PROVE  Fits(ReadJournal(OnDisk').entries[k], entries'[k], clean'[k], dirty'[k],
                           ~cut' /\ busy'.op # "deleting")
    BY DEF DiskFits
  <2>1. PICK x : Fits(ReadJournal(OnDisk').entries[k], x, clean'[k], dirty'[k],
                      ~cut' /\ busy'.op # "deleting")
    OBVIOUS
  <2>2. entries'[k] = NULL  BY DEF None
  <2> QED BY <2>1, <2>2 DEF Fits
<1>2. MemFiles' /\ BackupInv' /\ PublishFiles' /\ BufferInv'
  BY DEF MemFiles, BackupInv, PublishFiles, BufferInv
<1> QED BY <1>1, <1>2 DEF FileInv

LEMMA EndCloseFiles ==
    ASSUME Inv, FileInv, EndClose
    PROVE  FileInv'
<1>1. /\ busy.op = "trim"
      /\ busy' = IDLE \/ busy' = [IDLE EXCEPT !.op = "deleting", !.arg = NULL]
      /\ ~isOpen' /\ entries' = None
      /\ journal' = Written(buffer) /\ torn' = (IF buffer = <<>> THEN torn ELSE "none")
      /\ buffer' = <<>> /\ UNCHANGED <<clean, dirty, cut, journalBackup>>
  BY DEF EndClose, Trimmed, Flushed, fileVars, Busy, Gone
<1>2. busy'.op \in {"idle", "deleting"}
  <2>1. CASE busy' = IDLE
    <3>1. busy'.op = "idle"  BY <2>1 DEF IDLE
    <3> QED BY <3>1
  <2>2. CASE busy' = [IDLE EXCEPT !.op = "deleting", !.arg = NULL]
    <3>1. busy'.op = "deleting"  BY <2>2 DEF IDLE
    <3> QED BY <3>1
  <2> QED BY <1>1, <2>1, <2>2
<1>3. isOpen  BY <1>1, BusyOps
<1>4. journalBackup' = NULL  BY <1>1, <1>3, NoBackup
<1>5. ASSUME ~Corrupt(OnDisk'), NEW k \in Keys
      PROVE  Fits(ReadJournal(OnDisk').entries[k], entries[k], clean'[k], dirty'[k],
                  ~cut' /\ busy'.op # "deleting")
  <2>1. Fits(ReadJournal(OnDisk').entries[k], entries[k], clean[k], dirty[k], ~cut)
    BY <1>1, <1>3, <1>5, FlushFits
  <2> QED BY <1>1, <2>1 DEF Fits
<1> QED BY <1>1, <1>2, <1>4, <1>5, GoneFiles

LEMMA CrashFiles ==
    ASSUME Inv, FileInv, Crash
    PROVE  FileInv'
<1>1. /\ ~isOpen' /\ entries' = None /\ buffer' = <<>> /\ busy' = IDLE
      /\ cut' = (cut \/ busy.op = "deleting")
      /\ UNCHANGED <<clean, dirty, journal, journalTmp, journalBackup>>
  BY DEF Crash, Gone, fileVars
<1>2. busy'.op = "idle"  BY <1>1 DEF IDLE
<1>3. OnDisk' = OnDisk  BY <1>1 DEF OnDisk, Found
<1>4. ASSUME ~Corrupt(OnDisk'), NEW k \in Keys
      PROVE  Fits(ReadJournal(OnDisk').entries[k], entries[k], clean'[k], dirty'[k],
                  ~cut' /\ busy'.op # "deleting")
  <2>1. Fits(ReadJournal(OnDisk').entries[k], entries[k], clean[k], dirty[k],
             ~cut /\ busy.op # "deleting")
    BY <1>3, <1>4 DEF FileInv, DiskFits
  <2> QED BY <1>1, <2>1 DEF Fits
<1> QED BY <1>1, <1>2, <1>4, GoneFiles

(***************************************************************************)
(* Removals, and an edit under way.                                        *)
(***************************************************************************)
LEMMA RemoveOrTouchFiles ==
    ASSUME Inv, FileInv, NEW k \in Keys, isOpen, busy.op \in {"idle", "trim"}, RemoveOrTouch(k),
           UNCHANGED <<isOpen, busy, cut>>
    PROVE  FileInv'
<1>1. CASE Removable(k)
  <2>1. /\ clean' = [clean EXCEPT ![k] = NULL] /\ dirty' = dirty
        /\ Append1(RemoveLine(k)) /\ entries' = [entries EXCEPT ![k] = NULL]
    BY <1>1 DEF RemoveOrTouch, RemoveEntry
  <2>2. /\ entries'[k] = NULL /\ clean'[k] = NULL
        /\ \A j \in Keys \ {k} : entries'[j] = entries[j] /\ clean'[j] = clean[j]
    BY <2>1 DEF Inv, MemoryInv, MemoryTypes
  <2>3. \A j \in Keys : ~Moved(j) /\ ~Moved(j)'  BY DEF Moved
  <2>4. FilesOf(NULL, NULL, dirty[k], Moved(k)', ~cut)
    <3>1. FilesOf(entries[k], clean[k], dirty[k], Moved(k), ~cut)  BY DEF FileInv, MemFiles
    <3>2. entries[k] # NULL /\ entries[k].editor = NULL  BY <1>1 DEF Removable
    <3> QED BY <3>1, <3>2 DEF FilesOf
  <2>5. MemFiles'  BY <2>1, <2>2, <2>3, <2>4, FilesStep DEF FileInv
  <2>6. UNCHANGED <<journal, journalTmp, journalBackup, torn>>
    BY <2>1 DEF Append1, journalVars
  <2>7. OnDisk' = OnDisk  BY <2>6 DEF OnDisk, Found
  <2>8. DiskFits'
    <3>1. DiskFits  BY DEF FileInv
    <3>2. \A j \in Keys : /\ entries'[j] = entries[j] \/ entries'[j] = NULL
                          /\ clean'[j] = clean[j] \/ clean'[j] = NULL
                          /\ dirty'[j] = dirty[j]
      BY <2>1, <2>2
    <3> QED BY <2>7, <3>1, <3>2, DiskSame
  <2>9. BufferInv'
    <3> DEFINE l == RemoveLine(k)
    <3>1. l \in Lines /\ l.op = "REMOVE" /\ l.key = k
      <4>1. 0 \in Lengths \cup {0}  OBVIOUS
      <4> QED BY <4>1, LineKinds
    <3>2. buffer' = Append(buffer, l)  BY <2>1 DEF Append1
    <3> HIDE DEF l
    <3>3. buffer \in Seq(Lines) /\ ~Corrupt(buffer) /\ BufferInv
      BY DEF Inv, JournalInv, FileInv
    <3> QED BY <2>2, <3>1, <3>2, <3>3, BufferAppend
  <2>10. PublishFiles' /\ BackupInv'  BY <2>6 DEF PublishFiles, BackupInv, FileInv
  <2> QED BY <2>5, <2>8, <2>9, <2>10 DEF FileInv
<1>2. CASE ~Removable(k)
  <2>1. UNCHANGED <<entries, buffer, clean, dirty, journalVars>>
    BY <1>2 DEF RemoveOrTouch, fileVars
  <2> QED BY <2>1, CalmSame
<1> QED BY <1>1, <1>2

LEMMA RemovalKey ==
    ASSUME Inv,
           \/ \E k \in Keys : Remove(k)
           \/ \E e \in Edits : RemoveFailed(e)
           \/ TrimEldest
    PROVE  \E k \in Keys : /\ RemoveOrTouch(k) /\ UNCHANGED <<isOpen, busy, cut>>
                           /\ isOpen /\ busy.op \in {"idle", "trim"}
<1>1. MemoryTypes  BY DEF Inv, MemoryInv
<1>2. CASE \E k \in Keys : Remove(k)  BY <1>2, ReadyOps DEF Remove, Ready
<1>3. CASE \E e \in Edits : RemoveFailed(e)
  <2>1. PICK e \in Edits : RemoveFailed(e)  BY <1>3
  <2>2. editors[e].key \in Keys  BY <1>1, <2>1 DEF RemoveFailed, MemoryTypes, EditorStates
  <2> QED BY <2>1, <2>2, ReadyOps DEF RemoveFailed, Ready
<1>4. CASE TrimEldest
  <2>1. busy.op = "trim" /\ order # <<>>  BY <1>4 DEF TrimEldest
  <2>2. Head(order) \in Keys  BY <1>1, <2>1, HeadTailProperties DEF MemoryTypes
  <2> QED BY <1>4, <2>1, <2>2, BusyOps DEF TrimEldest
<1> QED BY <1>2, <1>3, <1>4

LEMMA RemovalFiles ==
    ASSUME Inv, FileInv,
           \/ \E k \in Keys : Remove(k)
           \/ \E e \in Edits : RemoveFailed(e)
           \/ TrimEldest
    PROVE  FileInv'
BY RemovalKey, RemoveOrTouchFiles

\* The files of an entry under edit may change: the journal has it as dirty.
LEMMA EditedFiles ==
    ASSUME Inv, FileInv, NEW k \in Keys, isOpen, entries[k] # NULL, entries[k].editor # NULL,
           busy.op = "idle", busy'.op \in {"idle", "publish"},
           UNCHANGED <<isOpen, entries, buffer, journalVars, cut>>,
           \A j \in Keys \ {k} : clean'[j] = clean[j] /\ dirty'[j] = dirty[j] /\ ~Moved(j)',
           FilesOf(entries[k], clean'[k], dirty'[k], Moved(k)', ~cut), PublishFiles'
    PROVE  FileInv'
<1>1. UNCHANGED <<journal, journalTmp, journalBackup, torn>>  BY DEF journalVars
<1>2. OnDisk' = OnDisk  BY <1>1 DEF OnDisk, Found
<1>3. \A j \in Keys : ~Moved(j)  BY DEF Moved
<1>4. MemFiles'  BY <1>3, FilesStep DEF FileInv
<1>5. DiskFits'
  <2> SUFFICES ASSUME ~Corrupt(OnDisk), NEW j \in Keys
               PROVE  Fits(ReadJournal(OnDisk).entries[j], entries[j], clean'[j], dirty'[j],
                           ~cut /\ busy'.op # "deleting")
    BY <1>2 DEF DiskFits
  <2>1. PICK r : r = ReadJournal(OnDisk).entries[j]  OBVIOUS
  <2>2. Fits(r, entries[j], clean[j], dirty[j], ~cut /\ busy.op # "deleting")
    BY <2>1 DEF FileInv, DiskFits
  <2>3. CASE j = k
    <3>1. r # NULL /\ r.editor = JOURNALED  BY <2>2, <2>3 DEF Fits
    <3>2. JOURNALED # NULL  BY NullAssumption
    <3> QED BY <2>1, <2>3, <3>1, <3>2 DEF Fits
  <2>4. CASE j # k
    <3>1. clean'[j] = clean[j] /\ dirty'[j] = dirty[j]  BY <2>4
    <3> QED BY <2>1, <2>2, <3>1 DEF Fits
  <2> QED BY <2>3, <2>4
<1>6. BufferInv'  BY BufferSame DEF Inv, JournalInv, FileInv
<1>7. BackupInv'  BY <1>1, NoBackup DEF BackupInv
<1> QED BY <1>4, <1>5, <1>6, <1>7 DEF FileInv

LEMMA WriteFiles ==
    ASSUME Inv, FileInv, NEW e \in Edits, NEW n \in Lengths, NEW failed \in BOOLEAN,
           Write(e, n, failed)
    PROVE  FileInv'
<1>1. PICK k : k = editors[e].key  OBVIOUS
<1>2. /\ Idle /\ Current(e) /\ dirty' = [dirty EXCEPT ![k] = n]
      /\ UNCHANGED <<isOpen, entries, buffer, busy, clean, journalVars, cut>>
  BY <1>1 DEF Write, lruVars
<1>3. busy.op = "idle"  BY <1>2, ReadyOps
<1>4. isOpen /\ k \in Keys /\ entries[k] # NULL /\ entries[k].editor = e
  BY <1>1, <1>2, CurrentFacts
<1>5. entries[k].editor # NULL  BY <1>4, NullAssumption
<1>6. dirty'[k] = n /\ \A j \in Keys \ {k} : dirty'[j] = dirty[j]
  BY <1>2, <1>4 DEF Inv, MemoryInv, MemoryTypes
<1>7. \A j \in Keys : ~Moved(j) /\ ~Moved(j)'  BY <1>2, <1>3 DEF Moved
<1>8. FilesOf(entries[k], clean[k], n, Moved(k)', ~cut)
  <2>1. FilesOf(entries[k], clean[k], dirty[k], Moved(k), ~cut)  BY <1>4 DEF FileInv, MemFiles
  <2> QED BY <1>4, <1>5, <1>7, <2>1 DEF FilesOf
<1>9. PublishFiles'  BY <1>2, <1>3 DEF PublishFiles
<1> QED BY <1>2, <1>3, <1>4, <1>5, <1>6, <1>7, <1>8, <1>9, EditedFiles

LEMMA CommitFiles ==
    ASSUME Inv, FileInv, NEW e \in Edits, Commit(e)
    PROVE  FileInv'
<1>1. PICK k : k = editors[e].key  OBVIOUS
<1>2. /\ Idle /\ Current(e)
      /\ busy' = [op |-> "publish", arg |-> e, old |-> clean[k], new |-> dirty[k] # NULL]
      /\ clean' = IF dirty[k] # NULL THEN [clean EXCEPT ![k] = dirty[k]] ELSE clean
      /\ dirty' = [dirty EXCEPT ![k] = NULL]
      /\ UNCHANGED <<isOpen, entries, buffer, editors, journalVars, cut>>
  BY <1>1 DEF Commit, lruVars
<1>3. busy.op = "idle"  BY <1>2, ReadyOps
<1>4. isOpen /\ k \in Keys /\ entries[k] # NULL /\ entries[k].editor = e
  BY <1>1, <1>2, CurrentFacts
<1>5. entries[k].editor # NULL  BY <1>4, NullAssumption
<1>6. busy'.op = "publish" /\ editors'[busy'.arg].key = k /\ (busy'.new <=> dirty[k] # NULL)
  BY <1>1, <1>2
<1>7. /\ dirty'[k] = NULL /\ (dirty[k] = NULL => clean'[k] = clean[k])
      /\ \A j \in Keys \ {k} : dirty'[j] = dirty[j] /\ clean'[j] = clean[j]
  BY <1>2, <1>4 DEF Inv, MemoryInv, MemoryTypes
<1>8. \A j \in Keys \ {k} : ~Moved(j)'  BY <1>6 DEF Moved
<1>9. Moved(k)' <=> dirty[k] # NULL  BY <1>6 DEF Moved
<1>10. FilesOf(entries[k], clean'[k], NULL, Moved(k)', ~cut)
  <2>1. FilesOf(entries[k], clean[k], dirty[k], Moved(k), ~cut)  BY <1>4 DEF FileInv, MemFiles
  <2>2. ~Moved(k)  BY <1>3 DEF Moved
  <2> QED BY <1>4, <1>7, <1>9, <2>1, <2>2 DEF FilesOf
<1>11. PublishFiles'  BY <1>6, <1>7 DEF PublishFiles
<1> QED BY <1>2, <1>3, <1>4, <1>5, <1>6, <1>7, <1>8, <1>10, <1>11, EditedFiles

(***************************************************************************)
(* open(), deletions and rebuilds.                                         *)
(***************************************************************************)
LEMMA OpenJournalFiles ==
    ASSUME Inv, FileInv, OpenJournal
    PROVE  FileInv'
<1> DEFINE m == ReadJournal(OnDisk)
           p == ProcessJournal(m)
           doomed == {k \in Keys : m.entries[k] # NULL /\ k \notin Kept(m)}
<1>1. /\ ~isOpen /\ Idle /\ ~Corrupt(OnDisk) /\ entries' = p.entries
      /\ clean' = [k \in Keys |-> IF k \in doomed THEN NULL ELSE clean[k]]
      /\ dirty' = [k \in Keys |-> IF k \in doomed THEN NULL ELSE dirty[k]]
      /\ journal' = OnDisk /\ journalBackup' = NULL
      /\ UNCHANGED <<buffer, busy, cut>>
  BY DEF OpenJournal
<1>2. busy.op = "idle"  BY <1>1, ReadyOps
<1>3. OnDisk \in Seq(Lines) /\ SoundJournal(OnDisk)  BY <1>1, FoundFile
<1>4. Sound(m.entries)  BY <1>1, <1>3, JournalRead
<1>5. OnDisk' = OnDisk  BY <1>1, <1>3, NullAssumption DEF OnDisk, Found
<1>6. /\ \A k \in Keys : p.entries[k] = IF k \in Kept(m) THEN m.entries[k] ELSE NULL
      /\ \A k \in Keys : k \in Kept(m) <=> m.entries[k] # NULL /\ m.entries[k].editor = NULL
  BY DEF ProcessJournal, Kept
<1>7. \A k \in Keys : Fits(m.entries[k], entries[k], clean[k], dirty[k],
                           ~cut /\ busy.op # "deleting")
  BY <1>1 DEF FileInv, DiskFits
<1>8. \A k \in Keys : k \in doomed <=> m.entries[k] # NULL /\ k \notin Kept(m)  OBVIOUS
<1> HIDE DEF m, p, doomed
<1>9. MemFiles'
  <2> SUFFICES ASSUME NEW k \in Keys
               PROVE  FilesOf(entries'[k], clean'[k], dirty'[k], Moved(k)', ~cut)
    BY <1>1 DEF MemFiles
  <2>1. PICK r : r = m.entries[k]  OBVIOUS
  <2>2. Fits(r, entries[k], clean[k], dirty[k], ~cut)  BY <1>2, <1>7, <2>1 DEF Fits
  <2>3. ~Moved(k)'  BY <1>1, <1>2 DEF Moved
  <2>4. JOURNALED # NULL  BY NullAssumption
  <2>5. CASE r = NULL
    <3>1. entries'[k] = NULL /\ clean'[k] = clean[k] /\ dirty'[k] = dirty[k]
      BY <1>1, <1>6, <1>8, <2>1, <2>5
    <3> QED BY <2>2, <2>5, <3>1 DEF Fits, FilesOf
  <2>6. CASE r # NULL /\ r.editor = NULL
    <3>1. entries'[k] = r /\ clean'[k] = clean[k] /\ dirty'[k] = dirty[k]
      BY <1>1, <1>6, <1>8, <2>1, <2>6
    <3>2. r.readable  BY <1>4, <2>1, <2>6 DEF Sound
    <3> QED BY <2>2, <2>4, <2>6, <3>1, <3>2 DEF Fits, FilesOf
  <2>7. CASE r # NULL /\ r.editor # NULL
    <3>1. entries'[k] = NULL /\ clean'[k] = NULL /\ dirty'[k] = NULL
      BY <1>1, <1>6, <1>8, <2>1, <2>7
    <3> QED BY <3>1 DEF FilesOf
  <2> QED BY <2>5, <2>6, <2>7
<1>10. DiskFits'
  <2>1. DiskFits  BY DEF FileInv
  <2>2. \A k \in Keys : /\ entries'[k] = NULL \/ entries'[k].editor = NULL
                        /\ clean'[k] = clean[k] \/ clean'[k] = NULL
                        /\ dirty'[k] = dirty[k] \/ dirty'[k] = NULL
    BY <1>1, <1>6
  <2> QED BY <1>1, <1>5, <2>1, <2>2, DiskSame
<1>11. buffer' = <<>>  BY <1>1 DEF Inv, JournalInv
<1>12. BackupInv' /\ PublishFiles' /\ BufferInv'
  BY <1>1, <1>2, <1>11 DEF BackupInv, PublishFiles, BufferInv
<1> QED BY <1>9, <1>10, <1>12 DEF FileInv

LEMMA OpenNewFiles ==
    ASSUME Inv, FileInv, OpenNew
    PROVE  FileInv'
<1>1. /\ ~isOpen /\ Idle /\ Found = NULL /\ journal' = <<>>
      /\ UNCHANGED <<entries, journalBackup, buffer, busy, clean, dirty, cut>>
  BY DEF OpenNew, lruVars, fileVars
<1>2. busy.op = "idle"  BY <1>1, ReadyOps
<1>3. entries = None /\ buffer = <<>>  BY <1>1 DEF Inv, MemoryInv, JournalInv
<1>4. OnDisk = <<>> /\ OnDisk' = <<>> /\ journalBackup = NULL
  <2>1. <<>> # NULL  BY EmptyTells, NullAssumption
  <2> QED BY <1>1, <2>1 DEF OnDisk, Found
<1>5. MemFiles'
  <2> SUFFICES ASSUME NEW k \in Keys
               PROVE  FilesOf(entries'[k], clean'[k], dirty'[k], Moved(k)', ~cut')
    BY DEF MemFiles
  <2>1. Fits(ReadJournal(OnDisk).entries[k], entries[k], clean[k], dirty[k],
             ~cut /\ busy.op # "deleting")
    BY <1>4, EmptyTells DEF FileInv, DiskFits
  <2>2. ReadJournal(OnDisk).entries[k] = NULL /\ entries[k] = NULL
    BY <1>3, <1>4, EmptyTells DEF None
  <2> QED BY <1>1, <1>2, <2>1, <2>2 DEF Fits, FilesOf
<1>6. DiskFits'
  <2>1. DiskFits  BY DEF FileInv
  <2> QED BY <1>1, <1>4, <2>1, DiskSame
<1>7. BackupInv' /\ PublishFiles' /\ BufferInv'
  BY <1>1, <1>2, <1>3, <1>4 DEF BackupInv, PublishFiles, BufferInv
<1> QED BY <1>5, <1>6, <1>7 DEF FileInv

LEMMA OpenCorruptFiles ==
    ASSUME Inv, FileInv, OpenCorrupt
    PROVE  FileInv'
<1>1. /\ ~isOpen /\ Corrupt(OnDisk) /\ busy'.op = "deleting"
      /\ journal' = OnDisk /\ journalBackup' = NULL
      /\ UNCHANGED <<isOpen, entries, buffer, clean, dirty, cut>>
  BY DEF OpenCorrupt, lruVars, fileVars, Busy, IDLE
<1>2. entries = None /\ buffer = <<>>  BY <1>1 DEF Inv, MemoryInv, JournalInv
<1>3. OnDisk' = OnDisk
  <2>1. OnDisk # NULL  BY FoundFile, NullAssumption
  <2> QED BY <1>1, <2>1 DEF OnDisk, Found
<1> QED BY <1>1, <1>2, <1>3, GoneFiles

LEMMA DeleteFileFiles ==
    ASSUME Inv, FileInv, DeleteFile
    PROVE  FileInv'
<1>1. busy.op = "deleting" /\ UNCHANGED <<isOpen, entries, buffer, busy, journalBackup, cut>>
  BY DEF DeleteFile, lruVars
<1>2. ~isOpen /\ buffer = <<>>  BY <1>1 DEF Inv, JournalInv
<1>3. entries = None  BY <1>2 DEF Inv, MemoryInv
<1>4. journalBackup = NULL  BY <1>1, <1>2 DEF FileInv, BackupInv
<1>5. /\ journal' = journal \/ journal' = NULL
      /\ \A k \in Keys : /\ clean'[k] = clean[k] \/ clean'[k] = NULL
                         /\ dirty'[k] = dirty[k] \/ dirty'[k] = NULL
  BY DEF DeleteFile, fileVars, Inv, MemoryInv, MemoryTypes
<1>6. ASSUME ~Corrupt(OnDisk'), NEW k \in Keys
      PROVE  Fits(ReadJournal(OnDisk').entries[k], NULL, clean'[k], dirty'[k], FALSE)
  <2>1. CASE journal' = journal
    <3>1. OnDisk' = OnDisk  BY <1>1, <2>1 DEF OnDisk, Found
    <3>2. Fits(ReadJournal(OnDisk').entries[k], entries[k], clean[k], dirty[k],
               ~cut /\ busy.op # "deleting")
      BY <1>6, <3>1 DEF FileInv, DiskFits
    <3> QED BY <1>5, <3>2 DEF Fits
  <2>2. CASE journal' = NULL
    <3>1. OnDisk' = <<>>  BY <1>1, <1>4, <2>2 DEF OnDisk, Found
    <3>2. ReadJournal(OnDisk').entries[k] = NULL  BY <3>1, EmptyTells DEF None
    <3> QED BY <3>2 DEF Fits
  <2> QED BY <1>5, <2>1, <2>2
<1>7. ASSUME ~Corrupt(OnDisk'), NEW k \in Keys
      PROVE  Fits(ReadJournal(OnDisk').entries[k], NULL, clean'[k], dirty'[k],
                  ~cut' /\ busy'.op # "deleting")
  BY <1>1, <1>6, <1>7 DEF Fits
<1> QED BY <1>1, <1>2, <1>3, <1>4, <1>7, GoneFiles

LEMMA EndDeleteFiles ==
    ASSUME Inv, FileInv, EndDelete
    PROVE  FileInv'
<1>1. /\ busy.op = "deleting" /\ busy' = IDLE /\ clean = None /\ dirty = None
      /\ journal' \in {<<>>, NULL}
      /\ UNCHANGED <<entries, buffer, clean, dirty, journalBackup, cut>>
  BY DEF EndDelete, lruVars, fileVars
<1>2. ~isOpen /\ buffer = <<>>  BY <1>1 DEF Inv, JournalInv
<1>3. entries = None  BY <1>2 DEF Inv, MemoryInv
<1>4. journalBackup = NULL  BY <1>1, <1>2 DEF FileInv, BackupInv
<1>5. OnDisk' = <<>>  BY <1>1, <1>4 DEF OnDisk, Found
<1>6. busy'.op = "idle"  BY <1>1 DEF IDLE
<1>7. \A k \in Keys : /\ entries'[k] = NULL /\ clean'[k] = NULL /\ dirty'[k] = NULL
                      /\ ReadJournal(OnDisk').entries[k] = NULL
  BY <1>1, <1>3, <1>5, EmptyTells DEF None
<1>8. MemFiles' /\ DiskFits'  BY <1>7 DEF MemFiles, FilesOf, DiskFits, Fits
<1>9. BackupInv' /\ PublishFiles' /\ BufferInv'
  BY <1>1, <1>2, <1>4, <1>6 DEF BackupInv, PublishFiles, BufferInv
<1> QED BY <1>8, <1>9 DEF FileInv

LEMMA RebuildFiles ==
    ASSUME Inv, Inv', FileInv, RebuildBackup \/ RebuildSwap \/ RebuildEnd
    PROVE  FileInv'
<1>1. /\ busy.op \in {"backup", "swap", "unback"} /\ busy'.op \in {"swap", "unback", "idle"}
      /\ busy'.op = "idle" => journalBackup' = NULL
      /\ UNCHANGED <<isOpen, entries, buffer, clean, dirty, cut>>
  <2>1. CASE RebuildBackup  BY <2>1 DEF RebuildBackup, RebuildStep, Busy, IDLE, lruVars, fileVars
  <2>2. CASE RebuildSwap  BY <2>2 DEF RebuildSwap, RebuildStep, Busy, IDLE, lruVars, fileVars
  <2>3. CASE RebuildEnd  BY <2>3 DEF RebuildEnd, IDLE, lruVars, fileVars
  <2> QED BY <2>1, <2>2, <2>3
<1>2. isOpen  BY <1>1, BusyOps
<1>3. MemFiles'  BY <1>1, MemSame DEF FileInv
<1>4. BufferInv'  BY <1>1, BufferSame DEF Inv, JournalInv, FileInv
<1>5. PublishFiles' /\ BackupInv'  BY <1>1, <1>2 DEF PublishFiles, BackupInv
<1>6. DiskFits'
  <2>1. CASE RebuildSwap
    <3>1. busy.op = "swap" /\ torn' = "none"  BY <2>1 DEF RebuildSwap, RebuildStep
    <3>2. buffer' = <<>>  BY <1>1, <3>1 DEF Inv, JournalInv
    <3> QED BY <1>1, <1>2, <1>3, <3>1, <3>2, DiskTold
  <2>2. CASE RebuildBackup \/ RebuildEnd
    <3>1. busy.op # "swap"  BY <2>2 DEF RebuildBackup, RebuildStep, RebuildEnd
    <3>2. journal # NULL /\ OnDisk = journal  BY <1>2, <3>1, OpenLog DEF Inv
    <3>3. OnDisk' = journal
      <4>1. CASE RebuildBackup  BY <3>2, <4>1 DEF RebuildBackup, OnDisk, Found
      <4>2. CASE RebuildEnd  BY <3>2, <4>2 DEF RebuildEnd, OnDisk, Found
      <4> QED BY <2>2, <4>1, <4>2
    <3>4. DiskFits  BY DEF FileInv
    <3> QED BY <1>1, <3>2, <3>3, <3>4, DiskSame
  <2> QED BY <2>1, <2>2
<1> QED BY <1>3, <1>4, <1>5, <1>6 DEF FileInv

(***************************************************************************)
(* The invariant of the files, and what a restart finds.                   *)
(***************************************************************************)
LEMMA InitFiles == Init => FileInv
<1> SUFFICES ASSUME Init PROVE FileInv  OBVIOUS
<1>1. /\ isOpen = FALSE /\ entries = None /\ buffer = <<>> /\ busy = IDLE
      /\ clean = None /\ dirty = None /\ journal = NULL /\ journalBackup = NULL
  BY DEF Init
<1>2. busy.op = "idle" /\ OnDisk = <<>>  BY <1>1 DEF IDLE, OnDisk, Found
<1>3. DiskFits  BY <1>1, <1>2, EmptyTells DEF DiskFits, Fits, None
<1> QED BY <1>1, <1>2, <1>3 DEF FileInv, MemFiles, PublishFiles, BufferInv, BackupInv

LEMMA StutterFiles ==
    ASSUME Inv, FileInv, UNCHANGED vars
    PROVE  FileInv'
<1>1. UNCHANGED <<isOpen, entries, buffer, busy, editors, clean, dirty, journal, journalBackup,
                  cut>>
  BY DEF vars, lruVars, fileVars, journalVars
<1>2. OnDisk' = OnDisk /\ \A k : Moved(k)' <=> Moved(k)  BY <1>1 DEF OnDisk, Found, Moved
<1>3. DiskFits'  BY <1>1, <1>2, DiskSame DEF FileInv
<1>4. MemFiles'
  <2> SUFFICES ASSUME isOpen, NEW k \in Keys
               PROVE  FilesOf(entries[k], clean[k], dirty[k], Moved(k)', ~cut)
    BY <1>1 DEF MemFiles
  <2>1. FilesOf(entries[k], clean[k], dirty[k], Moved(k), ~cut)  BY DEF FileInv, MemFiles
  <2> QED BY <1>2, <2>1 DEF FilesOf
<1>5. BufferInv'  BY <1>1, BufferSame DEF Inv, JournalInv, FileInv
<1>6. PublishFiles' /\ BackupInv'  BY <1>1 DEF FileInv, PublishFiles, BackupInv
<1> QED BY <1>3, <1>4, <1>5, <1>6 DEF FileInv

LEMMA NextFiles == Inv /\ FileInv /\ [Next]_vars => FileInv'
<1> SUFFICES ASSUME Inv, FileInv, [Next]_vars PROVE FileInv'  OBVIOUS
<1>0. Inv'  BY NextKeeps
<1>1. CASE Call
  <2>1. CASE Open
    BY <2>1, OpenJournalFiles, OpenNewFiles, OpenCorruptFiles DEF Open
  <2>2. CASE Flush \/ Close \/ Delete  BY <2>2, MonitorFiles DEF MonitorStep
  <2>3. CASE \E k \in Keys : Get(k)  BY <2>3, GetFiles
  <2>4. CASE \E k \in Keys : Remove(k)  BY <2>4, RemovalFiles
  <2>5. CASE \E k \in Keys, e \in Edits : Edit(e, k)  BY <1>0, <2>5, EditFiles
  <2>6. CASE \E e \in Edits, n \in Lengths, failed \in BOOLEAN : Write(e, n, failed)
    BY <2>6, WriteFiles
  <2> QED BY <1>1, <2>1, <2>2, <2>3, <2>4, <2>5, <2>6 DEF Call
<1>2. CASE Cleanup  BY <1>2, MonitorFiles DEF MonitorStep
<1>3. CASE Inside
  <2>1. CASE \E e \in Edits : Publish(e)  BY <1>0, <2>1, PublishedFiles
  <2>2. CASE CloseAborts  BY <1>0, <2>2, CloseAbortsFiles
  <2>3. CASE TrimEldest  BY <2>3, RemovalFiles
  <2>4. CASE TrimThrows \/ EndCleanup  BY <2>4, MonitorFiles DEF MonitorStep
  <2>5. CASE EndFlush  BY <2>5, FlushFiles
  <2>6. CASE EndClose  BY <2>6, EndCloseFiles
  <2>7. CASE DeleteFile  BY <2>7, DeleteFileFiles
  <2>8. CASE EndDelete  BY <2>8, EndDeleteFiles
  <2>9. CASE Rebuild  BY <1>0, <2>9, FlushFiles, RebuildFiles DEF Rebuild
  <2> QED BY <1>3, <2>1, <2>2, <2>3, <2>4, <2>5, <2>6, <2>7, <2>8, <2>9 DEF Inside
<1>4. CASE \E e \in Edits : EndEdit(e)
  <2>1. PICK e \in Edits : EndEdit(e)  BY <1>4
  <2>2. CASE Commit(e)  BY <2>2, CommitFiles
  <2>3. CASE CommitNothing(e) \/ CommitFailed(e) \/ Abort(e)  BY <1>0, <2>3, EndFailedFiles
  <2>4. CASE RemoveFailed(e)  BY <2>4, RemovalFiles
  <2>5. CASE EndStale(e)  BY <2>5, EndStaleFiles
  <2> QED BY <2>1, <2>2, <2>3, <2>4, <2>5 DEF EndEdit
<1>5. CASE Spill  BY <1>0, <1>5, SpillFiles
<1>6. CASE Crash  BY <1>6, CrashFiles
<1>7. CASE UNCHANGED vars  BY <1>7, StutterFiles
<1> QED BY <1>1, <1>2, <1>3, <1>4, <1>5, <1>6, <1>7 DEF Next

LEMMA FilesHold == Spec => [](Inv /\ FileInv)
<1>1. Init => Inv /\ FileInv  BY InitInv, InitFiles
<1>2. Inv /\ FileInv /\ [Next]_vars => (Inv /\ FileInv)'  BY NextKeeps, NextFiles
<1> QED BY <1>1, <1>2, PTL DEF Spec

LEMMA FilesRecovered == Inv /\ FileInv => RecoveryWhole
<1> SUFFICES ASSUME Inv, FileInv PROVE RecoveryWhole  OBVIOUS
<1> DEFINE m == ReadJournal(OnDisk)
<1>1. \A k \in Keys : ~Corrupt(OnDisk) => Fits(m.entries[k], entries[k], clean[k], dirty[k],
                                               ~cut /\ busy.op # "deleting")
  BY DEF FileInv, DiskFits
<1>2. ~Corrupt(OnDisk) => Sound(m.entries)  BY FoundFile, JournalRead
<1>3. RecoveredAreWhole
  <2> SUFFICES ASSUME NEW k \in Keys, Recovered[k] # NULL, clean[k] # NULL
               PROVE  Recovered[k].readable /\ clean[k] = Recovered[k].length
    BY DEF RecoveredAreWhole
  <2>1. ~Corrupt(OnDisk)  BY DEF Recovered, None
  <2>2. Recovered = ProcessJournal(m).entries  BY <2>1 DEF Recovered
  <2>3. ReadJournal(OnDisk) = m  OBVIOUS
  <2> HIDE DEF m
  <2>4. Recovered[k] = IF k \in Kept(m) THEN m.entries[k] ELSE NULL  BY <2>2 DEF ProcessJournal
  <2>5. Recovered[k] = m.entries[k] /\ m.entries[k] # NULL /\ m.entries[k].editor = NULL
    BY <2>4 DEF Kept
  <2>6. clean[k] = m.entries[k].length  BY <1>1, <2>1, <2>5 DEF Fits
  <2>7. m.entries[k].readable  BY <1>2, <2>1, <2>5 DEF Sound
  <2> QED BY <2>5, <2>6, <2>7
<1>4. NoLeaks
  <2> SUFFICES ASSUME ~cut, busy.op # "deleting", ~Corrupt(OnDisk), NEW k \in Keys,
                      clean[k] # NULL \/ dirty[k] # NULL
               PROVE  m.entries[k] # NULL
    BY DEF NoLeaks
  <2> HIDE DEF m
  <2> QED BY <1>1 DEF Fits
<1> QED BY <1>3, <1>4 DEF RecoveryWhole

\* A commit is atomic through crashes at any point between two file operations:
\* an entry that a restart brings back has the file its last CLEAN line speaks
\* of, or none, and every file in the directory belongs to an entry the journal
\* names, to be kept or deleted.
THEOREM RestartsFindWhole == Spec => []RecoveryWhole
BY FilesHold, FilesRecovered, PTL

(***************************************************************************)
(* The cache implements PersistentStore. `Shown` is what a reader of an    *)
(* open cache gets of a key, `Stored` what the disk keeps of it for the    *)
(* next open().                                                            *)
(***************************************************************************)
UnderEdit(k) == entries[k] # NULL /\ entries[k].editor # NULL

Publishing(k) == busy.op = "publish" /\ editors[busy.arg].key = k

Shown(k) == IF ~Has(entries[k]) THEN NULL ELSE IF Publishing(k) THEN busy.old ELSE clean[k]

KeptOf(r) == r # NULL /\ r.editor = NULL

Stored(k) == IF KeptOf(ReadJournal(OnDisk).entries[k]) THEN clean[k] ELSE NULL

Editing == {k \in Keys : UnderEdit(k)}

StoreStep == Store!Next \/ UNCHANGED Store!vars

\* close() and delete() go on once every edit is aborted.
EndInv ==
    busy.op = "trim" /\ busy.arg \in {"close", "delete"} => \A k \in Keys : ~UnderEdit(k)

\* A commit without a file publishes what was there.
OldInv == busy.op = "publish" /\ ~busy.new => busy.old = clean[editors[busy.arg].key]

\* The file of an entry goes before its REMOVE line is on the disk.
RemovingInv ==
    \A i \in DOMAIN buffer : buffer[i].op = "REMOVE" => clean[buffer[i].key] = NULL

StoreInv == EndInv /\ OldInv /\ RemovingInv

\* What there is to see, while the cache is open and while it is not.
LEMMA VisibleOpen == isOpen => Visible = [k \in Keys |-> Shown(k)]
BY DEF Visible, Shown, Publishing, Has

LEMMA VisibleClosed == ~isOpen /\ ~Corrupt(OnDisk) => Visible = [k \in Keys |-> Stored(k)]
<1> SUFFICES ASSUME ~isOpen, ~Corrupt(OnDisk) PROVE Visible = [k \in Keys |-> Stored(k)]
  OBVIOUS
<1>1. PICK m : m = ReadJournal(OnDisk)  OBVIOUS
<1>2. Recovered = ProcessJournal(m).entries  BY <1>1 DEF Recovered
<1>3. ASSUME NEW k \in Keys
      PROVE  (IF Recovered[k] = NULL THEN NULL ELSE clean[k]) = Stored(k)
  <2>1. Recovered[k] = IF k \in Kept(m) THEN m.entries[k] ELSE NULL  BY <1>2 DEF ProcessJournal
  <2>2. Recovered[k] # NULL <=> KeptOf(m.entries[k])  BY <2>1 DEF Kept, KeptOf
  <2> QED BY <1>1, <2>2 DEF Stored
<1>4. Visible = [k \in Keys |-> IF Recovered[k] = NULL THEN NULL ELSE clean[k]]
  BY DEF Visible
<1> QED BY <1>3, <1>4

LEMMA OpenAfter == isOpen' => Visible' = [k \in Keys |-> Shown(k)']
BY DEF Visible, Shown, Publishing, Has

LEMMA ClosedAfter == ~isOpen' /\ ~Corrupt(OnDisk') => Visible' = [k \in Keys |-> Stored(k)']
<1>1. (~isOpen /\ ~Corrupt(OnDisk) => Visible = [k \in Keys |-> Stored(k)])'
  BY VisibleClosed, PTL
<1> QED BY <1>1

\* A step that concerns one key of the open cache.
LEMMA KeyStep ==
    ASSUME isOpen, isOpen' = isOpen, NEW k \in Keys,
           \A j \in Keys \ {k} : Shown(j)' = Shown(j) /\ (UnderEdit(j)' <=> UnderEdit(j)),
           \/ Shown(k)' = Shown(k)
           \/ Shown(k)' = NULL /\ ~UnderEdit(k) /\ ~UnderEdit(k)'
           \/ Shown(k)' \in Lengths /\ UnderEdit(k) /\ ~UnderEdit(k)'
    PROVE  StoreStep
<1> DEFINE v == Visible
           w == Visible'
           d == Editing
           f == Editing'
<1>1. v = [j \in Keys |-> Shown(j)] /\ w = [j \in Keys |-> Shown(j)']
  BY VisibleOpen, OpenAfter
<1>2. /\ \A j \in Keys : j \in d <=> UnderEdit(j)
      /\ \A j \in Keys : j \in f <=> UnderEdit(j)'
      /\ d \subseteq Keys /\ f \subseteq Keys
  BY DEF Editing
<1>3. /\ Store!Begin(k) <=> isOpen /\ k \notin d /\ f = d \cup {k} /\ isOpen' = isOpen /\ w = v
      /\ Store!Abandon(k) <=> k \in d /\ f = d \ {k} /\ isOpen' = isOpen /\ w = v
      /\ Store!Publish(k) <=> /\ k \in d /\ f = d \ {k} /\ isOpen' = isOpen
                              /\ \E n \in Lengths : w = [v EXCEPT ![k] = n]
      /\ Store!Drop <=> /\ isOpen' = isOpen /\ f = d
                        /\ \E S \in SUBSET (Keys \ d) :
                               w = [j \in Keys |-> IF j \in S THEN NULL ELSE v[j]]
      /\ UNCHANGED Store!vars <=> w = v /\ f = d /\ isOpen' = isOpen
  BY DEF Store!Begin, Store!Abandon, Store!Publish, Store!Drop, Store!vars, Editing, UnderEdit
<1>4. Store!Begin(k) \/ Store!Abandon(k) \/ Store!Publish(k) \/ Store!Drop
         \/ UNCHANGED Store!vars => StoreStep
  BY DEF StoreStep, Store!Next
<1> HIDE DEF v, w, d, f
<1>5. CASE Shown(k)' = Shown(k)
  <2>1. w = v  BY <1>1, <1>5
  <2>2. CASE UnderEdit(k)' <=> UnderEdit(k)
    <3>1. f = d  BY <1>2, <2>2
    <3> QED BY <1>3, <1>4, <2>1, <3>1
  <2>3. CASE UnderEdit(k)' /\ ~UnderEdit(k)
    <3>1. k \notin d /\ f = d \cup {k}  BY <1>2, <2>3
    <3> QED BY <1>3, <1>4, <2>1, <3>1
  <2>4. CASE ~UnderEdit(k)' /\ UnderEdit(k)
    <3>1. k \in d /\ f = d \ {k}  BY <1>2, <2>4
    <3> QED BY <1>3, <1>4, <2>1, <3>1
  <2> QED BY <2>2, <2>3, <2>4
<1>6. CASE Shown(k)' = NULL /\ ~UnderEdit(k) /\ ~UnderEdit(k)'
  <2>1. f = d /\ {k} \in SUBSET (Keys \ d)  BY <1>2, <1>6
  <2>2. w = [j \in Keys |-> IF j \in {k} THEN NULL ELSE v[j]]  BY <1>1, <1>6
  <2>3. Store!Drop  BY <1>3, <2>1, <2>2
  <2> QED BY <1>4, <2>3
<1>7. CASE Shown(k)' \in Lengths /\ UnderEdit(k) /\ ~UnderEdit(k)'
  <2>1. k \in d /\ f = d \ {k}  BY <1>2, <1>7
  <2>2. PICK n \in Lengths : n = Shown(k)'  BY <1>7
  <2>3. w = [v EXCEPT ![k] = n]  BY <1>1, <2>2
  <2>4. Store!Publish(k)  BY <1>3, <2>1, <2>3
  <2> QED BY <1>4, <2>4
<1> QED BY <1>5, <1>6, <1>7

LEMMA SameStep ==
    ASSUME isOpen, isOpen' = isOpen,
           \A j \in Keys : Shown(j)' = Shown(j) /\ (UnderEdit(j)' <=> UnderEdit(j))
    PROVE  StoreStep
<1>1. Visible' = Visible  BY VisibleOpen, OpenAfter
<1>2. Editing' = Editing  BY DEF Editing
<1> QED BY <1>1, <1>2 DEF StoreStep, Store!vars, Editing, UnderEdit

\* Nothing a reader asks for changes.
LEMMA CalmShown ==
    ASSUME isOpen, busy.op # "publish", busy'.op # "publish", UNCHANGED <<isOpen, entries, clean>>
    PROVE  StoreStep
<1>1. ASSUME NEW j \in Keys PROVE Shown(j)' = Shown(j) /\ (UnderEdit(j)' <=> UnderEdit(j))
  BY DEF Shown, UnderEdit, Publishing
<1> QED BY <1>1, SameStep

\* One entry changes while no commit is under way.
LEMMA EntryShown ==
    ASSUME isOpen, busy.op # "publish", busy'.op # "publish", isOpen' = isOpen, NEW k \in Keys,
           \A j \in Keys \ {k} : entries'[j] = entries[j] /\ clean'[j] = clean[j],
           \/ clean'[k] = clean[k] /\ (Has(entries'[k]) <=> Has(entries[k]))
           \/ entries'[k] = NULL /\ ~UnderEdit(k)
    PROVE  StoreStep
<1>1. ASSUME NEW j \in Keys \ {k}
      PROVE  Shown(j)' = Shown(j) /\ (UnderEdit(j)' <=> UnderEdit(j))
  <2>1. entries'[j] = entries[j] /\ clean'[j] = clean[j]  OBVIOUS
  <2> QED BY <2>1 DEF Shown, UnderEdit, Publishing
<1>2. CASE clean'[k] = clean[k] /\ (Has(entries'[k]) <=> Has(entries[k]))
  <2>1. Shown(k)' = Shown(k)  BY <1>2 DEF Shown, Publishing
  <2> QED BY <1>1, <2>1, KeyStep
<1>3. CASE entries'[k] = NULL /\ ~UnderEdit(k)
  <2>1. Shown(k)' = NULL /\ ~UnderEdit(k)'  BY <1>3 DEF Shown, Has, UnderEdit
  <2> QED BY <1>1, <1>3, <2>1, KeyStep
<1> QED BY <1>2, <1>3

\* The steps of an open cache that no reader notices.
LEMMA QuietShown ==
    ASSUME Inv,
           \/ MonitorStep \/ EndFlush \/ Rebuild \/ Spill
           \/ \E k \in Keys : Get(k)
           \/ \E e \in Edits : EndStale(e) /\ isOpen
           \/ \E e \in Edits, n \in Lengths, failed \in BOOLEAN : Write(e, n, failed)
    PROVE  StoreStep
<1> SUFFICES isOpen /\ busy.op # "publish" /\ busy'.op # "publish"
             /\ UNCHANGED <<isOpen, entries, clean>>
  BY CalmShown
<1>1. CASE MonitorStep
  <2>1. /\ isOpen /\ busy.op \in {"idle", "trim"} /\ busy'.op \in {"idle", "trim", "abort", "rebuild"}
        /\ UNCHANGED <<isOpen, lruVars, fileVars>>
    BY <1>1, MonitorOnly
  <2> QED BY <2>1 DEF lruVars, fileVars
<1>2. CASE EndFlush
  <2>1. busy.op = "trim" /\ busy' = IDLE /\ UNCHANGED <<isOpen, entries, clean>>
    BY <1>2 DEF EndFlush, Trimmed, lruVars, fileVars
  <2> QED BY <2>1, BusyOps DEF IDLE
<1>3. CASE Rebuild
  <2>1. /\ busy.op \in {"rebuild", "backup", "swap", "unback"}
        /\ busy'.op \in {"backup", "swap", "unback", "idle"}
        /\ UNCHANGED <<isOpen, entries, clean>>
    <3>1. CASE RebuildWrite  BY <3>1 DEF RebuildWrite, RebuildStep, Busy, IDLE, lruVars, fileVars
    <3>2. CASE RebuildBackup  BY <3>2 DEF RebuildBackup, RebuildStep, Busy, IDLE, lruVars, fileVars
    <3>3. CASE RebuildSwap  BY <3>3 DEF RebuildSwap, RebuildStep, Busy, IDLE, lruVars, fileVars
    <3>4. CASE RebuildEnd  BY <3>4 DEF RebuildEnd, IDLE, lruVars, fileVars
    <3> QED BY <1>3, <3>1, <3>2, <3>3, <3>4 DEF Rebuild
  <2> QED BY <2>1, BusyOps
<1>4. CASE Spill  BY <1>4, ReadyOps DEF Spill, Ready, lruVars, fileVars
<1>5. CASE \E k \in Keys : Get(k)  BY <1>5, ReadyOps DEF Get, Ready, fileVars
<1>6. CASE \E e \in Edits : EndStale(e) /\ isOpen
  BY <1>6, ReadyOps DEF EndStale, lruVars, fileVars
<1>7. CASE \E e \in Edits, n \in Lengths, failed \in BOOLEAN : Write(e, n, failed)
  <2>1. PICK e \in Edits, n \in Lengths, failed \in BOOLEAN : Write(e, n, failed)  BY <1>7
  <2>2. Idle /\ Current(e) /\ UNCHANGED <<isOpen, entries, clean, busy>>
    BY <2>1 DEF Write, lruVars
  <2> QED BY <2>2, ReadyOps, CurrentFacts
<1> QED BY <1>1, <1>2, <1>3, <1>4, <1>5, <1>6, <1>7

LEMMA EditShown ==
    ASSUME Inv, NEW e \in Edits, NEW k \in Keys, Edit(e, k)
    PROVE  StoreStep
<1> DEFINE old == IF entries[k] = NULL THEN Fresh ELSE entries[k]
           x == [old EXCEPT !.editor = e]
<1>1. isOpen /\ Idle /\ UNCHANGED <<isOpen, busy, clean>>
  BY DEF Edit, Ready, Called, fileVars
<1>2. busy.op = "idle"  BY <1>1, ReadyOps
<1>3. entries' = entries \/ entries' = [entries EXCEPT ![k] = x]  BY DEF Edit
<1>4. CASE entries' = entries  BY <1>1, <1>2, <1>4, CalmShown
<1>5. CASE entries' = [entries EXCEPT ![k] = x]
  <2>1. entries \in [Keys -> Entries \cup {NULL}]  BY DEF Inv, MemoryInv, MemoryTypes
  <2>2. old \in Entries
    <3>1. Fresh \in Entries  BY DEF Fresh, Entries
    <3> QED BY <2>1, <3>1
  <2>3. Has(x) <=> Has(entries[k])
    <3>1. x \in Entries /\ (x.readable <=> old.readable)  BY <2>2 DEF Entries
    <3>2. x # NULL  BY <3>1, EntryTypes
    <3>3. ~Fresh.readable  BY DEF Fresh
    <3> HIDE DEF x
    <3> QED BY <3>1, <3>2, <3>3 DEF Has
  <2> HIDE DEF x
  <2>4. entries'[k] = x /\ \A j \in Keys \ {k} : entries'[j] = entries[j]  BY <1>5, <2>1
  <2>5. Has(entries'[k]) <=> Has(entries[k])  BY <2>3, <2>4
  <2> QED BY <1>1, <1>2, <2>4, <2>5, EntryShown
<1> QED BY <1>3, <1>4, <1>5

LEMMA FailEditShown ==
    ASSUME Inv, NEW e \in Edits, Current(e), FailEdit(e), busy.op # "publish", busy' = busy
    PROVE  StoreStep
<1>1. PICK k : k = editors[e].key  OBVIOUS
<1>2. PICK y : y = entries[k]  OBVIOUS
<1>3. isOpen /\ k \in Keys /\ y \in Entries /\ y # NULL  BY <1>1, <1>2, CurrentFacts
<1> DEFINE x == IF y.readable THEN [y EXCEPT !.editor = NULL] ELSE NULL
<1>4. entries' = [entries EXCEPT ![k] = x] /\ UNCHANGED <<isOpen, clean>>
  BY <1>1, <1>2 DEF FailEdit
<1>5. Has(x) <=> Has(y)
  <2>1. CASE y.readable
    <3>1. x = [y EXCEPT !.editor = NULL]  BY <2>1
    <3>2. x \in Entries /\ x.readable = y.readable  BY <1>3, <3>1 DEF Entries
    <3>3. x # NULL  BY <3>2, EntryTypes
    <3> HIDE DEF x
    <3> QED BY <1>3, <3>2, <3>3 DEF Has
  <2>2. CASE ~y.readable  BY <2>2 DEF Has
  <2> QED BY <2>1, <2>2
<1> HIDE DEF x
<1>6. entries'[k] = x /\ \A j \in Keys \ {k} : entries'[j] = entries[j]
  BY <1>3, <1>4 DEF Inv, MemoryInv, MemoryTypes
<1>7. Has(entries'[k]) <=> Has(entries[k])  BY <1>2, <1>5, <1>6
<1> QED BY <1>3, <1>4, <1>6, <1>7, EntryShown

LEMMA FailuresShown ==
    ASSUME Inv, CloseAborts \/ \E e \in Edits : Abort(e) \/ CommitNothing(e) \/ CommitFailed(e)
    PROVE  StoreStep
<1>1. CASE \E e \in Edits : Abort(e) \/ CommitNothing(e) \/ CommitFailed(e)
  <2>1. PICK e \in Edits : Idle /\ Current(e) /\ FailEdit(e) /\ busy' = busy
    BY <1>1 DEF Abort, CommitNothing, CommitFailed
  <2> QED BY <2>1, ReadyOps, FailEditShown
<1>2. CASE CloseAborts
  <2>1. busy.op = "abort"  BY <1>2 DEF CloseAborts
  <2>2. isOpen  BY <2>1, BusyOps
  <2>3. CASE \E i \in DOMAIN order : FailEdit(entries[order[i]].editor) /\ Edited(i) /\ UNCHANGED busy
    <3>1. PICK e \in Edits : Current(e) /\ FailEdit(e) /\ busy' = busy  BY <2>3, AbortsCurrent
    <3> QED BY <2>1, <3>1, FailEditShown
  <2>4. CASE Busy("trim", busy.arg) /\ UNCHANGED <<isOpen, lruVars, fileVars>>
    <3>1. busy'.op = "trim"  BY <2>4 DEF Busy, IDLE
    <3> QED BY <2>1, <2>2, <2>4, <3>1, CalmShown DEF lruVars, fileVars
  <2> QED BY <1>2, <2>3, <2>4 DEF CloseAborts
<1> QED BY <1>1, <1>2

\* A commit shows readers the old file until its line is on the disk ...
LEMMA CommitShown ==
    ASSUME Inv, NEW e \in Edits, Commit(e)
    PROVE  StoreStep
<1>1. PICK k : k = editors[e].key  OBVIOUS
<1>2. /\ Idle /\ Current(e) /\ UNCHANGED <<isOpen, entries, editors>>
      /\ busy' = [op |-> "publish", arg |-> e, old |-> clean[k], new |-> dirty[k] # NULL]
      /\ clean' = IF dirty[k] # NULL THEN [clean EXCEPT ![k] = dirty[k]] ELSE clean
  BY <1>1 DEF Commit, lruVars
<1>3. busy.op = "idle" /\ isOpen /\ k \in Keys  BY <1>1, <1>2, ReadyOps, CurrentFacts
<1>4. busy'.op = "publish" /\ busy'.old = clean[k] /\ editors'[busy'.arg].key = k
  BY <1>1, <1>2
<1>5. \A j \in Keys \ {k} : clean'[j] = clean[j]
  BY <1>2, <1>3 DEF Inv, MemoryInv, MemoryTypes
<1>6. ASSUME NEW j \in Keys PROVE Shown(j)' = Shown(j) /\ (UnderEdit(j)' <=> UnderEdit(j))
  <2>1. CASE j = k  BY <1>2, <1>3, <1>4, <2>1 DEF Shown, Publishing, UnderEdit
  <2>2. CASE j # k
    <3>1. clean'[j] = clean[j] /\ entries'[j] = entries[j]  BY <1>2, <1>5, <2>2
    <3> QED BY <1>3, <1>4, <2>2, <3>1 DEF Shown, Publishing, UnderEdit
  <2> QED BY <2>1, <2>2
<1> QED BY <1>2, <1>3, <1>6, SameStep

\* ... and then the new one, in one step, if the edit wrote one.
LEMMA PublishShown ==
    ASSUME Inv, StoreInv, NEW e \in Edits, Publish(e)
    PROVE  StoreStep
<1>1. PICK k : k = editors[e].key  OBVIOUS
<1>2. PICK n : n = NewLength(e)  OBVIOUS
<1> DEFINE x == [readable |-> TRUE, editor |-> NULL, length |-> n]
<1>3. /\ busy.op = "publish" /\ busy.arg = e /\ busy' = IDLE
      /\ entries' = [entries EXCEPT ![k] = x] /\ UNCHANGED <<isOpen, clean>>
  BY <1>1, <1>2 DEF Publish, PublishAs, fileVars
<1>4. /\ Current(e) /\ (busy.new => clean[k] # NULL) /\ (~busy.new => entries[k].readable)
  BY <1>1, <1>3 DEF Inv, MemoryInv, PublishInv
<1>5. /\ isOpen /\ k \in Keys /\ entries[k] # NULL /\ entries[k].editor = e
      /\ entries[k] \in Entries
  BY <1>1, <1>4, CurrentFacts
<1>6. n \in Lengths \cup {0}
  <2>1. n = IF busy.new THEN clean[k] ELSE entries[k].length
    BY <1>1, <1>2 DEF NewLength, OldLength
  <2>2. clean[k] \in Lengths \cup {NULL}  BY <1>5 DEF Inv, MemoryInv, MemoryTypes
  <2>3. entries[k].length \in Lengths \cup {0}  BY <1>5, EntryTypes
  <2>4. CASE busy.new  BY <1>4, <2>1, <2>2, <2>4
  <2>5. CASE ~busy.new  BY <2>1, <2>3, <2>5
  <2> QED BY <2>4, <2>5
<1>7. x # NULL /\ x.readable /\ x.editor = NULL
  <2>1. x \in Entries  BY <1>6 DEF Entries
  <2> QED BY <2>1, EntryTypes
<1> HIDE DEF x
<1>8. entries'[k] = x /\ \A j \in Keys \ {k} : entries'[j] = entries[j]
  BY <1>3, <1>5 DEF Inv, MemoryInv, MemoryTypes
<1>9. busy'.op # "publish"  BY <1>3 DEF IDLE
<1>10. \A j \in Keys \ {k} : Shown(j)' = Shown(j) /\ (UnderEdit(j)' <=> UnderEdit(j))
  <2> SUFFICES ASSUME NEW j \in Keys \ {k}
               PROVE  Shown(j)' = Shown(j) /\ (UnderEdit(j)' <=> UnderEdit(j))
    OBVIOUS
  <2>1. entries'[j] = entries[j] /\ clean'[j] = clean[j]  BY <1>3, <1>8
  <2> QED BY <1>1, <1>3, <1>9, <2>1 DEF Shown, Publishing, UnderEdit
<1>11. Shown(k)' = clean[k]  BY <1>3, <1>7, <1>8, <1>9 DEF Shown, Has, Publishing
<1>12. UnderEdit(k) /\ ~UnderEdit(k)'  BY <1>5, <1>7, <1>8, NullAssumption DEF UnderEdit
<1>13. CASE busy.new
  <2>1. clean[k] \in Lengths
    BY <1>4, <1>5, <1>13 DEF Inv, MemoryInv, MemoryTypes
  <2> QED BY <1>3, <1>5, <1>10, <1>11, <1>12, <2>1, KeyStep
<1>14. CASE ~busy.new
  <2>1. busy.old = clean[k]  BY <1>1, <1>3, <1>14 DEF StoreInv, OldInv
  <2>2. Shown(k) = busy.old  BY <1>1, <1>3, <1>4, <1>5, <1>14 DEF Shown, Has, Publishing
  <2> QED BY <1>3, <1>5, <1>10, <1>11, <2>1, <2>2, KeyStep
<1> QED BY <1>13, <1>14

LEMMA RemovalShown ==
    ASSUME Inv,
           \/ \E k \in Keys : Remove(k)
           \/ \E e \in Edits : RemoveFailed(e)
           \/ TrimEldest
    PROVE  StoreStep
<1>1. PICK k \in Keys : RemoveOrTouch(k) /\ UNCHANGED <<isOpen, busy>>
                        /\ isOpen /\ busy.op \in {"idle", "trim"}
  BY RemovalKey
<1>2. CASE Removable(k)
  <2>1. /\ clean' = [clean EXCEPT ![k] = NULL] /\ entries' = [entries EXCEPT ![k] = NULL]
    BY <1>1, <1>2 DEF RemoveOrTouch, RemoveEntry
  <2>2. /\ entries'[k] = NULL
        /\ \A j \in Keys \ {k} : entries'[j] = entries[j] /\ clean'[j] = clean[j]
    BY <2>1 DEF Inv, MemoryInv, MemoryTypes
  <2>3. ~UnderEdit(k)  BY <1>2 DEF Removable, UnderEdit
  <2> QED BY <1>1, <2>2, <2>3, EntryShown
<1>3. CASE ~Removable(k)
  <2>1. UNCHANGED <<entries, clean>>  BY <1>1, <1>3 DEF RemoveOrTouch, fileVars
  <2> QED BY <1>1, <2>1, CalmShown
<1> QED BY <1>2, <1>3

(***************************************************************************)
(* Opening, closing, crashes and deletions.                                *)
(***************************************************************************)
\* The cache is opened with what the disk kept.
LEMMA OpensStored ==
    ASSUME Inv, ~isOpen, ~Corrupt(OnDisk), isOpen',
           \A k \in Keys : Shown(k)' = Stored(k) /\ ~UnderEdit(k)'
    PROVE  StoreStep
<1>1. Visible' = Visible  BY VisibleClosed, OpenAfter
<1>2. Editing = {} /\ Editing' = {}
  <2>1. entries = None  BY DEF Inv, MemoryInv
  <2> QED BY <2>1 DEF Editing, UnderEdit, None
<1>3. Store!Open  BY <1>1, <1>2 DEF Store!Open, Editing, UnderEdit
<1> QED BY <1>3 DEF StoreStep, Store!Next

LEMMA OpenJournalShown ==
    ASSUME Inv, OpenJournal
    PROVE  StoreStep
<1> DEFINE p == ProcessJournal(ReadJournal(OnDisk))
<1>1. /\ ~isOpen /\ isOpen' /\ Idle /\ ~Corrupt(OnDisk) /\ entries' = p.entries
      /\ busy' = busy
  BY DEF OpenJournal
<1>2. PICK m : m = ReadJournal(OnDisk)  OBVIOUS
<1>3. \A k \in Keys : clean'[k] = IF m.entries[k] # NULL /\ k \notin Kept(m) THEN NULL
                                  ELSE clean[k]
  BY <1>2 DEF OpenJournal
<1>4. \A k \in Keys : entries'[k] = IF k \in Kept(m) THEN m.entries[k] ELSE NULL
  BY <1>1, <1>2 DEF ProcessJournal
<1>5. Sound(m.entries)  BY <1>1, <1>2, FoundFile, JournalRead
<1> HIDE DEF p
<1>6. busy'.op # "publish"  BY <1>1, ReadyOps
<1>7. ASSUME NEW k \in Keys PROVE Shown(k)' = Stored(k) /\ ~UnderEdit(k)'
  <2>1. CASE k \in Kept(m)
    <3>1. entries'[k] = m.entries[k] /\ KeptOf(m.entries[k])  BY <1>4, <2>1 DEF Kept, KeptOf
    <3>2. Has(entries'[k])  BY <1>5, <3>1 DEF Sound, KeptOf, Has
    <3>3. clean'[k] = clean[k]  BY <1>3, <2>1
    <3> QED BY <1>2, <1>6, <3>1, <3>2, <3>3 DEF Shown, Stored, Publishing, UnderEdit, KeptOf
  <2>2. CASE k \notin Kept(m)
    <3>1. entries'[k] = NULL /\ ~KeptOf(m.entries[k])  BY <1>4, <2>2 DEF Kept, KeptOf
    <3> QED BY <1>2, <3>1 DEF Shown, Stored, Has, UnderEdit
  <2> QED BY <2>1, <2>2
<1> QED BY <1>1, <1>7, OpensStored

LEMMA OpenNewShown ==
    ASSUME Inv, OpenNew
    PROVE  StoreStep
<1>1. ~isOpen /\ isOpen' /\ Found = NULL /\ entries' = entries  BY DEF OpenNew, lruVars
<1>2. OnDisk = <<>>  BY <1>1 DEF OnDisk
<1>3. entries' = None  BY <1>1 DEF Inv, MemoryInv
<1>4. ASSUME NEW k \in Keys PROVE Shown(k)' = Stored(k) /\ ~UnderEdit(k)'
  <2>1. entries'[k] = NULL /\ ReadJournal(OnDisk).entries[k] = NULL
    BY <1>2, <1>3, EmptyTells DEF None
  <2> QED BY <2>1 DEF Shown, Stored, Has, KeptOf, UnderEdit
<1> QED BY <1>1, <1>2, <1>4, EmptyTells, OpensStored

\* What the disk says of entries nobody edits when nothing waits to be written.
LEMMA ToldStored ==
    ASSUME NEW r, Mirrors(entries, r), NEW k \in Keys, EntryInv(k), ~UnderEdit(k),
           busy.op # "publish"
    PROVE  Shown(k) = IF KeptOf(r[k]) THEN clean[k] ELSE NULL
<1>1. CASE entries[k] = NULL
  <2>1. ~KeptOf(r[k])  BY <1>1, NullAssumption DEF Mirrors, KeptOf
  <2> QED BY <1>1, <2>1 DEF Shown, Has
<1>2. CASE entries[k] # NULL
  <2>1. entries[k].editor = NULL /\ r[k] = entries[k]  BY <1>2 DEF UnderEdit, Mirrors
  <2>2. Has(entries[k])  BY <1>2, <2>1 DEF EntryInv, Has
  <2> QED BY <1>2, <2>1, <2>2 DEF Shown, KeptOf, Publishing
<1> QED BY <1>1, <1>2

LEMMA EndCloseShown ==
    ASSUME Inv, StoreInv, EndClose, ~Damaged'
    PROVE  StoreStep
<1>1. /\ busy.op = "trim" /\ busy.arg \in {"close", "delete"}
      /\ ~isOpen' /\ entries' = None
      /\ journal' = Written(buffer) /\ torn' = (IF buffer = <<>> THEN torn ELSE "none")
      /\ buffer' = <<>> /\ clean' = clean
  BY DEF EndClose, Trimmed, Flushed, fileVars, Gone
<1>2. isOpen  BY <1>1, BusyOps
<1>3. /\ journal' # NULL /\ journal' \in Seq(Lines)
      /\ torn' # "dead" => Tells(journal', entries)
  BY <1>1, <1>2, FlushStep DEF Inv
<1>4. OnDisk' = journal'  BY <1>3 DEF OnDisk, Found
<1>5. torn' # "dead" /\ ~Corrupt(OnDisk')
  <2>1. ~Corrupt(OnDisk' \o <<>>) /\ torn' # "dead"  BY <1>1 DEF Damaged
  <2>2. OnDisk' \o <<>> = OnDisk'  BY <1>3, <1>4, ConcatEmptySeq
  <2> QED BY <2>1, <2>2
<1>6. PICK r : r = ReadJournal(OnDisk').entries  OBVIOUS
<1>7. Mirrors(entries, r)  BY <1>3, <1>4, <1>5, <1>6 DEF Tells
<1>8. \A k \in Keys : ~UnderEdit(k)  BY <1>1 DEF StoreInv, EndInv
<1>9. ASSUME NEW k \in Keys PROVE Shown(k) = Stored(k)'
  <2>1. Shown(k) = IF KeptOf(r[k]) THEN clean[k] ELSE NULL
    <3>1. EntryInv(k)  BY DEF Inv, MemoryInv
    <3> QED BY <1>1, <1>7, <1>8, <3>1, ToldStored
  <2> QED BY <1>1, <1>6, <2>1 DEF Stored
<1>10. Visible' = Visible  BY <1>1, <1>2, <1>5, <1>9, VisibleOpen, ClosedAfter
<1>11. Editing = {} /\ Editing' = {}  BY <1>1, <1>8 DEF Editing, UnderEdit, None
<1>12. Store!Close  BY <1>1, <1>2, <1>10, <1>11 DEF Store!Close, Editing, UnderEdit
<1> QED BY <1>12 DEF StoreStep, Store!Next

\* A process that dies takes the edits with it, and nothing else: of what waited
\* to be written readers had seen the removals only, whose files are gone.
LEMMA CrashStored ==
    ASSUME Inv, FileInv, StoreInv, isOpen, torn # "dead", ~Corrupt(Log), ~Corrupt(OnDisk),
           NEW k \in Keys
    PROVE  Stored(k) = IF UnderEdit(k) THEN NULL ELSE Shown(k)
<1>1. OnDisk \in Seq(Lines) /\ buffer \in Seq(Lines)  BY FoundFile DEF Inv, JournalInv
<1>2. PICK s : s = OnDisk  OBVIOUS
<1>3. PICK t : t = buffer  OBVIOUS
<1>4. PICK p : p = ReadJournal(s).entries[k]  OBVIOUS
<1>5. PICK q : q = ReadJournal(s \o t).entries  OBVIOUS
<1>6. Log = s \o t  BY <1>2, <1>3 DEF Log
<1>7. SoundJournal(s \o t) /\ Mirrors(entries, q) /\ ~Corrupt(s \o t)
  BY <1>5, <1>6 DEF Inv, JournalInv, Tells
<1>8. \/ q[k] = p
      \/ q[k] = NULL /\ \E i \in DOMAIN t : t[i].op = "REMOVE" /\ t[i].key = k
  <2>1. \A i \in DOMAIN t : t[i].op \in {"READ", "REMOVE"}
    BY <1>3 DEF FileInv, BufferInv, Waits
  <2>2. s \in Seq(Lines) /\ t \in Seq(Lines)  BY <1>1, <1>2, <1>3
  <2>3. \/ ReadJournal(s \o t).entries[k] = ReadJournal(s).entries[k]
        \/ /\ ReadJournal(s \o t).entries[k] = NULL
           /\ \E i \in DOMAIN t : t[i].op = "REMOVE" /\ t[i].key = k
    BY <1>7, <2>1, <2>2, WaitingRead
  <2> QED BY <1>4, <1>5, <2>3
<1>9. Stored(k) = IF KeptOf(p) THEN clean[k] ELSE NULL  BY <1>2, <1>4 DEF Stored
<1>10. CASE UnderEdit(k)
  <2>1. Fits(p, entries[k], clean[k], dirty[k], ~cut /\ busy.op # "deleting")
    BY <1>2, <1>4 DEF FileInv, DiskFits
  <2>2. ~KeptOf(p)  BY <1>10, <2>1, NullAssumption DEF Fits, UnderEdit, KeptOf
  <2> QED BY <1>9, <1>10, <2>2
<1>11. CASE ~UnderEdit(k)
  <2>1. EntryInv(k)  BY DEF Inv, MemoryInv
  <2>2. CASE entries[k] = NULL
    <3>1. Shown(k) = NULL  BY <2>2 DEF Shown, Has
    <3>2. CASE q[k] = p
      <4>1. ~KeptOf(p)  BY <1>7, <2>2, <3>2, NullAssumption DEF Mirrors, KeptOf
      <4> QED BY <1>9, <1>11, <3>1, <4>1
    <3>3. CASE \E i \in DOMAIN t : t[i].op = "REMOVE" /\ t[i].key = k
      <4>1. clean[k] = NULL  BY <1>3, <3>3 DEF StoreInv, RemovingInv
      <4> QED BY <1>9, <1>11, <3>1, <4>1
    <3> QED BY <1>8, <3>2, <3>3
  <2>3. CASE entries[k] # NULL
    <3>1. entries[k].editor = NULL /\ q[k] = entries[k]
      BY <1>7, <1>11, <2>3 DEF UnderEdit, Mirrors
    <3>2. Has(entries[k])  BY <2>1, <2>3, <3>1 DEF EntryInv, Has
    <3>3. p = entries[k] /\ KeptOf(p)  BY <1>8, <2>3, <3>1 DEF KeptOf
    <3>4. ~Publishing(k)
      <4> SUFFICES ASSUME Publishing(k) PROVE FALSE  OBVIOUS
      <4>1. Current(busy.arg) /\ busy.arg \in Edits /\ editors[busy.arg].key = k
        BY DEF Publishing, Inv, MemoryInv, PublishInv
      <4>2. entries[k].editor = busy.arg  BY <4>1 DEF Current
      <4> QED BY <3>1, <4>1, <4>2, NullAssumption
    <3> QED BY <1>9, <1>11, <3>2, <3>3, <3>4 DEF Shown
  <2> QED BY <2>2, <2>3
<1> QED BY <1>10, <1>11

LEMMA CrashShown ==
    ASSUME Inv, FileInv, StoreInv, Crash, ~Damaged, ~Damaged'
    PROVE  StoreStep
<1>1. /\ ~isOpen' /\ isOpen' = FALSE /\ entries' = None /\ buffer' = <<>>
      /\ UNCHANGED <<clean, journal, journalBackup>>
  BY DEF Crash, Gone, fileVars
<1>2. OnDisk' = OnDisk /\ OnDisk \in Seq(Lines)  BY <1>1, FoundFile DEF OnDisk, Found
<1>3. ~Corrupt(OnDisk) /\ torn # "dead" /\ ~Corrupt(Log)
  <2>1. ~Corrupt(OnDisk' \o <<>>)  BY <1>1 DEF Damaged
  <2>2. OnDisk' \o <<>> = OnDisk  BY <1>2, ConcatEmptySeq
  <2> QED BY <2>1, <2>2 DEF Damaged, Log
<1>4. Editing' = {}  BY <1>1 DEF Editing, UnderEdit, None
<1>5. \A k \in Keys : Stored(k)' = Stored(k)  BY <1>1, <1>2 DEF Stored
<1>6. Visible' = [k \in Keys |-> Stored(k)]  BY <1>1, <1>2, <1>3, <1>5, ClosedAfter
<1>7. CASE isOpen
  <2>1. \A k \in Keys : Stored(k) = IF UnderEdit(k) THEN NULL ELSE Shown(k)
    BY <1>3, <1>7, CrashStored
  <2>2. Visible = [k \in Keys |-> Shown(k)]  BY <1>7, VisibleOpen
  <2>3. \A k \in Keys : k \in Editing <=> UnderEdit(k)  BY DEF Editing
  <2>4. Visible' = [k \in Keys |-> IF k \in Editing THEN NULL ELSE Visible[k]]
    BY <1>6, <2>1, <2>2, <2>3
  <2>5. Store!Crash  BY <1>1, <1>4, <1>7, <2>4 DEF Store!Crash, Editing, UnderEdit
  <2> QED BY <2>5 DEF StoreStep, Store!Next
<1>8. CASE ~isOpen
  <2>1. Visible' = Visible  BY <1>3, <1>6, <1>8, VisibleClosed
  <2>2. Editing' = Editing
    <3>1. entries = None  BY <1>8 DEF Inv, MemoryInv
    <3> QED BY <1>1, <3>1 DEF Editing, UnderEdit
  <2>3. isOpen' = isOpen  BY <1>1, <1>8 DEF Inv, MemoryInv, MemoryTypes
  <2> QED BY <2>1, <2>2, <2>3 DEF StoreStep, Store!vars, Editing, UnderEdit
<1> QED BY <1>7, <1>8

LEMMA DeleteFileShown ==
    ASSUME Inv, FileInv, DeleteFile, ~Damaged, ~Damaged'
    PROVE  StoreStep
<1>1. busy.op = "deleting" /\ UNCHANGED <<isOpen, entries, buffer, busy, journalBackup>>
  BY DEF DeleteFile, lruVars
<1>2. ~isOpen /\ ~isOpen' /\ buffer = <<>>  BY <1>1 DEF Inv, JournalInv
<1>3. entries = None /\ entries' = None  BY <1>1, <1>2 DEF Inv, MemoryInv
<1>4. journalBackup = NULL  BY <1>1, <1>2 DEF FileInv, BackupInv
<1>5. journal' = journal \/ journal' = NULL  BY DEF DeleteFile
<1>6. \A k \in Keys : clean'[k] = clean[k] \/ clean'[k] = NULL
  BY DEF DeleteFile, fileVars, Inv, MemoryInv, MemoryTypes
<1>7. OnDisk' = OnDisk \/ OnDisk' = <<>>
  <2>1. CASE journal' = journal  BY <1>1, <2>1 DEF OnDisk, Found
  <2>2. CASE journal' = NULL  BY <1>1, <1>4, <2>2 DEF OnDisk, Found
  <2> QED BY <1>5, <2>1, <2>2
<1>8. ~Corrupt(OnDisk) /\ ~Corrupt(OnDisk')
  <2>1. ~Corrupt(OnDisk \o <<>>)  BY <1>2 DEF Damaged
  <2>2. OnDisk \o <<>> = OnDisk  BY FoundFile, ConcatEmptySeq
  <2> QED BY <1>7, <2>1, <2>2, EmptyTells
<1>9. \A k \in Keys : Stored(k)' = Stored(k) \/ Stored(k)' = NULL
  <2> SUFFICES ASSUME NEW k \in Keys PROVE Stored(k)' = Stored(k) \/ Stored(k)' = NULL
    OBVIOUS
  <2>1. CASE OnDisk' = OnDisk  BY <1>6, <2>1 DEF Stored
  <2>2. CASE OnDisk' = <<>>
    <3>1. ReadJournal(OnDisk').entries[k] = NULL  BY <2>2, EmptyTells DEF None
    <3> QED BY <3>1 DEF Stored, KeptOf
  <2> QED BY <1>7, <2>1, <2>2
<1> DEFINE gone == {k \in Keys : Stored(k)' = NULL}
<1>10. /\ Visible = [k \in Keys |-> Stored(k)]
       /\ Visible' = [k \in Keys |-> Stored(k)']
  BY <1>2, <1>8, VisibleClosed, ClosedAfter
<1>11. \A k \in Keys : Stored(k)' = IF k \in gone THEN NULL ELSE Stored(k)  BY <1>9
<1>12. gone \in SUBSET Keys  OBVIOUS
<1> HIDE DEF gone
<1>13. Visible' = [k \in Keys |-> IF k \in gone THEN NULL ELSE Visible[k]]  BY <1>10, <1>11
<1>14. Editing = {} /\ Editing' = {}  BY <1>3 DEF Editing, UnderEdit, None
<1>15. gone \in SUBSET (Keys \ Editing)  BY <1>12, <1>14
<1>16. Store!Drop  BY <1>1, <1>13, <1>14, <1>15 DEF Store!Drop, Editing, UnderEdit
<1> QED BY <1>16 DEF StoreStep, Store!Next

LEMMA EndDeleteShown ==
    ASSUME Inv, FileInv, EndDelete, ~Damaged
    PROVE  StoreStep
<1>1. /\ busy.op = "deleting" /\ busy' = IDLE /\ clean = None /\ journal' \in {<<>>, NULL}
      /\ isOpen' = (busy.arg = "open")
      /\ UNCHANGED <<entries, clean, journalBackup>>
  BY DEF EndDelete, lruVars, fileVars
<1>2. ~isOpen /\ isOpen = FALSE /\ buffer = <<>>
  BY <1>1 DEF Inv, JournalInv, MemoryInv, MemoryTypes
<1>3. entries = None /\ entries' = None  BY <1>1, <1>2 DEF Inv, MemoryInv
<1>4. journalBackup = NULL  BY <1>1, <1>2 DEF FileInv, BackupInv
<1>5. OnDisk' = <<>>  BY <1>1, <1>4 DEF OnDisk, Found
<1>6. ~Corrupt(OnDisk)
  <2>1. ~Corrupt(OnDisk \o <<>>)  BY <1>2 DEF Damaged
  <2>2. OnDisk \o <<>> = OnDisk  BY FoundFile, ConcatEmptySeq
  <2> QED BY <2>1, <2>2
<1>7. ASSUME NEW k \in Keys
      PROVE  Stored(k) = NULL /\ Stored(k)' = NULL /\ Shown(k)' = NULL /\ ~UnderEdit(k)'
  <2>1. clean[k] = NULL /\ clean'[k] = NULL /\ entries'[k] = NULL  BY <1>1, <1>3 DEF None
  <2> QED BY <2>1 DEF Stored, Shown, Has, UnderEdit
<1>8. CASE busy.arg = "open"
  <2>1. isOpen'  BY <1>1, <1>8
  <2> QED BY <1>2, <1>6, <1>7, <2>1, OpensStored
<1>9. CASE busy.arg # "open"
  <2>1. isOpen' = isOpen /\ ~isOpen'  BY <1>1, <1>2, <1>9
  <2>2. Visible' = Visible
    BY <1>2, <1>5, <1>6, <1>7, <2>1, EmptyTells, VisibleClosed, ClosedAfter
  <2>3. Editing' = Editing  BY <1>3 DEF Editing, UnderEdit
  <2> QED BY <2>1, <2>2, <2>3 DEF StoreStep, Store!vars, Editing, UnderEdit
<1> QED BY <1>8, <1>9

LEMMA StutterShown ==
    ASSUME UNCHANGED vars
    PROVE  StoreStep
<1>1. UNCHANGED <<isOpen, entries, buffer, busy, editors, clean, journal, journalBackup, torn>>
  BY DEF vars, lruVars, fileVars, journalVars
<1>2. OnDisk' = OnDisk  BY <1>1 DEF OnDisk, Found
<1>3. Visible' = Visible  BY <1>1, <1>2 DEF Visible, Recovered
<1> QED BY <1>1, <1>3 DEF StoreStep, Store!vars

LEMMA EndStaleShown ==
    ASSUME Inv, NEW e \in Edits, EndStale(e), ~Damaged, ~Damaged'
    PROVE  StoreStep
<1>1. Idle /\ UNCHANGED <<isOpen, entries, buffer, busy, clean, journal, journalBackup>>
  BY DEF EndStale, lruVars, fileVars, journalVars
<1>2. CASE isOpen  BY <1>2, QuietShown
<1>3. CASE ~isOpen
  <2>1. OnDisk' = OnDisk  BY <1>1 DEF OnDisk, Found
  <2>2. ~Corrupt(OnDisk)
    <3>1. buffer = <<>>  BY <1>3 DEF Inv, JournalInv
    <3>2. ~Corrupt(OnDisk \o <<>>)  BY <3>1 DEF Damaged
    <3>3. OnDisk \o <<>> = OnDisk  BY FoundFile, ConcatEmptySeq
    <3> QED BY <3>2, <3>3
  <2>3. \A k \in Keys : Stored(k)' = Stored(k)  BY <1>1, <2>1 DEF Stored
  <2>4. Visible' = Visible  BY <1>1, <1>3, <2>1, <2>2, <2>3, VisibleClosed, ClosedAfter
  <2> QED BY <1>1, <2>4 DEF StoreStep, Store!vars
<1> QED BY <1>2, <1>3

(***************************************************************************)
(* The invariant those steps rest on.                                      *)
(***************************************************************************)
\* The buffer was written out, or goes with the cache.
LEMMA NothingWaits ==
    ASSUME buffer' = <<>>, busy'.op \notin {"trim", "publish"}
    PROVE  StoreInv'
BY DEF StoreInv, EndInv, OldInv, RemovingInv

\* Files that lines wait for do not come back.
LEMMA RemovingStep ==
    ASSUME RemovingInv, BufferInv, buffer \in Seq(Lines), ~Corrupt(buffer), buffer' = buffer,
           \A k \in Keys : clean[k] = NULL /\ entries[k] = NULL => clean'[k] = NULL
    PROVE  RemovingInv'
<1> SUFFICES ASSUME NEW i \in DOMAIN buffer, NEW b, b = buffer[i], b.op = "REMOVE"
             PROVE  clean'[b.key] = NULL
  BY DEF RemovingInv
<1>1. Waits(b) /\ clean[b.key] = NULL  BY DEF BufferInv, RemovingInv
<1>2. b \in Lines /\ b # Garbled  BY DEF Corrupt
<1>3. b.key \in Keys  BY <1>1, <1>2 DEF Lines
<1> QED BY <1>1, <1>3 DEF Waits

LEMMA RemovingAppend ==
    ASSUME RemovingInv, buffer \in Seq(Lines), ~Corrupt(buffer), NEW l \in Lines, l # Garbled,
           buffer' = Append(buffer, l), l.op = "REMOVE" => clean'[l.key] = NULL,
           \A k \in Keys : clean[k] = NULL => clean'[k] = NULL
    PROVE  RemovingInv'
<1> DEFINE n == Len(buffer)
<1>1. n \in Nat /\ Len(buffer') = n + 1 /\ DOMAIN buffer = 1..n /\ DOMAIN buffer' = 1..(n + 1)
      /\ (\A i \in 1..n : buffer'[i] = buffer[i]) /\ buffer'[n + 1] = l
  BY AppendProperties, LenProperties
<1> HIDE DEF n
<1> SUFFICES ASSUME NEW i \in 1..(n + 1), NEW b, b = buffer'[i], b.op = "REMOVE"
             PROVE  clean'[b.key] = NULL
  BY <1>1 DEF RemovingInv
<1>2. b = buffer'[i]  OBVIOUS
<1>3. CASE i \in 1..n
  <2>1. b = buffer[i] /\ clean[b.key] = NULL  BY <1>1, <1>2, <1>3 DEF RemovingInv
  <2>2. b \in Lines /\ b # Garbled  BY <1>1, <1>3, <2>1 DEF Corrupt
  <2>3. b.key \in Keys  BY <2>2 DEF Lines
  <2> QED BY <2>1, <2>3
<1>4. CASE i = n + 1  BY <1>1, <1>2, <1>4
<1> QED BY <1>1, <1>3, <1>4

\* A step of an open cache that writes nothing and starts no close.
LEMMA StayedStep ==
    ASSUME Inv, FileInv, StoreInv, buffer' = buffer,
           \A k \in Keys : clean[k] = NULL /\ entries[k] = NULL => clean'[k] = NULL,
           EndInv', OldInv'
    PROVE  StoreInv'
<1>1. RemovingInv'  BY RemovingStep DEF Inv, JournalInv, FileInv, StoreInv
<1> QED BY <1>1 DEF StoreInv

LEMMA ShutStore ==
    ASSUME Inv, Inv',
           \/ Open \/ EndFlush \/ EndClose \/ DeleteFile \/ EndDelete \/ Crash
           \/ RebuildWrite \/ RebuildBackup \/ RebuildSwap
           \/ \E e \in Edits : Publish(e)
    PROVE  StoreInv'
<1> SUFFICES buffer' = <<>> /\ busy'.op \notin {"trim", "publish"}
  BY NothingWaits
<1>1. CASE Open
  <2>1. ~isOpen /\ Idle /\ UNCHANGED buffer /\ (busy' = busy \/ busy'.op = "deleting")
    BY <1>1 DEF Open, OpenJournal, OpenNew, OpenCorrupt, Busy, IDLE
  <2>2. busy.op = "idle"  BY <2>1, ReadyOps
  <2> QED BY <2>1, <2>2 DEF Inv, JournalInv
<1>2. CASE EndFlush
  <2>1. buffer' = <<>> /\ busy' = IDLE  BY <1>2 DEF EndFlush, Flushed
  <2> QED BY <2>1 DEF IDLE
<1>3. CASE EndClose
  <2>1. buffer' = <<>> /\ ~isOpen'  BY <1>3 DEF EndClose, Flushed, Gone
  <2>2. busy'.op \in {"idle", "deleting"}  BY <2>1 DEF Inv, JournalInv
  <2> QED BY <2>1, <2>2
<1>4. CASE DeleteFile
  <2>1. busy.op = "deleting" /\ UNCHANGED <<buffer, busy>>  BY <1>4 DEF DeleteFile
  <2> QED BY <2>1 DEF Inv, JournalInv
<1>5. CASE EndDelete
  <2>1. busy.op = "deleting" /\ UNCHANGED buffer /\ busy' = IDLE  BY <1>5 DEF EndDelete
  <2> QED BY <2>1 DEF Inv, JournalInv, IDLE
<1>6. CASE RebuildWrite
  <2>1. buffer' = <<>> /\ busy'.op = "backup"
    BY <1>6 DEF RebuildWrite, RebuildStep, Busy, IDLE
  <2> QED BY <2>1
<1>7. CASE RebuildBackup \/ RebuildSwap
  <2>1. busy.op \in {"backup", "swap"} /\ UNCHANGED buffer /\ busy'.op \in {"swap", "unback"}
    BY <1>7 DEF RebuildBackup, RebuildSwap, RebuildStep, Busy, IDLE
  <2> QED BY <2>1 DEF Inv, JournalInv
<1>8. CASE Crash
  <2>1. buffer' = <<>> /\ busy' = IDLE  BY <1>8 DEF Crash
  <2> QED BY <2>1 DEF IDLE
<1>9. CASE \E e \in Edits : Publish(e)
  <2>1. buffer' = <<>> /\ busy' = IDLE  BY <1>9 DEF Publish, PublishAs, Flushed
  <2> QED BY <2>1 DEF IDLE
<1> QED BY <1>1, <1>2, <1>3, <1>4, <1>5, <1>6, <1>7, <1>8, <1>9

LEMMA QuietStore ==
    ASSUME Inv, FileInv, StoreInv,
           \/ MonitorStep \/ RebuildEnd
           \/ \E e \in Edits : EndStale(e)
           \/ \E e \in Edits, n \in Lengths, failed \in BOOLEAN : Write(e, n, failed)
    PROVE  StoreInv'
<1> SUFFICES /\ buffer' = buffer /\ clean' = clean
             /\ busy'.op # "publish"
             /\ busy'.op = "trim" => busy'.arg \notin {"close", "delete"}
  BY StayedStep DEF EndInv, OldInv
<1>1. CASE MonitorStep
  <2>1. busy'.op \in {"idle", "trim", "abort", "rebuild"} /\ UNCHANGED <<buffer, fileVars>>
    BY <1>1, MonitorOnly
  <2>2. busy'.op = "trim" => busy'.arg \notin {"close", "delete"}
    <3>1. CASE Cleanup  BY <3>1 DEF Cleanup, Busy, IDLE
    <3>2. CASE Flush  BY <3>2 DEF Flush, Busy, IDLE
    <3>3. CASE Close \/ Delete
      <4>1. busy'.op = "abort"  BY <3>3 DEF Close, Delete, Busy, IDLE
      <4> QED BY <4>1
    <3>4. CASE TrimThrows
      <4>1. busy'.op = "idle"  BY <3>4 DEF TrimThrows, IDLE
      <4> QED BY <4>1
    <3>5. CASE EndCleanup
      <4>1. busy' = IDLE \/ busy' = [IDLE EXCEPT !.op = "rebuild", !.arg = NULL]
        BY <3>5 DEF EndCleanup, Busy
      <4>2. CASE busy' = IDLE
        <5>1. busy'.op = "idle"  BY <4>2 DEF IDLE
        <5> QED BY <5>1
      <4>3. CASE busy' = [IDLE EXCEPT !.op = "rebuild", !.arg = NULL]
        <5>1. busy'.op = "rebuild"  BY <4>3 DEF IDLE
        <5> QED BY <5>1
      <4> QED BY <4>1, <4>2, <4>3
    <3> QED BY <1>1, <3>1, <3>2, <3>3, <3>4, <3>5 DEF MonitorStep
  <2> QED BY <2>1, <2>2 DEF fileVars
<1>2. CASE RebuildEnd
  <2>1. busy' = IDLE /\ UNCHANGED <<buffer, clean>>  BY <1>2 DEF RebuildEnd, fileVars
  <2> QED BY <2>1 DEF IDLE
<1>3. CASE \E e \in Edits : EndStale(e)
  <2>1. Idle /\ UNCHANGED <<busy, buffer, clean>>  BY <1>3 DEF EndStale, fileVars
  <2> QED BY <2>1, ReadyOps
<1>4. CASE \E e \in Edits, n \in Lengths, failed \in BOOLEAN : Write(e, n, failed)
  <2>1. Idle /\ UNCHANGED <<busy, buffer, clean>>  BY <1>4 DEF Write
  <2> QED BY <2>1, ReadyOps
<1> QED BY <1>1, <1>2, <1>3, <1>4

LEMMA GetStore ==
    ASSUME Inv, FileInv, StoreInv, NEW k \in Keys, Get(k)
    PROVE  StoreInv'
<1>1. Idle /\ UNCHANGED <<entries, busy, clean>>  BY DEF Get, Ready, fileVars
<1>2. busy'.op = "idle"  BY <1>1, ReadyOps
<1>3. EndInv' /\ OldInv'  BY <1>2 DEF EndInv, OldInv
<1>4. CASE Append1(ReadLine(k))
  <2> DEFINE l == ReadLine(k)
  <2>1. l \in Lines /\ l # Garbled /\ l.op = "READ"  BY LineKinds
  <2>2. buffer' = Append(buffer, l)  BY <1>4 DEF Append1
  <2> HIDE DEF l
  <2>3. RemovingInv'  BY <1>1, <2>1, <2>2, RemovingAppend DEF Inv, JournalInv, StoreInv
  <2> QED BY <1>3, <2>3 DEF StoreInv
<1>5. CASE UNCHANGED buffer  BY <1>1, <1>3, <1>5, StayedStep
<1> QED BY <1>4, <1>5 DEF Get

\* An edit begins or fails: its line is flushed.
LEMMA EditStore ==
    ASSUME Inv, FileInv, StoreInv,
           \/ \E e \in Edits, k \in Keys : Edit(e, k)
           \/ \E e \in Edits : Abort(e) \/ CommitNothing(e) \/ CommitFailed(e)
    PROVE  StoreInv'
<1>1. /\ Idle /\ UNCHANGED <<busy, clean>> /\ (buffer' = <<>> \/ buffer' = buffer)
  <2>1. CASE \E e \in Edits, k \in Keys : Edit(e, k)
    BY <2>1 DEF Edit, Ready, fileVars, DirtyLogged, Flushed
  <2>2. CASE \E e \in Edits : Abort(e) \/ CommitNothing(e) \/ CommitFailed(e)
    <3>1. PICK e \in Edits : Idle /\ FailEdit(e) /\ busy' = busy
      BY <2>2 DEF Abort, CommitNothing, CommitFailed
    <3>2. buffer' = <<>> /\ clean' = clean  BY <3>1 DEF FailEdit, Flushed
    <3> QED BY <3>1, <3>2
  <2> QED BY <2>1, <2>2
<1>2. busy'.op = "idle"  BY <1>1, ReadyOps
<1>3. CASE buffer' = <<>>  BY <1>2, <1>3, NothingWaits
<1>4. CASE buffer' = buffer
  <2>1. EndInv' /\ OldInv'  BY <1>2 DEF EndInv, OldInv
  <2> QED BY <1>1, <1>4, <2>1, StayedStep
<1> QED BY <1>1, <1>3, <1>4

LEMMA CommitStore ==
    ASSUME Inv, FileInv, StoreInv, NEW e \in Edits, Commit(e)
    PROVE  StoreInv'
<1>1. PICK k : k = editors[e].key  OBVIOUS
<1>2. /\ Idle /\ Current(e) /\ UNCHANGED <<entries, editors, buffer>>
      /\ busy' = [op |-> "publish", arg |-> e, old |-> clean[k], new |-> dirty[k] # NULL]
      /\ clean' = IF dirty[k] # NULL THEN [clean EXCEPT ![k] = dirty[k]] ELSE clean
  BY <1>1 DEF Commit, lruVars
<1>3. k \in Keys /\ entries[k] # NULL  BY <1>1, <1>2, CurrentFacts
<1>4. /\ busy'.op = "publish" /\ busy'.old = clean[k] /\ editors'[busy'.arg].key = k
      /\ busy'.new <=> dirty[k] # NULL
  BY <1>1, <1>2
<1>5. OldInv'  BY <1>2, <1>4 DEF OldInv
<1>6. EndInv'  BY <1>4 DEF EndInv
<1>7. \A j \in Keys : clean[j] = NULL /\ entries[j] = NULL => clean'[j] = NULL
  BY <1>2, <1>3 DEF Inv, MemoryInv, MemoryTypes
<1> QED BY <1>2, <1>5, <1>6, <1>7, StayedStep

LEMMA RemovalStore ==
    ASSUME Inv, FileInv, StoreInv,
           \/ \E k \in Keys : Remove(k)
           \/ \E e \in Edits : RemoveFailed(e)
           \/ TrimEldest
    PROVE  StoreInv'
<1>1. PICK k \in Keys : RemoveOrTouch(k) /\ UNCHANGED <<isOpen, busy>>
                        /\ isOpen /\ busy.op \in {"idle", "trim"}
  BY RemovalKey
<1>2. OldInv'  BY <1>1 DEF OldInv
<1>3. CASE Removable(k)
  <2>1. /\ clean' = [clean EXCEPT ![k] = NULL] /\ entries' = [entries EXCEPT ![k] = NULL]
        /\ Append1(RemoveLine(k))
    BY <1>1, <1>3 DEF RemoveOrTouch, RemoveEntry
  <2>2. /\ entries'[k] = NULL /\ clean'[k] = NULL
        /\ \A j \in Keys \ {k} : entries'[j] = entries[j] /\ clean'[j] = clean[j]
    BY <2>1 DEF Inv, MemoryInv, MemoryTypes
  <2>3. EndInv'
    <3>1. \A j \in Keys : UnderEdit(j)' => UnderEdit(j)  BY <2>2 DEF UnderEdit
    <3> QED BY <1>1, <3>1 DEF StoreInv, EndInv
  <2> DEFINE l == RemoveLine(k)
  <2>4. l \in Lines /\ l # Garbled /\ l.key = k
    <3>1. 0 \in Lengths \cup {0}  OBVIOUS
    <3> QED BY <3>1, LineKinds
  <2>5. buffer' = Append(buffer, l)  BY <2>1 DEF Append1
  <2>6. \A j \in Keys : clean[j] = NULL => clean'[j] = NULL  BY <2>2
  <2> HIDE DEF l
  <2>7. RemovingInv'  BY <2>2, <2>4, <2>5, <2>6, RemovingAppend DEF Inv, JournalInv, StoreInv
  <2> QED BY <1>2, <2>3, <2>7 DEF StoreInv
<1>4. CASE ~Removable(k)
  <2>1. UNCHANGED <<entries, clean, buffer>>  BY <1>1, <1>4 DEF RemoveOrTouch, fileVars
  <2>2. EndInv'  BY <1>1, <2>1 DEF StoreInv, EndInv, UnderEdit
  <2> QED BY <1>2, <2>1, <2>2, StayedStep
<1> QED BY <1>3, <1>4

LEMMA CloseAbortsStore ==
    ASSUME Inv, FileInv, StoreInv, CloseAborts
    PROVE  StoreInv'
<1>1. busy.op = "abort"  BY DEF CloseAborts
<1>2. CASE \E i \in DOMAIN order : FailEdit(entries[order[i]].editor) /\ UNCHANGED busy
  <2>1. PICK e : FailEdit(e) /\ busy' = busy  BY <1>2
  <2>2. buffer' = <<>>  BY <2>1 DEF FailEdit, Flushed
  <2> QED BY <1>1, <2>1, <2>2, NothingWaits
<1>3. CASE /\ \A i \in DOMAIN order : ~Edited(i)
           /\ Busy("trim", busy.arg) /\ UNCHANGED <<lruVars, buffer, fileVars>>
  <2>1. busy'.op = "trim" /\ UNCHANGED <<entries, buffer, clean>>
    BY <1>3 DEF Busy, IDLE, lruVars, fileVars
  <2>2. \A k \in Keys : ~UnderEdit(k)
    <3> SUFFICES ASSUME NEW k \in Keys, entries[k] # NULL PROVE entries[k].editor = NULL
      BY DEF UnderEdit
    <3>1. k \in Listed(order)  BY DEF Inv, MemoryInv, Lists, Cached
    <3>2. PICK i \in DOMAIN order : order[i] = k  BY <3>1 DEF Listed
    <3> QED BY <1>3, <3>2 DEF Edited
  <2>3. EndInv'  BY <2>1, <2>2 DEF EndInv, UnderEdit
  <2>4. OldInv'  BY <2>1 DEF OldInv
  <2> QED BY <2>1, <2>3, <2>4, StayedStep
<1> QED BY <1>2, <1>3 DEF CloseAborts

LEMMA SpillStore ==
    ASSUME Inv, StoreInv, Spill
    PROVE  StoreInv'
<1> DEFINE n == Len(buffer)
           x == buffer[n]
<1>1. Idle /\ n > 0 /\ buffer' = <<x>> /\ UNCHANGED <<busy, clean>>
  BY DEF Spill, Ready, fileVars
<1>2. n \in DOMAIN buffer
  <2>1. n \in Nat /\ DOMAIN buffer = 1..n  BY LenProperties DEF Inv, JournalInv
  <2> QED BY <1>1, <2>1
<1>3. x.op = "REMOVE" => clean[x.key] = NULL  BY <1>2 DEF StoreInv, RemovingInv
<1> HIDE DEF n, x
<1>4. RemovingInv'
  <2> SUFFICES ASSUME NEW i \in DOMAIN buffer', NEW b, b = buffer'[i], b.op = "REMOVE"
               PROVE  clean'[b.key] = NULL
    BY DEF RemovingInv
  <2>1. b = x  BY <1>1
  <2> QED BY <1>1, <1>3, <2>1
<1>5. busy'.op = "idle"  BY <1>1, ReadyOps
<1> QED BY <1>4, <1>5 DEF StoreInv, EndInv, OldInv

LEMMA StutterStore ==
    ASSUME StoreInv, UNCHANGED vars
    PROVE  StoreInv'
<1>1. UNCHANGED <<entries, buffer, busy, editors, clean>>
  BY DEF vars, lruVars, fileVars
<1> QED BY <1>1 DEF StoreInv, EndInv, OldInv, RemovingInv, UnderEdit

\* Every step of the cache that damages no journal is a step of the store.
LEMMA NextStore ==
    Inv /\ FileInv /\ StoreInv /\ [Next]_vars =>
        StoreInv' /\ (Damaged \/ Damaged' \/ StoreStep)
<1> SUFFICES ASSUME Inv, FileInv, StoreInv, [Next]_vars
             PROVE  StoreInv' /\ (~Damaged /\ ~Damaged' => StoreStep)
  OBVIOUS
<1>0. Inv'  BY NextKeeps
<1>1. CASE Call
  <2>1. CASE Open
    <3>1. ~Damaged => ~OpenCorrupt
      <4>1. SUFFICES ASSUME ~Damaged, OpenCorrupt PROVE FALSE  OBVIOUS
      <4>2. buffer = <<>> /\ Corrupt(OnDisk)  BY <4>1 DEF OpenCorrupt, Inv, JournalInv
      <4>3. OnDisk \o <<>> = OnDisk  BY FoundFile, ConcatEmptySeq
      <4> QED BY <4>1, <4>2, <4>3 DEF Damaged
    <3> QED BY <1>0, <2>1, <3>1, ShutStore, OpenJournalShown, OpenNewShown DEF Open
  <2>2. CASE Flush \/ Close \/ Delete  BY <2>2, QuietStore, QuietShown DEF MonitorStep
  <2>3. CASE \E k \in Keys : Get(k)  BY <2>3, GetStore, QuietShown
  <2>4. CASE \E k \in Keys : Remove(k)  BY <2>4, RemovalStore, RemovalShown
  <2>5. CASE \E k \in Keys, e \in Edits : Edit(e, k)  BY <2>5, EditStore, EditShown
  <2>6. CASE \E e \in Edits, n \in Lengths, failed \in BOOLEAN : Write(e, n, failed)
    BY <2>6, QuietStore, QuietShown
  <2> QED BY <1>1, <2>1, <2>2, <2>3, <2>4, <2>5, <2>6 DEF Call
<1>2. CASE Cleanup  BY <1>2, QuietStore, QuietShown DEF MonitorStep
<1>3. CASE Inside
  <2>1. CASE \E e \in Edits : Publish(e)  BY <1>0, <2>1, ShutStore, PublishShown
  <2>2. CASE CloseAborts  BY <2>2, CloseAbortsStore, FailuresShown
  <2>3. CASE TrimEldest  BY <2>3, RemovalStore, RemovalShown
  <2>4. CASE TrimThrows \/ EndCleanup  BY <2>4, QuietStore, QuietShown DEF MonitorStep
  <2>5. CASE EndFlush  BY <1>0, <2>5, ShutStore, QuietShown
  <2>6. CASE EndClose  BY <1>0, <2>6, ShutStore, EndCloseShown
  <2>7. CASE DeleteFile  BY <1>0, <2>7, ShutStore, DeleteFileShown
  <2>8. CASE EndDelete  BY <1>0, <2>8, ShutStore, EndDeleteShown
  <2>9. CASE Rebuild  BY <1>0, <2>9, ShutStore, QuietStore, QuietShown DEF Rebuild
  <2> QED BY <1>3, <2>1, <2>2, <2>3, <2>4, <2>5, <2>6, <2>7, <2>8, <2>9 DEF Inside
<1>4. CASE \E e \in Edits : EndEdit(e)
  <2>1. PICK e \in Edits : EndEdit(e)  BY <1>4
  <2>2. CASE Commit(e)  BY <2>2, CommitStore, CommitShown
  <2>3. CASE CommitNothing(e) \/ CommitFailed(e) \/ Abort(e)
    BY <2>3, EditStore, FailuresShown
  <2>4. CASE RemoveFailed(e)  BY <2>4, RemovalStore, RemovalShown
  <2>5. CASE EndStale(e)  BY <2>5, QuietStore, EndStaleShown
  <2> QED BY <2>1, <2>2, <2>3, <2>4, <2>5 DEF EndEdit
<1>5. CASE Spill  BY <1>5, SpillStore, QuietShown
<1>6. CASE Crash  BY <1>0, <1>6, ShutStore, CrashShown
<1>7. CASE UNCHANGED vars  BY <1>7, StutterStore, StutterShown
<1> QED BY <1>1, <1>2, <1>3, <1>4, <1>5, <1>6, <1>7 DEF Next

LEMMA InitStore == Init => StoreInv /\ Store!Init
<1> SUFFICES ASSUME Init PROVE StoreInv /\ Store!Init  OBVIOUS
<1>1. /\ isOpen = FALSE /\ entries = None /\ buffer = <<>> /\ busy = IDLE
      /\ clean = None /\ journal = NULL /\ journalBackup = NULL
  BY DEF Init
<1>2. busy.op = "idle" /\ OnDisk = <<>>  BY <1>1 DEF IDLE, OnDisk, Found
<1>3. StoreInv  BY <1>1, <1>2 DEF StoreInv, EndInv, OldInv, RemovingInv
<1>4. Visible = [k \in Keys |-> NULL]
  <2>1. Visible = [k \in Keys |-> Stored(k)]  BY <1>1, <1>2, EmptyTells, VisibleClosed
  <2>2. \A k \in Keys : Stored(k) = NULL  BY <1>1 DEF Stored, None
  <2> QED BY <2>1, <2>2
<1>5. Editing = {}  BY <1>1 DEF Editing, UnderEdit, None
<1>6. Store!Init  BY <1>1, <1>4, <1>5 DEF Store!Init, Editing, UnderEdit
<1> QED BY <1>3, <1>6

\* The cache implements a store of one value per key: commits are published in
\* one step, survive a close or a crash at any point between two file
\* operations, and are lost only to a removal, an eviction, or a crash during a
\* later edit of the same key, as long as no crash cuts a journal line in two.
THEOREM CacheIsPersistent == Spec => StoreSpec
<1> DEFINE All == Inv /\ FileInv /\ StoreInv
<1>1. Init => All /\ Store!Init  BY InitInv, InitFiles, InitStore
<1>2. All /\ [Next]_vars => All' /\ [Damaged \/ Damaged' \/ Store!Next]_(Store!vars)
  BY NextKeeps, NextFiles, NextStore DEF StoreStep
<1> HIDE DEF All
<1> QED BY <1>1, <1>2, PTL DEF Spec, StoreSpec

=============================================================================
