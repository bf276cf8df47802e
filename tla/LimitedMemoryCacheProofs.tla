---------------------- MODULE LimitedMemoryCacheProofs ----------------------
(***************************************************************************)
(* LimitedMemoryCache for any threads, keys, bitmaps, sizes, policies and  *)
(* limit: between its unlocked steps the count of bytes is off by exactly  *)
(* the updates under way, and the limit is passed by no more than one      *)
(* bitmap for each thread but one; a single thread never passes it.        *)
(***************************************************************************)
EXTENDS LimitedMemoryCache, FiniteSetTheorems, SequenceTheorems, WellFoundedInduction, TLAPS

Putting  == {"fit", "forget", "evict", "evicted", "added", "putSoft", "putSoftOnly", "remember"}
Removing == {"removePolicy", "removeHard", "unlist", "removed", "removeSoft"}
Using    == {"use", "count"}
Valued   == Putting \cup Using \cup {"unlist", "removed"}
Sized    == {"fit", "forget", "evict", "evicted", "added"}
Victims  == {"forget", "evict", "evicted"}
Heavy    == {"fit", "added", "evicted", "removed"}   \* these may weigh in the sums

Places == {"idle"} \cup Putting \cup Removing \cup Using \cup Clears
AnyCalls == [at : Places, key : Keys \cup {NULL}, value : Bitmaps \cup {NULL},
             victim : Bitmaps \cup {NULL}, cur : Int]

\* A call knows its key and its bitmaps where it needs them; a bitmap that is
\* to be kept is smaller than the limit, and a victim is looked for only while
\* the size that was read leaves no room for it.
CallOK(c) ==
    /\ c.at \in Putting \cup Removing => c.key \in Keys
    /\ c.at \in Valued => c.value \in Bitmaps
    /\ c.at \in Sized => SizeOf[c.value] < Limit
    /\ c.at \in Victims => c.victim \in Bitmaps
    /\ c.at \in {"forget", "evict"} => c.cur + SizeOf[c.value] > Limit
Calls == {c \in AnyCalls : CallOK(c)}

Entries == [key : Keys \cup {NULL}, value : Bitmaps, uses : Int]

Types ==
    /\ kind \in Policies
    /\ hard \in [Bitmaps -> Nat] /\ cacheSize \in Int
    /\ soft \in [Keys -> Bitmaps \cup {NULL}]
    /\ policy \in Seq(Entries)
    /\ op \in [Threads -> Calls]
    /\ disturbed \in BOOLEAN

\* A clear() that was not disturbed runs alone, on an empty list at the end.
Alone ==
    ~disturbed => \A t \in Threads : op[t].at \in Clears =>
        /\ \A u \in Threads \ {t} : op[u].at = "idle"
        /\ op[t].at = "clearSize" => \A b \in Bitmaps : hard[b] = 0

\* The bytes a thread may still add without looking at the size again.
Pending == [t \in Threads |-> IF op[t].at = "added" \/ (op[t].at = "fit" /\ ~MustEvict(t))
                              THEN SizeOf[op[t].value] ELSE 0]

Ceiling == Limit + (Cardinality(Threads) - 1) * (Limit - 1)

LimitKept == ~disturbed => cacheSize + SumOf(Pending) <= Ceiling

IInv == Types /\ Alone /\ BytesCounted /\ LimitKept

-----------------------------------------------------------------------------
(***************************************************************************)
(* Least elements, and sums.                                               *)
(***************************************************************************)

\* A set of naturals that is not empty has a least element.
LEMMA LeastNatural ==
    ASSUME NEW D \in SUBSET Nat, D # {}
    PROVE  \E x \in D : \A y \in D : x <= y
<1>1. PICK n \in D : TRUE  OBVIOUS
<1> DEFINE All == 0..n
           R == StrictSubsetOrdering(All)
           T == {0..m : m \in {k \in D : k <= n}}
<1>2. IsFiniteSet(All)  BY FS_Interval
<1>3. IsWellFoundedOn(R, SUBSET All)
  <2> HIDE DEF All
  <2> QED BY <1>2, FS_StrictSubsetOrderingWellFounded, FS_FiniteSubsetsOfFinite
<1>4. T \subseteq SUBSET All  BY SMT
<1>5. 0..n \in T  BY <1>1
<1>6. PICK x \in T : \A y \in T : ~ (<<y, x>> \in R)
  <2>1. T # {}  BY <1>5
  <2> HIDE DEF T, R, All
  <2> QED BY <2>1, <1>3, <1>4, WFMin
<1>7. PICK m \in D : m <= n /\ x = 0..m  OBVIOUS
<1>8. ASSUME NEW y \in D, y < m PROVE FALSE
  <2>1. 0..y \in T  BY <1>1, <1>7, <1>8
  <2>2. 0..y \subseteq 0..m /\ 0..y # 0..m
    <3>1. m \in 0..m /\ m \notin 0..y  BY <1>8
    <3> QED BY <1>8, <3>1
  <2>3. <<0..y, x>> \in R  BY <1>4, <1>7, <2>1, <2>2 DEF StrictSubsetOrdering
  <2> QED BY <1>6, <2>1, <2>3
<1>9. \A y \in D : m <= y  BY <1>8
<1> QED BY <1>9

\* The part of a sum that one argument has.
Column(x, n) == {x} \X (1..n)

LEMMA ColumnSize ==
    ASSUME NEW x, NEW n \in Nat
    PROVE  IsFiniteSet(Column(x, n)) /\ Cardinality(Column(x, n)) = n
<1>1. IsFiniteSet(1..n) /\ Cardinality(1..n) = n  BY FS_Interval
<1>2. IsFiniteSet({x}) /\ Cardinality({x}) = 1  BY FS_Singleton
<1> DEFINE J == 1..n
           K == {x}
<1>3. IsFiniteSet(K \X J) /\ Cardinality(K \X J) = Cardinality(K) * Cardinality(J)
  <2> HIDE DEF J, K
  <2> QED BY <1>1, <1>2, FS_Product DEF J, K
<1> QED BY <1>1, <1>2, <1>3 DEF Column

LEMMA DisjointSize ==
    ASSUME NEW A, IsFiniteSet(A), NEW B, IsFiniteSet(B), A \cap B = {}
    PROVE  Cardinality(A \cup B) = Cardinality(A) + Cardinality(B)
<1>1. Cardinality(A \cup B) = Cardinality(A) + Cardinality(B) - Cardinality(A \cap B)
  BY FS_Union
<1>2. Cardinality(A \cap B) = 0  BY FS_EmptySet
<1>3. Cardinality(A) \in Nat /\ Cardinality(B) \in Nat  BY FS_CardinalityType
<1> QED BY <1>1, <1>2, <1>3

LEMMA CellsFinite ==
    ASSUME NEW D, IsFiniteSet(D), NEW f \in [D -> Nat]
    PROVE  IsFiniteSet(Cells(f))
<1> DEFINE g == [x \in D |-> Column(x, f[x])]
           T == {g[x] : x \in D}
<1>1. g \in Surjection(D, T)  BY DEF Surjection
<1>2. IsFiniteSet(T)
  <2> HIDE DEF g, T
  <2> QED BY <1>1, FS_Surjection
<1>3. \A t \in T : IsFiniteSet(t)
  <2> SUFFICES ASSUME NEW x \in D PROVE IsFiniteSet(Column(x, f[x]))  OBVIOUS
  <2>1. f[x] \in Nat  OBVIOUS
  <2> QED BY <2>1, ColumnSize
<1>4. IsFiniteSet(UNION T)
  <2> HIDE DEF T
  <2> QED BY <1>2, <1>3, FS_UNION
<1>5. UNION T = Cells(f)
  <2>1. \A x \in D : g[x] = {x} \X (1..f[x])  BY DEF Column
  <2>2. DOMAIN f = D  OBVIOUS
  <2> QED BY <2>1, <2>2 DEF Cells
<1> QED BY <1>4, <1>5

\* A sum is that of one argument and that of the others.
LEMMA CellsSplit ==
    ASSUME NEW D, NEW f \in [D -> Nat], NEW x \in D
    PROVE  LET rest == {p \in Cells(f) : p[1] # x}
           IN  Cells(f) = rest \cup Column(x, f[x]) /\ rest \cap Column(x, f[x]) = {}
<1> DEFINE rest == {p \in Cells(f) : p[1] # x}
<1>1. DOMAIN f = D  OBVIOUS
<1>2. \A p : p \in Cells(f) <=> \E y \in D : p \in Column(y, f[y])
  BY <1>1 DEF Cells, Column
<1>3. \A y : \A p \in Column(y, f[y]) : p[1] = y  BY DEF Column
<1> QED BY <1>2, <1>3

LEMMA SumType ==
    ASSUME NEW D, IsFiniteSet(D), NEW f \in [D -> Nat]
    PROVE  SumOf(f) \in Nat
BY CellsFinite, FS_CardinalityType DEF SumOf

\* One value changes.
LEMMA SumChange ==
    ASSUME NEW D, IsFiniteSet(D), NEW f \in [D -> Nat], NEW g \in [D -> Nat],
           NEW x \in D, \A y \in D \ {x} : g[y] = f[y]
    PROVE  SumOf(g) = SumOf(f) - f[x] + g[x]
<1> DEFINE rest == {p \in Cells(f) : p[1] # x}
<1>1. {p \in Cells(g) : p[1] # x} = rest
  <2>1. DOMAIN f = D /\ DOMAIN g = D  OBVIOUS
  <2>2. \A p : (p \in Cells(f) /\ p[1] # x) <=> \E y \in D \ {x} : p \in Column(y, f[y])
    BY <2>1 DEF Cells, Column
  <2>3. \A p : (p \in Cells(g) /\ p[1] # x) <=> \E y \in D \ {x} : p \in Column(y, g[y])
    BY <2>1 DEF Cells, Column
  <2> QED BY <2>2, <2>3
<1>2. Cells(f) = rest \cup Column(x, f[x]) /\ rest \cap Column(x, f[x]) = {}
  BY CellsSplit
<1>3. Cells(g) = rest \cup Column(x, g[x]) /\ rest \cap Column(x, g[x]) = {}
  BY <1>1, CellsSplit
<1>4. f[x] \in Nat /\ g[x] \in Nat  OBVIOUS
<1>5. IsFiniteSet(rest)  BY CellsFinite, FS_Subset
<1> HIDE DEF rest
<1>6. Cardinality(Cells(f)) = Cardinality(rest) + f[x]
  <2>1. IsFiniteSet(Column(x, f[x])) /\ Cardinality(Column(x, f[x])) = f[x]
    BY <1>4, ColumnSize
  <2> QED BY <1>2, <1>4, <1>5, <2>1, DisjointSize
<1>7. Cardinality(Cells(g)) = Cardinality(rest) + g[x]
  <2>1. IsFiniteSet(Column(x, g[x])) /\ Cardinality(Column(x, g[x])) = g[x]
    BY <1>4, ColumnSize
  <2> QED BY <1>3, <1>4, <1>5, <2>1, DisjointSize
<1>8. Cardinality(rest) \in Nat  BY <1>5, FS_CardinalityType
<1> QED BY <1>4, <1>6, <1>7, <1>8 DEF SumOf

\* Nothing to add up.
LEMMA SumOfZeros ==
    ASSUME NEW D, NEW f \in [D -> Nat], \A x \in D : f[x] = 0
    PROVE  SumOf(f) = 0
<1>1. \A x \in D : 1..f[x] = {}  OBVIOUS
<1>2. Cells(f) = {}  BY <1>1 DEF Cells
<1> QED BY <1>2, FS_EmptySet DEF SumOf

\* Every value but one has the same bound.
LEMMA SumBound ==
    ASSUME NEW D, IsFiniteSet(D), NEW f \in [D -> Nat], NEW x \in D, NEW c \in Nat,
           \A y \in D \ {x} : f[y] <= c
    PROVE  SumOf(f) <= f[x] + (Cardinality(D) - 1) * c
<1> DEFINE others == D \ {x}
           box == others \X (1..c)
           rest == {p \in Cells(f) : p[1] # x}
<1>1. IsFiniteSet(others) /\ Cardinality(others) = Cardinality(D) - 1
  <2>1. IsFiniteSet(D \ {x}) /\ Cardinality(D \ {x}) = Cardinality(D) - 1
    BY FS_RemoveElement
  <2> QED BY <2>1
<1>2. IsFiniteSet(1..c) /\ Cardinality(1..c) = c  BY FS_Interval
<1>3. IsFiniteSet(box) /\ Cardinality(box) = (Cardinality(D) - 1) * c
  <2> DEFINE J == 1..c
  <2> HIDE DEF others, J
  <2>1. IsFiniteSet(others \X J) /\ Cardinality(others \X J) = Cardinality(others) * Cardinality(J)
    BY <1>1, <1>2, FS_Product DEF J
  <2> QED BY <1>1, <1>2, <2>1 DEF J
<1>4. rest \subseteq box
  <2> SUFFICES ASSUME NEW p \in rest PROVE p \in box  OBVIOUS
  <2>1. PICK y \in D : p \in {y} \X (1..f[y])  BY DEF Cells
  <2>2. p[1] = y /\ y \in others /\ p[2] \in 1..f[y] /\ p = <<p[1], p[2]>>  BY <2>1
  <2>3. f[y] <= c /\ f[y] \in Nat  BY <2>2
  <2>4. p[2] \in 1..c  BY <2>2, <2>3
  <2> QED BY <2>2, <2>4
<1>5. IsFiniteSet(rest) /\ Cardinality(rest) <= (Cardinality(D) - 1) * c
  <2> HIDE DEF rest, box
  <2> QED BY <1>3, <1>4, FS_Subset
<1>6. Cells(f) = rest \cup Column(x, f[x]) /\ rest \cap Column(x, f[x]) = {}
  BY CellsSplit
<1>7. f[x] \in Nat  OBVIOUS
<1> HIDE DEF rest
<1>8. Cardinality(Cells(f)) = Cardinality(rest) + f[x]
  <2>1. IsFiniteSet(Column(x, f[x])) /\ Cardinality(Column(x, f[x])) = f[x]
    BY <1>7, ColumnSize
  <2> QED BY <1>5, <1>6, <1>7, <2>1, DisjointSize
<1>9. Cardinality(rest) \in Nat /\ (Cardinality(D) - 1) * c \in Int
  BY <1>5, FS_CardinalityType
<1> QED BY <1>5, <1>7, <1>8, <1>9 DEF SumOf

(***************************************************************************)
(* The policies' entries.                                                  *)
(***************************************************************************)

LEMMA RemoveAtType ==
    ASSUME NEW E, NEW s \in Seq(E), NEW i \in DOMAIN s
    PROVE  S!RemoveAt(s, i) \in Seq(E)
<1>1. i \in Nat /\ Len(s) \in Nat /\ i \in 1..Len(s)  BY LenProperties
<1>2. SubSeq(s, 1, i - 1) \in Seq(E)  BY <1>1, SubSeqProperties
<1>3. SubSeq(s, i + 1, Len(s)) \in Seq(E)  BY <1>1, SubSeqProperties
<1>4. SubSeq(s, 1, i - 1) \o SubSeq(s, i + 1, Len(s)) \in Seq(E)
  BY <1>2, <1>3, ConcatProperties
<1> QED BY <1>4 DEF S!RemoveAt

LEMMA MinAt ==
    ASSUME NEW T \in SUBSET Nat, T # {}
    PROVE  Min(T) \in T
<1>1. \E x \in T : \A y \in T : x <= y  BY LeastNatural
<1> QED BY <1>1 DEF Min

LEMMA WithoutType ==
    ASSUME policy \in Seq(Entries), NEW k, NEW b
    PROVE  Without(k, b) \in Seq(Entries)
<1>1. CASE At(k, b) = {}  BY <1>1 DEF Without
<1>2. CASE At(k, b) # {}
  <2>1. At(k, b) \subseteq DOMAIN policy  BY DEF At
  <2>2. DOMAIN policy \subseteq Nat  BY LenProperties
  <2>3. Min(At(k, b)) \in DOMAIN policy  BY <1>2, <2>1, <2>2, MinAt
  <2> QED BY <1>2, <2>3, RemoveAtType DEF Without
<1> QED BY <1>1, <1>2

LEMMA EntryAt ==
    ASSUME policy \in Seq(Entries), NEW i \in DOMAIN policy
    PROVE  policy[i] \in Entries /\ policy[i].value \in Bitmaps /\ policy[i].uses \in Int
<1>1. i \in 1..Len(policy)  BY LenProperties
<1>2. policy[i] \in Entries  BY <1>1, ElementOfSeq
<1> QED BY <1>2 DEF Entries

-----------------------------------------------------------------------------
(***************************************************************************)
(* What one call, and one bitmap, has in the sums.                         *)
(***************************************************************************)

AddedOf(c) == IF c.at = "added" THEN SizeOf[c.value] ELSE 0
TakenOf(c) == IF c.at = "evicted" THEN SizeOf[c.victim]
              ELSE IF c.at = "removed" THEN SizeOf[c.value] ELSE 0
PendingOf(c) == IF c.at = "added" \/ (c.at = "fit" /\ ~(c.cur + SizeOf[c.value] > Limit))
                THEN SizeOf[c.value] ELSE 0

LEMMA CallWeights ==
    ASSUME NEW c \in Calls
    PROVE  /\ AddedOf(c) \in Nat /\ TakenOf(c) \in Nat /\ PendingOf(c) \in Nat
           /\ PendingOf(c) <= Limit - 1
<1>1. CallOK(c) /\ c.cur \in Int  BY DEF Calls, AnyCalls, Places
<1>2. \A b \in Bitmaps : SizeOf[b] \in Nat \ {0}  BY SizesAssumption
<1>3. AddedOf(c) \in Nat  BY <1>1, <1>2 DEF AddedOf, CallOK, Valued, Putting
<1>4. TakenOf(c) \in Nat  BY <1>1, <1>2 DEF TakenOf, CallOK, Valued, Victims
<1>5. Limit \in Nat \ {0}  BY LimitAssumption
<1>6. PendingOf(c) \in Nat /\ PendingOf(c) <= Limit - 1
  BY <1>1, <1>2, <1>5 DEF PendingOf, CallOK, Valued, Putting, Sized
<1> QED BY <1>3, <1>4, <1>6

LEMMA WeightFunctions ==
    ASSUME op \in [Threads -> Calls]
    PROVE  /\ Added \in [Threads -> Nat] /\ \A t \in Threads : Added[t] = AddedOf(op[t])
           /\ Taken \in [Threads -> Nat] /\ \A t \in Threads : Taken[t] = TakenOf(op[t])
           /\ Pending \in [Threads -> Nat] /\ \A t \in Threads : Pending[t] = PendingOf(op[t])
<1>1. \A t \in Threads : Added[t] = AddedOf(op[t])  BY DEF Added, AddedOf
<1>2. \A t \in Threads : Taken[t] = TakenOf(op[t])  BY DEF Taken, TakenOf
<1>3. \A t \in Threads : Pending[t] = PendingOf(op[t])  BY DEF Pending, PendingOf, MustEvict
<1>4. \A t \in Threads : /\ AddedOf(op[t]) \in Nat /\ TakenOf(op[t]) \in Nat
                         /\ PendingOf(op[t]) \in Nat
  BY CallWeights
<1>5. Added \in [Threads -> Nat]  BY <1>1, <1>4 DEF Added
<1>6. Taken \in [Threads -> Nat]  BY <1>2, <1>4 DEF Taken
<1>7. Pending \in [Threads -> Nat]  BY <1>3, <1>4 DEF Pending
<1> QED BY <1>1, <1>2, <1>3, <1>5, <1>6, <1>7

\* A call goes from op[t] to c.
LEMMA CallChange ==
    ASSUME op \in [Threads -> Calls], NEW t \in Threads, NEW c \in Calls,
           op' = [op EXCEPT ![t] = c]
    PROVE  /\ SumOf(Added)' = SumOf(Added) - AddedOf(op[t]) + AddedOf(c)
           /\ SumOf(Taken)' = SumOf(Taken) - TakenOf(op[t]) + TakenOf(c)
           /\ SumOf(Pending)' = SumOf(Pending) - PendingOf(op[t]) + PendingOf(c)
           /\ SumOf(Pending)' <= PendingOf(c) + (Cardinality(Threads) - 1) * (Limit - 1)
           /\ SumOf(Added) \in Nat /\ SumOf(Taken) \in Nat /\ SumOf(Pending) \in Nat
<1>1. op' \in [Threads -> Calls] /\ op'[t] = c /\ \A u \in Threads \ {t} : op'[u] = op[u]
  OBVIOUS
<1>2. /\ Added \in [Threads -> Nat] /\ \A u \in Threads : Added[u] = AddedOf(op[u])
      /\ Taken \in [Threads -> Nat] /\ \A u \in Threads : Taken[u] = TakenOf(op[u])
      /\ Pending \in [Threads -> Nat] /\ \A u \in Threads : Pending[u] = PendingOf(op[u])
  BY WeightFunctions
<1>3. /\ Added' \in [Threads -> Nat] /\ \A u \in Threads : Added'[u] = AddedOf(op'[u])
      /\ Taken' \in [Threads -> Nat] /\ \A u \in Threads : Taken'[u] = TakenOf(op'[u])
      /\ Pending' \in [Threads -> Nat] /\ \A u \in Threads : Pending'[u] = PendingOf(op'[u])
  <2>1. Added' \in [Threads -> Nat] /\ \A u \in Threads : Added'[u] = AddedOf(op'[u])
    BY <1>1, CallWeights DEF Added, AddedOf
  <2>2. Taken' \in [Threads -> Nat] /\ \A u \in Threads : Taken'[u] = TakenOf(op'[u])
    BY <1>1, CallWeights DEF Taken, TakenOf
  <2>3. Pending' \in [Threads -> Nat] /\ \A u \in Threads : Pending'[u] = PendingOf(op'[u])
    BY <1>1, CallWeights DEF Pending, PendingOf, MustEvict
  <2> QED BY <2>1, <2>2, <2>3
<1>4. SumOf(Added') = SumOf(Added) - Added[t] + Added'[t]
  BY <1>1, <1>2, <1>3, SumChange, FiniteAssumption
<1>5. SumOf(Taken') = SumOf(Taken) - Taken[t] + Taken'[t]
  BY <1>1, <1>2, <1>3, SumChange, FiniteAssumption
<1>6. SumOf(Pending') = SumOf(Pending) - Pending[t] + Pending'[t]
  BY <1>1, <1>2, <1>3, SumChange, FiniteAssumption
<1>7. SumOf(Pending') <= Pending'[t] + (Cardinality(Threads) - 1) * (Limit - 1)
  <2>1. Limit - 1 \in Nat  BY LimitAssumption
  <2>2. \A u \in Threads \ {t} : Pending'[u] <= Limit - 1  BY <1>1, <1>3, CallWeights
  <2> QED BY <1>3, <2>1, <2>2, SumBound, FiniteAssumption
<1>8. SumOf(Added) \in Nat /\ SumOf(Taken) \in Nat /\ SumOf(Pending) \in Nat
  BY <1>2, SumType, FiniteAssumption
<1>9. SumOf(Added)' = SumOf(Added') /\ SumOf(Taken)' = SumOf(Taken') /\ SumOf(Pending)' = SumOf(Pending')
  BY DEF SumOf, Cells
<1> QED BY <1>1, <1>2, <1>3, <1>4, <1>5, <1>6, <1>7, <1>8, <1>9

\* The bytes of a list h.
BytesOf(h) == [b \in Bitmaps |-> h[b] * SizeOf[b]]

LEMMA BytesChange ==
    ASSUME NEW h \in [Bitmaps -> Nat], NEW h2 \in [Bitmaps -> Nat], NEW b \in Bitmaps,
           \A x \in Bitmaps \ {b} : h2[x] = h[x]
    PROVE  /\ SumOf(BytesOf(h)) \in Nat /\ SumOf(BytesOf(h2)) \in Nat
           /\ SumOf(BytesOf(h2)) = SumOf(BytesOf(h)) - BytesOf(h)[b] + BytesOf(h2)[b]
<1>1. \A x, y \in Nat : x * y \in Nat  OBVIOUS
<1>2. \A x \in Bitmaps : SizeOf[x] \in Nat  BY SizesAssumption
<1>3. BytesOf(h) \in [Bitmaps -> Nat] /\ BytesOf(h2) \in [Bitmaps -> Nat]
  BY <1>1, <1>2 DEF BytesOf
<1>4. \A x \in Bitmaps \ {b} : BytesOf(h2)[x] = BytesOf(h)[x]
  BY DEF BytesOf
<1>5. SumOf(BytesOf(h2)) = SumOf(BytesOf(h)) - BytesOf(h)[b] + BytesOf(h2)[b]
  <2>1. IsFiniteSet(Bitmaps)  BY FiniteAssumption
  <2> DEFINE f == BytesOf(h)
             g == BytesOf(h2)
  <2>2. f \in [Bitmaps -> Nat] /\ g \in [Bitmaps -> Nat] /\ \A x \in Bitmaps \ {b} : g[x] = f[x]
    BY <1>3, <1>4
  <2> HIDE DEF f, g
  <2>3. SumOf(g) = SumOf(f) - f[b] + g[b]  BY <2>1, <2>2, SumChange
  <2> QED BY <2>3 DEF f, g
<1>6. SumOf(BytesOf(h)) \in Nat /\ SumOf(BytesOf(h2)) \in Nat
  BY <1>3, SumType, FiniteAssumption
<1> QED BY <1>5, <1>6

\* The list gets one more of a bitmap, or one less.
LEMMA ListedMore ==
    ASSUME hard \in [Bitmaps -> Nat], NEW b \in Bitmaps, hard' = [hard EXCEPT ![b] = @ + 1]
    PROVE  /\ hard' \in [Bitmaps -> Nat]
           /\ SumOf(ListedBytes) \in Nat
           /\ SumOf(ListedBytes)' = SumOf(ListedBytes) + SizeOf[b]
<1>1. hard' \in [Bitmaps -> Nat] /\ hard'[b] = hard[b] + 1
      /\ \A x \in Bitmaps \ {b} : hard'[x] = hard[x]
  OBVIOUS
<1>2. /\ SumOf(BytesOf(hard)) \in Nat
      /\ SumOf(BytesOf(hard')) = SumOf(BytesOf(hard)) - BytesOf(hard)[b] + BytesOf(hard')[b]
  BY <1>1, BytesChange
<1>3. hard[b] \in Int /\ SizeOf[b] \in Int
  <2>1. \A x \in Bitmaps : SizeOf[x] \in Nat  BY SizesAssumption
  <2>2. hard[b] \in Nat  OBVIOUS
  <2> QED BY <2>1, <2>2
<1>4. \A x, y \in Int : x * y \in Int /\ (x + 1) * y = x * y + y  OBVIOUS
<1>5. hard'[b] * SizeOf[b] = hard[b] * SizeOf[b] + SizeOf[b] /\ hard[b] * SizeOf[b] \in Int
  BY <1>1, <1>3, <1>4
<1>6. BytesOf(hard)[b] = hard[b] * SizeOf[b] /\ BytesOf(hard')[b] = hard'[b] * SizeOf[b]
  BY DEF BytesOf
<1>7. BytesOf(hard')[b] = BytesOf(hard)[b] + SizeOf[b] /\ BytesOf(hard)[b] \in Int
  BY <1>5, <1>6
<1>8. ListedBytes = BytesOf(hard) /\ SumOf(ListedBytes)' = SumOf(BytesOf(hard'))
  BY DEF ListedBytes, BytesOf, SumOf, Cells
<1>9. SumOf(BytesOf(hard')) = SumOf(BytesOf(hard)) + SizeOf[b]  BY <1>2, <1>3, <1>7
<1> QED BY <1>1, <1>2, <1>8, <1>9

LEMMA ListedLess ==
    ASSUME hard \in [Bitmaps -> Nat], NEW b \in Bitmaps, hard[b] > 0,
           hard' = [hard EXCEPT ![b] = @ - 1]
    PROVE  /\ hard' \in [Bitmaps -> Nat]
           /\ SumOf(ListedBytes) \in Nat
           /\ SumOf(ListedBytes)' = SumOf(ListedBytes) - SizeOf[b]
<1>1. hard' \in [Bitmaps -> Nat] /\ hard'[b] = hard[b] - 1
      /\ \A x \in Bitmaps \ {b} : hard'[x] = hard[x]
  OBVIOUS
<1>2. /\ SumOf(BytesOf(hard)) \in Nat
      /\ SumOf(BytesOf(hard')) = SumOf(BytesOf(hard)) - BytesOf(hard)[b] + BytesOf(hard')[b]
  BY <1>1, BytesChange
<1>3. hard[b] \in Int /\ SizeOf[b] \in Int
  <2>1. \A x \in Bitmaps : SizeOf[x] \in Nat  BY SizesAssumption
  <2>2. hard[b] \in Nat  OBVIOUS
  <2> QED BY <2>1, <2>2
<1>4. \A x, y \in Int : x * y \in Int /\ (x - 1) * y = x * y - y  OBVIOUS
<1>5. hard'[b] * SizeOf[b] = hard[b] * SizeOf[b] - SizeOf[b] /\ hard[b] * SizeOf[b] \in Int
  BY <1>1, <1>3, <1>4
<1>6. BytesOf(hard)[b] = hard[b] * SizeOf[b] /\ BytesOf(hard')[b] = hard'[b] * SizeOf[b]
  BY DEF BytesOf
<1>7. BytesOf(hard')[b] = BytesOf(hard)[b] - SizeOf[b] /\ BytesOf(hard)[b] \in Int
  BY <1>5, <1>6
<1>8. ListedBytes = BytesOf(hard) /\ SumOf(ListedBytes)' = SumOf(BytesOf(hard'))
  BY DEF ListedBytes, BytesOf, SumOf, Cells
<1>9. SumOf(BytesOf(hard')) = SumOf(BytesOf(hard)) - SizeOf[b]  BY <1>2, <1>3, <1>7
<1> QED BY <1>1, <1>2, <1>8, <1>9

LEMMA SameListed ==
    ASSUME hard \in [Bitmaps -> Nat], UNCHANGED hard
    PROVE  SumOf(ListedBytes) \in Nat /\ SumOf(ListedBytes)' = SumOf(ListedBytes)
<1>1. ListedBytes \in [Bitmaps -> Nat]  BY SizesAssumption DEF ListedBytes
<1>2. ListedBytes' = ListedBytes  BY DEF ListedBytes
<1>3. SumOf(ListedBytes) \in Nat  BY <1>1, SumType, FiniteAssumption
<1> QED BY <1>2, <1>3 DEF SumOf, Cells

-----------------------------------------------------------------------------
(***************************************************************************)
(* The invariant: what a step of a call has to show of itself.             *)
(***************************************************************************)

\* The size, and what is to be added and was taken, change by the same bytes.
Balanced(c, d) ==
    cacheSize' + AddedOf(d) - AddedOf(c) + SumOf(ListedBytes) + TakenOf(c)
        = cacheSize + SumOf(ListedBytes)' + TakenOf(d)

\* A call adds no more than it was going to, or sees that there is room.
WithinLimit(c, d) ==
    \/ cacheSize' + PendingOf(d) <= cacheSize + PendingOf(c)
    \/ cacheSize' + PendingOf(d) <= Limit

LEMMA CallStep ==
    ASSUME IInv, NEW t \in Threads, NEW c \in Calls, op' = [op EXCEPT ![t] = c],
           Types', Alone', disturbed => disturbed', op[t].at # "clearSize",
           SumOf(ListedBytes) \in Int, SumOf(ListedBytes)' \in Int,
           c.at = "clearSize" \/ Balanced(op[t], c), WithinLimit(op[t], c)
    PROVE  IInv'
<1>1. op \in [Threads -> Calls] /\ cacheSize \in Int /\ cacheSize' \in Int /\ op[t] \in Calls
      /\ disturbed \in BOOLEAN
  BY DEF IInv, Types
<1>2. /\ SumOf(Added)' = SumOf(Added) - AddedOf(op[t]) + AddedOf(c)
      /\ SumOf(Taken)' = SumOf(Taken) - TakenOf(op[t]) + TakenOf(c)
      /\ SumOf(Added) \in Nat /\ SumOf(Taken) \in Nat
  BY <1>1, CallChange
<1>3. /\ SumOf(Pending)' = SumOf(Pending) - PendingOf(op[t]) + PendingOf(c)
      /\ SumOf(Pending)' <= PendingOf(c) + (Cardinality(Threads) - 1) * (Limit - 1)
      /\ SumOf(Pending) \in Nat
  BY <1>1, CallChange
<1>4. /\ AddedOf(c) \in Nat /\ TakenOf(c) \in Nat /\ PendingOf(c) \in Nat
      /\ AddedOf(op[t]) \in Nat /\ TakenOf(op[t]) \in Nat /\ PendingOf(op[t]) \in Nat
  BY <1>1, CallWeights
<1>5. BytesCounted'
  <2> SUFFICES ASSUME ~disturbed', \A u \in Threads : op'[u].at # "clearSize"
               PROVE  cacheSize' + SumOf(Added)' = SumOf(ListedBytes)' + SumOf(Taken)'
    BY DEF BytesCounted
  <2>1. op'[t] = c /\ \A u \in Threads \ {t} : op'[u] = op[u]  BY <1>1
  <2>2. c.at # "clearSize" /\ \A u \in Threads : op[u].at # "clearSize"  BY <2>1
  <2>3. ~disturbed  OBVIOUS
  <2>4. cacheSize + SumOf(Added) = SumOf(ListedBytes) + SumOf(Taken)
    BY <2>2, <2>3 DEF IInv, BytesCounted
  <2>5. cacheSize' + AddedOf(c) - AddedOf(op[t]) + SumOf(ListedBytes) + TakenOf(op[t])
            = cacheSize + SumOf(ListedBytes)' + TakenOf(c)
    BY <2>2 DEF Balanced
  <2>6. /\ AddedOf(c) \in Int /\ TakenOf(c) \in Int
        /\ AddedOf(op[t]) \in Int /\ TakenOf(op[t]) \in Int
    BY <1>4
  <2> QED BY ONLY <1>1, <1>2, <2>4, <2>5, <2>6, SumOf(ListedBytes) \in Int, SumOf(ListedBytes)' \in Int
<1>6. LimitKept'
  <2> SUFFICES ASSUME ~disturbed' PROVE cacheSize' + SumOf(Pending)' <= Ceiling
    BY DEF LimitKept, Ceiling
  <2> DEFINE extra == (Cardinality(Threads) - 1) * (Limit - 1)
  <2>1. Ceiling = Limit + extra  BY DEF Ceiling
  <2>2. ~disturbed  OBVIOUS
  <2>3. cacheSize + SumOf(Pending) <= Ceiling  BY <2>2 DEF IInv, LimitKept
  <2>4. Limit \in Int /\ extra \in Int
    <3>1. Cardinality(Threads) \in Nat  BY FiniteAssumption, FS_CardinalityType
    <3>2. Limit \in Nat  BY LimitAssumption
    <3>3. \A x, y \in Int : x * y \in Int  OBVIOUS
    <3> QED BY <3>1, <3>2, <3>3
  <2>5. SumOf(Pending)' <= PendingOf(c) + extra  BY <1>3
  <2> HIDE DEF extra
  <2>6. CASE cacheSize' + PendingOf(c) <= cacheSize + PendingOf(op[t])
    BY ONLY <1>1, <1>4, <1>3, <2>1, <2>3, <2>4, <2>6
  <2>7. CASE cacheSize' + PendingOf(c) <= Limit
    <3>1. SumOf(Pending)' \in Int  BY ONLY <1>4, <1>3
    <3> QED BY ONLY <1>1, <1>4, <2>1, <2>4, <2>5, <2>7, <3>1
  <2> QED BY <2>6, <2>7 DEF WithinLimit
<1> QED BY <1>5, <1>6 DEF IInv

\* A step of a call that is no clear().
LEMMA WorkStep ==
    ASSUME IInv, NEW t \in Threads, NEW c \in Calls, op' = [op EXCEPT ![t] = c],
           op[t].at \notin {"idle"} \cup Clears, c.at \notin Clears,
           UNCHANGED <<kind, disturbed>>,
           hard' \in [Bitmaps -> Nat], cacheSize' \in Int,
           soft' \in [Keys -> Bitmaps \cup {NULL}], policy' \in Seq(Entries),
           SumOf(ListedBytes) \in Int, SumOf(ListedBytes)' \in Int,
           Balanced(op[t], c), WithinLimit(op[t], c)
    PROVE  IInv'
<1>1. op \in [Threads -> Calls]  BY DEF IInv, Types
<1>2. Types'  BY <1>1 DEF IInv, Types
<1>3. Alone'
  <2> SUFFICES ASSUME ~disturbed', NEW u \in Threads, op'[u].at \in Clears PROVE FALSE
    BY DEF Alone
  <2>1. u # t /\ op'[u] = op[u]  BY <1>1
  <2>2. op[t].at = "idle"  BY <2>1 DEF IInv, Alone
  <2> QED BY <2>2
<1>4. op[t].at # "clearSize"  BY DEF Clears
<1>5. disturbed => disturbed'  OBVIOUS
<1> QED BY <1>2, <1>3, <1>4, <1>5, CallStep

\* Such a step beside the count: neither the list nor the size changes, nor
\* what the call still owes or may add.
LEMMA QuietStep ==
    ASSUME IInv, NEW t \in Threads, NEW c \in Calls, op' = [op EXCEPT ![t] = c],
           op[t].at \notin {"idle"} \cup Clears, c.at \notin Clears,
           UNCHANGED <<kind, disturbed, hard, cacheSize>>,
           soft' \in [Keys -> Bitmaps \cup {NULL}], policy' \in Seq(Entries),
           AddedOf(c) = AddedOf(op[t]), TakenOf(c) = TakenOf(op[t]), PendingOf(c) = PendingOf(op[t])
    PROVE  IInv'
<1>1. op[t] \in Calls /\ hard \in [Bitmaps -> Nat] /\ cacheSize \in Int  BY DEF IInv, Types
<1>2. SumOf(ListedBytes) \in Nat /\ SumOf(ListedBytes)' = SumOf(ListedBytes)
  BY <1>1, SameListed
<1>3. AddedOf(c) \in Nat /\ TakenOf(c) \in Nat /\ PendingOf(c) \in Nat  BY CallWeights
<1>4. AddedOf(c) \in Int /\ TakenOf(c) \in Int /\ PendingOf(c) \in Int  BY <1>3
<1>5. cacheSize' = cacheSize /\ hard' \in [Bitmaps -> Nat] /\ UNCHANGED <<kind, disturbed>>
  BY <1>1
<1>6. Balanced(op[t], c)
  BY ONLY <1>1, <1>2, <1>4, <1>5, AddedOf(c) = AddedOf(op[t]), TakenOf(c) = TakenOf(op[t])
  DEF Balanced
<1>7. WithinLimit(op[t], c)
  BY ONLY <1>1, <1>3, <1>5, PendingOf(c) = PendingOf(op[t]) DEF WithinLimit
<1>8. SumOf(ListedBytes) \in Int /\ SumOf(ListedBytes)' \in Int /\ cacheSize' \in Int
  BY <1>1, <1>2, <1>5
<1> QED BY <1>1, <1>5, <1>6, <1>7, <1>8, WorkStep

\* A call begins.
LEMMA BeginStep ==
    ASSUME IInv, NEW t \in Threads, NEW c \in Calls, Begin(t, c),
           c.at \in {"fit", "putSoftOnly", "use", "removePolicy", "removeHard", "clearPolicy"},
           c.cur = cacheSize \/ c.at # "fit",
           UNCHANGED <<kind, hard, cacheSize, soft, policy>>
    PROVE  IInv'
<1>1. /\ op \in [Threads -> Calls] /\ op[t] \in Calls /\ hard \in [Bitmaps -> Nat]
      /\ cacheSize \in Int /\ disturbed \in BOOLEAN
  BY DEF IInv, Types
<1>2. op' = [op EXCEPT ![t] = c] /\ op[t].at = "idle"  BY DEF Begin
<1>3. /\ disturbed => disturbed'
      /\ disturbed' \in BOOLEAN
      /\ ~disturbed' => \A u \in Threads \ {t} :
             op[u].at = "idle" \/ (c.at \notin Clears /\ op[u].at \notin Clears)
  BY <1>1 DEF Begin
<1>4. Types'  BY <1>1, <1>2, <1>3 DEF IInv, Types
<1>5. Alone'
  <2> SUFFICES ASSUME ~disturbed', NEW u \in Threads, op'[u].at \in Clears
               PROVE  /\ \A v \in Threads \ {u} : op'[v].at = "idle"
                      /\ op'[u].at # "clearSize"
    BY DEF Alone
  <2>1. op'[t] = c /\ \A v \in Threads \ {t} : op'[v] = op[v]  BY <1>1, <1>2
  <2>2. u = t
    <3>1. "idle" \notin Clears  BY DEF Clears
    <3> QED BY <1>3, <2>1, <3>1
  <2> QED BY <1>3, <2>1, <2>2
<1>6. SumOf(ListedBytes) \in Nat /\ SumOf(ListedBytes)' = SumOf(ListedBytes)
  BY <1>1, SameListed
<1>7. /\ AddedOf(c) = 0 /\ TakenOf(c) = 0
      /\ AddedOf(op[t]) = 0 /\ TakenOf(op[t]) = 0 /\ PendingOf(op[t]) = 0
  BY <1>2 DEF AddedOf, TakenOf, PendingOf
<1>8. Balanced(op[t], c)  BY <1>1, <1>6, <1>7 DEF Balanced
<1>9. WithinLimit(op[t], c)
  <2>1. PendingOf(c) \in Nat  BY CallWeights
  <2>2. CASE PendingOf(c) = 0  BY <1>1, <1>7, <2>2 DEF WithinLimit
  <2>3. CASE PendingOf(c) # 0
    <3>1. c.at = "fit" /\ ~(c.cur + SizeOf[c.value] > Limit) /\ PendingOf(c) = SizeOf[c.value]
      BY <2>3 DEF PendingOf
    <3>2. cacheSize' = c.cur  BY <3>1
    <3>3. Limit \in Int  BY LimitAssumption
    <3>4. cacheSize' + PendingOf(c) <= Limit  BY <1>1, <2>1, <3>1, <3>2, <3>3
    <3> QED BY <3>4 DEF WithinLimit
  <2> QED BY <2>2, <2>3
<1>10. SumOf(ListedBytes) \in Int /\ SumOf(ListedBytes)' \in Int  BY <1>6
<1> QED BY <1>2, <1>3, <1>4, <1>5, <1>8, <1>9, <1>10, CallStep

-----------------------------------------------------------------------------
(***************************************************************************)
(* The steps of a call.                                                    *)
(***************************************************************************)

\* A call that is over.
LEMMA Over ==
    /\ IDLE \in Calls /\ IDLE.at = "idle"
    /\ AddedOf(IDLE) = 0 /\ TakenOf(IDLE) = 0 /\ PendingOf(IDLE) = 0
<1>1. IDLE \in AnyCalls /\ IDLE.at = "idle"  BY DEF IDLE, AnyCalls, Places
<1>2. CallOK(IDLE)
  BY <1>1 DEF CallOK, Putting, Removing, Using, Valued, Sized, Victims
<1>3. AddedOf(IDLE) = 0 /\ TakenOf(IDLE) = 0 /\ PendingOf(IDLE) = 0
  BY <1>1 DEF AddedOf, TakenOf, PendingOf
<1> QED BY <1>1, <1>2, <1>3 DEF Calls

\* What the steps below start from.
LEMMA Here ==
    ASSUME IInv, NEW t \in Threads
    PROVE  /\ op[t] \in Calls /\ op[t] \in AnyCalls /\ CallOK(op[t])
           /\ hard \in [Bitmaps -> Nat] /\ cacheSize \in Int
           /\ soft \in [Keys -> Bitmaps \cup {NULL}] /\ policy \in Seq(Entries)
BY DEF IInv, Types, Calls

LEMMA RemoveNextFailsStep ==
    ASSUME IInv, NEW t \in Threads, RemoveNextFails(t)
    PROVE  IInv'
<1>1. op[t].at = "fit" /\ MustEvict(t) /\ UNCHANGED <<hard, cacheSize, soft, policy, kind, disturbed>>
  BY DEF RemoveNextFails, Return, GoTo, GoOn
<1>2. op[t].at \notin {"idle"} \cup Clears  BY <1>1 DEF Clears, Heavy
<1>3. AddedOf(op[t]) = 0 /\ TakenOf(op[t]) = 0 /\ PendingOf(op[t]) = 0
  BY <1>1 DEF AddedOf, TakenOf, PendingOf, MustEvict
<1>4. CASE op' = [op EXCEPT ![t] = IDLE]
  <2>1. IDLE.at \notin Clears  BY Over DEF Clears
  <2> QED BY <1>1, <1>2, <1>3, <1>4, <2>1, Over, Here, QuietStep
<1>5. CASE op' = [op EXCEPT ![t] = [op[t] EXCEPT !.at = "fit"]]
  <2>1. [op[t] EXCEPT !.at = "fit"] = op[t]  BY <1>1, Here DEF AnyCalls
  <2>2. op' = [op EXCEPT ![t] = op[t]]  BY <1>5, <2>1
  <2> QED BY <1>1, <1>2, <1>3, <2>2, Here, QuietStep
<1> QED BY <1>4, <1>5 DEF RemoveNextFails, Return, GoTo, GoOn

LEMMA RemoveNextStep ==
    ASSUME IInv, NEW t \in Threads, RemoveNext(t)
    PROVE  IInv'
<1>1. op[t].at = "fit" /\ MustEvict(t) /\ UNCHANGED <<hard, cacheSize, soft, kind, disturbed>>
  BY DEF RemoveNext, GoOn
<1>2. PICK i \in Candidates :
        /\ policy' = IF kind \in {"fifo", "lru"} THEN S!RemoveAt(policy, i) ELSE policy
        /\ GoOn(t, [op[t] EXCEPT !.victim = policy[i].value,
                                 !.at = IF kind \in {"fifo", "lru"} THEN "evict" ELSE "forget"])
  BY Zenon DEF RemoveNext
<1>3. i \in DOMAIN policy
  <2>1. kind \in Policies  BY DEF IInv, Types
  <2> QED BY <2>1 DEF Candidates, Policies
<1>4. policy' \in Seq(Entries) /\ policy[i].value \in Bitmaps
  BY <1>2, <1>3, Here, EntryAt, RemoveAtType
<1> DEFINE a == IF kind \in {"fifo", "lru"} THEN "evict" ELSE "forget"
           v == policy[i].value
           d == [op[t] EXCEPT !.victim = v, !.at = a]
<1>5. a \in {"evict", "forget"} /\ v \in Bitmaps  BY <1>4
<1>6. op' = [op EXCEPT ![t] = d]  BY <1>2 DEF GoOn
<1> HIDE DEF a, v
<1>7. /\ d \in AnyCalls /\ d.at = a /\ d.victim = v
      /\ d.value = op[t].value /\ d.key = op[t].key /\ d.cur = op[t].cur
  BY <1>5, Here DEF AnyCalls, Places, Putting
<1> HIDE DEF d
<1>8. d \in Calls
  <2>1. /\ op[t].key \in Keys /\ op[t].value \in Bitmaps /\ SizeOf[op[t].value] < Limit
        /\ op[t].cur + SizeOf[op[t].value] > Limit
    BY <1>1, Here DEF CallOK, Putting, Valued, Sized, MustEvict
  <2>2. CallOK(d)  BY <1>5, <1>7, <2>1 DEF CallOK
  <2> QED BY <1>7, <2>2 DEF Calls
<1>9. d.at \notin Clears /\ op[t].at \notin {"idle"} \cup Clears  BY <1>1, <1>5, <1>7 DEF Clears
<1>10. /\ AddedOf(d) = AddedOf(op[t]) /\ TakenOf(d) = TakenOf(op[t])
       /\ PendingOf(d) = PendingOf(op[t])
  BY <1>1, <1>5, <1>7 DEF AddedOf, TakenOf, PendingOf, MustEvict
<1> QED BY <1>1, <1>4, <1>6, <1>8, <1>9, <1>10, Here, QuietStep

LEMMA ForgetStep ==
    ASSUME IInv, NEW t \in Threads, Forget(t)
    PROVE  IInv'
<1> DEFINE d == [op[t] EXCEPT !.at = "evict"]
<1>1. op[t].at = "forget" /\ op' = [op EXCEPT ![t] = d] /\ policy' = Without(NULL, op[t].victim)
      /\ UNCHANGED <<hard, cacheSize, soft, kind, disturbed>>
  BY DEF Forget, GoTo, GoOn
<1>2. /\ d \in AnyCalls /\ d.at = "evict" /\ d.victim = op[t].victim
      /\ d.value = op[t].value /\ d.key = op[t].key /\ d.cur = op[t].cur
  BY <1>1, Here DEF AnyCalls, Places, Putting
<1> HIDE DEF d
<1>3. policy' \in Seq(Entries)  BY <1>1, Here, WithoutType
<1>4. d \in Calls
  <2>1. CallOK(d)  BY <1>1, <1>2, Here DEF CallOK, Putting, Valued, Sized, Victims
  <2> QED BY <1>2, <2>1 DEF Calls
<1>5. d.at \notin Clears /\ op[t].at \notin {"idle"} \cup Clears  BY <1>1, <1>2 DEF Clears
<1>6. /\ AddedOf(d) = AddedOf(op[t]) /\ TakenOf(d) = TakenOf(op[t])
      /\ PendingOf(d) = PendingOf(op[t])
  BY <1>1, <1>2 DEF AddedOf, TakenOf, PendingOf
<1> QED BY <1>1, <1>3, <1>4, <1>5, <1>6, Here, QuietStep

LEMMA EvictStep ==
    ASSUME IInv, NEW t \in Threads, Evict(t)
    PROVE  IInv'
<1> DEFINE v == op[t].victim
           d == [op[t] EXCEPT !.at = "evicted"]
           e == [op[t] EXCEPT !.at = "fit", !.victim = NULL]
<1>1. op[t].at = "evict" /\ UNCHANGED <<cacheSize, soft, policy, kind, disturbed>>
      /\ op[t].at \notin {"idle"} \cup Clears
  BY DEF Evict, GoTo, GoOn, Clears
<1>2. /\ op[t].value \in Bitmaps /\ op[t].key \in Keys /\ v \in Bitmaps
      /\ SizeOf[op[t].value] < Limit /\ op[t].cur + SizeOf[op[t].value] > Limit
  BY <1>1, Here DEF CallOK, Putting, Valued, Sized, Victims
<1>3. AddedOf(op[t]) = 0 /\ TakenOf(op[t]) = 0 /\ PendingOf(op[t]) = 0
  BY <1>1 DEF AddedOf, TakenOf, PendingOf
<1>4. CASE hard[v] > 0
  <2>1. hard' = [hard EXCEPT ![v] = @ - 1] /\ op' = [op EXCEPT ![t] = d]
    BY <1>4 DEF Evict, GoTo, GoOn
  <2>2. /\ d \in AnyCalls /\ d.at = "evicted" /\ d.victim = v
        /\ d.value = op[t].value /\ d.key = op[t].key /\ d.cur = op[t].cur
    BY Here DEF AnyCalls, Places, Putting
  <2> HIDE DEF d, v
  <2>3. CallOK(d)  BY <1>2, <2>2 DEF CallOK
  <2>4. d \in Calls /\ d.at \notin Clears  BY <2>2, <2>3 DEF Calls, Clears
  <2>5. AddedOf(d) = 0 /\ TakenOf(d) = SizeOf[v] /\ PendingOf(d) = 0
    BY <2>2 DEF AddedOf, TakenOf, PendingOf
  <2>6. /\ hard' \in [Bitmaps -> Nat] /\ SumOf(ListedBytes) \in Nat
        /\ SumOf(ListedBytes)' = SumOf(ListedBytes) - SizeOf[v]
    BY <1>2, <1>4, <2>1, Here, ListedLess
  <2>7. SizeOf[v] \in Int  BY <2>4, <2>5, CallWeights
  <2>8. cacheSize \in Int /\ cacheSize' = cacheSize  BY <1>1, Here
  <2>9. SumOf(ListedBytes) \in Int /\ SumOf(ListedBytes)' \in Int  BY ONLY <2>6, <2>7
  <2>10. Balanced(op[t], d)  BY ONLY <1>3, <2>5, <2>6, <2>7, <2>8, <2>9 DEF Balanced
  <2>11. WithinLimit(op[t], d)  BY ONLY <1>3, <2>5, <2>8 DEF WithinLimit
  <2> QED BY <1>1, <2>1, <2>4, <2>6, <2>8, <2>9, <2>10, <2>11, Here, WorkStep
<1>5. CASE ~(hard[v] > 0)
  <2>1. hard' = hard /\ op' = [op EXCEPT ![t] = e]  BY <1>5 DEF Evict, GoOn
  <2>2. /\ e \in AnyCalls /\ e.at = "fit"
        /\ e.value = op[t].value /\ e.key = op[t].key /\ e.cur = op[t].cur
    BY Here DEF AnyCalls, Places, Putting
  <2> HIDE DEF e
  <2>3. CallOK(e)  BY <1>2, <2>2 DEF CallOK, Victims
  <2>4. e \in Calls /\ e.at \notin Clears  BY <2>2, <2>3 DEF Calls, Clears
  <2>5. AddedOf(e) = 0 /\ TakenOf(e) = 0 /\ PendingOf(e) = 0
    BY <1>2, <2>2 DEF AddedOf, TakenOf, PendingOf
  <2> QED BY <1>1, <1>3, <2>1, <2>4, <2>5, Here, QuietStep
<1> QED BY <1>4, <1>5

LEMMA CountEvictedStep ==
    ASSUME IInv, NEW t \in Threads, CountEvicted(t)
    PROVE  IInv'
<1> DEFINE v == op[t].victim
           e == [op[t] EXCEPT !.at = "fit", !.victim = NULL, !.cur = cacheSize']
<1>1. op[t].at = "evicted" /\ UNCHANGED <<hard, soft, policy, kind, disturbed>>
      /\ op[t].at \notin {"idle"} \cup Clears
      /\ cacheSize' = cacheSize - SizeOf[v] /\ op' = [op EXCEPT ![t] = e]
  BY DEF CountEvicted, GoOn, Clears
<1>2. /\ op[t].value \in Bitmaps /\ op[t].key \in Keys /\ v \in Bitmaps
      /\ SizeOf[op[t].value] < Limit
  BY <1>1, Here DEF CallOK, Putting, Valued, Sized, Victims
<1>3. AddedOf(op[t]) = 0 /\ TakenOf(op[t]) = SizeOf[v] /\ PendingOf(op[t]) = 0
  BY <1>1 DEF AddedOf, TakenOf, PendingOf
<1> HIDE DEF v
<1>4. \A b \in Bitmaps : SizeOf[b] \in Nat \ {0}  BY SizesAssumption
<1>5. cacheSize \in Int /\ cacheSize' \in Int /\ cacheSize' < cacheSize /\ SizeOf[v] \in Int
  BY <1>1, <1>2, <1>4, Here
<1>6. PICK d \in AnyCalls :
        /\ op' = [op EXCEPT ![t] = d] /\ d.at = "fit"
        /\ d.value = op[t].value /\ d.key = op[t].key /\ d.cur = cacheSize'
  <2>1. /\ e \in AnyCalls /\ e.at = "fit"
        /\ e.value = op[t].value /\ e.key = op[t].key /\ e.cur = cacheSize'
    BY <1>5, Here DEF AnyCalls, Places, Putting
  <2> HIDE DEF e
  <2> QED BY <1>1, <2>1
<1>7. CallOK(d)  BY <1>2, <1>6 DEF CallOK, Victims
<1>8. d \in Calls /\ d.at \notin Clears  BY <1>6, <1>7 DEF Calls, Clears
<1>9. AddedOf(d) = 0 /\ TakenOf(d) = 0  BY <1>6 DEF AddedOf, TakenOf
<1>10. SumOf(ListedBytes) \in Nat /\ SumOf(ListedBytes)' = SumOf(ListedBytes) /\ hard' \in [Bitmaps -> Nat]
  BY <1>1, Here, SameListed
<1>11. Balanced(op[t], d)  BY ONLY <1>1, <1>3, <1>5, <1>9, <1>10 DEF Balanced
<1>12. WithinLimit(op[t], d)
  <2>1. CASE d.cur + SizeOf[d.value] > Limit
    <3>1. PendingOf(d) = 0  BY <1>6, <2>1 DEF PendingOf
    <3>2. \A x, y \in Int : y < x => y + 0 <= x + 0  OBVIOUS
    <3>3. cacheSize' + 0 <= cacheSize + 0  BY Zenon, <1>5, <3>2
    <3> QED BY Zenon, <1>3, <3>1, <3>3 DEF WithinLimit
  <2>2. CASE ~(d.cur + SizeOf[d.value] > Limit)
    <3>1. PendingOf(d) = SizeOf[d.value]  BY <1>6, <2>2 DEF PendingOf
    <3>2. d.cur = cacheSize' /\ SizeOf[d.value] \in Nat /\ Limit \in Nat
      BY <1>2, <1>4, <1>6, LimitAssumption
    <3> QED BY ONLY <1>5, <2>2, <3>1, <3>2 DEF WithinLimit
  <2> QED BY <2>1, <2>2
<1>13. SumOf(ListedBytes) \in Int /\ SumOf(ListedBytes)' \in Int  BY ONLY <1>10
<1> QED BY <1>1, <1>5, <1>6, <1>8, <1>10, <1>11, <1>12, <1>13, Here, WorkStep

LEMMA PutHardStep ==
    ASSUME IInv, NEW t \in Threads, PutHard(t)
    PROVE  IInv'
<1> DEFINE b == op[t].value
           d == [op[t] EXCEPT !.at = "added"]
<1>1. op[t].at = "fit" /\ ~MustEvict(t) /\ UNCHANGED <<cacheSize, soft, policy, kind, disturbed>>
      /\ op[t].at \notin {"idle"} \cup Clears
      /\ hard' = [hard EXCEPT ![b] = @ + 1] /\ op' = [op EXCEPT ![t] = d]
  BY DEF PutHard, GoTo, GoOn, Clears
<1>2. b \in Bitmaps /\ op[t].key \in Keys /\ SizeOf[b] < Limit
  BY <1>1, Here DEF CallOK, Putting, Valued, Sized
<1>3. AddedOf(op[t]) = 0 /\ TakenOf(op[t]) = 0 /\ PendingOf(op[t]) = SizeOf[b]
  BY <1>1 DEF AddedOf, TakenOf, PendingOf, MustEvict
<1>4. d \in AnyCalls /\ d.at = "added" /\ d.value = b /\ d.key = op[t].key
  BY Here DEF AnyCalls, Places, Putting
<1> HIDE DEF d, b
<1>5. CallOK(d)  BY <1>2, <1>4 DEF CallOK, Victims
<1>6. d \in Calls /\ d.at \notin Clears  BY <1>4, <1>5 DEF Calls, Clears
<1>7. AddedOf(d) = SizeOf[b] /\ TakenOf(d) = 0 /\ PendingOf(d) = SizeOf[b]
  BY <1>4 DEF AddedOf, TakenOf, PendingOf
<1>8. SizeOf[b] \in Int  BY <1>6, <1>7, CallWeights
<1>9. /\ hard' \in [Bitmaps -> Nat] /\ SumOf(ListedBytes) \in Nat
      /\ SumOf(ListedBytes)' = SumOf(ListedBytes) + SizeOf[b]
  BY <1>1, <1>2, Here, ListedMore
<1>10. cacheSize \in Int /\ cacheSize' = cacheSize  BY <1>1, Here
<1>11. SumOf(ListedBytes) \in Int /\ SumOf(ListedBytes)' \in Int  BY ONLY <1>8, <1>9
<1>12. Balanced(op[t], d)  BY ONLY <1>3, <1>7, <1>8, <1>9, <1>10, <1>11 DEF Balanced
<1>13. WithinLimit(op[t], d)  BY ONLY <1>3, <1>7, <1>8, <1>10 DEF WithinLimit
<1> QED BY <1>1, <1>6, <1>9, <1>10, <1>11, <1>12, <1>13, Here, WorkStep

LEMMA CountAddedStep ==
    ASSUME IInv, NEW t \in Threads, CountAdded(t)
    PROVE  IInv'
<1> DEFINE b == op[t].value
           d == [op[t] EXCEPT !.at = "putSoft"]
<1>1. op[t].at = "added" /\ UNCHANGED <<hard, soft, policy, kind, disturbed>>
      /\ op[t].at \notin {"idle"} \cup Clears
      /\ cacheSize' = cacheSize + SizeOf[b] /\ op' = [op EXCEPT ![t] = d]
  BY DEF CountAdded, GoTo, GoOn, Clears
<1>2. b \in Bitmaps /\ op[t].key \in Keys
  BY <1>1, Here DEF CallOK, Putting, Valued
<1>3. AddedOf(op[t]) = SizeOf[b] /\ TakenOf(op[t]) = 0 /\ PendingOf(op[t]) = SizeOf[b]
  BY <1>1 DEF AddedOf, TakenOf, PendingOf
<1>4. d \in AnyCalls /\ d.at = "putSoft" /\ d.value = b /\ d.key = op[t].key
  BY Here DEF AnyCalls, Places, Putting
<1> HIDE DEF d, b
<1>5. CallOK(d)  BY <1>2, <1>4 DEF CallOK, Victims, Sized
<1>6. d \in Calls /\ d.at \notin Clears  BY <1>4, <1>5 DEF Calls, Clears
<1>7. AddedOf(d) = 0 /\ TakenOf(d) = 0 /\ PendingOf(d) = 0
  BY <1>4 DEF AddedOf, TakenOf, PendingOf
<1>8. SizeOf[b] \in Int  BY <1>3, Here, CallWeights
<1>9. SumOf(ListedBytes) \in Nat /\ SumOf(ListedBytes)' = SumOf(ListedBytes) /\ hard' \in [Bitmaps -> Nat]
  BY <1>1, Here, SameListed
<1>10. cacheSize \in Int /\ cacheSize' = cacheSize + SizeOf[b]  BY <1>1, Here
<1>11. cacheSize' \in Int  BY ONLY <1>8, <1>10
<1>12. Balanced(op[t], d)  BY ONLY <1>3, <1>7, <1>8, <1>9, <1>10 DEF Balanced
<1>13. WithinLimit(op[t], d)  BY ONLY <1>3, <1>7, <1>8, <1>10 DEF WithinLimit
<1>14. SumOf(ListedBytes) \in Int /\ SumOf(ListedBytes)' \in Int  BY ONLY <1>9
<1> QED BY <1>1, <1>6, <1>9, <1>11, <1>12, <1>13, <1>14, Here, WorkStep

\* A call that is over, or goes on to a place of no weight, without a change
\* of the list and the size.
LEMMA LightStep ==
    ASSUME IInv, NEW t \in Threads, NEW c \in Calls, op' = [op EXCEPT ![t] = c],
           op[t].at \notin {"idle"} \cup Clears \cup Heavy,
           c.at \notin Clears \cup Heavy,
           UNCHANGED <<kind, disturbed, hard, cacheSize>>,
           soft' \in [Keys -> Bitmaps \cup {NULL}], policy' \in Seq(Entries)
    PROVE  IInv'
<1>1. AddedOf(op[t]) = 0 /\ TakenOf(op[t]) = 0 /\ PendingOf(op[t]) = 0
  BY DEF AddedOf, TakenOf, PendingOf, Heavy
<1>2. AddedOf(c) = 0 /\ TakenOf(c) = 0 /\ PendingOf(c) = 0
  BY DEF AddedOf, TakenOf, PendingOf, Heavy
<1>3. op[t].at \notin {"idle"} \cup Clears /\ c.at \notin Clears  OBVIOUS
<1> QED BY <1>1, <1>2, <1>3, QuietStep

\* A call returns.
LEMMA ReturnStep ==
    ASSUME IInv, NEW t \in Threads, Return(t),
           op[t].at \notin {"idle"} \cup Clears \cup Heavy,
           UNCHANGED <<hard, cacheSize>>,
           soft' \in [Keys -> Bitmaps \cup {NULL}], policy' \in Seq(Entries)
    PROVE  IInv'
<1>1. op' = [op EXCEPT ![t] = IDLE] /\ UNCHANGED <<kind, disturbed, hard, cacheSize>>
  BY DEF Return, GoOn
<1>2. IDLE \in Calls /\ IDLE.at \notin Clears \cup Heavy
  BY Over DEF Clears, Heavy
<1> QED BY <1>1, <1>2, LightStep

LEMMA PutSoftStep ==
    ASSUME IInv, NEW t \in Threads, PutSoft(t)
    PROVE  IInv'
<1> DEFINE d == [op[t] EXCEPT !.at = "remember"]
<1>1. /\ op[t].at \in {"putSoft", "putSoftOnly"}
      /\ soft' = [soft EXCEPT ![op[t].key] = op[t].value]
      /\ UNCHANGED <<hard, cacheSize, policy, kind, disturbed>>
  BY DEF PutSoft, Return, GoTo, GoOn
<1>2. op[t].value \in Bitmaps /\ op[t].key \in Keys
  BY <1>1, Here DEF CallOK, Putting, Valued
<1>3. soft' \in [Keys -> Bitmaps \cup {NULL}] /\ policy' \in Seq(Entries)
  BY <1>1, <1>2, Here
<1>4. op[t].at \notin {"idle"} \cup Clears \cup Heavy
  BY <1>1 DEF Clears, Heavy
<1>5. CASE op' = [op EXCEPT ![t] = d]
  <2>1. d \in AnyCalls /\ d.at = "remember" /\ d.value = op[t].value /\ d.key = op[t].key
    BY Here DEF AnyCalls, Places, Putting
  <2> HIDE DEF d
  <2>2. CallOK(d)  BY <1>2, <2>1 DEF CallOK, Victims, Sized
  <2>3. d \in Calls  BY <2>1, <2>2 DEF Calls
  <2>4. d.at \notin Clears \cup Heavy  BY <2>1 DEF Clears, Heavy
  <2> QED BY <1>1, <1>3, <1>4, <1>5, <2>3, <2>4, LightStep
<1>6. CASE Return(t)
  BY <1>1, <1>3, <1>4, <1>6, ReturnStep
<1> QED BY <1>5, <1>6 DEF PutSoft, GoTo, GoOn

LEMMA RememberStep ==
    ASSUME IInv, NEW t \in Threads, Remember(t)
    PROVE  IInv'
<1>1. op[t].at = "remember" /\ policy' = With(op[t].key, op[t].value) /\ Return(t)
      /\ UNCHANGED <<hard, cacheSize, soft>>
  BY DEF Remember
<1>2. op[t].value \in Bitmaps /\ op[t].key \in Keys
  BY <1>1, Here DEF CallOK, Putting, Valued
<1> DEFINE entry == [key |-> IF kind = "lru" THEN op[t].key ELSE NULL,
                     value |-> op[t].value, uses |-> 0]
           rest == IF kind = "fifo" THEN policy ELSE Without(op[t].key, op[t].value)
<1>3. entry \in Entries  BY <1>2 DEF Entries
<1>4. rest \in Seq(Entries)  BY Here, WithoutType
<1>5. policy' = Append(rest, entry)  BY <1>1 DEF With
<1>6. policy' \in Seq(Entries)
  <2> HIDE DEF entry, rest
  <2> QED BY <1>3, <1>4, <1>5, AppendProperties
<1>7. op[t].at \notin {"idle"} \cup Clears \cup Heavy
  BY <1>1 DEF Clears, Heavy
<1>8. soft' \in [Keys -> Bitmaps \cup {NULL}] /\ UNCHANGED <<hard, cacheSize>>
  BY <1>1, Here
<1> QED BY <1>1, <1>6, <1>7, <1>8, ReturnStep

LEMMA ReadUsesStep ==
    ASSUME IInv, NEW t \in Threads, ReadUses(t)
    PROVE  IInv'
<1>1. op[t].at = "use" /\ UNCHANGED <<hard, cacheSize, soft, policy, kind, disturbed>>
  BY DEF ReadUses, Return, GoOn
<1>2. op[t].value \in Bitmaps  BY <1>1, Here DEF CallOK, Using, Valued
<1>3. op[t].at \notin {"idle"} \cup Clears \cup Heavy
  BY <1>1 DEF Clears, Heavy
<1>4. soft' \in [Keys -> Bitmaps \cup {NULL}] /\ policy' \in Seq(Entries)
      /\ UNCHANGED <<hard, cacheSize, kind, disturbed>>
  BY <1>1, Here
<1>5. CASE At(NULL, op[t].value) = {}
  <2>1. Return(t)  BY <1>5 DEF ReadUses
  <2> QED BY <1>3, <1>4, <2>1, ReturnStep
<1>6. CASE At(NULL, op[t].value) # {}
  <2> DEFINE i == Min(At(NULL, op[t].value))
             n == Min({MaxUses, policy[i].uses + 1})
             d == [op[t] EXCEPT !.at = "count", !.cur = n]
  <2>1. op' = [op EXCEPT ![t] = d]  BY <1>6 DEF ReadUses, GoOn
  <2>2. policy[i].uses \in Int
    <3>1. At(NULL, op[t].value) \subseteq DOMAIN policy  BY DEF At
    <3>2. DOMAIN policy \subseteq Nat  BY Here, LenProperties
    <3>3. i \in DOMAIN policy  BY <1>6, <3>1, <3>2, MinAt
    <3> QED BY <3>3, Here, EntryAt
  <2> HIDE DEF i
  <2>3. n \in Int
    <3>1. \A x, y \in Int : \E m \in {x, y} : \A z \in {x, y} : m <= z  OBVIOUS
    <3>2. MaxUses \in Int /\ policy[i].uses + 1 \in Int  BY <2>2, BoundsAssumption
    <3>3. \E m \in {MaxUses, policy[i].uses + 1} : \A z \in {MaxUses, policy[i].uses + 1} : m <= z
      BY <3>1, <3>2
    <3>4. Min({MaxUses, policy[i].uses + 1}) \in {MaxUses, policy[i].uses + 1}
      BY <3>3 DEF Min
    <3> QED BY <3>2, <3>4
  <2> HIDE DEF n
  <2>4. d \in AnyCalls /\ d.at = "count" /\ d.value = op[t].value
    BY <2>3, Here DEF AnyCalls, Places, Using
  <2> HIDE DEF d
  <2>5. CallOK(d)  BY <1>2, <2>4 DEF CallOK, Putting, Removing, Victims, Sized
  <2>6. d \in Calls  BY <2>4, <2>5 DEF Calls
  <2>7. d.at \notin Clears \cup Heavy  BY <2>4 DEF Clears, Heavy
  <2> QED BY <1>3, <1>4, <2>1, <2>6, <2>7, LightStep
<1> QED BY <1>5, <1>6

LEMMA CountUseStep ==
    ASSUME IInv, NEW t \in Threads, CountUse(t)
    PROVE  IInv'
<1> DEFINE used == [key |-> NULL, value |-> op[t].value, uses |-> op[t].cur]
<1>1. op[t].at = "count" /\ policy' = Append(Without(NULL, op[t].value), used) /\ Return(t)
      /\ UNCHANGED <<hard, cacheSize, soft>>
  BY DEF CountUse
<1>2. op[t].value \in Bitmaps /\ op[t].cur \in Int
  BY <1>1, Here DEF CallOK, Using, Valued, AnyCalls
<1>3. used \in Entries  BY <1>2 DEF Entries
<1>4. policy' \in Seq(Entries)
  <2>1. Without(NULL, op[t].value) \in Seq(Entries)  BY Here, WithoutType
  <2> HIDE DEF used
  <2> QED BY <1>1, <1>3, <2>1, AppendProperties
<1>5. op[t].at \notin {"idle"} \cup Clears \cup Heavy
  BY <1>1 DEF Clears, Heavy
<1>6. soft' \in [Keys -> Bitmaps \cup {NULL}] /\ UNCHANGED <<hard, cacheSize>>
  BY <1>1, Here
<1> QED BY <1>1, <1>4, <1>5, <1>6, ReturnStep

LEMMA RemovePolicyStep ==
    ASSUME IInv, NEW t \in Threads, RemovePolicy(t)
    PROVE  IInv'
<1> DEFINE d == [op[t] EXCEPT !.at = "removeHard"]
<1>1. op[t].at = "removePolicy" /\ policy' = Without(op[t].key, op[t].value)
      /\ op' = [op EXCEPT ![t] = d] /\ UNCHANGED <<hard, cacheSize, soft, kind, disturbed>>
  BY DEF RemovePolicy, GoTo, GoOn
<1>2. op[t].key \in Keys  BY <1>1, Here DEF CallOK, Removing
<1>3. policy' \in Seq(Entries)  BY <1>1, Here, WithoutType
<1>4. d \in AnyCalls /\ d.at = "removeHard" /\ d.key = op[t].key
  BY Here DEF AnyCalls, Places, Removing
<1> HIDE DEF d
<1>5. CallOK(d)  BY <1>2, <1>4 DEF CallOK, Putting, Using, Valued, Victims, Sized
<1>6. d \in Calls  BY <1>4, <1>5 DEF Calls
<1>7. d.at \notin Clears \cup Heavy
      /\ op[t].at \notin {"idle"} \cup Clears \cup Heavy
  BY <1>1, <1>4 DEF Clears, Heavy
<1>8. soft' \in [Keys -> Bitmaps \cup {NULL}]  BY <1>1, Here
<1> QED BY <1>1, <1>3, <1>6, <1>7, <1>8, LightStep

LEMMA RemoveLooksUpStep ==
    ASSUME IInv, NEW t \in Threads, RemoveLooksUp(t)
    PROVE  IInv'
<1> DEFINE v == soft[op[t].key]
           a == IF v = NULL THEN "removeSoft" ELSE "unlist"
           d == [op[t] EXCEPT !.value = v, !.at = a]
<1>1. op[t].at = "removeHard" /\ op' = [op EXCEPT ![t] = d]
      /\ UNCHANGED <<hard, cacheSize, soft, policy, kind, disturbed>>
  BY DEF RemoveLooksUp, GoOn
<1>2. op[t].key \in Keys  BY <1>1, Here DEF CallOK, Removing
<1>3. v \in Bitmaps \cup {NULL}  BY <1>2, Here
<1>4. a \in {"removeSoft", "unlist"} /\ (a = "unlist" => v \in Bitmaps)  BY <1>3
<1> HIDE DEF v, a
<1>5. d \in AnyCalls /\ d.at = a /\ d.value = v /\ d.key = op[t].key
  BY <1>3, <1>4, Here DEF AnyCalls, Places, Removing
<1> HIDE DEF d
<1>6. CallOK(d)  BY <1>2, <1>4, <1>5 DEF CallOK, Putting, Using, Valued, Victims, Sized
<1>7. d \in Calls  BY <1>5, <1>6 DEF Calls
<1>8. d.at \notin Clears \cup Heavy
      /\ op[t].at \notin {"idle"} \cup Clears \cup Heavy
  BY <1>1, <1>4, <1>5 DEF Clears, Heavy
<1>9. soft' \in [Keys -> Bitmaps \cup {NULL}] /\ policy' \in Seq(Entries)  BY <1>1, Here
<1> QED BY <1>1, <1>7, <1>8, <1>9, LightStep

LEMMA RemoveHardStep ==
    ASSUME IInv, NEW t \in Threads, RemoveHard(t)
    PROVE  IInv'
<1> DEFINE v == op[t].value
           d == [op[t] EXCEPT !.at = "removed"]
           e == [op[t] EXCEPT !.at = "removeSoft"]
<1>1. op[t].at = "unlist" /\ UNCHANGED <<cacheSize, soft, policy, kind, disturbed>>
      /\ op[t].at \notin {"idle"} \cup Clears \cup Heavy
  BY DEF RemoveHard, GoTo, GoOn, Clears, Heavy
<1>2. v \in Bitmaps /\ op[t].key \in Keys
  BY <1>1, Here DEF CallOK, Removing, Valued
<1>3. AddedOf(op[t]) = 0 /\ TakenOf(op[t]) = 0 /\ PendingOf(op[t]) = 0
  BY <1>1 DEF AddedOf, TakenOf, PendingOf
<1>4. CASE hard[v] > 0
  <2>1. hard' = [hard EXCEPT ![v] = @ - 1] /\ op' = [op EXCEPT ![t] = d]
    BY <1>4 DEF RemoveHard, GoTo, GoOn
  <2>2. d \in AnyCalls /\ d.at = "removed" /\ d.value = v /\ d.key = op[t].key
    BY Here DEF AnyCalls, Places, Removing
  <2> HIDE DEF d, v
  <2>3. CallOK(d)  BY <1>2, <2>2 DEF CallOK, Victims, Sized
  <2>4. d \in Calls /\ d.at \notin Clears  BY <2>2, <2>3 DEF Calls, Clears
  <2>5. AddedOf(d) = 0 /\ TakenOf(d) = SizeOf[v] /\ PendingOf(d) = 0
    BY <2>2 DEF AddedOf, TakenOf, PendingOf
  <2>6. /\ hard' \in [Bitmaps -> Nat] /\ SumOf(ListedBytes) \in Nat
        /\ SumOf(ListedBytes)' = SumOf(ListedBytes) - SizeOf[v]
    BY <1>2, <1>4, <2>1, Here, ListedLess
  <2>7. SizeOf[v] \in Int  BY <2>4, <2>5, CallWeights
  <2>8. cacheSize \in Int /\ cacheSize' = cacheSize  BY <1>1, Here
  <2>9. SumOf(ListedBytes) \in Int /\ SumOf(ListedBytes)' \in Int  BY ONLY <2>6, <2>7
  <2>10. Balanced(op[t], d)  BY ONLY <1>3, <2>5, <2>6, <2>7, <2>8, <2>9 DEF Balanced
  <2>11. WithinLimit(op[t], d)  BY ONLY <1>3, <2>5, <2>8 DEF WithinLimit
  <2> QED BY <1>1, <2>1, <2>4, <2>6, <2>8, <2>9, <2>10, <2>11, Here, WorkStep
<1>5. CASE ~(hard[v] > 0)
  <2>1. hard' = hard /\ op' = [op EXCEPT ![t] = e]  BY <1>5 DEF RemoveHard, GoTo, GoOn
  <2>2. e \in AnyCalls /\ e.at = "removeSoft" /\ e.key = op[t].key
    BY Here DEF AnyCalls, Places, Removing
  <2> HIDE DEF e
  <2>3. CallOK(e)  BY <1>2, <2>2 DEF CallOK, Putting, Using, Valued, Victims, Sized
  <2>4. e \in Calls /\ e.at \notin Clears \cup Heavy  BY <2>2, <2>3 DEF Calls, Clears, Heavy
  <2> QED BY <1>1, <2>1, <2>4, Here, LightStep
<1> QED BY <1>4, <1>5

LEMMA CountRemovedStep ==
    ASSUME IInv, NEW t \in Threads, CountRemoved(t)
    PROVE  IInv'
<1> DEFINE v == op[t].value
           d == [op[t] EXCEPT !.at = "removeSoft"]
<1>1. op[t].at = "removed" /\ UNCHANGED <<hard, soft, policy, kind, disturbed>>
      /\ op[t].at \notin {"idle"} \cup Clears
      /\ cacheSize' = cacheSize - SizeOf[v] /\ op' = [op EXCEPT ![t] = d]
  BY DEF CountRemoved, GoTo, GoOn, Clears
<1>2. v \in Bitmaps /\ op[t].key \in Keys  BY <1>1, Here DEF CallOK, Removing, Valued
<1>3. AddedOf(op[t]) = 0 /\ TakenOf(op[t]) = SizeOf[v] /\ PendingOf(op[t]) = 0
  BY <1>1 DEF AddedOf, TakenOf, PendingOf
<1>4. d \in AnyCalls /\ d.at = "removeSoft" /\ d.key = op[t].key
  BY Here DEF AnyCalls, Places, Removing
<1> HIDE DEF d, v
<1>5. CallOK(d)  BY <1>2, <1>4 DEF CallOK, Putting, Using, Valued, Victims, Sized
<1>6. d \in Calls /\ d.at \notin Clears  BY <1>4, <1>5 DEF Calls, Clears
<1>7. AddedOf(d) = 0 /\ TakenOf(d) = 0 /\ PendingOf(d) = 0
  BY <1>4 DEF AddedOf, TakenOf, PendingOf
<1>8. SizeOf[v] \in Nat  BY <1>3, Here, CallWeights
<1>9. cacheSize \in Int /\ cacheSize' = cacheSize - SizeOf[v]  BY <1>1, Here
<1>10. cacheSize' \in Int /\ cacheSize' <= cacheSize  BY ONLY <1>8, <1>9
<1>11. SumOf(ListedBytes) \in Nat /\ SumOf(ListedBytes)' = SumOf(ListedBytes) /\ hard' \in [Bitmaps -> Nat]
  BY <1>1, Here, SameListed
<1>12. Balanced(op[t], d)  BY ONLY <1>3, <1>7, <1>8, <1>9, <1>11 DEF Balanced
<1>13. cacheSize' + PendingOf(d) <= cacheSize + PendingOf(op[t])
  BY ONLY <1>3, <1>7, <1>9, <1>10
<1>14. WithinLimit(op[t], d)  BY <1>13 DEF WithinLimit
<1>15. SumOf(ListedBytes) \in Int /\ SumOf(ListedBytes)' \in Int  BY ONLY <1>11
<1> QED BY <1>1, <1>6, <1>10, <1>11, <1>12, <1>14, <1>15, Here, WorkStep

LEMMA RemoveSoftStep ==
    ASSUME IInv, NEW t \in Threads, RemoveSoft(t)
    PROVE  IInv'
<1>1. op[t].at = "removeSoft" /\ soft' = [soft EXCEPT ![op[t].key] = NULL] /\ Return(t)
      /\ UNCHANGED <<hard, cacheSize, policy>>
  BY DEF RemoveSoft
<1>2. op[t].key \in Keys  BY <1>1, Here DEF CallOK, Removing
<1>3. soft' \in [Keys -> Bitmaps \cup {NULL}] /\ policy' \in Seq(Entries)
      /\ UNCHANGED <<hard, cacheSize>>
  BY <1>1, <1>2, Here
<1>4. op[t].at \notin {"idle"} \cup Clears \cup Heavy  BY <1>1 DEF Clears, Heavy
<1> QED BY <1>1, <1>3, <1>4, ReturnStep

-----------------------------------------------------------------------------
(***************************************************************************)
(* clear(): undisturbed, it finds every other call over.                   *)
(***************************************************************************)

\* A step of clear() to c; the list is empty at the end.
LEMMA ClearAlone ==
    ASSUME IInv, NEW t \in Threads, NEW c \in Calls, op' = [op EXCEPT ![t] = c],
           op[t].at \in Clears, disturbed' = disturbed,
           c.at = "clearSize" => \A b \in Bitmaps : hard'[b] = 0
    PROVE  Alone'
<1>1. op \in [Threads -> Calls]  BY DEF IInv, Types
<1> SUFFICES ASSUME ~disturbed', NEW u \in Threads, op'[u].at \in Clears
             PROVE  /\ \A w \in Threads \ {u} : op'[w].at = "idle"
                    /\ op'[u].at = "clearSize" => \A b \in Bitmaps : hard'[b] = 0
  BY DEF Alone
<1>2. op'[t] = c /\ \A w \in Threads \ {t} : op'[w] = op[w]  BY <1>1
<1>3. \A w \in Threads \ {t} : op[w].at = "idle"  BY DEF IInv, Alone
<1>4. "idle" \notin Clears  BY DEF Clears
<1>5. u = t  BY <1>2, <1>3, <1>4
<1> QED BY <1>2, <1>3, <1>5

LEMMA ClearPolicyStep ==
    ASSUME IInv, NEW t \in Threads, ClearPolicy(t)
    PROVE  IInv'
<1> DEFINE d == [op[t] EXCEPT !.at = "clearHard"]
<1>1. op[t].at = "clearPolicy" /\ policy' = <<>> /\ op' = [op EXCEPT ![t] = d]
      /\ UNCHANGED <<hard, cacheSize, soft, kind, disturbed>>
  BY DEF ClearPolicy, GoTo, GoOn
<1>2. d \in AnyCalls /\ d.at = "clearHard"  BY Here DEF AnyCalls, Places, Clears
<1> HIDE DEF d
<1>3. CallOK(d)  BY <1>2 DEF CallOK, Putting, Removing, Using, Valued, Victims, Sized
<1>4. d \in Calls  BY <1>2, <1>3 DEF Calls
<1>5. Alone'  BY <1>1, <1>2, <1>4, ClearAlone DEF Clears
<1>6. Types'
  <2>1. policy' \in Seq(Entries)  BY <1>1, EmptySeq
  <2> QED BY <1>1, <1>4, <2>1 DEF IInv, Types
<1>7. AddedOf(op[t]) = 0 /\ TakenOf(op[t]) = 0 /\ PendingOf(op[t]) = 0
  BY <1>1 DEF AddedOf, TakenOf, PendingOf
<1>8. AddedOf(d) = 0 /\ TakenOf(d) = 0 /\ PendingOf(d) = 0
  BY <1>2 DEF AddedOf, TakenOf, PendingOf
<1>9. SumOf(ListedBytes) \in Nat /\ SumOf(ListedBytes)' = SumOf(ListedBytes)
  BY <1>1, Here, SameListed
<1>10. cacheSize \in Int /\ cacheSize' = cacheSize  BY <1>1, Here
<1>11. Balanced(op[t], d)  BY ONLY <1>7, <1>8, <1>9, <1>10 DEF Balanced
<1>12. WithinLimit(op[t], d)  BY ONLY <1>7, <1>8, <1>10 DEF WithinLimit
<1>13. SumOf(ListedBytes) \in Int /\ SumOf(ListedBytes)' \in Int  BY ONLY <1>9
<1> QED BY <1>1, <1>4, <1>5, <1>6, <1>11, <1>12, <1>13, CallStep

LEMMA ClearHardStep ==
    ASSUME IInv, NEW t \in Threads, ClearHard(t)
    PROVE  IInv'
<1> DEFINE d == [op[t] EXCEPT !.at = "clearSize"]
<1>1. op[t].at = "clearHard" /\ hard' = [b \in Bitmaps |-> 0] /\ op' = [op EXCEPT ![t] = d]
      /\ UNCHANGED <<cacheSize, soft, policy, kind, disturbed>>
  BY DEF ClearHard, GoTo, GoOn
<1>2. d \in AnyCalls /\ d.at = "clearSize"  BY Here DEF AnyCalls, Places, Clears
<1> HIDE DEF d
<1>3. CallOK(d)  BY <1>2 DEF CallOK, Putting, Removing, Using, Valued, Victims, Sized
<1>4. d \in Calls  BY <1>2, <1>3 DEF Calls
<1>5. Alone'
  <2>1. \A b \in Bitmaps : hard'[b] = 0  BY <1>1
  <2> QED BY <1>1, <1>4, <2>1, ClearAlone DEF Clears
<1>6. hard' \in [Bitmaps -> Nat]  BY <1>1
<1>7. Types'  BY <1>1, <1>4, <1>6 DEF IInv, Types
<1>8. PendingOf(op[t]) = 0 /\ PendingOf(d) = 0  BY <1>1, <1>2 DEF PendingOf
<1>9. cacheSize \in Int /\ cacheSize' = cacheSize  BY <1>1, Here
<1>10. WithinLimit(op[t], d)  BY ONLY <1>8, <1>9 DEF WithinLimit
<1>11. SumOf(ListedBytes) \in Int /\ SumOf(ListedBytes)' \in Int
  <2>1. \A x, y \in Nat : x * y \in Nat  OBVIOUS
  <2>2. \A b \in Bitmaps : SizeOf[b] \in Nat  BY SizesAssumption
  <2>3. ListedBytes \in [Bitmaps -> Nat]  BY Here, <2>1, <2>2 DEF ListedBytes
  <2>4. ListedBytes' \in [Bitmaps -> Nat]  BY <1>6, <2>1, <2>2 DEF ListedBytes
  <2>5. SumOf(ListedBytes) \in Nat  BY <2>3, SumType, FiniteAssumption
  <2>6. SumOf(ListedBytes') \in Nat  BY <2>4, SumType, FiniteAssumption
  <2>7. SumOf(ListedBytes)' = SumOf(ListedBytes')  BY DEF SumOf, Cells
  <2> QED BY <2>5, <2>6, <2>7
<1> QED BY <1>1, <1>2, <1>4, <1>5, <1>7, <1>10, <1>11, CallStep

LEMMA ClearSoftStep ==
    ASSUME IInv, NEW t \in Threads, ClearSoft(t)
    PROVE  IInv'
<1>1. op[t].at = "clearSoft" /\ soft' = [k \in Keys |-> NULL] /\ op' = [op EXCEPT ![t] = IDLE]
      /\ UNCHANGED <<hard, cacheSize, policy, kind, disturbed>>
  BY DEF ClearSoft, Return, GoOn
<1>2. Types'  BY <1>1, Over DEF IInv, Types
<1>3. Alone'  BY <1>1, Over, ClearAlone DEF Clears
<1>4. AddedOf(op[t]) = 0 /\ TakenOf(op[t]) = 0 /\ PendingOf(op[t]) = 0
  BY <1>1 DEF AddedOf, TakenOf, PendingOf
<1>5. AddedOf(IDLE) = 0 /\ TakenOf(IDLE) = 0 /\ PendingOf(IDLE) = 0  BY Over
<1>6. SumOf(ListedBytes) \in Nat /\ SumOf(ListedBytes)' = SumOf(ListedBytes)
  BY <1>1, Here, SameListed
<1>7. cacheSize \in Int /\ cacheSize' = cacheSize  BY <1>1, Here
<1>8. Balanced(op[t], IDLE)  BY ONLY <1>4, <1>5, <1>6, <1>7 DEF Balanced
<1>9. WithinLimit(op[t], IDLE)  BY ONLY <1>4, <1>5, <1>7 DEF WithinLimit
<1>10. SumOf(ListedBytes) \in Int /\ SumOf(ListedBytes)' \in Int  BY ONLY <1>6
<1> QED BY <1>1, <1>2, <1>3, <1>8, <1>9, <1>10, Over, CallStep

\* The size starts again from nothing, as the list did.
LEMMA ClearSizeStep ==
    ASSUME IInv, NEW t \in Threads, ClearSize(t)
    PROVE  IInv'
<1> DEFINE d == [op[t] EXCEPT !.at = "clearSoft"]
<1>1. op[t].at = "clearSize" /\ cacheSize' = 0 /\ op' = [op EXCEPT ![t] = d]
      /\ UNCHANGED <<hard, soft, policy, kind, disturbed>>
  BY DEF ClearSize, GoTo, GoOn
<1>2. d \in AnyCalls /\ d.at = "clearSoft"  BY Here DEF AnyCalls, Places, Clears
<1> HIDE DEF d
<1>3. CallOK(d)  BY <1>2 DEF CallOK, Putting, Removing, Using, Valued, Victims, Sized
<1>4. d \in Calls  BY <1>2, <1>3 DEF Calls
<1>5. Alone'  BY <1>1, <1>2, <1>4, ClearAlone DEF Clears
<1>6. Types'  BY <1>1, <1>4 DEF IInv, Types
<1>7. op \in [Threads -> Calls]  BY DEF IInv, Types
<1>8. BytesCounted'
  <2> SUFFICES ASSUME ~disturbed' PROVE cacheSize' + SumOf(Added)' = SumOf(ListedBytes)' + SumOf(Taken)'
    BY DEF BytesCounted
  <2>1. /\ \A b \in Bitmaps : hard'[b] = 0
        /\ \A u \in Threads \ {t} : op'[u].at = "idle"
    BY <1>1, <1>7 DEF IInv, Alone, Clears
  <2>2. \A u \in Threads : op'[u].at \in {"idle", "clearSoft"}  BY <1>1, <1>2, <1>7, <2>1
  <2>3. Added' \in [Threads -> Nat] /\ \A u \in Threads : Added'[u] = 0  BY <2>2 DEF Added
  <2>4. Taken' \in [Threads -> Nat] /\ \A u \in Threads : Taken'[u] = 0  BY <2>2 DEF Taken
  <2>5. ListedBytes' \in [Bitmaps -> Nat] /\ \A b \in Bitmaps : ListedBytes'[b] = 0
    <3>1. \A x \in Int : 0 * x = 0  OBVIOUS
    <3>2. \A b \in Bitmaps : SizeOf[b] \in Nat  BY SizesAssumption
    <3>3. \A b \in Bitmaps : hard'[b] * SizeOf[b] = 0  BY <2>1, <3>1, <3>2
    <3> QED BY <3>3 DEF ListedBytes
  <2>6. SumOf(Added') = 0  BY <2>3, SumOfZeros
  <2>7. SumOf(Taken') = 0  BY <2>4, SumOfZeros
  <2>8. SumOf(ListedBytes') = 0  BY <2>5, SumOfZeros
  <2>9. /\ SumOf(Added)' = SumOf(Added') /\ SumOf(Taken)' = SumOf(Taken')
        /\ SumOf(ListedBytes)' = SumOf(ListedBytes')
    BY DEF SumOf, Cells
  <2> QED BY <1>1, <2>6, <2>7, <2>8, <2>9
<1>9. LimitKept'
  <2> DEFINE extra == (Cardinality(Threads) - 1) * (Limit - 1)
  <2>1. /\ SumOf(Pending)' <= PendingOf(d) + extra
        /\ SumOf(Pending)' = SumOf(Pending) - PendingOf(op[t]) + PendingOf(d)
        /\ SumOf(Pending) \in Nat
    BY <1>1, <1>4, <1>7, CallChange
  <2>2. PendingOf(d) = 0 /\ PendingOf(op[t]) = 0  BY <1>1, <1>2 DEF PendingOf
  <2>3. Ceiling' = Limit + extra  BY DEF Ceiling
  <2>4. Limit \in Nat /\ extra \in Int
    <3>1. Cardinality(Threads) \in Nat  BY FiniteAssumption, FS_CardinalityType
    <3>2. Limit \in Nat  BY LimitAssumption
    <3>3. \A x, y \in Int : x * y \in Int  OBVIOUS
    <3> QED BY <3>1, <3>2, <3>3
  <2> HIDE DEF extra
  <2>5. SumOf(Pending)' \in Nat /\ SumOf(Pending)' <= extra  BY ONLY <2>1, <2>2, <2>4
  <2>6. cacheSize' = 0  BY <1>1
  <2>7. cacheSize' + SumOf(Pending)' <= Limit + extra  BY ONLY <2>4, <2>5, <2>6
  <2> QED BY <2>3, <2>7 DEF LimitKept
<1> QED BY <1>5, <1>6, <1>8, <1>9 DEF IInv

-----------------------------------------------------------------------------
(***************************************************************************)
(* Calls that begin, and what no call of a put, removal or clear() does.   *)
(***************************************************************************)

LEMMA PutStep ==
    ASSUME IInv, NEW t \in Threads, NEW k \in Keys, NEW b \in Bitmaps, Put(t, k, b)
    PROVE  IInv'
<1> DEFINE a == IF SizeOf[b] < Limit THEN "fit" ELSE "putSoftOnly"
           d == [IDLE EXCEPT !.at = a, !.key = k, !.value = b, !.cur = cacheSize]
<1>1. Begin(t, d) /\ UNCHANGED <<kind, hard, cacheSize, soft, policy>>  BY DEF Put
<1>2. a \in {"fit", "putSoftOnly"} /\ (a = "fit" => SizeOf[b] < Limit)  OBVIOUS
<1> HIDE DEF a
<1>3. cacheSize \in Int  BY Here
<1>4. d \in AnyCalls /\ d.at = a /\ d.key = k /\ d.value = b /\ d.cur = cacheSize
  BY <1>2, <1>3, Over DEF Calls, AnyCalls, Places, Putting
<1> HIDE DEF d
<1>5. CallOK(d)  BY <1>2, <1>4 DEF CallOK, Victims, Sized
<1>6. d \in Calls  BY <1>4, <1>5 DEF Calls
<1>7. d.at \in {"fit", "putSoftOnly", "use", "removePolicy", "removeHard", "clearPolicy"}
  BY <1>2, <1>4
<1> QED BY <1>1, <1>4, <1>6, <1>7, BeginStep

LEMMA GetStep ==
    ASSUME IInv, NEW t \in Threads, NEW k \in Keys, Get(t, k)
    PROVE  IInv'
<1> DEFINE b == soft[k]
           d == [IDLE EXCEPT !.at = "use", !.value = b]
<1>1. b # NULL /\ Begin(t, d) /\ UNCHANGED <<kind, hard, cacheSize, soft, policy>>  BY DEF Get
<1>2. b \in Bitmaps  BY <1>1, Here
<1> HIDE DEF b
<1>3. d \in AnyCalls /\ d.at = "use" /\ d.value = b
  BY <1>2, Over DEF Calls, AnyCalls, Places, Using
<1> HIDE DEF d
<1>4. CallOK(d)  BY <1>2, <1>3 DEF CallOK, Putting, Removing, Victims, Sized
<1>5. d \in Calls  BY <1>3, <1>4 DEF Calls
<1> QED BY <1>1, <1>3, <1>5, BeginStep

LEMMA RemoveStep ==
    ASSUME IInv, NEW t \in Threads, NEW k \in Keys, Remove(t, k)
    PROVE  IInv'
<1> DEFINE b == soft[k]
           a == IF kind = "lru" \/ b # NULL THEN "removePolicy" ELSE "removeHard"
           d == [IDLE EXCEPT !.at = a, !.key = k, !.value = b]
<1>1. Begin(t, d) /\ UNCHANGED <<kind, hard, cacheSize, soft, policy>>  BY DEF Remove
<1>2. b \in Bitmaps \cup {NULL} /\ a \in {"removePolicy", "removeHard"}  BY Here
<1> HIDE DEF a, b
<1>3. d \in AnyCalls /\ d.at = a /\ d.key = k
  BY <1>2, Over DEF Calls, AnyCalls, Places, Removing
<1> HIDE DEF d
<1>4. CallOK(d)  BY <1>2, <1>3 DEF CallOK, Putting, Using, Valued, Victims, Sized
<1>5. d \in Calls  BY <1>3, <1>4 DEF Calls
<1>6. /\ d.at \in {"fit", "putSoftOnly", "use", "removePolicy", "removeHard", "clearPolicy"}
      /\ d.at # "fit"
  BY <1>2, <1>3
<1> QED BY <1>1, <1>5, <1>6, BeginStep

LEMMA ClearStep ==
    ASSUME IInv, NEW t \in Threads, Clear(t)
    PROVE  IInv'
<1> DEFINE d == [IDLE EXCEPT !.at = "clearPolicy"]
<1>1. Begin(t, d) /\ UNCHANGED <<kind, hard, cacheSize, soft, policy>>  BY DEF Clear
<1>2. d \in AnyCalls /\ d.at = "clearPolicy"  BY Over DEF Calls, AnyCalls, Places, Clears
<1> HIDE DEF d
<1>3. CallOK(d)  BY <1>2 DEF CallOK, Putting, Removing, Using, Valued, Victims, Sized
<1>4. d \in Calls  BY <1>2, <1>3 DEF Calls
<1> QED BY <1>1, <1>2, <1>4, BeginStep

\* No call moves, and nothing is listed or counted.
LEMMA NoCallStep ==
    ASSUME IInv, UNCHANGED <<kind, hard, cacheSize, op, disturbed>>,
           soft' \in [Keys -> Bitmaps \cup {NULL}], policy' \in Seq(Entries)
    PROVE  IInv'
<1>1. Types'  BY DEF IInv, Types
<1>2. Alone'  BY DEF IInv, Alone
<1>3. BytesCounted'
  <2>1. Added' = Added /\ Taken' = Taken /\ ListedBytes' = ListedBytes
    BY DEF Added, Taken, ListedBytes
  <2> QED BY <2>1 DEF IInv, BytesCounted, SumOf, Cells
<1>4. LimitKept'
  <2>1. Pending' = Pending  BY DEF Pending, MustEvict
  <2> QED BY <2>1 DEF IInv, LimitKept, Ceiling, SumOf, Cells
<1> QED BY <1>1, <1>2, <1>3, <1>4 DEF IInv

LEMMA GetTouchesStep ==
    ASSUME IInv, NEW k \in Keys, GetTouches(k)
    PROVE  IInv'
<1>1. /\ policy \in Seq(Entries) /\ soft \in [Keys -> Bitmaps \cup {NULL}]
      /\ UNCHANGED <<kind, hard, cacheSize, op, disturbed, soft>>
  BY DEF IInv, Types, GetTouches
<1>2. PICK i \in At(k, NULL) : policy' = Append(S!RemoveAt(policy, i), policy[i])
  BY DEF GetTouches
<1>3. i \in DOMAIN policy  BY DEF At
<1>4. S!RemoveAt(policy, i) \in Seq(Entries) /\ policy[i] \in Entries
  BY <1>1, <1>3, RemoveAtType, EntryAt
<1>5. policy' \in Seq(Entries)  BY <1>2, <1>4, AppendProperties
<1> QED BY <1>1, <1>5, NoCallStep

LEMMA CollectStep ==
    ASSUME IInv, NEW k \in Keys, Collect(k)
    PROVE  IInv'
<1>1. /\ policy \in Seq(Entries) /\ soft \in [Keys -> Bitmaps \cup {NULL}]
      /\ UNCHANGED <<kind, hard, cacheSize, op, disturbed, policy>>
      /\ soft' = [soft EXCEPT ![k] = NULL]
  BY DEF IInv, Types, Collect
<1>2. soft' \in [Keys -> Bitmaps \cup {NULL}]  BY <1>1
<1> QED BY <1>1, <1>2, NoCallStep

-----------------------------------------------------------------------------
(***************************************************************************)
(* Together.                                                               *)
(***************************************************************************)

LEMMA InitIInv == Init => IInv
<1> SUFFICES ASSUME Init PROVE IInv  OBVIOUS
<1>1. Types
  <2>1. IDLE \in Calls  BY Over
  <2>2. policy \in Seq(Entries)  BY EmptySeq DEF Init
  <2>3. kind \in Policies /\ disturbed \in BOOLEAN  BY KindsAssumption DEF Init
  <2>4. hard \in [Bitmaps -> Nat] /\ cacheSize \in Int  BY DEF Init
  <2>5. soft \in [Keys -> Bitmaps \cup {NULL}]  BY DEF Init
  <2>6. op \in [Threads -> Calls]  BY <2>1 DEF Init
  <2> QED BY <2>2, <2>3, <2>4, <2>5, <2>6 DEF Types
<1>2. \A t \in Threads : op[t] = IDLE /\ op[t].at = "idle"  BY Over DEF Init
<1>3. Alone  BY <1>2 DEF Alone, Clears
<1>4. \A t \in Threads : AddedOf(op[t]) = 0 /\ TakenOf(op[t]) = 0 /\ PendingOf(op[t]) = 0
  BY <1>2, Over
<1>5. /\ Added \in [Threads -> Nat] /\ \A t \in Threads : Added[t] = 0
      /\ Taken \in [Threads -> Nat] /\ \A t \in Threads : Taken[t] = 0
      /\ Pending \in [Threads -> Nat] /\ \A t \in Threads : Pending[t] = 0
  BY <1>1, <1>4, WeightFunctions DEF Types
<1>6. SumOf(Added) = 0 /\ SumOf(Taken) = 0 /\ SumOf(Pending) = 0  BY <1>5, SumOfZeros
<1>7. SumOf(ListedBytes) = 0
  <2>1. \A x \in Int : 0 * x = 0  OBVIOUS
  <2>2. \A b \in Bitmaps : SizeOf[b] \in Nat  BY SizesAssumption
  <2>3. \A b \in Bitmaps : hard[b] * SizeOf[b] = 0  BY <2>1, <2>2 DEF Init
  <2>4. ListedBytes \in [Bitmaps -> Nat] /\ \A b \in Bitmaps : ListedBytes[b] = 0
    BY <2>3 DEF ListedBytes
  <2> QED BY <2>4, SumOfZeros
<1>8. cacheSize = 0  BY DEF Init
<1>9. BytesCounted  BY <1>6, <1>7, <1>8 DEF BytesCounted
<1>10. LimitKept
  <2>1. CASE Threads = {}
    <3>1. Cardinality(Threads) = 0  BY <2>1, FS_EmptySet
    <3>2. Limit \in Nat  BY LimitAssumption
    <3>3. \A x \in Int : (0 - 1) * x = 0 - x  OBVIOUS
    <3>4. Ceiling = 1  BY <3>1, <3>2, <3>3 DEF Ceiling
    <3> QED BY <1>6, <1>8, <3>4 DEF LimitKept
  <2>2. CASE Threads # {}
    <3>1. Cardinality(Threads) - 1 \in Nat
      <4>1. Cardinality(Threads) \in Nat /\ Cardinality(Threads) # 0
        BY <2>2, FiniteAssumption, FS_CardinalityType, FS_EmptySet
      <4> QED BY <4>1
    <3>2. Limit \in Nat /\ Limit - 1 \in Nat  BY LimitAssumption
    <3>3. \A x, y \in Nat : x * y \in Nat  OBVIOUS
    <3>4. (Cardinality(Threads) - 1) * (Limit - 1) \in Nat  BY <3>1, <3>2, <3>3
    <3> DEFINE extra == (Cardinality(Threads) - 1) * (Limit - 1)
    <3>5. extra \in Nat /\ Ceiling = Limit + extra  BY <3>4 DEF Ceiling
    <3> HIDE DEF extra
    <3> QED BY <1>6, <1>8, <3>2, <3>5 DEF LimitKept
  <2> QED BY <2>1, <2>2
<1> QED BY <1>1, <1>3, <1>9, <1>10 DEF IInv

LEMMA NextIInv == IInv /\ [Next]_vars => IInv'
<1> SUFFICES ASSUME IInv, [Next]_vars PROVE IInv'  OBVIOUS
<1>1. ASSUME NEW t \in Threads, Step(t) PROVE IInv'
  <2>1. CASE RemoveNextFails(t)  BY <2>1, RemoveNextFailsStep
  <2>2. CASE RemoveNext(t)       BY <2>2, RemoveNextStep
  <2>3. CASE Forget(t)           BY <2>3, ForgetStep
  <2>4. CASE Evict(t)            BY <2>4, EvictStep
  <2>5. CASE CountEvicted(t)     BY <2>5, CountEvictedStep
  <2>6. CASE PutHard(t)          BY <2>6, PutHardStep
  <2>7. CASE CountAdded(t)       BY <2>7, CountAddedStep
  <2>8. CASE PutSoft(t)          BY <2>8, PutSoftStep
  <2>9. CASE Remember(t)         BY <2>9, RememberStep
  <2>10. CASE ReadUses(t)        BY <2>10, ReadUsesStep
  <2>11. CASE CountUse(t)        BY <2>11, CountUseStep
  <2>12. CASE RemovePolicy(t)    BY <2>12, RemovePolicyStep
  <2>13. CASE RemoveLooksUp(t)   BY <2>13, RemoveLooksUpStep
  <2>14. CASE RemoveHard(t)      BY <2>14, RemoveHardStep
  <2>15. CASE CountRemoved(t)    BY <2>15, CountRemovedStep
  <2>16. CASE RemoveSoft(t)      BY <2>16, RemoveSoftStep
  <2>17. CASE ClearPolicy(t)     BY <2>17, ClearPolicyStep
  <2>18. CASE ClearHard(t)       BY <2>18, ClearHardStep
  <2>19. CASE ClearSize(t)       BY <2>19, ClearSizeStep
  <2>20. CASE ClearSoft(t)       BY <2>20, ClearSoftStep
  <2> QED BY <1>1, <2>1, <2>2, <2>3, <2>4, <2>5, <2>6, <2>7, <2>8, <2>9, <2>10, <2>11, <2>12,
             <2>13, <2>14, <2>15, <2>16, <2>17, <2>18, <2>19, <2>20 DEF Step
<1>2. ASSUME NEW t \in Threads, NEW k \in Keys, NEW b \in Bitmaps, Put(t, k, b) PROVE IInv'
  BY <1>2, PutStep
<1>3. ASSUME NEW t \in Threads, NEW k \in Keys, Get(t, k) PROVE IInv'  BY <1>3, GetStep
<1>4. ASSUME NEW t \in Threads, NEW k \in Keys, Remove(t, k) PROVE IInv'  BY <1>4, RemoveStep
<1>5. ASSUME NEW t \in Threads, Clear(t) PROVE IInv'  BY <1>5, ClearStep
<1>6. ASSUME NEW k \in Keys, GetTouches(k) PROVE IInv'  BY <1>6, GetTouchesStep
<1>7. ASSUME NEW k \in Keys, Collect(k) PROVE IInv'  BY <1>7, CollectStep
<1>8. CASE UNCHANGED vars
  <2>1. /\ UNCHANGED <<kind, hard, cacheSize, op, disturbed, soft, policy>>
        /\ soft \in [Keys -> Bitmaps \cup {NULL}] /\ policy \in Seq(Entries)
    BY <1>8 DEF vars, IInv, Types
  <2> QED BY <2>1, NoCallStep
<1> QED BY <1>1, <1>2, <1>3, <1>4, <1>5, <1>6, <1>7, <1>8 DEF Next

THEOREM Invariance == Spec => []IInv
<1>1. Init => IInv  BY InitIInv
<1>2. IInv /\ [Next]_vars => IInv'  BY NextIInv
<1> QED BY <1>1, <1>2, PTL DEF Spec

\* Every byte that hardCache lists is counted once, and none that it lists no
\* more, but for the updates under way: whatever the threads put, evict, use
\* and remove under the four policies (LimitedMemoryCache.java:57-108).
THEOREM EveryByteCounted == Spec => []BytesCounted
<1>1. IInv => BytesCounted  BY DEF IInv
<1> QED BY <1>1, Invariance, PTL

\* The count passes the limit the documentation promises, but by less than a
\* bitmap of that size for each thread but one (LimitedMemoryCache.java:64-76).
THEOREM LimitNearlyKept == Spec => []OvershootBounded
<1>1. IInv => OvershootBounded
  <2> SUFFICES ASSUME IInv, ~disturbed
               PROVE  cacheSize <= Limit + (Cardinality(Threads) - 1) * (Limit - 1)
    BY DEF OvershootBounded
  <2>1. cacheSize \in Int /\ op \in [Threads -> Calls]  BY DEF IInv, Types
  <2>2. Pending \in [Threads -> Nat]  BY <2>1, WeightFunctions
  <2>3. SumOf(Pending) \in Nat  BY <2>2, SumType, FiniteAssumption
  <2>4. cacheSize + SumOf(Pending) <= Ceiling  BY DEF IInv, LimitKept
  <2>5. Ceiling \in Int
    <3>1. Cardinality(Threads) \in Nat  BY FiniteAssumption, FS_CardinalityType
    <3>2. Limit \in Nat  BY LimitAssumption
    <3>3. \A x, y \in Int : x * y \in Int  OBVIOUS
    <3>4. (Cardinality(Threads) - 1) * (Limit - 1) \in Int  BY <3>1, <3>2, <3>3
    <3> QED BY <3>2, <3>4 DEF Ceiling
  <2>6. cacheSize <= Ceiling  BY <2>1, <2>3, <2>4, <2>5
  <2> QED BY <2>6 DEF Ceiling
<1> QED BY <1>1, Invariance, PTL

\* In a cache that one thread uses no clear() is ever disturbed.
LEMMA NeverDisturbed ==
    ASSUME NEW only, Threads = {only}
    PROVE  Spec => []~disturbed
<1>1. Init => ~disturbed  BY DEF Init
<1>2. ASSUME ~disturbed, [Next]_vars PROVE ~disturbed'
  <2>1. \A c : \A t \in Threads : Begin(t, c) => ~disturbed'  BY <1>2 DEF Begin
  <2>2. ASSUME NEW t \in Threads, Step(t) PROVE ~disturbed'
    BY <1>2, <2>2 DEF Step, RemoveNextFails, RemoveNext, Forget, Evict, CountEvicted, PutHard,
       CountAdded, PutSoft, Remember, ReadUses, CountUse, RemovePolicy, RemoveLooksUp, RemoveHard,
       CountRemoved, RemoveSoft, ClearPolicy, ClearHard, ClearSize, ClearSoft, Return, GoTo, GoOn
  <2>3. ASSUME NEW t \in Threads,
               \/ \E k \in Keys, b \in Bitmaps : Put(t, k, b)
               \/ \E k \in Keys : Get(t, k) \/ Remove(t, k)
               \/ Clear(t)
        PROVE  ~disturbed'
    BY <2>1, <2>3 DEF Put, Get, Remove, Clear
  <2>4. CASE \E k \in Keys : GetTouches(k) \/ Collect(k)
    BY <1>2, <2>4 DEF GetTouches, Collect
  <2>5. CASE UNCHANGED vars  BY <1>2, <2>5 DEF vars
  <2> QED BY <1>2, <2>2, <2>3, <2>4, <2>5 DEF Next
<1> QED BY <1>1, <1>2, PTL DEF Spec

\* Used by one thread, the cache keeps the promise of its documentation: with
\* no call in progress the bitmaps it lists, each as often as it is listed, do
\* not exceed the limit, under each policy and whatever is put, removed and
\* cleared (LimitedMemoryCache.java:29,57-117).
THEOREM OneThreadKeepsLimit ==
    ASSUME NEW only, Threads = {only}
    PROVE  Spec => [](op[only].at = "idle" => SumOf(ListedBytes) <= Limit)
<1>1. ASSUME IInv, ~disturbed, op[only].at = "idle"
      PROVE  SumOf(ListedBytes) <= Limit
  <2>1. cacheSize \in Int /\ hard \in [Bitmaps -> Nat] /\ op \in [Threads -> Calls]
    BY <1>1 DEF IInv, Types
  <2>2. /\ Added \in [Threads -> Nat] /\ \A t \in Threads : Added[t] = 0
        /\ Taken \in [Threads -> Nat] /\ \A t \in Threads : Taken[t] = 0
        /\ Pending \in [Threads -> Nat]
    BY <1>1, <2>1, WeightFunctions DEF AddedOf, TakenOf
  <2>3. SumOf(Added) = 0 /\ SumOf(Taken) = 0  BY <2>2, SumOfZeros
  <2>4. SumOf(Pending) \in Nat  BY <2>2, SumType, FiniteAssumption
  <2>5. SumOf(ListedBytes) \in Nat
    <3>1. ListedBytes \in [Bitmaps -> Nat]
      <4>1. \A b \in Bitmaps : SizeOf[b] \in Nat  BY SizesAssumption
      <4>2. \A m, n \in Nat : m * n \in Nat  OBVIOUS
      <4> QED BY <2>1, <4>1, <4>2 DEF ListedBytes
    <3> QED BY <3>1, SumType, FiniteAssumption
  <2>6. cacheSize + SumOf(Added) = SumOf(ListedBytes) + SumOf(Taken)
    BY <1>1 DEF IInv, BytesCounted
  <2>7. Ceiling = Limit
    <3>1. Cardinality(Threads) = 1  BY FS_Singleton
    <3>2. Limit \in Nat  BY LimitAssumption
    <3> QED BY <3>1, <3>2 DEF Ceiling
  <2>8. cacheSize + SumOf(Pending) <= Limit  BY <1>1, <2>7 DEF IInv, LimitKept
  <2>9. Limit \in Nat  BY LimitAssumption
  <2> QED BY <2>1, <2>3, <2>4, <2>5, <2>6, <2>8, <2>9
<1> QED BY <1>1, Invariance, NeverDisturbed, PTL
=============================================================================
