------------------------ MODULE LruMemoryCacheProofs ------------------------
(***************************************************************************)
(* LruMemoryCache for any threads, keys, bitmaps, sizes and limit: the     *)
(* byte count is exact, trimToSize never throws, an overweight cache is    *)
(* always being trimmed, the class implements MemoryCache, and what a trim *)
(* gives up was used before all the rest.                                  *)
(***************************************************************************)
EXTENDS LruHistory, FiniteSetTheorems, SequenceTheorems, TLAPS

\* The elements a sequence lists.
Listed(s) == {s[i] : i \in DOMAIN s}

\* No element twice.
Distinct(s) == \A i, j \in DOMAIN s : s[i] = s[j] => i = j

\* What v lists, it lists in the order of s.
KeepsOrder(v, s) ==
    \A i, j \in DOMAIN v : i < j =>
        \E p, q \in DOMAIN s : p < q /\ v[i] = s[p] /\ v[j] = s[q]

(***************************************************************************)
(* Facts about the access order.                                           *)
(***************************************************************************)

\* LinkedHashMap.remove unlinks one entry and keeps the rest in order.
LEMMA WithoutDrops ==
    ASSUME NEW S, NEW s \in Seq(S), NEW k \in S, Distinct(s)
    PROVE  /\ Without(s, k) \in Seq(S)
           /\ Listed(Without(s, k)) = Listed(s) \ {k}
           /\ Distinct(Without(s, k))
           /\ KeepsOrder(Without(s, k), s)
<1>1. CASE ~ \E i \in 1..Len(s) : s[i] = k
  BY <1>1 DEF Without, SE!RemoveFirst, Listed, Distinct, KeepsOrder
<1>2. CASE \E i \in 1..Len(s) : s[i] = k
  <2> DEFINE I == {i \in 1..Len(s) : s[i] = k}
  <2>1. PICK i \in 1..Len(s) : s[i] = k  BY <1>2
  <2>0. Len(s) \in Nat /\ DOMAIN s = 1..Len(s) /\ i \in Nat /\ 1 <= i /\ i <= Len(s)
    BY <2>1, LenProperties
  <2>2. I = {i}  BY <2>1 DEF Distinct
  <2>3. SE!Min(I) = i  BY <2>2 DEF SE!Min
  <2>4. SE!SelectInSeq(s, LAMBDA v : v = k) = i
    BY <2>2, <2>3 DEF SE!SelectInSeq
  <2>5. Without(s, k) = SubSeq(s, 1, i-1) \o SubSeq(s, i+1, Len(s))
    BY <1>2, <2>4 DEF Without, SE!RemoveFirst, SE!RemoveAt
  <2> DEFINE f == SubSeq(s, 1, i-1)
             g == SubSeq(s, i+1, Len(s))
             w == f \o g
  <2>6. /\ f \in Seq(S) /\ Len(f) = i-1
        /\ \A j \in 1..(i-1) : f[j] = s[j]
    BY <2>1, SubSeqProperties
  <2>7. /\ g \in Seq(S) /\ Len(g) = Len(s)-i
        /\ \A j \in 1..(Len(s)-i) : g[j] = s[i+j]
    BY <2>1, SubSeqProperties
  <2>8. /\ w \in Seq(S) /\ Len(w) = Len(s)-1
        /\ \A j \in 1..(Len(s)-1) : w[j] = IF j < i THEN s[j] ELSE s[j+1]
    <3>1. /\ w \in Seq(S) /\ Len(w) = Len(f) + Len(g)
          /\ \A j \in 1..(Len(f) + Len(g)) :
                w[j] = IF j <= Len(f) THEN f[j] ELSE g[j - Len(f)]
      BY <2>6, <2>7, ConcatProperties
    <3> HIDE DEF f, g, w
    <3>2. Len(w) = Len(s)-1 /\ Len(f) + Len(g) = Len(s)-1
      BY <2>0, <2>6, <2>7, <3>1
    <3>3. ASSUME NEW j \in 1..(Len(s)-1), j < i
          PROVE  w[j] = s[j]
      <4>1. w[j] = f[j]  BY <2>0, <2>6, <3>1, <3>2, <3>3
      <4> QED BY <2>0, <2>6, <3>3, <4>1
    <3>4. ASSUME NEW j \in 1..(Len(s)-1), ~ j < i
          PROVE  w[j] = s[j+1]
      <4>1. w[j] = g[j-(i-1)]  BY <2>0, <2>6, <3>1, <3>2, <3>4
      <4>2. j-(i-1) \in 1..(Len(s)-i) /\ i + (j-(i-1)) = j+1  BY <2>0, <3>4
      <4> QED BY <2>7, <4>1, <4>2
    <3> QED BY <3>1, <3>2, <3>3, <3>4
  <2> HIDE DEF f, g, w
  <2>9. Listed(w) = Listed(s) \ {k}
    <3>1. ASSUME NEW j \in 1..(Len(s)-1)
          PROVE  w[j] \in Listed(s) \ {k}
      <4>1. PICK m \in 1..Len(s) : m # i /\ w[j] = s[m]
        BY <2>0, <2>8, Z3
      <4> QED BY <2>0, <2>1, <4>1 DEF Listed, Distinct
    <3>2. ASSUME NEW j \in 1..Len(s), s[j] # k
          PROVE  s[j] \in Listed(w)
      <4>1. CASE j < i
        <5>1. j \in 1..(Len(s)-1) /\ w[j] = s[j]  BY <2>1, <2>8, <4>1
        <5> QED BY <2>8, <5>1 DEF Listed
      <4>2. CASE j > i
        <5>1. j-1 \in 1..(Len(s)-1) /\ w[j-1] = s[j]  BY <2>1, <2>8, <4>2
        <5> QED BY <2>8, <5>1 DEF Listed
      <4> QED BY <2>1, <3>2, <4>1, <4>2
    <3> QED BY <2>8, <3>1, <3>2 DEF Listed
  <2>10. Distinct(w)
    <3> DEFINE at(j) == IF j < i THEN j ELSE j+1
    <3>1. \A j \in 1..(Len(s)-1) : at(j) \in 1..Len(s) /\ w[j] = s[at(j)]
      BY <2>0, <2>8
    <3>2. \A j, l \in 1..(Len(s)-1) : at(j) = at(l) => j = l
      BY <2>0
    <3> HIDE DEF at
    <3>3. DOMAIN w = 1..(Len(s)-1)  BY <2>8
    <3> QED BY <2>0, <3>1, <3>2, <3>3 DEF Distinct
  <2>11. KeepsOrder(w, s)
    <3> DEFINE at(j) == IF j < i THEN j ELSE j+1
    <3>1. \A j \in 1..(Len(s)-1) : at(j) \in 1..Len(s) /\ w[j] = s[at(j)]
      BY <2>0, <2>8
    <3>2. \A j, l \in 1..(Len(s)-1) : j < l => at(j) < at(l)
      BY <2>0
    <3> HIDE DEF at
    <3>3. DOMAIN w = 1..(Len(s)-1)  BY <2>8
    <3> QED BY <2>0, <3>1, <3>2, <3>3 DEF KeepsOrder
  <2>12. Without(s, k) = w  BY <2>5 DEF w, f, g
  <2> QED BY <2>8, <2>9, <2>10, <2>11, <2>12
<1> QED BY <1>1, <1>2

(***************************************************************************)
(* Facts about the byte total.                                             *)
(***************************************************************************)

\* The bytes of whatever is mapped: a bitmap or NULL.
W(x) == IF x = NULL THEN 0 ELSE SizeOf[x]

\* The bytes a mapping of k to x contributes.
Slice(k, x) == {k} \X (1..W(x))

LEMMA SliceSize ==
    ASSUME NEW k, NEW x \in Bitmaps \cup {NULL}
    PROVE  IsFiniteSet(Slice(k, x)) /\ Cardinality(Slice(k, x)) = W(x)
<1>1. W(x) \in Nat  BY SizeAssumption DEF W
<1>2. IsFiniteSet(1..W(x)) /\ Cardinality(1..W(x)) = W(x)
  BY <1>1, FS_Interval
<1>3. IsFiniteSet({k}) /\ Cardinality({k}) = 1  BY FS_Singleton
<1> DEFINE J == 1..W(x)
           K == {k}
<1>4. IsFiniteSet(K \X J) /\ Cardinality(K \X J) = Cardinality(K) * Cardinality(J)
  <2> HIDE DEF J, K
  <2> QED BY <1>2, <1>3, FS_Product DEF J, K
<1> QED BY <1>1, <1>2, <1>3, <1>4 DEF Slice

\* The bytes of a map are those of one key and those of the others.
LEMMA BytesSplit ==
    ASSUME NEW m \in [Keys -> Bitmaps \cup {NULL}], NEW k \in Keys
    PROVE  LET rest == {p \in Abstract!Bytes(m) : p[1] # k}
           IN  /\ Abstract!Bytes(m) = rest \cup Slice(k, m[k])
               /\ rest \cap Slice(k, m[k]) = {}
<1> DEFINE rest == {p \in Abstract!Bytes(m) : p[1] # k}
<1>1. ASSUME NEW p
      PROVE  p \in Abstract!Bytes(m) <=> \E j \in Keys : p \in Slice(j, m[j])
  BY DEF Abstract!Bytes, Abstract!Cached, Slice, W
<1>2. \A j : \A p \in Slice(j, m[j]) : p[1] = j  BY DEF Slice
<1> QED BY <1>1, <1>2

\* The abstract cache counts with the same cardinality.
LEMMA TotalIsCardinality ==
    ASSUME NEW m
    PROVE  Abstract!Total(m) = Cardinality(Abstract!Bytes(m))
BY DEF Abstract!Total, Abstract!Cardinality, Cardinality

\* Changing one mapping changes the total by the difference of the weights.
LEMMA TotalOfUpdate ==
    ASSUME NEW m \in [Keys -> Bitmaps \cup {NULL}], NEW k \in Keys,
           NEW x \in Bitmaps \cup {NULL}, IsFiniteSet(Abstract!Bytes(m))
    PROVE  LET n == [m EXCEPT ![k] = x]
           IN  /\ IsFiniteSet(Abstract!Bytes(n))
               /\ Abstract!Total(n) = Abstract!Total(m) - W(m[k]) + W(x)
<1> DEFINE n == [m EXCEPT ![k] = x]
           R == {p \in Abstract!Bytes(m) : p[1] # k}
           Q == {p \in Abstract!Bytes(n) : p[1] # k}
<1>1. n \in [Keys -> Bitmaps \cup {NULL}] /\ n[k] = x  OBVIOUS
<1>2. R = Q
  BY <1>1 DEF Abstract!Bytes, Abstract!Cached
<1>3. Abstract!Bytes(m) = R \cup Slice(k, m[k]) /\ R \cap Slice(k, m[k]) = {}
  BY BytesSplit
<1>4. Abstract!Bytes(n) = Q \cup Slice(k, x) /\ Q \cap Slice(k, x) = {}
  BY <1>1, BytesSplit
<1>5. IsFiniteSet(R) /\ Cardinality(R) \in Nat
  BY FS_Subset, FS_CardinalityType
<1>6. m[k] \in Bitmaps \cup {NULL} /\ W(m[k]) \in Nat /\ W(x) \in Nat
  BY SizeAssumption DEF W
<1> HIDE DEF n, R, Q
<1>7. Cardinality(Abstract!Bytes(m)) = Cardinality(R) + W(m[k])
  <2>1. IsFiniteSet(Slice(k, m[k])) /\ Cardinality(Slice(k, m[k])) = W(m[k])
    BY <1>6, SliceSize
  <2>2. Cardinality(R \cup Slice(k, m[k])) =
            Cardinality(R) + W(m[k]) - Cardinality(R \cap Slice(k, m[k]))
    BY <1>5, <2>1, FS_Union
  <2>3. Cardinality(R \cap Slice(k, m[k])) = 0  BY <1>3, FS_EmptySet
  <2>4. Cardinality(Abstract!Bytes(m)) = Cardinality(R \cup Slice(k, m[k]))
    BY <1>3
  <2> QED BY <1>5, <1>6, <2>2, <2>3, <2>4
<1>8. /\ IsFiniteSet(Abstract!Bytes(n))
      /\ Cardinality(Abstract!Bytes(n)) = Cardinality(R) + W(x)
  <2>1. IsFiniteSet(Slice(k, x)) /\ Cardinality(Slice(k, x)) = W(x)
    BY <1>6, SliceSize
  <2>2. /\ IsFiniteSet(R \cup Slice(k, x))
        /\ Cardinality(R \cup Slice(k, x)) =
            Cardinality(R) + W(x) - Cardinality(R \cap Slice(k, x))
    BY <1>5, <2>1, FS_Union
  <2> QED BY <1>2, <1>4, <1>5, <1>6, <2>2, FS_EmptySet
<1>9. Abstract!Total(n) = Abstract!Total(m) - W(m[k]) + W(x)
  BY <1>5, <1>6, <1>7, <1>8, TotalIsCardinality
<1> QED BY <1>8, <1>9 DEF n

(***************************************************************************)
(* The inductive invariant.                                                *)
(***************************************************************************)

LEMMA InitIInv == Init => IInv
<1> SUFFICES ASSUME Init PROVE IInv  OBVIOUS
<1> USE DEF Init
<1>1. TypeOK  BY EmptySeq, NullAssumption DEF TypeOK
<1>2. OrderListsCached  BY DEF OrderListsCached, Cached
<1>3. Abstract!Bytes(map) = {}  BY DEF Abstract!Bytes, Abstract!Cached
<1>4. IsFiniteSet(Abstract!Bytes(map)) /\ Abstract!Total(map) = 0
  BY <1>3, FS_EmptySet, TotalIsCardinality
<1>5. SizeIsSum /\ OverLimitIsTrimmed
  BY <1>4, MaxSizeAssumption DEF SizeIsSum, OverLimitIsTrimmed
<1> QED BY <1>1, <1>2, <1>4, <1>5 DEF IInv

\* Under the invariant the consistency test of trimToSize never fires.
LEMMA NeverInconsistent == IInv => size \in Nat /\ ~Inconsistent
<1> SUFFICES ASSUME IInv PROVE size \in Nat /\ ~Inconsistent  OBVIOUS
<1> USE DEF IInv
<1>1. size \in Nat
  BY FS_CardinalityType, TotalIsCardinality DEF SizeIsSum
<1>2. ASSUME order = <<>> PROVE size = 0
  <2>1. Cached = {}  BY <1>2 DEF OrderListsCached
  <2>2. Abstract!Bytes(map) = {}
    BY <2>1 DEF Abstract!Bytes, Abstract!Cached, Cached
  <2> QED BY <2>2, FS_EmptySet, TotalIsCardinality DEF SizeIsSum
<1> QED BY <1>1, <1>2 DEF Inconsistent

\* The order after a use of k lists what it listed and k, still once each.
LEMMA TouchLists ==
    ASSUME NEW S, NEW s \in Seq(S), NEW k \in S, Distinct(s)
    PROVE  /\ Touch(s, k) \in Seq(S)
           /\ Listed(Touch(s, k)) = Listed(s) \cup {k}
           /\ Distinct(Touch(s, k))
<1> DEFINE w == Without(s, k)
           v == Append(w, k)
<1>1. w \in Seq(S) /\ Listed(w) = Listed(s) \ {k} /\ Distinct(w)
  BY WithoutDrops
<1> HIDE DEF w
<1>2. /\ v \in Seq(S) /\ Len(v) = Len(w) + 1
      /\ \A i \in 1..Len(w) : v[i] = w[i]
      /\ v[Len(w) + 1] = k
  BY <1>1, AppendProperties
<1> HIDE DEF v
<1>3. Len(w) \in Nat /\ DOMAIN w = 1..Len(w) /\ DOMAIN v = 1..(Len(w) + 1)
  BY <1>1, <1>2, LenProperties
<1>4. Listed(v) = Listed(w) \cup {k}
  BY <1>2, <1>3 DEF Listed
<1>5. \A i \in 1..Len(w) : v[i] # k
  BY <1>1, <1>2, <1>3 DEF Listed
<1>6. Distinct(v)
  BY <1>1, <1>2, <1>3, <1>5 DEF Distinct
<1> QED BY <1>1, <1>2, <1>4, <1>6 DEF Touch, w, v

\* The order after the eldest went.
LEMMA TailLists ==
    ASSUME NEW S, NEW s \in Seq(S), s # <<>>, Distinct(s)
    PROVE  /\ Head(s) \in Listed(s)
           /\ Tail(s) \in Seq(S)
           /\ Listed(Tail(s)) = Listed(s) \ {Head(s)}
           /\ Distinct(Tail(s))
<1>1. /\ Len(s) \in Nat \ {0} /\ DOMAIN s = 1..Len(s) /\ Head(s) = s[1]
      /\ Tail(s) \in Seq(S) /\ Len(Tail(s)) = Len(s) - 1
      /\ DOMAIN Tail(s) = 1..(Len(s) - 1)
      /\ \A i \in 1..(Len(s) - 1) : Tail(s)[i] = s[i+1]
  BY HeadTailProperties, EmptySeq, LenProperties
<1> DEFINE v == Tail(s)
<1> HIDE DEF v
<1>2. /\ DOMAIN v = 1..(Len(s) - 1)
      /\ \A i \in 1..(Len(s) - 1) : v[i] = s[i+1]
  BY <1>1 DEF v
<1>3. ASSUME NEW i \in 1..Len(s), s[i] # s[1]
      PROVE  s[i] \in Listed(v)
  <2>1. i-1 \in 1..(Len(s) - 1) /\ v[i-1] = s[i]  BY <1>1, <1>2, <1>3
  <2> QED BY <1>2, <2>1 DEF Listed
<1>4. ASSUME NEW i \in 1..(Len(s) - 1)
      PROVE  v[i] \in Listed(s) \ {s[1]}
  BY <1>1, <1>2 DEF Listed, Distinct
<1>5. Listed(v) = Listed(s) \ {s[1]}
  BY <1>1, <1>2, <1>3, <1>4 DEF Listed
<1>6. Distinct(v)
  BY <1>1, <1>2 DEF Distinct
<1>7. Head(s) \in Listed(s)  BY <1>1 DEF Listed
<1> QED BY <1>1, <1>5, <1>6, <1>7 DEF v

\* Every step of every thread keeps the invariant.
LEMMA NextIInv == IInv /\ [Next]_vars => IInv'
<1> SUFFICES ASSUME IInv, [Next]_vars PROVE IInv'  OBVIOUS
<1> USE DEF IInv
<1>0. /\ map \in [Keys -> Bitmaps \cup {NULL}]
      /\ order \in Seq(Keys)
      /\ Listed(order) = Cached /\ Distinct(order)
      /\ size \in Nat /\ ~Inconsistent
  BY NeverInconsistent DEF TypeOK, OrderListsCached, Listed, Distinct
<1>1. ASSUME NEW t \in Threads, NEW k \in Keys, Get(t, k)
      PROVE  IInv'
  <2> USE <1>1 DEF Get
  <2>1. /\ order' \in Seq(Keys)
        /\ Listed(order') = Listed(order) \cup {k}
        /\ Distinct(order')
    BY <1>0, TouchLists
  <2>2. TypeOK'  BY <2>1 DEF TypeOK
  <2>3. OrderListsCached'
    BY <1>0, <2>1 DEF OrderListsCached, Cached, Listed, Distinct
  <2> QED BY <2>2, <2>3
          DEF SizeIsSum, OverLimitIsTrimmed
<1>2. ASSUME NEW t \in Threads, NEW k \in Keys, NEW b \in Bitmaps, Put(t, k, b)
      PROVE  IInv'
  <2> USE <1>2 DEF Put
  <2>1. /\ order' \in Seq(Keys)
        /\ Listed(order') = Listed(order) \cup {k}
        /\ Distinct(order')
    BY <1>0, TouchLists
  <2>2. TypeOK'  
    BY <1>0, <2>1, SizeAssumption, NullAssumption, MaxSizeAssumption
       DEF TypeOK, Weight
  <2>3. Cached' = Cached \cup {k}
    BY <1>0, NullAssumption DEF Cached
  <2>4. OrderListsCached'
    BY <1>0, <2>1, <2>3 DEF OrderListsCached, Listed, Distinct
  <2>5. /\ IsFiniteSet(Abstract!Bytes(map'))
        /\ Abstract!Total(map') = Abstract!Total(map) - W(map[k]) + W(b)
    BY <1>0, TotalOfUpdate
  <2>6. W(map[k]) = Weight(k) /\ W(b) = SizeOf[b] /\ W(b) \in Nat /\ Weight(k) \in Nat
    BY <1>0, SizeAssumption, NullAssumption DEF W, Weight
  <2>7. SizeIsSum'  BY <1>0, <2>5, <2>6 DEF SizeIsSum
  <2>8. OverLimitIsTrimmed'
    BY NullAssumption, MaxSizeAssumption DEF OverLimitIsTrimmed, TypeOK
  <2> QED BY <2>2, <2>4, <2>5, <2>7, <2>8
<1>3. ASSUME NEW t \in Threads, NEW k \in Keys, Remove(t, k)
      PROVE  IInv'
  <2> USE <1>3 DEF Remove
  <2>1. /\ order' \in Seq(Keys)
        /\ Listed(order') = Listed(order) \ {k}
        /\ Distinct(order')
    BY <1>0, WithoutDrops
  <2>2. TypeOK'
    BY <1>0, <2>1, SizeAssumption DEF TypeOK, Weight
  <2>3. Cached' = Cached \ {k}  BY <1>0 DEF Cached
  <2>4. OrderListsCached'
    BY <1>0, <2>1, <2>3 DEF OrderListsCached, Listed, Distinct
  <2>5. /\ IsFiniteSet(Abstract!Bytes(map'))
        /\ Abstract!Total(map') = Abstract!Total(map) - W(map[k]) + W(NULL)
    BY <1>0, TotalOfUpdate
  <2>6. W(map[k]) = Weight(k) /\ W(NULL) = 0 /\ Weight(k) \in Nat
    BY <1>0, SizeAssumption DEF W, Weight
  <2>7. SizeIsSum'  BY <1>0, <2>5, <2>6 DEF SizeIsSum
  <2>8. OverLimitIsTrimmed'
    BY <1>0, <2>5, <2>6, MaxSizeAssumption
       DEF OverLimitIsTrimmed, SizeIsSum
  <2> QED BY <2>2, <2>4, <2>5, <2>7, <2>8
<1>4. ASSUME NEW t \in Threads, Clear(t)
      PROVE  IInv'
  <2> USE <1>4 DEF Clear
  <2>1. TypeOK'  BY NullAssumption DEF TypeOK
  <2>2. OrderListsCached'  BY DEF OrderListsCached, Cached
  <2>3. OverLimitIsTrimmed' /\ SizeIsSum'
    BY DEF OverLimitIsTrimmed, SizeIsSum, TypeOK
  <2> QED BY <2>1, <2>2, <2>3
<1>6. ASSUME NEW t \in Threads, TrimEnds(t)
      PROVE  IInv'
  <2> USE <1>6 DEF TrimEnds
  <2>1. TypeOK'  BY DEF TypeOK
  <2>2. OrderListsCached'  BY DEF OrderListsCached, Cached
  <2>3. SizeIsSum'  BY DEF SizeIsSum
  <2>4. goal[t] \in {MaxSize, -1}  BY DEF TypeOK
  <2>5. size <= MaxSize
    BY <1>0, <2>4, MaxSizeAssumption DEF Inconsistent
  <2>6. OverLimitIsTrimmed'
    BY <1>0, <2>5, MaxSizeAssumption DEF OverLimitIsTrimmed, SizeIsSum
  <2> QED BY <2>1, <2>2, <2>3, <2>6
<1>7. ASSUME NEW t \in Threads, TrimEvicts(t)
      PROVE  IInv'
  <2> USE <1>7 DEF TrimEvicts
  <2> DEFINE k == Head(order)
  <2>1. /\ k \in Listed(order)
        /\ order' \in Seq(Keys)
        /\ Listed(order') = Listed(order) \ {k}
        /\ Distinct(order')
    BY <1>0, TailLists
  <2>2. k \in Keys  BY <1>0, <2>1 DEF Cached
  <2>3. TypeOK'
    BY <1>0, <2>1, <2>2, SizeAssumption DEF TypeOK, Weight
  <2>4. Cached' = Cached \ {k}  BY <1>0, <2>2 DEF Cached
  <2>5. OrderListsCached'
    BY <1>0, <2>1, <2>4 DEF OrderListsCached, Listed, Distinct
  <2>6. /\ IsFiniteSet(Abstract!Bytes(map'))
        /\ Abstract!Total(map') = Abstract!Total(map) - W(map[k]) + W(NULL)
    BY <1>0, <2>2, TotalOfUpdate
  <2>7. W(map[k]) = Weight(k) /\ W(NULL) = 0 /\ Weight(k) \in Nat
    BY <1>0, <2>2, SizeAssumption DEF W, Weight
  <2>8. SizeIsSum'  BY <1>0, <2>6, <2>7 DEF SizeIsSum
  <2>9. OverLimitIsTrimmed'
    BY DEF OverLimitIsTrimmed
  <2> QED BY <2>3, <2>5, <2>6, <2>8, <2>9
<1>8. CASE UNCHANGED vars
  BY <1>8 DEF vars, TypeOK, OrderListsCached, Cached, SizeIsSum, OverLimitIsTrimmed
<1> QED BY <1>1, <1>2, <1>3, <1>4, <1>6, <1>7, <1>8
        DEF Next, Call, TrimToSize

\* The inductive invariant holds always, for any instance.
THEOREM Invariance == Spec => []IInv
BY InitIInv, NextIInv, PTL DEF Spec

\* Types of the fields and of the call states (LruMemoryCache.java:25-30).
THEOREM TypeCorrect == Spec => []TypeOK
<1>1. IInv => TypeOK  BY DEF IInv
<1> QED BY <1>1, Invariance, PTL

\* The field size is the number of bytes held, whatever calls interleave.
THEOREM SizeExact == Spec => []SizeIsSum
<1>1. IInv => SizeIsSum  BY DEF IInv
<1> QED BY <1>1, Invariance, PTL

\* The access order and the content never diverge.
THEOREM OrderExact == Spec => []OrderListsCached
<1>1. IInv => OrderListsCached  BY DEF IInv
<1> QED BY <1>1, Invariance, PTL

\* trimToSize never throws its IllegalStateException (84-86).
THEOREM TrimNeverThrows == Spec => []NeverThrows
<1>1. IInv => NeverThrows  BY NeverInconsistent DEF NeverThrows
<1> QED BY <1>1, Invariance, PTL

\* The limit is exceeded only while some thread is still trimming.
THEOREM LimitHolds == Spec => []OverLimitIsTrimmed
<1>1. IInv => OverLimitIsTrimmed  BY DEF IInv
<1> QED BY <1>1, Invariance, PTL

\* All of it together: content, order and count agree, no trim throws, and what
\* is over the limit is being trimmed.
THEOREM StaysConsistent == Spec => []Consistent
BY TypeCorrect, SizeExact, OrderExact, TrimNeverThrows, LimitHolds, PTL DEF Consistent

(***************************************************************************)
(* LruMemoryCache implements MemoryCache: a use of the access order is a   *)
(* stuttering step, the turns of trimToSize are Evict and Return steps.    *)
(***************************************************************************)

LEMMA InitImplements == Init => Abstract!Init
BY DEF Init, Abstract!Init

LEMMA NextImplements == IInv /\ [Next]_vars => [Abstract!Next]_(Abstract!vars)
<1> SUFFICES ASSUME IInv, [Next]_vars
             PROVE  Abstract!Next \/ UNCHANGED Abstract!vars
  OBVIOUS
<1>0. /\ TypeOK /\ ~Inconsistent /\ size = Abstract!Total(map)
      /\ Listed(order) = Cached /\ Distinct(order) /\ order \in Seq(Keys)
  BY NeverInconsistent
     DEF IInv, TypeOK, SizeIsSum, OrderListsCached, Listed, Distinct
<1>1. ASSUME NEW t \in Threads, NEW k \in Keys, Get(t, k)
      PROVE  UNCHANGED Abstract!vars
  BY <1>1 DEF Get, Abstract!vars
<1>2. ASSUME NEW t \in Threads, NEW k \in Keys, NEW b \in Bitmaps, Put(t, k, b)
      PROVE  Abstract!Put(t, k, b)
  BY <1>0, <1>2 DEF Put, Abstract!Put, TypeOK
<1>3. ASSUME NEW t \in Threads, NEW k \in Keys, Remove(t, k)
      PROVE  Abstract!Remove(t, k)
  BY <1>0, <1>3 DEF Remove, Abstract!Remove, TypeOK
<1>4. ASSUME NEW t \in Threads, Clear(t)
      PROVE  Abstract!Clear(t)
  BY <1>0, <1>4 DEF Clear, Abstract!Clear, TypeOK
<1>6. ASSUME NEW t \in Threads, TrimEnds(t)
      PROVE  Abstract!Return(t)
  <2>1. order = <<>> => Abstract!Cached(map) = {}
    BY <1>0 DEF Listed, Cached, Abstract!Cached
  <2> QED BY <1>0, <1>6, <2>1 DEF TrimEnds, Abstract!Return, TypeOK
<1>7. ASSUME NEW t \in Threads, TrimEvicts(t)
      PROVE  \E k \in Keys : Abstract!Evict(t, k)
  <2>1. Head(order) \in Keys
    BY <1>0, <1>7, TailLists DEF TrimEvicts, Cached
  <2>2. Abstract!Evict(t, Head(order))
    BY <1>0, <1>7 DEF TrimEvicts, Abstract!Evict, TypeOK
  <2> QED BY <2>1, <2>2
<1>8. CASE UNCHANGED vars
  BY <1>8 DEF vars, Abstract!vars
<1> QED BY <1>1, <1>2, <1>3, <1>4, <1>6, <1>7, <1>8
        DEF Next, Call, TrimToSize, Abstract!Next

\* What LruMemoryCache does is what MemoryCache allows, for any instance.
THEOREM Implements == Spec => AbstractSpec
<1>1. Spec => []IInv  BY Invariance
<1>2. Init => Abstract!Init  BY InitImplements
<1>3. IInv /\ [Next]_vars => [Abstract!Next]_(Abstract!vars)  BY NextImplements
<1> QED BY <1>1, <1>2, <1>3, PTL DEF Spec, AbstractSpec, Abstract!Spec

(***************************************************************************)
(* The order of eviction: the access order and the history of uses agree.  *)
(***************************************************************************)

\* Whatever stands later in the access order was used later.
HistoryOK ==
    /\ since \in [Keys -> SUBSET Keys]
    /\ \A i, j \in DOMAIN order : i < j => order[j] \in since[order[i]]

\* After a use of k only k stands behind what it stood before.
LEMMA TouchOrder ==
    ASSUME NEW S, NEW s \in Seq(S), NEW k \in S, Distinct(s)
    PROVE  \A i, j \in DOMAIN Touch(s, k) : i < j =>
             /\ Touch(s, k)[i] # k
             /\ Touch(s, k)[j] = k \/
                \E p, q \in DOMAIN s : p < q /\ Touch(s, k)[i] = s[p] /\ Touch(s, k)[j] = s[q]
<1> DEFINE w == Without(s, k)
           v == Append(w, k)
<1>1. w \in Seq(S) /\ Listed(w) = Listed(s) \ {k} /\ KeepsOrder(w, s)
  BY WithoutDrops
<1> HIDE DEF w
<1>2. /\ v \in Seq(S) /\ Len(v) = Len(w) + 1
      /\ \A i \in 1..Len(w) : v[i] = w[i]
      /\ v[Len(w) + 1] = k
  BY <1>1, AppendProperties
<1> HIDE DEF v
<1>3. Len(w) \in Nat /\ DOMAIN w = 1..Len(w) /\ DOMAIN v = 1..(Len(w) + 1)
  BY <1>1, <1>2, LenProperties
<1>4. \A i \in 1..Len(w) : w[i] # k
  BY <1>1, <1>3 DEF Listed
<1>5. ASSUME NEW i \in DOMAIN v, NEW j \in DOMAIN v, i < j
      PROVE  /\ v[i] # k
             /\ v[j] = k \/ \E p, q \in DOMAIN s : p < q /\ v[i] = s[p] /\ v[j] = s[q]
  <2>1. i \in 1..Len(w)  BY <1>3, <1>5
  <2>2. CASE j = Len(w) + 1  BY <1>2, <1>4, <2>1, <2>2
  <2>3. CASE j # Len(w) + 1
    <3>1. j \in 1..Len(w)  BY <1>3, <2>3
    <3>2. v[i] = w[i] /\ v[j] = w[j]  BY <1>2, <2>1, <3>1
    <3>3. \E p, q \in DOMAIN s : p < q /\ w[i] = s[p] /\ w[j] = s[q]
      BY <1>1, <1>3, <1>5, <2>1, <3>1 DEF KeepsOrder
    <3> QED BY <1>4, <2>1, <3>2, <3>3
  <2> QED BY <2>2, <2>3
<1> QED BY <1>5 DEF Touch, v, w

\* A use of k.
LEMMA UseKeepsHistory ==
    ASSUME IInv, HistoryOK, NEW k \in Keys, order' = Touch(order, k), Used(k)
    PROVE  HistoryOK'
<1>1. order \in Seq(Keys) /\ Distinct(order)
  BY DEF IInv, TypeOK, OrderListsCached, Distinct
<1>2. since' \in [Keys -> SUBSET Keys]  BY DEF Used, HistoryOK
<1>3. ASSUME NEW i \in DOMAIN order', NEW j \in DOMAIN order', i < j
      PROVE  order'[j] \in since'[order'[i]]
  <2>1. /\ order'[i] # k
        /\ order'[j] = k \/
           \E p, q \in DOMAIN order : p < q /\ order'[i] = order[p] /\ order'[j] = order[q]
    BY <1>1, <1>3, TouchOrder
  <2>2. order'[i] \in Keys
    <3>1. order' \in Seq(Keys)  BY <1>1, TouchLists
    <3> QED BY <3>1, ElementOfSeq, LenProperties
  <2>3. since'[order'[i]] = since[order'[i]] \cup {k}  BY <2>1, <2>2 DEF Used
  <2> QED BY <2>1, <2>3 DEF HistoryOK
<1> QED BY <1>2, <1>3 DEF HistoryOK

\* An entry goes, the others keep their order.
LEMMA LossKeepsHistory ==
    ASSUME HistoryOK, KeepsOrder(order', order), UNCHANGED since
    PROVE  HistoryOK'
BY DEF HistoryOK, KeepsOrder

\* The eldest goes: every other key stood after it.
LEMMA TailKeepsOrder ==
    ASSUME NEW S, NEW s \in Seq(S), s # <<>>
    PROVE  KeepsOrder(Tail(s), s)
<1>1. /\ Len(s) \in Nat \ {0} /\ DOMAIN s = 1..Len(s)
      /\ DOMAIN Tail(s) = 1..(Len(s) - 1)
      /\ \A i \in 1..(Len(s) - 1) : Tail(s)[i] = s[i+1]
  BY HeadTailProperties, EmptySeq, LenProperties
<1> DEFINE v == Tail(s)
<1>2. /\ DOMAIN v = 1..(Len(s) - 1)
      /\ \A i \in 1..(Len(s) - 1) : v[i] = s[i+1]
  BY <1>1
<1> HIDE DEF v
<1>3. \A i \in 1..(Len(s) - 1) : i + 1 \in DOMAIN s  BY <1>1
<1>4. \A i, j \in 1..(Len(s) - 1) : i < j => i + 1 < j + 1  BY <1>1
<1>5. KeepsOrder(v, s)  BY <1>2, <1>3, <1>4 DEF KeepsOrder
<1> QED BY <1>5 DEF v

LEMMA HNextKeepsHistory ==
    IInv /\ HistoryOK /\ [HNext]_<<vars, since>> => HistoryOK'
<1> SUFFICES ASSUME IInv, HistoryOK, [HNext]_<<vars, since>> PROVE HistoryOK'  OBVIOUS
<1>1. order \in Seq(Keys) /\ Distinct(order)
  BY DEF IInv, TypeOK, OrderListsCached, Distinct
<1>2. ASSUME NEW t \in Threads, NEW k \in Keys, Get(t, k), Used(k) PROVE HistoryOK'
  BY <1>2, UseKeepsHistory DEF Get
<1>3. ASSUME NEW t \in Threads, NEW k \in Keys, NEW b \in Bitmaps, Put(t, k, b), Used(k)
      PROVE  HistoryOK'
  BY <1>3, UseKeepsHistory DEF Put
<1>4. ASSUME NEW t \in Threads, NEW k \in Keys, Remove(t, k), UNCHANGED since PROVE HistoryOK'
  <2>1. order' = Without(order, k)  BY <1>4 DEF Remove
  <2>2. KeepsOrder(order', order)  BY <1>1, <2>1, WithoutDrops
  <2> QED BY <1>4, <2>2, LossKeepsHistory
<1>5. ASSUME NEW t \in Threads, Clear(t) \/ TrimToSize(t), UNCHANGED since PROVE HistoryOK'
  <2>1. CASE TrimEvicts(t)
    <3>1. order # <<>> /\ order' = Tail(order)  BY <2>1 DEF TrimEvicts
    <3>2. KeepsOrder(order', order)  BY <1>1, <3>1, TailKeepsOrder
    <3> QED BY <1>5, <3>2, LossKeepsHistory
  <2>2. CASE UNCHANGED order  BY <1>5, <2>2 DEF HistoryOK
  <2> QED BY <1>5, <2>1, <2>2 DEF Clear, TrimToSize, TrimEnds
<1>6. CASE UNCHANGED <<vars, since>>  BY <1>6 DEF HistoryOK, vars
<1> QED BY <1>2, <1>3, <1>4, <1>5, <1>6 DEF HNext

\* A trim gives up the entry that was used before every other one, whatever gets,
\* puts, removes and clears of other threads run between its turns (74-101).
THEOREM EldestGoes == HSpec => EvictsLeastRecent
<1>1. HInit => IInv /\ HistoryOK
  <2> SUFFICES ASSUME HInit PROVE IInv /\ HistoryOK  OBVIOUS
  <2>1. IInv  BY InitIInv DEF HInit
  <2>2. HistoryOK  BY EmptySeq DEF HInit, Init, HistoryOK
  <2> QED BY <2>1, <2>2
<1>2. [HNext]_<<vars, since>> => [Next]_vars
  BY DEF HNext, Next, Call, TrimToSize
<1>3. IInv /\ HistoryOK /\ [HNext]_<<vars, since>> => IInv' /\ HistoryOK'
  BY <1>2, NextIInv, HNextKeepsHistory
<1>4. IInv /\ HistoryOK => \A t \in Threads : LeastRecentGoes(t)
  <2> SUFFICES ASSUME IInv, HistoryOK, NEW t \in Threads, TrimEvicts(t), NEW k \in Keys,
                      map[k] # NULL, map'[k] = NULL, NEW j \in Cached \ {k}
               PROVE  j \in since[k]
    BY DEF LeastRecentGoes
  <2>1. order \in Seq(Keys) /\ Listed(order) = Cached /\ map \in [Keys -> Bitmaps \cup {NULL}]
    BY DEF IInv, TypeOK, OrderListsCached, Listed
  <2>2. order # <<>> /\ map' = [map EXCEPT ![Head(order)] = NULL]  BY DEF TrimEvicts
  <2>3. /\ Len(order) \in Nat \ {0} /\ DOMAIN order = 1..Len(order) /\ Head(order) = order[1]
    BY <2>1, <2>2, HeadTailProperties, EmptySeq, LenProperties
  <2>4. k = order[1]  BY <2>1, <2>2, <2>3
  <2>5. PICK i \in DOMAIN order : order[i] = j  BY <2>1 DEF Listed
  <2>6. i \in 1..Len(order) /\ i # 1 /\ 1 \in DOMAIN order  BY <2>3, <2>4, <2>5
  <2>7. 1 < i  BY <2>3, <2>6
  <2> QED BY <2>4, <2>5, <2>6, <2>7 DEF HistoryOK
<1> QED BY <1>1, <1>3, <1>4, PTL DEF HSpec, EvictsLeastRecent
============================================================================
