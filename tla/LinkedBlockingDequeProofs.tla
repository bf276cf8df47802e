--------------------- MODULE LinkedBlockingDequeProofs ---------------------
(***************************************************************************)
(* The list of LinkedBlockingDeque stays one chain, loses no wakeup and is *)
(* the deque of BlockingDeque, for any threads, iterators, nodes, items    *)
(* and capacity.                                                           *)
(***************************************************************************)
EXTENDS LinkedBlockingDeque, FiniteSetTheorems, SequenceTheorems,
        WellFoundedInduction, TLAPS

ListOK == ListTypes /\ LinksExact
IInv == ListOK /\ CallTypes /\ NoLostWakeup

-----------------------------------------------------------------------------
(* The chain.  Each lemma names the chain that follows.                    *)

\* q lists, in order, the k nodes that hold items.
IsChain(q, k, cells, head, tail) ==
    /\ k \in Nat /\ q \in [1..k -> Nodes]
    /\ \A i, j \in 1..k : q[i] = q[j] => i = j
    /\ \A n \in Nodes : cells[n].item # NULL <=> \E i \in 1..k : q[i] = n
    /\ head = (IF k = 0 THEN NULL ELSE q[1])
    /\ tail = (IF k = 0 THEN NULL ELSE q[k])
    /\ \A i \in 1..k :
        /\ cells[q[i]].next = (IF i = k THEN NULL ELSE q[i + 1])
        /\ cells[q[i]].prev = (IF i = 1 THEN NULL ELSE q[i - 1])

\* The chain with node n before it, with n behind it, and without its p-th node.
Before(n, q, k) == [i \in 1..k + 1 |-> IF i = 1 THEN n ELSE q[i - 1]]
Behind(q, k, n) == [i \in 1..k + 1 |-> IF i = k + 1 THEN n ELSE q[i]]
Without(q, k, p) == [i \in 1..k - 1 |-> q[IF i < p THEN i ELSE i + 1]]

Listed(q) == IsChain(q, count, node, first, last)
ListedNext(q) == IsChain(q, count', node', first', last')

LEMMA HasChain ==
    ASSUME ListOK
    PROVE  \E q : IsChain(q, count, node, first, last)
  <1>1. PICK q \in [1..count -> Linked] : Chain(q)
    BY DEF ListOK, LinksExact
  <1>2. count \in Nat /\ Linked \subseteq Nodes
    BY CapacityAssumption DEF ListOK, ListTypes, Linked
  <1>3. IsChain(q, count, node, first, last)
    BY <1>1, <1>2 DEF IsChain, Chain, Linked
  <1> QED BY <1>3

LEMMA ChainSuffices ==
    ASSUME NEW q, IsChain(q, count', node', first', last')
    PROVE  LinksExact'
  <1>1. Linked' = {q[i] : i \in 1..count'}
    BY DEF IsChain, Linked
  <1>2. q \in [1..count' -> Linked']
    BY <1>1 DEF IsChain
  <1>3. Chain(q)'
    BY <1>1 DEF IsChain, Chain
  <1> QED BY <1>2, <1>3 DEF LinksExact

LEMMA EmptyOrNot ==
    ASSUME ListOK
    PROVE  /\ first = NULL <=> count = 0
           /\ last = NULL <=> count = 0
           /\ count \in 0..Capacity /\ Capacity \in Nat
  <1>1. PICK q : IsChain(q, count, node, first, last)
    BY HasChain
  <1> QED BY <1>1, NullAssumption, CapacityAssumption DEF IsChain, ListOK, ListTypes

LEMMA LinkFirstChain ==
    ASSUME ListOK, NEW n \in Nodes, node[n].item = NULL, NEW e \in Items, count < Capacity, LinkFirst(n, e),
           UNCHANGED taken
    PROVE  ListTypes' /\ \E q : Listed(q) /\ ListedNext(Before(n, q, count))
  <1>1. PICK q : IsChain(q, count, node, first, last)
    BY HasChain
  <1>2. PICK k \in Nat : k = count
    BY <1>1 DEF IsChain
  <1> DEFINE r == [i \in 1..k + 1 |-> IF i = 1 THEN n ELSE q[i - 1]]
  <1>3. e # NULL /\ n # NULL /\ node \in [Nodes -> Cells] /\ \A i \in 1..k : q[i] \in Nodes /\ q[i] # n
    BY <1>1, <1>2, NullAssumption DEF ListOK, ListTypes, IsChain
  <1>4. ListTypes'
    BY <1>2, <1>3, CapacityAssumption DEF ListOK, ListTypes, LinkFirst, Cells
  <1>5. r[1] = n /\ r \in [1..k + 1 -> Nodes]
    BY <1>3
  <1>6. \A i \in 1..k : r[i + 1] = q[i]
    BY <1>2
  <1>7. \A i \in 1..k + 1 : i # 1 => i - 1 \in 1..k /\ r[i] = q[i - 1]
    BY <1>2
  <1> HIDE DEF r
  <1>8. \A i, j \in 1..k + 1 : r[i] = r[j] => i = j
    BY <1>1, <1>2, <1>3, <1>5, <1>7 DEF IsChain
  <1>9. ASSUME NEW m \in Nodes PROVE node'[m].item # NULL <=> \E i \in 1..k + 1 : r[i] = m
    <2>1. node'[m].item # NULL <=> m = n \/ node[m].item # NULL
      BY <1>3 DEF LinkFirst, Cells
    <2>2. (\E i \in 1..k + 1 : r[i] = m) <=> m = n \/ \E i \in 1..k : q[i] = m
      <3>1. 1 \in 1..k + 1 /\ \A i \in 1..k : i + 1 \in 1..k + 1
        OBVIOUS
      <3> QED BY <1>5, <1>6, <1>7, <3>1
    <2> QED BY <1>1, <1>2, <2>1, <2>2 DEF IsChain
  <1>10. first' = r[1] /\ last' = r[k + 1]
    BY <1>1, <1>2, <1>3, <1>5, <1>7, NullAssumption DEF IsChain, LinkFirst
  <1>11. node'[n].next = (IF k = 0 THEN NULL ELSE q[1]) /\ node'[n].prev = NULL
    BY <1>1, <1>2 DEF LinkFirst, IsChain
  <1>12. ASSUME NEW i \in 1..k
         PROVE  /\ node'[q[i]].next = (IF i = k THEN NULL ELSE q[i + 1])
                /\ node'[q[i]].prev = (IF i = 1 THEN n ELSE q[i - 1])
    <2>1. q[i] \in Nodes /\ q[i] # n /\ node[q[i]] \in Cells /\ first = q[1]
      BY <1>1, <1>2, <1>3 DEF IsChain
    <2>2. first = q[i] <=> i = 1
      BY <1>1, <1>2, <2>1 DEF IsChain
    <2>3. node'[q[i]] = IF i = 1 THEN [node[q[i]] EXCEPT !.prev = n] ELSE node[q[i]]
      BY <2>1, <2>2 DEF LinkFirst
    <2> QED BY <1>1, <1>2, <2>1, <2>3 DEF IsChain, Cells
  <1>13. ASSUME NEW i \in 1..k + 1
         PROVE  /\ node'[r[i]].next = (IF i = k + 1 THEN NULL ELSE r[i + 1])
                /\ node'[r[i]].prev = (IF i = 1 THEN NULL ELSE r[i - 1])
    <2>1. CASE i = 1
      BY <1>5, <1>6, <1>11, <2>1
    <2>2. CASE i # 1
      <3>1. PICK j \in 1..k : i = j + 1
        BY <1>7, <2>2
      <3> QED BY <1>5, <1>6, <1>12, <3>1
    <2> QED BY <2>1, <2>2
  <1>14. IsChain(r, count', node', first', last')
    <2>1. count' = k + 1 /\ k + 1 \in Nat /\ k + 1 # 0
      BY <1>2 DEF LinkFirst
    <2> QED BY <1>5, <1>8, <1>9, <1>10, <1>13, <2>1 DEF IsChain
  <1>15. r = Before(n, q, count)
    BY <1>2 DEF r, Before
  <1> QED BY <1>1, <1>4, <1>14, <1>15 DEF Listed, ListedNext

LEMMA LinkFirstKeeps ==
    ASSUME ListOK, NEW n \in Nodes, node[n].item = NULL, NEW e \in Items, count < Capacity, LinkFirst(n, e),
           UNCHANGED taken
    PROVE  ListOK'
  BY LinkFirstChain, ChainSuffices DEF ListOK, ListedNext

LEMMA LinkLastChain ==
    ASSUME ListOK, NEW n \in Nodes, node[n].item = NULL, NEW e \in Items, count < Capacity, LinkLast(n, e),
           UNCHANGED taken
    PROVE  ListTypes' /\ \E q : Listed(q) /\ ListedNext(Behind(q, count, n))
  <1>1. PICK q : IsChain(q, count, node, first, last)
    BY HasChain
  <1>2. PICK k \in Nat : k = count
    BY <1>1 DEF IsChain
  <1> DEFINE r == [i \in 1..k + 1 |-> IF i = k + 1 THEN n ELSE q[i]]
  <1>3. e # NULL /\ n # NULL /\ node \in [Nodes -> Cells] /\ \A i \in 1..k : q[i] \in Nodes /\ q[i] # n
    BY <1>1, <1>2, NullAssumption DEF ListOK, ListTypes, IsChain
  <1>4. ListTypes'
    BY <1>2, <1>3, CapacityAssumption DEF ListOK, ListTypes, LinkLast, Cells
  <1>5. r[k + 1] = n /\ r \in [1..k + 1 -> Nodes]
    BY <1>3
  <1>6. \A i \in 1..k : r[i] = q[i]
    BY <1>2
  <1>7. \A i \in 1..k + 1 : i # k + 1 => i \in 1..k
    BY <1>2
  <1> HIDE DEF r
  <1>8. \A i, j \in 1..k + 1 : r[i] = r[j] => i = j
    BY <1>1, <1>2, <1>3, <1>5, <1>6, <1>7 DEF IsChain
  <1>9. ASSUME NEW m \in Nodes PROVE node'[m].item # NULL <=> \E i \in 1..k + 1 : r[i] = m
    <2>1. node'[m].item # NULL <=> m = n \/ node[m].item # NULL
      BY <1>3 DEF LinkLast, Cells
    <2>2. (\E i \in 1..k + 1 : r[i] = m) <=> m = n \/ \E i \in 1..k : q[i] = m
      <3>1. k + 1 \in 1..k + 1 /\ \A i \in 1..k : i \in 1..k + 1
        OBVIOUS
      <3> QED BY <1>5, <1>6, <1>7, <3>1
    <2> QED BY <1>1, <1>2, <2>1, <2>2 DEF IsChain
  <1>10. first' = r[1] /\ last' = r[k + 1]
    BY <1>1, <1>2, <1>3, <1>5, <1>6, NullAssumption DEF IsChain, LinkLast
  <1>11. node'[n].next = NULL /\ node'[n].prev = (IF k = 0 THEN NULL ELSE q[k])
    BY <1>1, <1>2 DEF LinkLast, IsChain
  <1>12. ASSUME NEW i \in 1..k
         PROVE  /\ node'[q[i]].next = (IF i = k THEN n ELSE q[i + 1])
                /\ node'[q[i]].prev = (IF i = 1 THEN NULL ELSE q[i - 1])
    <2>1. q[i] \in Nodes /\ q[i] # n /\ node[q[i]] \in Cells /\ last = q[k]
      BY <1>1, <1>2, <1>3 DEF IsChain
    <2>2. last = q[i] <=> i = k
      BY <1>1, <1>2, <2>1 DEF IsChain
    <2>3. node'[q[i]] = IF i = k THEN [node[q[i]] EXCEPT !.next = n] ELSE node[q[i]]
      BY <2>1, <2>2 DEF LinkLast
    <2> QED BY <1>1, <1>2, <2>1, <2>3 DEF IsChain, Cells
  <1>13. ASSUME NEW i \in 1..k + 1
         PROVE  /\ node'[r[i]].next = (IF i = k + 1 THEN NULL ELSE r[i + 1])
                /\ node'[r[i]].prev = (IF i = 1 THEN NULL ELSE r[i - 1])
    <2>1. CASE i = k + 1
      BY <1>5, <1>6, <1>11, <2>1
    <2>2. CASE i # k + 1
      BY <1>5, <1>6, <1>7, <1>12, <2>2
    <2> QED BY <2>1, <2>2
  <1>14. IsChain(r, count', node', first', last')
    <2>1. count' = k + 1 /\ k + 1 \in Nat /\ k + 1 # 0
      BY <1>2 DEF LinkLast
    <2> QED BY <1>5, <1>8, <1>9, <1>10, <1>13, <2>1 DEF IsChain
  <1>15. r = Behind(q, count, n)
    BY <1>2 DEF r, Behind
  <1> QED BY <1>1, <1>4, <1>14, <1>15 DEF Listed, ListedNext

LEMMA LinkLastKeeps ==
    ASSUME ListOK, NEW n \in Nodes, node[n].item = NULL, NEW e \in Items, count < Capacity, LinkLast(n, e),
           UNCHANGED taken
    PROVE  ListOK'
  BY LinkLastChain, ChainSuffices DEF ListOK, ListedNext

LEMMA UnlinkFirstChain ==
    ASSUME ListOK, UnlinkFirst, taken' \in Items \cup {NULL}
    PROVE  ListTypes' /\ \E q : Listed(q) /\ ListedNext(Without(q, count, 1))
  <1>1. PICK q : IsChain(q, count, node, first, last)
    BY HasChain
  <1>2. PICK k \in Nat : k + 1 = count
    <2>1. count \in Nat /\ count # 0
      BY <1>1 DEF IsChain, UnlinkFirst
    <2> QED BY <2>1
  <1>a. count' = count - 1
    BY DEF UnlinkFirst
  <1>b. first' = node[first].next /\ last' = (IF node[first].next = NULL THEN NULL ELSE last)
    BY DEF UnlinkFirst
  <1>c. \A m \in Nodes : node'[m] =
            (IF m = first THEN [node[m] EXCEPT !.item = NULL, !.next = first]
             ELSE IF m = node[first].next THEN [node[m] EXCEPT !.prev = NULL] ELSE node[m])
    BY DEF UnlinkFirst
  <1> DEFINE r == [i \in 1..k |-> q[i + 1]]
  <1>3. node \in [Nodes -> Cells] /\ \A i \in 1..k + 1 : q[i] \in Nodes
    BY <1>1, <1>2 DEF ListOK, ListTypes, IsChain
  <1>4. r \in [1..k -> Nodes] /\ \A i \in 1..k : r[i] = q[i + 1] /\ i + 1 \in 1..k + 1
    BY <1>2, <1>3
  <1> HIDE DEF r
  <1>5. \A i, j \in 1..k : r[i] = r[j] => i = j
    BY <1>1, <1>2, <1>4 DEF IsChain
  <1>6. first = q[1] /\ 1 \in 1..k + 1 /\ node[first].next = (IF k = 0 THEN NULL ELSE q[2])
        /\ last = q[k + 1] /\ q[k + 1] # NULL
    BY <1>1, <1>2, <1>3, NullAssumption DEF IsChain
  <1>7. \A i \in 1..k + 1 : (q[i] = first <=> i = 1) /\ (q[i] = node[first].next <=> i = 2)
    BY <1>1, <1>2, <1>3, <1>6, NullAssumption DEF IsChain
  <1>8. ASSUME NEW m \in Nodes PROVE node'[m].item # NULL <=> \E i \in 1..k : r[i] = m
    <2>1. node'[m].item # NULL <=> m # first /\ node[m].item # NULL
      BY <1>3 DEF UnlinkFirst, Cells
    <2>2. (\E i \in 1..k : r[i] = m) <=> m # first /\ \E i \in 1..k + 1 : q[i] = m
      <3>1. \A i \in 1..k + 1 : i # 1 => i - 1 \in 1..k /\ (i - 1) + 1 = i
        BY <1>2
      <3>2. \A i \in 1..k : i + 1 # 1
        OBVIOUS
      <3>3. ASSUME NEW i \in 1..k + 1, q[i] = m, m # first PROVE \E j \in 1..k : r[j] = m
        BY <1>4, <1>7, <3>1, <3>3
      <3>4. ASSUME NEW i \in 1..k, r[i] = m PROVE m # first /\ \E j \in 1..k + 1 : q[j] = m
        BY <1>4, <1>7, <3>2, <3>4
      <3> QED BY <3>3, <3>4
    <2> QED BY <1>1, <1>2, <2>1, <2>2 DEF IsChain
  <1>9. first' = (IF k = 0 THEN NULL ELSE r[1]) /\ last' = (IF k = 0 THEN NULL ELSE r[k])
    BY <1>b, <1>2, <1>3, <1>4, <1>6, NullAssumption
  <1>10. ASSUME NEW i \in 1..k
         PROVE  /\ node'[r[i]].next = (IF i = k THEN NULL ELSE r[i + 1])
                /\ node'[r[i]].prev = (IF i = 1 THEN NULL ELSE r[i - 1])
    <2>1. r[i] = q[i + 1] /\ i + 1 \in 1..k + 1 /\ i + 1 # 1 /\ node[q[i + 1]] \in Cells
      BY <1>3, <1>4
    <2>2. node'[r[i]] = IF i = 1 THEN [node[q[i + 1]] EXCEPT !.prev = NULL] ELSE node[q[i + 1]]
      <3>1. q[i + 1] \in Nodes
        BY <1>3, <2>1
      <3>2. q[i + 1] # first /\ (q[i + 1] = node[first].next <=> i = 1)
        BY <1>7, <2>1
      <3> QED BY <1>c, <2>1, <3>1, <3>2
    <2>3. /\ node[q[i + 1]].next = (IF i = k THEN NULL ELSE q[i + 2])
          /\ node[q[i + 1]].prev = q[i]
      BY <1>1, <1>2, <2>1 DEF IsChain
    <2>4. (i # k => i + 1 \in 1..k /\ r[i + 1] = q[i + 2]) /\ (i # 1 => i - 1 \in 1..k /\ r[i - 1] = q[i])
      BY <1>4
    <2> QED BY <2>1, <2>2, <2>3, <2>4 DEF Cells
  <1>11. count' = k
    BY <1>a, <1>2
  <1>12. IsChain(r, count', node', first', last')
    BY <1>4, <1>5, <1>8, <1>9, <1>10, <1>11 DEF IsChain
  <1>13. ListTypes'
    <2>1. node' \in [Nodes -> Cells]
      <3>0. first \in Nodes
        BY <1>3, <1>6
      <3>1. ASSUME NEW m \in Nodes PROVE node'[m] \in Cells
        <4>1. node[m] \in Cells
          BY <1>3
        <4>2. \/ node'[m] = [node[m] EXCEPT !.item = NULL, !.next = first]
              \/ node'[m] = [node[m] EXCEPT !.prev = NULL]
              \/ node'[m] = node[m]
          BY <1>c
        <4> QED BY <3>0, <4>1, <4>2 DEF Cells
      <3> QED BY <3>1 DEF UnlinkFirst
    <2>2. first' \in Nodes \cup {NULL} /\ last' \in Nodes \cup {NULL}
      BY <1>4, <1>9
    <2>3. count' \in 0..Capacity
      BY <1>2, <1>11, CapacityAssumption DEF ListOK, ListTypes
    <2> QED BY <2>1, <2>2, <2>3 DEF ListTypes
  <1>14. r = Without(q, count, 1)
    BY <1>2 DEF r, Without
  <1> QED BY <1>1, <1>13, <1>12, <1>14 DEF Listed, ListedNext

LEMMA UnlinkFirstKeeps ==
    ASSUME ListOK, UnlinkFirst, taken' \in Items \cup {NULL}
    PROVE  ListOK'
  BY UnlinkFirstChain, ChainSuffices DEF ListOK, ListedNext

LEMMA UnlinkLastChain ==
    ASSUME ListOK, UnlinkLast, taken' \in Items \cup {NULL}
    PROVE  ListTypes' /\ \E q : Listed(q) /\ ListedNext(Without(q, count, count))
  <1>1. PICK q : IsChain(q, count, node, first, last)
    BY HasChain
  <1>2. PICK k \in Nat : k + 1 = count
    <2>1. count \in Nat /\ count # 0
      BY <1>1 DEF IsChain, UnlinkLast
    <2> QED BY <2>1
  <1>a. count' = count - 1
    BY DEF UnlinkLast
  <1>b. last' = node[last].prev /\ first' = (IF node[last].prev = NULL THEN NULL ELSE first)
    BY DEF UnlinkLast
  <1>c. \A m \in Nodes : node'[m] =
            (IF m = last THEN [node[m] EXCEPT !.item = NULL, !.prev = last]
             ELSE IF m = node[last].prev THEN [node[m] EXCEPT !.next = NULL] ELSE node[m])
    BY DEF UnlinkLast
  <1> DEFINE r == [i \in 1..k |-> q[i]]
  <1>3. node \in [Nodes -> Cells] /\ \A i \in 1..k + 1 : q[i] \in Nodes
    BY <1>1, <1>2 DEF ListOK, ListTypes, IsChain
  <1>4. r \in [1..k -> Nodes] /\ \A i \in 1..k : r[i] = q[i] /\ i \in 1..k + 1 /\ i # k + 1
    BY <1>2, <1>3
  <1> HIDE DEF r
  <1>5. \A i, j \in 1..k : r[i] = r[j] => i = j
    <2>1. \A i, j \in 1..k + 1 : q[i] = q[j] => i = j
      BY <1>1, <1>2 DEF IsChain
    <2> QED BY <1>4, <2>1
  <1>6. last = q[k + 1] /\ k + 1 \in 1..k + 1 /\ node[last].prev = (IF k = 0 THEN NULL ELSE q[k])
        /\ first = q[1] /\ q[1] # NULL
    BY <1>1, <1>2, <1>3, NullAssumption DEF IsChain
  <1>7. \A i \in 1..k + 1 : (q[i] = last <=> i = k + 1) /\ (q[i] = node[last].prev <=> i = k)
    BY <1>1, <1>2, <1>3, <1>6, NullAssumption DEF IsChain
  <1>8. ASSUME NEW m \in Nodes PROVE node'[m].item # NULL <=> \E i \in 1..k : r[i] = m
    <2>1. node'[m].item # NULL <=> m # last /\ node[m].item # NULL
      <3>1. node[m] \in Cells
        BY <1>3
      <3>2. CASE m = last
        <4>1. node'[m] = [node[m] EXCEPT !.item = NULL, !.prev = last]
          BY <1>c, <3>2
        <4> QED BY <3>1, <3>2, <4>1 DEF Cells
      <3>3. CASE m # last
        <4>1. node'[m] = [node[m] EXCEPT !.next = NULL] \/ node'[m] = node[m]
          BY <1>c, <3>3
        <4>2. node'[m].item = node[m].item
          BY <3>1, <4>1 DEF Cells
        <4> QED BY <3>3, <4>2
      <3> QED BY <3>2, <3>3
    <2>2. (\E i \in 1..k : r[i] = m) <=> m # last /\ \E i \in 1..k + 1 : q[i] = m
      <3>1. \A i \in 1..k + 1 : i # k + 1 => i \in 1..k
        BY <1>2
      <3>3. ASSUME NEW i \in 1..k + 1, q[i] = m, m # last PROVE \E j \in 1..k : r[j] = m
        BY <1>4, <1>7, <3>1, <3>3
      <3>4. ASSUME NEW i \in 1..k, r[i] = m PROVE m # last /\ \E j \in 1..k + 1 : q[j] = m
        BY <1>4, <1>7, <3>4
      <3> QED BY <3>3, <3>4
    <2> QED BY <1>1, <1>2, <2>1, <2>2 DEF IsChain
  <1>9. first' = (IF k = 0 THEN NULL ELSE r[1]) /\ last' = (IF k = 0 THEN NULL ELSE r[k])
    BY <1>b, <1>2, <1>3, <1>4, <1>6, NullAssumption
  <1>10. ASSUME NEW i \in 1..k
         PROVE  /\ node'[r[i]].next = (IF i = k THEN NULL ELSE r[i + 1])
                /\ node'[r[i]].prev = (IF i = 1 THEN NULL ELSE r[i - 1])
    <2>1. r[i] = q[i] /\ i \in 1..k + 1 /\ i # k + 1 /\ node[q[i]] \in Cells
      BY <1>3, <1>4
    <2>2. node'[r[i]] = IF i = k THEN [node[q[i]] EXCEPT !.next = NULL] ELSE node[q[i]]
      <3>1. q[i] \in Nodes
        BY <1>3, <2>1
      <3>2. q[i] # last /\ (q[i] = node[last].prev <=> i = k)
        BY <1>7, <2>1
      <3> QED BY <1>c, <2>1, <3>1, <3>2
    <2>3. /\ node[q[i]].next = q[i + 1]
          /\ node[q[i]].prev = (IF i = 1 THEN NULL ELSE q[i - 1])
      BY <1>1, <1>2, <2>1 DEF IsChain
    <2>4. (i # k => i + 1 \in 1..k /\ r[i + 1] = q[i + 1]) /\ (i # 1 => i - 1 \in 1..k /\ r[i - 1] = q[i - 1])
      BY <1>4
    <2> QED BY <2>1, <2>2, <2>3, <2>4 DEF Cells
  <1>11. count' = k
    BY <1>a, <1>2
  <1>12. IsChain(r, count', node', first', last')
    BY <1>4, <1>5, <1>8, <1>9, <1>10, <1>11 DEF IsChain
  <1>13. ListTypes'
    <2>1. node' \in [Nodes -> Cells]
      <3>0. last \in Nodes
        BY <1>3, <1>6
      <3>1. ASSUME NEW m \in Nodes PROVE node'[m] \in Cells
        <4>1. node[m] \in Cells
          BY <1>3
        <4>2. \/ node'[m] = [node[m] EXCEPT !.item = NULL, !.prev = last]
              \/ node'[m] = [node[m] EXCEPT !.next = NULL]
              \/ node'[m] = node[m]
          BY <1>c
        <4> QED BY <3>0, <4>1, <4>2 DEF Cells
      <3> QED BY <3>1 DEF UnlinkLast
    <2>2. first' \in Nodes \cup {NULL} /\ last' \in Nodes \cup {NULL}
      BY <1>4, <1>9
    <2>3. count' \in 0..Capacity
      BY <1>2, <1>11, CapacityAssumption DEF ListOK, ListTypes
    <2> QED BY <2>1, <2>2, <2>3 DEF ListTypes
  <1>14. r = Without(q, count, count)
    BY <1>2 DEF r, Without
  <1> QED BY <1>1, <1>13, <1>12, <1>14 DEF Listed, ListedNext

LEMMA UnlinkLastKeeps ==
    ASSUME ListOK, UnlinkLast, taken' \in Items \cup {NULL}
    PROVE  ListOK'
  BY UnlinkLastChain, ChainSuffices DEF ListOK, ListedNext

LEMMA UnlinkMiddleChain ==
    ASSUME ListOK, NEW x \in Linked, UnlinkMiddle(x), taken' \in Items \cup {NULL}
    PROVE  ListTypes' /\ \E q : \E p \in 1..count : q[p] = x /\ Listed(q) /\ ListedNext(Without(q, count, p))
  <1>1. PICK q : IsChain(q, count, node, first, last)
    BY HasChain
  <1>2. PICK k \in Nat : k + 1 = count
    <2>1. count \in Nat /\ count # 0
      BY <1>1 DEF IsChain, Linked
    <2> QED BY <2>1
  <1>a. count' = count - 1 /\ first' = first /\ last' = last /\ x \in Nodes
    BY DEF UnlinkMiddle, Linked
  <1>b. node[x].prev # NULL /\ node[x].next # NULL
    BY DEF UnlinkMiddle
  <1>c. \A m \in Nodes : node'[m] =
            (IF m = x THEN [node[m] EXCEPT !.item = NULL]
             ELSE IF m = node[x].prev THEN [node[m] EXCEPT !.next = node[x].next]
             ELSE IF m = node[x].next THEN [node[m] EXCEPT !.prev = node[x].prev] ELSE node[m])
    BY DEF UnlinkMiddle
  <1>p. PICK p \in 1..k + 1 : q[p] = x
    BY <1>1, <1>2, <1>a DEF IsChain, Linked
  <1>q. p # 1 /\ p # k + 1 /\ node[x].prev = q[p - 1] /\ node[x].next = q[p + 1]
    BY <1>1, <1>2, <1>b, <1>p DEF IsChain
  <1> DEFINE at(i) == IF i < p THEN i ELSE i + 1
  <1> DEFINE r == [i \in 1..k |-> q[at(i)]]
  <1>3. node \in [Nodes -> Cells] /\ \A i \in 1..k + 1 : q[i] \in Nodes
    BY <1>1, <1>2 DEF ListOK, ListTypes, IsChain
  <1>4. \A i \in 1..k : at(i) \in 1..k + 1 /\ at(i) # p
    BY <1>2, <1>p
  <1>r. r \in [1..k -> Nodes] /\ \A i \in 1..k : r[i] = q[at(i)]
    BY <1>2, <1>3, <1>4
  <1> HIDE DEF r
  <1>5. \A i, j \in 1..k : r[i] = r[j] => i = j
    <2>1. \A i, j \in 1..k : at(i) = at(j) => i = j
      BY <1>2, <1>p
    <2>2. \A i, j \in 1..k + 1 : q[i] = q[j] => i = j
      BY <1>1, <1>2 DEF IsChain
    <2> QED BY <1>4, <1>r, <2>1, <2>2
  <1>7. \A i \in 1..k + 1 : (q[i] = x <=> i = p) /\ (q[i] = node[x].prev <=> i = p - 1) /\ (q[i] = node[x].next <=> i = p + 1)
    <2>1. \A i, j \in 1..k + 1 : q[i] = q[j] => i = j
      BY <1>1, <1>2 DEF IsChain
    <2>2. p - 1 \in 1..k + 1 /\ p + 1 \in 1..k + 1
      BY <1>2, <1>p, <1>q
    <2> QED BY <1>p, <1>q, <2>1, <2>2
  <1>8. ASSUME NEW m \in Nodes PROVE node'[m].item # NULL <=> \E i \in 1..k : r[i] = m
    <2>1. node'[m].item # NULL <=> m # x /\ node[m].item # NULL
      <3>1. node[m] \in Cells
        BY <1>3
      <3>2. CASE m = x
        <4>1. node'[m] = [node[m] EXCEPT !.item = NULL]
          BY <1>c, <3>2
        <4> QED BY <3>1, <3>2, <4>1 DEF Cells
      <3>3. CASE m # x
        <4>1. \/ node'[m] = [node[m] EXCEPT !.next = node[x].next]
              \/ node'[m] = [node[m] EXCEPT !.prev = node[x].prev]
              \/ node'[m] = node[m]
          BY <1>c, <3>3
        <4>2. node'[m].item = node[m].item
          BY <3>1, <4>1 DEF Cells
        <4> QED BY <3>3, <4>2
      <3> QED BY <3>2, <3>3
    <2>2. (\E i \in 1..k : r[i] = m) <=> m # x /\ \E i \in 1..k + 1 : q[i] = m
      <3>1. ASSUME NEW i \in 1..k + 1, i # p PROVE \E j \in 1..k : at(j) = i
        <4>1. CASE i < p
          <5>1. i \in 1..k /\ at(i) = i
            BY <1>2, <1>p, <3>1, <4>1
          <5> QED BY <5>1
        <4>2. CASE i > p
          <5>1. i - 1 \in 1..k /\ at(i - 1) = i
            BY <1>2, <1>p, <3>1, <4>2
          <5> QED BY <5>1
        <4> QED BY <1>p, <3>1, <4>1, <4>2
      <3> HIDE DEF at
      <3>3. ASSUME NEW i \in 1..k + 1, q[i] = m, m # x PROVE \E j \in 1..k : r[j] = m
        BY <1>p, <1>r, <3>1, <3>3
      <3>4. ASSUME NEW i \in 1..k, r[i] = m PROVE m # x /\ \E j \in 1..k + 1 : q[j] = m
        BY <1>4, <1>r, <1>7, <3>4
      <3> QED BY <3>3, <3>4
    <2> QED BY <1>1, <1>2, <2>1, <2>2 DEF IsChain
  <1>9. first' = (IF k = 0 THEN NULL ELSE r[1]) /\ last' = (IF k = 0 THEN NULL ELSE r[k])
    <2>1. first = q[1] /\ last = q[k + 1]
      BY <1>1, <1>2 DEF IsChain
    <2>2. k # 0 /\ 1 \in 1..k /\ k \in 1..k /\ at(1) = 1 /\ at(k) = k + 1
      BY <1>2, <1>p, <1>q
    <2> QED BY <1>a, <1>r, <2>1, <2>2
  <1>10. ASSUME NEW i \in 1..k
         PROVE  /\ node'[r[i]].next = (IF i = k THEN NULL ELSE r[i + 1])
                /\ node'[r[i]].prev = (IF i = 1 THEN NULL ELSE r[i - 1])
    <2> DEFINE j == at(i)
    <2>1. j \in 1..k + 1 /\ j # p /\ r[i] = q[j] /\ q[j] \in Nodes /\ node[q[j]] \in Cells
      BY <1>3, <1>4, <1>r
    <2>2. node'[q[j]] = IF j = p - 1 THEN [node[q[j]] EXCEPT !.next = q[p + 1]]
                        ELSE IF j = p + 1 THEN [node[q[j]] EXCEPT !.prev = q[p - 1]] ELSE node[q[j]]
      <3> HIDE DEF j
      <3>1. (q[j] = x <=> j = p) /\ (q[j] = node[x].prev <=> j = p - 1) /\ (q[j] = node[x].next <=> j = p + 1)
        BY <1>7, <2>1
      <3> QED BY <1>c, <1>q, <2>1, <3>1
    <2>3. /\ node[q[j]].next = (IF j = k + 1 THEN NULL ELSE q[j + 1])
          /\ node[q[j]].prev = (IF j = 1 THEN NULL ELSE q[j - 1])
      <3> HIDE DEF j
      <3> QED BY <1>1, <1>2, <2>1 DEF IsChain
    <2>4. /\ i # k => i + 1 \in 1..k /\ r[i + 1] = q[at(i + 1)]
          /\ i # 1 => i - 1 \in 1..k /\ r[i - 1] = q[at(i - 1)]
      BY <1>r
    <2>5. /\ i = k <=> j = k + 1
          /\ i = 1 <=> j = 1
          /\ i # k => at(i + 1) = (IF j = p - 1 THEN p + 1 ELSE j + 1)
          /\ i # 1 => at(i - 1) = (IF j = p + 1 THEN p - 1 ELSE j - 1)
      BY <1>2, <1>p, <1>q
    <2>6. p - 1 # k + 1 /\ p + 1 # 1 /\ p - 1 # p + 1
      BY <1>p
    <2>7. node'[q[j]].next = (IF j = p - 1 THEN q[p + 1] ELSE IF j = k + 1 THEN NULL ELSE q[j + 1])
      <3> HIDE DEF j
      <3> QED BY <2>1, <2>2, <2>3, <2>6 DEF Cells
    <2>8. node'[q[j]].prev = (IF j = p + 1 THEN q[p - 1] ELSE IF j = 1 THEN NULL ELSE q[j - 1])
      <3> HIDE DEF j
      <3> QED BY <2>1, <2>2, <2>3, <2>6 DEF Cells
    <2>9. p - 1 \in 1..k + 1 /\ p + 1 \in 1..k + 1 /\ (j = p - 1 => j # k + 1) /\ (j = p + 1 => j # 1)
      BY <1>2, <1>p, <1>q
    <2> HIDE DEF j, at
    <2> QED BY <2>1, <2>4, <2>5, <2>7, <2>8, <2>9
  <1>11. count' = k
    BY <1>a, <1>2
  <1>12. IsChain(r, count', node', first', last')
    BY <1>r, <1>5, <1>8, <1>9, <1>10, <1>11 DEF IsChain
  <1>13. ListTypes'
    <2>1. node' \in [Nodes -> Cells]
      <3>0. node[x].prev \in Nodes /\ node[x].next \in Nodes
        BY <1>2, <1>3, <1>p, <1>q
      <3>1. ASSUME NEW m \in Nodes PROVE node'[m] \in Cells
        <4>1. node[m] \in Cells
          BY <1>3
        <4>2. \/ node'[m] = [node[m] EXCEPT !.item = NULL]
              \/ node'[m] = [node[m] EXCEPT !.next = node[x].next]
              \/ node'[m] = [node[m] EXCEPT !.prev = node[x].prev]
              \/ node'[m] = node[m]
          BY <1>c
        <4> QED BY <3>0, <4>1, <4>2 DEF Cells
      <3> QED BY <3>1 DEF UnlinkMiddle
    <2>2. first' \in Nodes \cup {NULL} /\ last' \in Nodes \cup {NULL}
      BY <1>a DEF ListOK, ListTypes
    <2>3. count' \in 0..Capacity
      BY <1>2, <1>11, CapacityAssumption DEF ListOK, ListTypes
    <2> QED BY <2>1, <2>2, <2>3 DEF ListTypes
  <1>14. r = Without(q, count, p)
    BY <1>2 DEF r, Without
  <1> QED BY <1>1, <1>2, <1>p, <1>13, <1>12, <1>14 DEF Listed, ListedNext

LEMMA UnlinkMiddleKeeps ==
    ASSUME ListOK, NEW x \in Linked, UnlinkMiddle(x), taken' \in Items \cup {NULL}
    PROVE  ListOK'
  BY UnlinkMiddleChain, ChainSuffices DEF ListOK, ListedNext

LEMMA UnlinkKeeps ==
    ASSUME ListOK, NEW x \in Linked, Unlink(x), taken' \in Items \cup {NULL}
    PROVE  ListOK' /\ count' = count - 1
  BY UnlinkFirstKeeps, UnlinkLastKeeps, UnlinkMiddleKeeps DEF Unlink, UnlinkFirst, UnlinkLast, UnlinkMiddle

LEMMA ClearKeeps ==
    ASSUME ListOK, Clear
    PROVE  ListOK'
  <1>1. \A n \in Nodes : node'[n] = (IF n \in Linked THEN [item |-> NULL, prev |-> NULL, next |-> NULL] ELSE node[n])
    BY DEF Clear
  <1>2. \A n \in Nodes : node'[n].item = NULL
    BY <1>1 DEF Linked
  <1>3. count' = 0 /\ first' = NULL /\ last' = NULL /\ taken' = taken
    BY DEF Clear
  <1>4. ListTypes'
    <2>1. node' \in [Nodes -> Cells]
      <3>1. \A n \in Nodes : node'[n] \in Cells
        BY <1>1 DEF ListOK, ListTypes, Cells
      <3> QED BY <3>1 DEF Clear
    <2> QED BY <2>1, <1>3, CapacityAssumption DEF ListOK, ListTypes
  <1>5. IsChain([i \in {} |-> NULL], count', node', first', last')
    <2>1. 1..0 = {}
      OBVIOUS
    <2> QED BY <2>1, <1>2, <1>3 DEF IsChain
  <1> QED BY <1>4, <1>5, ChainSuffices DEF ListOK

-----------------------------------------------------------------------------
(* Wakeups.                                                                *)

ToldIn(calls, c) == {t \in Threads : calls[t].at = c /\ calls[t].wake = "signal"}

\* If a thread waits at condition c, at least k others are on their way.
Owed(calls, c, k) == Waiting(calls, c) # {} => Cardinality(ToldIn(calls, c)) >= k

LEMMA ToldFinite ==
    ASSUME NEW calls, NEW c
    PROVE  /\ ToldIn(calls, c) \subseteq Threads /\ IsFiniteSet(ToldIn(calls, c))
           /\ Cardinality(ToldIn(calls, c)) \in Nat
  <1>1. ToldIn(calls, c) \subseteq Threads
    BY DEF ToldIn
  <1> QED BY <1>1, ThreadsAssumption, FS_Subset, FS_CardinalityType

LEMMA NothingOwed ==
    ASSUME NEW calls, NEW c, NEW k \in Int, k <= 0
    PROVE  Owed(calls, c, k)
  BY ToldFinite DEF Owed

LEMMA LessOwed ==
    ASSUME NEW calls, NEW c, NEW k \in Int, NEW j \in Int, j <= k, Owed(calls, c, k)
    PROVE  Owed(calls, c, j)
  BY ToldFinite DEF Owed

LEMMA OwedSame ==
    ASSUME NEW calls, NEW o, NEW c, NEW k \in Int, Owed(calls, c, k),
           Waiting(o, c) \subseteq Waiting(calls, c), ToldIn(calls, c) \subseteq ToldIn(o, c)
    PROVE  Owed(o, c, k)
  <1>1. Cardinality(ToldIn(calls, c)) <= Cardinality(ToldIn(o, c))
    BY ToldFinite, FS_Subset
  <1> QED BY <1>1, ToldFinite DEF Owed

\* One thread that was told leaves.
LEMMA OwedOneLess ==
    ASSUME NEW calls, NEW o, NEW c, NEW k \in Int, NEW t \in Threads, Owed(calls, c, k),
           Waiting(o, c) \subseteq Waiting(calls, c), ToldIn(calls, c) \subseteq ToldIn(o, c) \cup {t}
    PROVE  Owed(o, c, k - 1)
  <1>1. IsFiniteSet(ToldIn(o, c) \cup {t}) /\ Cardinality(ToldIn(o, c) \cup {t}) <= Cardinality(ToldIn(o, c)) + 1
    <2> DEFINE S == ToldIn(o, c)
    <2>1. IsFiniteSet(S) /\ Cardinality(S) \in Nat
      BY ToldFinite
    <2> HIDE DEF S
    <2>2. IsFiniteSet(S \cup {t}) /\ Cardinality(S \cup {t}) = IF t \in S THEN Cardinality(S) ELSE Cardinality(S) + 1
      BY <2>1, FS_AddElement
    <2>3. Cardinality(S \cup {t}) <= Cardinality(S) + 1
      BY <2>1, <2>2
    <2> QED BY <2>2, <2>3 DEF S
  <1>2. Cardinality(ToldIn(calls, c)) <= Cardinality(ToldIn(o, c) \cup {t})
    BY <1>1, FS_Subset
  <1>3. Cardinality(ToldIn(calls, c)) <= Cardinality(ToldIn(o, c)) + 1
    BY <1>1, <1>2, ToldFinite, FS_CardinalityType
  <1> QED BY <1>3, ToldFinite DEF Owed

LEMMA SignalTells ==
    ASSUME NEW calls \in [Threads -> Calls], NEW c, NEW o \in Signalled(calls, c), NEW k \in Int, Owed(calls, c, k)
    PROVE  /\ o \in [Threads -> Calls]
           /\ Owed(o, c, k + 1)
  <1>1. CASE Waiting(calls, c) = {}
    BY <1>1 DEF Signalled, Owed
  <1>2. CASE Waiting(calls, c) # {}
    <2>1. PICK t \in Waiting(calls, c) : o = [calls EXCEPT ![t].wake = "signal"]
      BY <1>2 DEF Signalled
    <2>2. t \in Threads /\ calls[t] \in Calls /\ calls[t].at = c /\ calls[t].wake = "no"
      BY <2>1 DEF Waiting
    <2>3. o \in [Threads -> Calls]
      BY <2>1, <2>2 DEF Calls
    <2>4. o[t].at = c /\ o[t].wake = "signal" /\ \A u \in Threads : u # t => o[u] = calls[u]
      BY <2>1, <2>2 DEF Calls
    <2>5. ToldIn(o, c) = ToldIn(calls, c) \cup {t} /\ t \notin ToldIn(calls, c)
      BY <2>2, <2>4 DEF ToldIn
    <2>6. Cardinality(ToldIn(o, c)) = Cardinality(ToldIn(calls, c)) + 1
      BY <2>5, ToldFinite, FS_AddElement
    <2> QED BY <1>2, <2>3, <2>6, ToldFinite DEF Owed
  <1> QED BY <1>1, <1>2

\* The threads at the other condition do not notice.
LEMMA SignalSpares ==
    ASSUME NEW calls \in [Threads -> Calls], NEW c, NEW o \in Signalled(calls, c), NEW d, d # c,
           NEW k \in Int, Owed(calls, d, k)
    PROVE  Owed(o, d, k)
  <1>1. CASE Waiting(calls, c) = {}
    BY <1>1 DEF Signalled
  <1>2. CASE Waiting(calls, c) # {}
    <2>1. PICK t \in Waiting(calls, c) : o = [calls EXCEPT ![t].wake = "signal"]
      BY <1>2 DEF Signalled
    <2>2. t \in Threads /\ calls[t] \in Calls /\ calls[t].at = c
      BY <2>1 DEF Waiting
    <2>4. o[t].at = c /\ \A u \in Threads : u # t => o[u] = calls[u]
      BY <2>1, <2>2 DEF Calls
    <2>5. ToldIn(o, d) = ToldIn(calls, d) /\ Waiting(o, d) = Waiting(calls, d)
      BY <2>2, <2>4 DEF ToldIn, Waiting
    <2> QED BY <2>5 DEF Owed
  <1> QED BY <1>1, <1>2

Wakeups(calls, elements) == Owed(calls, "notEmpty", elements) /\ Owed(calls, "notFull", Capacity - elements)

LEMMA WakeupsAre == NoLostWakeup <=> Wakeups(op, count)
  BY DEF NoLostWakeup, Wakeups, Owed, Told, ToldIn

LEMMA InsertTells ==
    ASSUME ListOK, NEW end, NEW e \in Items, NEW calls \in [Threads -> Calls], count < Capacity,
           Insert(end, e, calls), taken' = taken,
           Owed(calls, "notEmpty", count), Owed(calls, "notFull", Capacity - count - 1)
    PROVE  ListOK' /\ CallTypes' /\ Wakeups(op', count')
  <1>0. count \in Int /\ Capacity \in Int
    BY EmptyOrNot
  <1>1. ListOK' /\ count' = count + 1
    <2>1. PICK n \in Fresh : IF end = "first" THEN LinkFirst(n, e) ELSE LinkLast(n, e)
      BY DEF Insert, Link
    <2>2. n \in Nodes /\ node[n].item = NULL
      BY DEF Fresh
    <2> QED BY <2>1, <2>2, LinkFirstKeeps, LinkLastKeeps DEF LinkFirst, LinkLast
  <1>2. op' \in Signalled(calls, "notEmpty")
    BY DEF Insert
  <1>3. op' \in [Threads -> Calls] /\ Owed(op', "notEmpty", count + 1)
    BY <1>0, <1>2, SignalTells
  <1>4. Owed(op', "notFull", Capacity - count - 1)
    BY <1>0, <1>2, SignalSpares
  <1>5. Capacity - count - 1 = Capacity - (count + 1)
    BY <1>0
  <1> QED BY <1>1, <1>3, <1>4, <1>5 DEF Wakeups, CallTypes

\* Removing one element, whichever it is.
LEMMA RemovalTells ==
    ASSUME ListOK, NEW calls \in [Threads -> Calls], op' \in Signalled(calls, "notFull"), count' = count - 1,
           Owed(calls, "notEmpty", count - 1), Owed(calls, "notFull", Capacity - count)
    PROVE  CallTypes' /\ Wakeups(op', count')
  <1>0. count \in Int /\ Capacity \in Int
    BY EmptyOrNot
  <1>1. op' \in [Threads -> Calls] /\ Owed(op', "notFull", Capacity - count + 1)
    BY <1>0, SignalTells
  <1>2. Owed(op', "notEmpty", count - 1)
    BY <1>0, SignalSpares
  <1>3. Capacity - count + 1 = Capacity - (count - 1)
    BY <1>0
  <1> QED BY <1>1, <1>2, <1>3 DEF Wakeups, CallTypes

LEMMA TakeTells ==
    ASSUME ListOK, NEW end, NEW calls \in [Threads -> Calls], Take(end, calls),
           Owed(calls, "notEmpty", count - 1), Owed(calls, "notFull", Capacity - count)
    PROVE  ListOK' /\ CallTypes' /\ Wakeups(op', count')
  <1>1. node \in [Nodes -> Cells] /\ first \in Nodes \cup {NULL} /\ last \in Nodes \cup {NULL}
    BY DEF ListOK, ListTypes
  <1>2. CASE end = "first"
    <2>1. UnlinkFirst /\ taken' = node[first].item
      BY <1>2 DEF Take
    <2>2. first \in Nodes /\ taken' \in Items \cup {NULL}
      BY <1>1, <2>1 DEF UnlinkFirst, Cells
    <2>3. count' = count - 1 /\ op' \in Signalled(calls, "notFull")
      BY <2>1 DEF UnlinkFirst, Take
    <2> QED BY <2>1, <2>2, <2>3, UnlinkFirstKeeps, RemovalTells
  <1>3. CASE end # "first"
    <2>1. UnlinkLast /\ taken' = node[last].item
      BY <1>3 DEF Take
    <2>2. last \in Nodes /\ taken' \in Items \cup {NULL}
      BY <1>1, <2>1 DEF UnlinkLast, Cells
    <2>3. count' = count - 1 /\ op' \in Signalled(calls, "notFull")
      BY <2>1 DEF UnlinkLast, Take
    <2> QED BY <2>1, <2>2, <2>3, UnlinkLastKeeps, RemovalTells
  <1> QED BY <1>2, <1>3

LEMMA RemoveTells ==
    ASSUME IInv, NEW x \in Linked, Remove(x)
    PROVE  ListOK' /\ CallTypes' /\ Wakeups(op', count')
  <1>0. count \in Int /\ Capacity \in Int /\ op \in [Threads -> Calls] /\ taken \in Items \cup {NULL}
    BY EmptyOrNot DEF IInv, CallTypes, ListOK, ListTypes
  <1>1. ListOK' /\ count' = count - 1
    BY <1>0, UnlinkKeeps DEF Remove, IInv
  <1>2. Owed(op, "notEmpty", count) /\ Owed(op, "notFull", Capacity - count)
    BY WakeupsAre DEF IInv, Wakeups
  <1>3. Owed(op, "notEmpty", count - 1)
    BY <1>0, <1>2, LessOwed
  <1> QED BY <1>0, <1>1, <1>2, <1>3, RemovalTells DEF Remove, IInv

\* A step that leaves the list alone and changes the call of one thread.
LEMMA OneCallChanges ==
    ASSUME IInv, UNCHANGED list, UNCHANGED taken, NEW t \in Threads, NEW c \in Calls, op' = [op EXCEPT ![t] = c],
           c.at = "notEmpty" /\ c.wake = "no" => count <= 0 \/ t \in Waiting(op, "notEmpty"),
           c.at = "notFull" /\ c.wake = "no" => Capacity - count <= 0 \/ t \in Waiting(op, "notFull"),
           t \in ToldIn(op, "notEmpty") => count <= 0,
           t \in ToldIn(op, "notFull") => Capacity - count <= 0
    PROVE  ListOK' /\ CallTypes' /\ Wakeups(op', count')
  <1>0. /\ count \in Int /\ Capacity \in Int /\ op \in [Threads -> Calls]
        /\ op'[t] = c /\ \A u \in Threads : u # t => op'[u] = op[u]
    BY EmptyOrNot DEF IInv, CallTypes
  <1>1. ListOK' /\ CallTypes' /\ count' = count
    <2>1. node' = node /\ first' = first /\ last' = last /\ count' = count /\ taken' = taken
      BY DEF list
    <2>2. ListTypes' /\ CallTypes'
      BY <1>0, <2>1 DEF IInv, ListOK, ListTypes, CallTypes
    <2>3. PICK q : IsChain(q, count, node, first, last)
      BY HasChain DEF IInv
    <2>4. IsChain(q, count', node', first', last')
      BY <2>1, <2>3
    <2> QED BY <2>1, <2>2, <2>4, ChainSuffices DEF ListOK
  <1>2. Owed(op, "notEmpty", count) /\ Owed(op, "notFull", Capacity - count)
    BY WakeupsAre DEF IInv, Wakeups
  <1>3. Owed(op', "notEmpty", count)
    <2>1. CASE count <= 0
      BY <1>0, <2>1, NothingOwed
    <2>2. CASE ~(count <= 0)
      <3>1. Waiting(op', "notEmpty") \subseteq Waiting(op, "notEmpty")
        BY <1>0, <2>2 DEF Waiting
      <3>2. ToldIn(op, "notEmpty") \subseteq ToldIn(op', "notEmpty")
        BY <1>0, <2>2 DEF ToldIn
      <3> QED BY <1>0, <1>2, <3>1, <3>2, OwedSame
    <2> QED BY <2>1, <2>2
  <1>4. Owed(op', "notFull", Capacity - count)
    <2>1. CASE Capacity - count <= 0
      BY <1>0, <2>1, NothingOwed
    <2>2. CASE ~(Capacity - count <= 0)
      <3>1. Waiting(op', "notFull") \subseteq Waiting(op, "notFull")
        BY <1>0, <2>2 DEF Waiting
      <3>2. ToldIn(op, "notFull") \subseteq ToldIn(op', "notFull")
        BY <1>0, <2>2 DEF ToldIn
      <3>3. Capacity - count \in Int
        BY <1>0
      <3> QED BY <1>2, <3>1, <3>2, <3>3, OwedSame
    <2> QED BY <2>1, <2>2
  <1> QED BY <1>1, <1>3, <1>4 DEF Wakeups

\* A thread that returns from a wait for an element, or for room, leaves one
\* wakeup less at that condition.
LEMMA ReturnTells ==
    ASSUME IInv, NEW t \in Threads, NEW c \in {"notEmpty", "notFull"}, op[t].at = c
    PROVE  /\ Returned(t) \in [Threads -> Calls]
           /\ Owed(Returned(t), "notEmpty", IF c = "notEmpty" THEN count - 1 ELSE count)
           /\ Owed(Returned(t), "notFull", IF c = "notFull" THEN Capacity - count - 1 ELSE Capacity - count)
  <1>0. /\ count \in Int /\ Capacity \in Int /\ op \in [Threads -> Calls]
        /\ Owed(op, "notEmpty", count) /\ Owed(op, "notFull", Capacity - count)
    BY EmptyOrNot, WakeupsAre DEF IInv, CallTypes, Wakeups
  <1>1. IDLE \in Calls
    BY DEF IDLE, Calls
  <1> DEFINE o == Returned(t)
  <1>2. o \in [Threads -> Calls] /\ o[t] = IDLE /\ \A u \in Threads : u # t => o[u] = op[u]
    BY <1>0, <1>1 DEF Returned
  <1> HIDE DEF o
  <1>3. ASSUME NEW d \in {"notEmpty", "notFull"}
        PROVE  /\ Waiting(o, d) \subseteq Waiting(op, d)
               /\ ToldIn(op, d) \subseteq ToldIn(o, d) \cup {t}
               /\ d # c => ToldIn(op, d) \subseteq ToldIn(o, d)
    BY <1>2 DEF Waiting, ToldIn, IDLE
  <1>4. Owed(o, "notEmpty", IF c = "notEmpty" THEN count - 1 ELSE count)
    BY <1>0, <1>3, OwedSame, OwedOneLess
  <1>5. Owed(o, "notFull", IF c = "notFull" THEN Capacity - count - 1 ELSE Capacity - count)
    BY <1>0, <1>3, OwedSame, OwedOneLess
  <1> QED BY <1>2, <1>4, <1>5 DEF o

LEMMA ResumeKeeps ==
    ASSUME IInv, NEW t \in Threads, Resume(t)
    PROVE  ListOK' /\ CallTypes' /\ Wakeups(op', count')
  <1>0. /\ count \in 0..Capacity /\ Capacity \in Nat /\ op \in [Threads -> Calls] /\ op[t] \in Calls
        /\ first = NULL <=> count = 0
        /\ op[t].at \in {"notEmpty", "notFull"} /\ op[t].wake # "no"
        /\ Owed(op, "notEmpty", count) /\ Owed(op, "notFull", Capacity - count)
    BY EmptyOrNot, WakeupsAre DEF IInv, CallTypes, Wakeups, Resume, Awake
  <1>1. CASE ResumeTaking(t)
    <2>1. op[t].at = "notEmpty" /\ Take(op[t].end, Returned(t))
      BY <1>1 DEF ResumeTaking
    <2>2. Returned(t) \in [Threads -> Calls] /\ Owed(Returned(t), "notEmpty", count - 1)
          /\ Owed(Returned(t), "notFull", Capacity - count)
      BY <2>1, ReturnTells
    <2> QED BY <2>1, <2>2, TakeTells DEF IInv
  <1>2. CASE ResumeInserting(t)
    <2>1. op[t].at = "notFull" /\ count < Capacity /\ Insert(op[t].end, op[t].item, Returned(t)) /\ taken' = taken
      BY <1>2 DEF ResumeInserting
    <2>2. Returned(t) \in [Threads -> Calls] /\ Owed(Returned(t), "notEmpty", count)
          /\ Owed(Returned(t), "notFull", Capacity - count - 1)
      BY <2>1, ReturnTells
    <2>3. op[t].item \in Items
      BY <1>0, <2>1 DEF Calls
    <2> QED BY <2>1, <2>2, <2>3, InsertTells DEF IInv
  <1>3. CASE ResumeInVain(t)
    <2>1. UNCHANGED list /\ UNCHANGED taken
      BY <1>3 DEF ResumeInVain
    <2>2. IF op[t].at = "notEmpty" THEN count = 0 ELSE count = Capacity
      BY <1>0, <1>3 DEF ResumeInVain
    <2>3. PICK c \in Calls : op' = [op EXCEPT ![t] = c] /\ (c.at = op[t].at \/ c = IDLE)
      <3>1. CASE op' = [op EXCEPT ![t].wake = "no"]
        <4>1. [op[t] EXCEPT !.wake = "no"] \in Calls /\ [op[t] EXCEPT !.wake = "no"].at = op[t].at
          BY <1>0 DEF Calls
        <4>2. op' = [op EXCEPT ![t] = [op[t] EXCEPT !.wake = "no"]]
          BY <3>1
        <4> QED BY <4>1, <4>2
      <3>2. CASE op' = Returned(t)
        BY <3>2 DEF Returned, IDLE, Calls
      <3> QED BY <1>3, <3>1, <3>2 DEF ResumeInVain
    <2>4. IDLE.at # "notEmpty" /\ IDLE.at # "notFull"
      BY DEF IDLE
    <2>5. /\ c.at = "notEmpty" \/ t \in ToldIn(op, "notEmpty") => count <= 0
          /\ c.at = "notFull" \/ t \in ToldIn(op, "notFull") => Capacity - count <= 0
      <3>1. op[t].at = "notEmpty" \/ c.at = "notEmpty" => count <= 0
        BY <2>2, <2>3, <2>4
      <3>2. op[t].at = "notFull" \/ c.at = "notFull" => Capacity - count <= 0
        BY <1>0, <2>2, <2>3, <2>4
      <3> QED BY <3>1, <3>2 DEF ToldIn
    <2> QED BY <2>1, <2>3, <2>5, OneCallChanges
  <1> QED BY <1>1, <1>2, <1>3 DEF Resume

LEMMA Unchanged ==
    ASSUME IInv, UNCHANGED list, UNCHANGED taken, UNCHANGED op
    PROVE  ListOK' /\ CallTypes' /\ Wakeups(op', count')
  <1>1. node' = node /\ first' = first /\ last' = last /\ count' = count /\ taken' = taken /\ op' = op
    BY DEF list
  <1>2. ListTypes' /\ CallTypes'
    BY <1>1 DEF IInv, ListOK, ListTypes, CallTypes
  <1>3. PICK q : IsChain(q, count, node, first, last)
    BY HasChain DEF IInv
  <1>4. IsChain(q, count', node', first', last')
    BY <1>1, <1>3
  <1>5. Wakeups(op', count')
    BY <1>1, WakeupsAre DEF IInv
  <1> QED BY <1>2, <1>4, <1>5, ChainSuffices DEF ListOK

LEMMA WaitKeeps ==
    ASSUME IInv, NEW t \in Threads, op[t] = IDLE, UNCHANGED list, UNCHANGED taken,
           NEW c \in Calls, op' = [op EXCEPT ![t] = c],
           c.at = "notEmpty" => count = 0, c.at = "notFull" => count >= Capacity
    PROVE  ListOK' /\ CallTypes' /\ Wakeups(op', count')
  <1>1. count \in 0..Capacity /\ Capacity \in Nat
    BY EmptyOrNot DEF IInv
  <1>2. t \notin ToldIn(op, "notEmpty") /\ t \notin ToldIn(op, "notFull")
    BY DEF ToldIn, IDLE
  <1>3. (c.at = "notEmpty" => count <= 0) /\ (c.at = "notFull" => Capacity - count <= 0)
    BY <1>1
  <1> QED BY <1>2, <1>3, OneCallChanges

LEMMA OfferKeeps ==
    ASSUME IInv, NEW t \in Threads, NEW end \in Ends, NEW e \in Items, Offer(t, end, e)
    PROVE  ListOK' /\ CallTypes' /\ Wakeups(op', count')
  <1>1. /\ count \in Int /\ Capacity \in Int /\ op \in [Threads -> Calls]
        /\ Owed(op, "notEmpty", count) /\ Owed(op, "notFull", Capacity - count)
    BY EmptyOrNot, WakeupsAre DEF IInv, CallTypes, Wakeups
  <1>2. Owed(op, "notFull", Capacity - count - 1)
    BY <1>1, LessOwed
  <1>3. count < Capacity /\ Insert(end, e, op) /\ taken' = taken
    BY DEF Offer
  <1> QED BY <1>1, <1>2, <1>3, InsertTells DEF IInv

LEMMA PollKeeps ==
    ASSUME IInv, NEW t \in Threads, NEW end \in Ends, Poll(t, end)
    PROVE  ListOK' /\ CallTypes' /\ Wakeups(op', count')
  <1>1. /\ count \in Int /\ Capacity \in Int /\ op \in [Threads -> Calls]
        /\ Owed(op, "notEmpty", count) /\ Owed(op, "notFull", Capacity - count)
    BY EmptyOrNot, WakeupsAre DEF IInv, CallTypes, Wakeups
  <1>2. Owed(op, "notEmpty", count - 1)
    BY <1>1, LessOwed
  <1>3. Take(end, op)
    BY DEF Poll
  <1> QED BY <1>1, <1>2, <1>3, TakeTells DEF IInv

LEMMA ClearTells ==
    ASSUME IInv, Clear
    PROVE  ListOK' /\ CallTypes' /\ Wakeups(op', count')
  <1>1. op \in [Threads -> Calls] /\ op' = SignalledAll(op, "notFull") /\ count' = 0
    BY DEF IInv, CallTypes, Clear
  <1>2. CallTypes'
    <2>1. ASSUME NEW t \in Threads PROVE op'[t] \in Calls
      BY <1>1 DEF SignalledAll, Calls
    <2> QED BY <1>1, <2>1 DEF CallTypes, SignalledAll
  <1>3. Owed(op', "notEmpty", count')
    BY <1>1, NothingOwed
  <1>4. Waiting(op', "notFull") = {}
    BY <1>1 DEF SignalledAll, Waiting, Calls
  <1> QED BY <1>2, <1>3, <1>4, ClearKeeps DEF IInv, Wakeups, Owed

LEMMA DrainOneKeeps ==
    ASSUME IInv, NEW t \in Threads, DrainOne(t)
    PROVE  ListOK' /\ CallTypes' /\ Wakeups(op', count')
  <1> DEFINE calls == [op EXCEPT ![t].left = @ - 1]
  <1>1. /\ count \in Int /\ Capacity \in Int /\ op \in [Threads -> Calls] /\ op[t] \in Calls
        /\ Owed(op, "notEmpty", count) /\ Owed(op, "notFull", Capacity - count)
    BY EmptyOrNot, WakeupsAre DEF IInv, CallTypes, Wakeups
  <1>2. op[t].at = "drain" /\ op[t].left > 0 /\ taken' = node[first].item /\ UnlinkFirst
        /\ op' \in Signalled(calls, "notFull")
    BY DEF DrainOne
  <1>3. calls \in [Threads -> Calls] /\ calls[t].at = "drain" /\ \A u \in Threads : u # t => calls[u] = op[u]
    <2>1. [op[t] EXCEPT !.left = @ - 1] \in Calls /\ [op[t] EXCEPT !.left = @ - 1].at = "drain"
      BY <1>1, <1>2 DEF Calls
    <2>2. calls = [op EXCEPT ![t] = [op[t] EXCEPT !.left = @ - 1]]
      OBVIOUS
    <2> QED BY <1>1, <2>1, <2>2
  <1> HIDE DEF calls
  <1>4. ASSUME NEW c \in {"notEmpty", "notFull"}
        PROVE  Waiting(calls, c) = Waiting(op, c) /\ ToldIn(calls, c) = ToldIn(op, c)
    BY <1>2, <1>3 DEF Waiting, ToldIn
  <1>5. Owed(calls, "notEmpty", count) /\ Owed(calls, "notFull", Capacity - count)
    BY <1>1, <1>4 DEF Owed
  <1>6. Owed(calls, "notEmpty", count - 1)
    BY <1>1, <1>5, LessOwed
  <1>7. Take("first", calls)
    BY <1>2 DEF Take
  <1> QED BY <1>3, <1>5, <1>6, <1>7, TakeTells DEF IInv

LEMMA NextKeeps ==
    ASSUME IInv, Next
    PROVE  ListOK' /\ CallTypes' /\ Wakeups(op', count')
  <1>0. /\ count \in 0..Capacity /\ Capacity \in Nat /\ op \in [Threads -> Calls]
        /\ first = NULL <=> count = 0
    BY EmptyOrNot DEF IInv, CallTypes
  <1>1. ASSUME NEW t \in Threads, NEW end \in Ends, NEW e \in Items, Offer(t, end, e)
        PROVE  ListOK' /\ CallTypes' /\ Wakeups(op', count')
    BY <1>1, OfferKeeps
  <1>2. ASSUME NEW t \in Threads, NEW end \in Ends, NEW e \in Items, NEW timed \in Waits, AwaitRoom(t, end, e, timed)
        PROVE  ListOK' /\ CallTypes' /\ Wakeups(op', count')
    <2> DEFINE c == [IDLE EXCEPT !.at = "notFull", !.end = end, !.item = e, !.timed = timed]
    <2>1. c \in Calls /\ c.at = "notFull"
      BY CapacityAssumption, NullAssumption DEF IDLE, Calls
    <2>2. op[t] = IDLE /\ op' = [op EXCEPT ![t] = c] /\ count >= Capacity /\ UNCHANGED list /\ UNCHANGED taken
      BY <1>2 DEF AwaitRoom
    <2> HIDE DEF c
    <2> QED BY <2>1, <2>2, WaitKeeps
  <1>3. ASSUME NEW t \in Threads, NEW end \in Ends, Poll(t, end)
        PROVE  ListOK' /\ CallTypes' /\ Wakeups(op', count')
    BY <1>3, PollKeeps
  <1>4. ASSUME NEW t \in Threads, NEW end \in Ends, NEW timed \in Waits, AwaitElement(t, end, timed)
        PROVE  ListOK' /\ CallTypes' /\ Wakeups(op', count')
    <2> DEFINE c == [IDLE EXCEPT !.at = "notEmpty", !.end = end, !.timed = timed]
    <2>1. c \in Calls /\ c.at = "notEmpty"
      BY CapacityAssumption DEF IDLE, Calls
    <2>2. op[t] = IDLE /\ op' = [op EXCEPT ![t] = c] /\ count = 0 /\ UNCHANGED list /\ UNCHANGED taken
      BY <1>0, <1>4 DEF AwaitElement
    <2> HIDE DEF c
    <2> QED BY <2>1, <2>2, WaitKeeps
  <1>5. ASSUME NEW t \in Threads, DrainTo(t)
        PROVE  ListOK' /\ CallTypes' /\ Wakeups(op', count')
    <2>1. PICK n \in 1..count : op' = [op EXCEPT ![t] = [IDLE EXCEPT !.at = "drain", !.left = n]]
      BY <1>5 DEF DrainTo
    <2>n. n \in Nat
      BY <1>0, <2>1
    <2>2. [IDLE EXCEPT !.at = "drain", !.left = n] \in Calls /\ [IDLE EXCEPT !.at = "drain", !.left = n].at = "drain"
      BY <2>n DEF IDLE, Calls
    <2>3. op[t] = IDLE /\ UNCHANGED list /\ UNCHANGED taken
      BY <1>5 DEF DrainTo
    <2> QED BY <2>1, <2>2, <2>3, WaitKeeps
  <1>6. ASSUME NEW t \in Threads, Resume(t)
        PROVE  ListOK' /\ CallTypes' /\ Wakeups(op', count')
    BY <1>6, ResumeKeeps
  <1>7. ASSUME NEW t \in Threads, DrainOne(t)
        PROVE  ListOK' /\ CallTypes' /\ Wakeups(op', count')
    BY <1>7, DrainOneKeeps
  <1>8. IDLE \in Calls /\ IDLE.at = "idle"
    BY DEF IDLE, Calls
  <1>9. ASSUME NEW t \in Threads, EndDrain(t)
        PROVE  ListOK' /\ CallTypes' /\ Wakeups(op', count')
    <2>1. op[t].at = "drain" /\ op' = [op EXCEPT ![t] = IDLE] /\ UNCHANGED list /\ UNCHANGED taken
      BY <1>9 DEF EndDrain, Returned
    <2>2. t \notin ToldIn(op, "notEmpty") /\ t \notin ToldIn(op, "notFull")
      BY <2>1 DEF ToldIn
    <2> QED BY <1>8, <2>1, <2>2, OneCallChanges
  <1>10. ASSUME NEW t \in Threads, Timeout(t)
         PROVE  ListOK' /\ CallTypes' /\ Wakeups(op', count')
    <2> DEFINE c == [op[t] EXCEPT !.wake = "timeout"]
    <2>1. op[t] \in Calls /\ op[t].wake = "no"
      BY <1>0, <1>10 DEF Timeout
    <2>2. c \in Calls /\ c.wake = "timeout"
      BY <2>1 DEF Calls
    <2>3. op' = [op EXCEPT ![t] = c] /\ UNCHANGED list /\ UNCHANGED taken
      BY <1>10 DEF Timeout
    <2>4. t \notin ToldIn(op, "notEmpty") /\ t \notin ToldIn(op, "notFull")
      BY <2>1 DEF ToldIn
    <2> HIDE DEF c
    <2> QED BY <2>2, <2>3, <2>4, OneCallChanges
  <1>11. ASSUME NEW t \in Threads, Interrupt(t)
         PROVE  ListOK' /\ CallTypes' /\ Wakeups(op', count')
    <2>1. op[t].wake = "no" /\ op' = [op EXCEPT ![t] = IDLE] /\ UNCHANGED list /\ UNCHANGED taken
      BY <1>11 DEF Interrupt, Returned
    <2>2. t \notin ToldIn(op, "notEmpty") /\ t \notin ToldIn(op, "notFull")
      BY <2>1 DEF ToldIn
    <2> QED BY <1>8, <2>1, <2>2, OneCallChanges
  <1>12. ASSUME NEW end \in Ends, NEW o \in Items, RemoveOccurrence(end, o)
         PROVE  ListOK' /\ CallTypes' /\ Wakeups(op', count')
    <2>1. PICK x \in Nodes : node[x].item = o /\ Remove(x)
      BY <1>12 DEF RemoveOccurrence
    <2>2. x \in Linked
      BY <2>1, NullAssumption DEF Linked
    <2> QED BY <2>1, <2>2, RemoveTells
  <1>13. CASE Clear
    BY <1>13, ClearTells
  <1>14. ASSUME UNCHANGED list, UNCHANGED taken, UNCHANGED op
         PROVE  ListOK' /\ CallTypes' /\ Wakeups(op', count')
    BY <1>14, Unchanged
  <1>15. ASSUME NEW i \in Iterators, IteratorRemoves(i)
         PROVE  ListOK' /\ CallTypes' /\ Wakeups(op', count')
    <2>1. CASE it[i].lastRet \in Linked
      BY <1>15, <2>1, RemoveTells DEF IteratorRemoves
    <2>2. CASE it[i].lastRet \notin Linked
      BY <1>14, <1>15, <2>2 DEF IteratorRemoves
    <2> QED BY <2>1, <2>2
  <1>16. ASSUME NEW i \in Iterators, NEW dir \in {"ascending", "descending"}, Iterate(i, dir)
         PROVE  ListOK' /\ CallTypes' /\ Wakeups(op', count')
    BY <1>14, <1>16 DEF Iterate
  <1>17. ASSUME NEW i \in Iterators, Advance(i) \/ Forget(i)
         PROVE  ListOK' /\ CallTypes' /\ Wakeups(op', count')
    BY <1>14, <1>17 DEF Advance, Forget
  <1> QED BY <1>1, <1>2, <1>3, <1>4, <1>5, <1>6, <1>7, <1>9, <1>10, <1>11, <1>12, <1>13, <1>15, <1>16, <1>17
          DEF Next, Call, GoOn

-----------------------------------------------------------------------------
LEMMA InitiallyOK == Init => IInv
  <1> SUFFICES ASSUME Init PROVE IInv
    OBVIOUS
  <1>1. Linked = {} /\ count = 0 /\ first = NULL /\ last = NULL
    BY DEF Init, Linked
  <1>2. ListTypes
    BY CapacityAssumption DEF Init, ListTypes, Cells
  <1>3. LinksExact
    <2>1. 1..0 = {}
      OBVIOUS
    <2>2. Chain([i \in 1..count |-> NULL]) /\ [i \in 1..count |-> NULL] \in [1..count -> Linked]
      BY <1>1, <2>1 DEF Chain
    <2> QED BY <2>2 DEF LinksExact
  <1>4. CallTypes
    BY DEF Init, CallTypes, Calls, IDLE
  <1>5. Waiting(op, "notEmpty") = {} /\ Waiting(op, "notFull") = {}
    BY DEF Init, Waiting, IDLE
  <1> QED BY <1>2, <1>3, <1>4, <1>5 DEF IInv, ListOK, NoLostWakeup

LEMMA Inductive == IInv /\ [Next]_vars => IInv'
  <1> SUFFICES ASSUME IInv, [Next]_vars PROVE IInv'
    OBVIOUS
  <1>1. ListOK' /\ CallTypes' /\ Wakeups(op', count')
    BY NextKeeps, Unchanged DEF vars
  <1>2. NoLostWakeup' <=> Wakeups(op', count')
    BY DEF NoLostWakeup, Wakeups, Owed, Told, ToldIn, Waiting
  <1> QED BY <1>1, <1>2 DEF IInv

\* Threads, capacity and calls may be any: the links of the list are those of
\* one chain in both directions, whatever is removed from its middle.
THEOREM ListStaysOneChain == Spec => []LinksExact
  <1>1. IInv => LinksExact
    BY DEF IInv, ListOK
  <1> QED BY <1>1, InitiallyOK, Inductive, PTL DEF Spec

\* However signals, timeouts and interrupts meet, a thread that waits beside
\* elements (or beside room) has enough others before it that were woken.
THEOREM WakeupsSuffice == Spec => []NoLostWakeup
  <1>1. IInv => NoLostWakeup
    BY DEF IInv
  <1> QED BY <1>1, InitiallyOK, Inductive, PTL DEF Spec

-----------------------------------------------------------------------------
(* The sequence of BlockingDeque.                                          *)

\* A set of naturals has a least one, which is what makes induction work.
LEMMA LeastNatural ==
    ASSUME NEW S \in SUBSET Nat, S # {}
    PROVE  \E x \in S : \A y \in S : x <= y
<1>1. PICK n \in S : TRUE  OBVIOUS
<1> DEFINE All == 0..n
           R == StrictSubsetOrdering(All)
           T == {0..m : m \in {k \in S : k <= n}}
<1>2. IsFiniteSet(All)  BY FS_Interval
<1>3. IsWellFoundedOn(R, SUBSET All)
  <2> HIDE DEF All
  <2> QED BY <1>2, FS_StrictSubsetOrderingWellFounded, FS_FiniteSubsetsOfFinite
<1>4. T \subseteq SUBSET All  BY SMT
<1>5. 0..n \in T  BY <1>1
<1>6. PICK x \in T : \A y \in T : ~ (<<y, x>> \in R)
  <2>1. T # {}  BY <1>5
  <2> HIDE DEF T, R, All
  <2> QED BY <2>1, <1>3, <1>4, WFMin
<1>7. PICK m \in S : m <= n /\ x = 0..m  OBVIOUS
<1>8. ASSUME NEW y \in S, y < m PROVE FALSE
  <2>1. 0..y \in T  BY <1>1, <1>7, <1>8
  <2>2. 0..y \subseteq 0..m /\ 0..y # 0..m
    <3>1. m \in 0..m /\ m \notin 0..y  BY <1>8
    <3> QED BY <1>8, <3>1
  <2>3. <<0..y, x>> \in R  BY <1>4, <1>7, <2>1, <2>2 DEF StrictSubsetOrdering
  <2> QED BY <1>6, <2>1, <2>3
<1>9. \A y \in S : m <= y  BY <1>8
<1> QED BY <1>9

\* Induction over the naturals for a set: one that has 0 and the successor of
\* each of its numbers has all.
LEMMA SetInduction ==
    ASSUME NEW G, 0 \in G, \A n \in Nat : n \in G => n + 1 \in G
    PROVE  Nat \subseteq G
<1> DEFINE S == Nat \ G
<1> SUFFICES ASSUME S # {} PROVE FALSE  OBVIOUS
<1>1. PICK x \in S : \A y \in S : x <= y
  <2>1. S \in SUBSET Nat  OBVIOUS
  <2> HIDE DEF S
  <2> QED BY <2>1, LeastNatural
<1>2. x # 0 /\ x - 1 \in Nat  OBVIOUS
<1>3. x - 1 \in G  BY <1>1, <1>2
<1> QED BY <1>2, <1>3

\* What the nodes of q hold.
Elements(q, k, cells) == [i \in 1..k |-> cells[q[i]].item]

\* Following next from the first node meets the nodes of the chain in order.
LEMMA WalkFollows ==
    ASSUME NEW q, NEW k, NEW cells, NEW head, NEW tail, IsChain(q, k, cells, head, tail),
           NEW w,
           w = CHOOSE At : At = [i \in Nat |->
                   IF i = 0 THEN IF "first" = "first" THEN head ELSE tail
                   ELSE IF At[i - 1] = NULL THEN NULL
                   ELSE IF "first" = "first" THEN cells[At[i - 1]].next ELSE cells[At[i - 1]].prev]
    PROVE  \A i \in 1..k : w[i - 1] = q[i]
  <1> DEFINE Body(At, i) == IF i = 0 THEN IF "first" = "first" THEN head ELSE tail
                            ELSE IF At[i - 1] = NULL THEN NULL
                            ELSE IF "first" = "first" THEN cells[At[i - 1]].next ELSE cells[At[i - 1]].prev
             P(At) == At = [i \in Nat |-> Body(At, i)]
             v == [i \in Nat |-> IF i < k THEN q[i + 1] ELSE NULL]
  <1>1. k \in Nat /\ \A i \in 1..k : q[i] \in Nodes /\ q[i] # NULL
    BY NullAssumption DEF IsChain
  <1>2. ASSUME NEW i \in Nat PROVE v[i] = Body(v, i)
    <2>1. CASE i = 0
      BY <1>1, <2>1 DEF IsChain
    <2>2. CASE i # 0 /\ i - 1 < k
      <3>1. i \in 1..k /\ v[i - 1] = q[i] /\ q[i] # NULL
        BY <1>1, <2>2
      <3>2. cells[q[i]].next = (IF i = k THEN NULL ELSE q[i + 1])
        BY <3>1 DEF IsChain
      <3>3. v[i] = (IF i = k THEN NULL ELSE q[i + 1])
        BY <1>1, <3>1
      <3> HIDE DEF v
      <3> QED BY <2>2, <3>1, <3>2, <3>3
    <2>3. CASE i # 0 /\ ~(i - 1 < k)
      <3>1. v[i - 1] = NULL /\ v[i] = NULL
        BY <1>1, <2>3
      <3> HIDE DEF v
      <3> QED BY <2>3, <3>1
    <2> QED BY <2>1, <2>2, <2>3
  <1>3. P(v)
    <2>1. v = [i \in Nat |-> v[i]]
      OBVIOUS
    <2> HIDE DEF v, Body
    <2> QED BY <1>2, <2>1, Zenon
  <1>4. w = CHOOSE At : P(At)
    OBVIOUS
  <1>5. P(w)
    <2> HIDE DEF P
    <2> QED BY <1>3, <1>4
  <1> HIDE DEF v
  <1>6. \A i \in Nat : w[i] = Body(w, i)
    <2> HIDE DEF Body
    <2> QED BY <1>5
  <1> DEFINE G == {i \in Nat : i < k => w[i] = q[i + 1]}
  <1>7. 0 \in G
    BY <1>1, <1>6 DEF IsChain
  <1>8. \A i \in Nat : i \in G => i + 1 \in G
    <2> SUFFICES ASSUME NEW i \in Nat, i \in G, i + 1 < k PROVE w[i + 1] = q[i + 2]
      BY <1>1
    <2>1. i + 1 \in 1..k /\ w[i] = q[i + 1] /\ q[i + 1] # NULL
      BY <1>1
    <2>2. cells[q[i + 1]].next = q[i + 2]
      BY <1>1, <2>1 DEF IsChain
    <2>3. w[i + 1] = Body(w, i + 1) /\ i + 1 # 0 /\ (i + 1) - 1 = i
      BY <1>6
    <2> QED BY <2>1, <2>2, <2>3
  <1>9. Nat \subseteq G
    <2> HIDE DEF G
    <2> QED BY <1>7, <1>8, SetInduction
  <1> SUFFICES ASSUME NEW i \in 1..k PROVE w[i - 1] = q[i]
    OBVIOUS
  <1>10. i - 1 \in Nat /\ i - 1 < k /\ (i - 1) + 1 = i
    BY <1>1
  <1> QED BY <1>9, <1>10

\* The elements in the order of the list.
Contents == [i \in 1..count |-> node[Walk("first")[i - 1]].item]

LEMMA ContentsAre ==
    ASSUME NEW q, Listed(q)
    PROVE  Contents = Elements(q, count, node)
  <1>1. \A i \in 1..count : Walk("first")[i - 1] = q[i]
    BY WalkFollows DEF Listed, Walk
  <1> QED BY <1>1 DEF Contents, Elements

LEMMA NextContentsAre ==
    ASSUME NEW q, ListedNext(q)
    PROVE  Contents' = Elements(q, count', node')
  <1>1. \A i \in 1..count' : Walk("first")'[i - 1] = q[i]
    BY WalkFollows DEF ListedNext, Walk
  <1> QED BY <1>1 DEF Contents, Elements

LEMMA ElementsListed ==
    ASSUME NEW q, NEW k \in Nat, NEW cells, \A i \in 1..k : cells[q[i]].item \in Items
    PROVE  /\ Elements(q, k, cells) \in Seq(Items) /\ Len(Elements(q, k, cells)) = k
           /\ \A i \in 1..k : Elements(q, k, cells)[i] = cells[q[i]].item
  BY DEF Elements

LEMMA ElementsBefore ==
    ASSUME NEW q, NEW k \in Nat, NEW cells, NEW later, NEW n, NEW e \in Items, later[n].item = e,
           \A i \in 1..k : cells[q[i]].item \in Items /\ later[q[i]].item = cells[q[i]].item
    PROVE  Elements(Before(n, q, k), k + 1, later) = <<e>> \o Elements(q, k, cells)
  <1> DEFINE s == Elements(q, k, cells)
             r == Before(n, q, k)
             t == Elements(r, k + 1, later)
             u == <<e>> \o s
  <1>1. s \in Seq(Items) /\ Len(s) = k /\ \A i \in 1..k : s[i] = cells[q[i]].item
    BY ElementsListed
  <1>2. \A i \in 1..k + 1 : r[i] = (IF i = 1 THEN n ELSE q[i - 1])
    BY DEF Before
  <1> HIDE DEF r
  <1>3. \A i \in 1..k + 1 : later[r[i]].item = (IF i = 1 THEN e ELSE s[i - 1])
    <2> SUFFICES ASSUME NEW i \in 1..k + 1 PROVE later[r[i]].item = (IF i = 1 THEN e ELSE s[i - 1])
      OBVIOUS
    <2>1. CASE i = 1
      BY <1>2, <2>1
    <2>2. CASE i # 1
      <3>1. i - 1 \in 1..k
        BY <2>2
      <3> HIDE DEF s
      <3> QED BY <1>1, <1>2, <2>2, <3>1
    <2> QED BY <2>1, <2>2
  <1>4. \A i \in 1..k + 1 : i # 1 => i - 1 \in 1..k
    OBVIOUS
  <1> HIDE DEF s
  <1>5. \A i \in 1..k + 1 : later[r[i]].item \in Items
    BY <1>1, <1>3, <1>4
  <1>6. t \in Seq(Items) /\ Len(t) = k + 1 /\ \A i \in 1..k + 1 : t[i] = later[r[i]].item
    BY <1>5, ElementsListed
  <1>7. <<e>> \in Seq(Items) /\ Len(<<e>>) = 1 /\ <<e>>[1] = e
    OBVIOUS
  <1>8. u \in Seq(Items) /\ Len(u) = 1 + k /\ \A i \in 1..1 + k : u[i] = IF i <= 1 THEN <<e>>[i] ELSE s[i - 1]
    BY <1>1, <1>7, ConcatProperties
  <1>9. \A i \in 1..k + 1 : u[i] = IF i = 1 THEN e ELSE s[i - 1]
    BY <1>8
  <1> HIDE DEF t, u
  <1>10. \A i \in 1..Len(t) : t[i] = u[i]
    BY <1>3, <1>6, <1>9
  <1>11. Len(t) = Len(u)
    BY <1>6, <1>8
  <1>12. t = u
    BY <1>6, <1>8, <1>10, <1>11, SeqEqual
  <1> QED BY <1>12 DEF t, u, s, r

\* Sequence t is s with e behind it; it is s without its p-th element.
Appended(s, t, e) == t = Append(s, e)

Dropped(s, t, p) ==
    /\ s \in Seq(Items) /\ p \in 1..Len(s) /\ s # <<>>
    /\ t = SubSeq(s, 1, p - 1) \o SubSeq(s, p + 1, Len(s))
    /\ p = 1 => t = Tail(s)
    /\ p = Len(s) => t = SubSeq(s, 1, Len(s) - 1)

LEMMA ElementsBehind ==
    ASSUME NEW q, NEW k \in Nat, NEW cells, NEW later, NEW n, NEW e \in Items, later[n].item = e,
           \A i \in 1..k : cells[q[i]].item \in Items /\ later[q[i]].item = cells[q[i]].item
    PROVE  Appended(Elements(q, k, cells), Elements(Behind(q, k, n), k + 1, later), e)
  <1> DEFINE s == Elements(q, k, cells)
             r == Behind(q, k, n)
             t == Elements(r, k + 1, later)
             u == Append(s, e)
  <1>1. s \in Seq(Items) /\ Len(s) = k /\ \A i \in 1..k : s[i] = cells[q[i]].item
    BY ElementsListed
  <1>2. \A i \in 1..k + 1 : r[i] = (IF i = k + 1 THEN n ELSE q[i])
    BY DEF Behind
  <1>4. \A i \in 1..k + 1 : i # k + 1 => i \in 1..k
    OBVIOUS
  <1> HIDE DEF r, s
  <1>3. \A i \in 1..k + 1 : later[r[i]].item = (IF i = k + 1 THEN e ELSE s[i])
    BY <1>1, <1>2, <1>4
  <1>5. \A i \in 1..k + 1 : later[r[i]].item \in Items
    BY <1>1, <1>3, <1>4
  <1>6. t \in Seq(Items) /\ Len(t) = k + 1 /\ \A i \in 1..k + 1 : t[i] = later[r[i]].item
    BY <1>5, ElementsListed
  <1>8. u \in Seq(Items) /\ Len(u) = k + 1 /\ (\A i \in 1..k : u[i] = s[i]) /\ u[k + 1] = e
    BY <1>1, AppendProperties
  <1> HIDE DEF t, u
  <1>10. \A i \in 1..Len(t) : t[i] = u[i]
    BY <1>3, <1>4, <1>6, <1>8
  <1>12. t = u
    BY <1>6, <1>8, <1>10, SeqEqual
  <1> QED BY <1>12 DEF t, u, s, r, Appended

LEMMA ElementsWithout ==
    ASSUME NEW q, NEW k \in Nat, NEW cells, NEW later, NEW p \in 1..k,
           \A i \in 1..k : cells[q[i]].item \in Items /\ (i # p => later[q[i]].item = cells[q[i]].item)
    PROVE  Dropped(Elements(q, k, cells), Elements(Without(q, k, p), k - 1, later), p)
  <1>0. PICK s, t : s = Elements(q, k, cells) /\ t = Elements(Without(q, k, p), k - 1, later)
    OBVIOUS
  <1> DEFINE r == Without(q, k, p)
             at(i) == IF i < p THEN i ELSE i + 1
  <1>1. s \in Seq(Items) /\ Len(s) = k /\ \A i \in 1..k : s[i] = cells[q[i]].item /\ s[i] \in Items
    BY <1>0, ElementsListed
  <1>2. k - 1 \in Nat /\ \A i \in 1..k - 1 : r[i] = q[at(i)] /\ at(i) \in 1..k /\ at(i) # p
    BY DEF Without
  <1> HIDE DEF r
  <1>3. \A i \in 1..k - 1 : later[r[i]].item = s[at(i)] /\ s[at(i)] \in Items
    <2> HIDE DEF at
    <2> QED BY <1>1, <1>2
  <1>4. t \in Seq(Items) /\ Len(t) = k - 1 /\ \A i \in 1..k - 1 : t[i] = s[at(i)]
    <2> HIDE DEF at
    <2>1. \A i \in 1..k - 1 : later[r[i]].item \in Items
      BY <1>3
    <2>2. t = Elements(r, k - 1, later)
      BY <1>0 DEF r
    <2>3. t \in Seq(Items) /\ Len(t) = k - 1 /\ \A i \in 1..k - 1 : t[i] = later[r[i]].item
      BY <1>2, <2>1, <2>2, ElementsListed
    <2> QED BY <1>3, <2>3
  <1>5. s # <<>>
    BY <1>1, EmptySeq
  <1>6. t = SubSeq(s, 1, p - 1) \o SubSeq(s, p + 1, Len(s))
    <2> DEFINE a == SubSeq(s, 1, p - 1)
               b == SubSeq(s, p + 1, Len(s))
               u == a \o b
    <2>1. a \in Seq(Items) /\ Len(a) = p - 1 /\ \A i \in 1..p - 1 : a[i] = s[i]
      BY <1>1, SubSeqProperties
    <2>2. b \in Seq(Items) /\ Len(b) = k - p /\ \A i \in 1..k - p : b[i] = s[p + i]
      BY <1>1, SubSeqProperties
    <2> HIDE DEF a, b
    <2>3. u \in Seq(Items) /\ Len(u) = k - 1
          /\ \A i \in 1..k - 1 : u[i] = IF i <= p - 1 THEN a[i] ELSE b[i - (p - 1)]
      <3>1. u \in Seq(Items) /\ Len(u) = Len(a) + Len(b)
            /\ \A i \in 1..Len(a) + Len(b) : u[i] = IF i <= Len(a) THEN a[i] ELSE b[i - Len(a)]
        BY <2>1, <2>2, ConcatProperties
      <3>2. Len(a) + Len(b) = k - 1
        BY <2>1, <2>2
      <3> HIDE DEF u
      <3> QED BY <2>1, <3>1, <3>2
    <2>4. \A i \in 1..k - 1 : u[i] = s[at(i)]
      <3> HIDE DEF u
      <3> SUFFICES ASSUME NEW i \in 1..k - 1 PROVE u[i] = s[at(i)]
        OBVIOUS
      <3>1. CASE i < p
        BY <2>1, <2>3, <3>1
      <3>2. CASE ~(i < p)
        <4>1. i - (p - 1) \in 1..k - p /\ p + (i - (p - 1)) = i + 1
          BY <3>2
        <4>2. u[i] = b[i - (p - 1)]
          <5>1. ~(i <= p - 1)
            BY <3>2
          <5>2. u[i] = IF i <= p - 1 THEN a[i] ELSE b[i - (p - 1)]
            BY <2>3
          <5> QED BY <5>1, <5>2
        <4> QED BY <2>2, <3>2, <4>1, <4>2
      <3> QED BY <3>1, <3>2
    <2>5. Len(u) = k - 1
      BY <2>3
    <2> HIDE DEF u, at
    <2>6. t = u
      BY <1>4, <2>3, <2>4, <2>5, SeqEqual
    <2> QED BY <2>6 DEF u, a, b
  <1>7. ASSUME p = 1 PROVE t = Tail(s)
    <2>1. Tail(s) \in Seq(Items) /\ Len(Tail(s)) = k - 1 /\ \A i \in 1..k - 1 : Tail(s)[i] = s[i + 1]
      BY <1>1, <1>5, HeadTailProperties
    <2>2. \A i \in 1..k - 1 : t[i] = s[i + 1]
      BY <1>4, <1>7
    <2> QED BY <1>4, <2>1, <2>2, SeqEqual
  <1>8. ASSUME p = k PROVE t = SubSeq(s, 1, Len(s) - 1)
    <2> DEFINE u == SubSeq(s, 1, Len(s) - 1)
    <2>1. u \in Seq(Items) /\ Len(u) = k - 1 /\ \A i \in 1..k - 1 : u[i] = s[i]
      BY <1>1, <1>2, SubSeqProperties
    <2>2. \A i \in 1..k - 1 : t[i] = s[i]
      BY <1>4, <1>8
    <2> HIDE DEF u
    <2>3. t = u
      BY <1>4, <2>1, <2>2, SeqEqual
    <2> QED BY <2>3 DEF u
  <1>9. Dropped(s, t, p)
    BY <1>1, <1>5, <1>6, <1>7, <1>8 DEF Dropped
  <1> QED BY <1>0, <1>9

LEMMA ContentsHeld ==
    ASSUME ListOK, NEW q, Listed(q)
    PROVE  /\ count \in Nat /\ count <= Capacity /\ Capacity \in Nat
           /\ node \in [Nodes -> Cells]
           /\ \A i \in 1..count : q[i] \in Nodes /\ node[q[i]].item \in Items
           /\ count # 0 => first = q[1] /\ last = q[count]
  <1>1. count \in 0..Capacity /\ Capacity \in Nat /\ node \in [Nodes -> Cells]
    BY EmptyOrNot DEF ListOK, ListTypes
  <1>2. \A i \in 1..count : q[i] \in Nodes /\ node[q[i]].item # NULL
    BY DEF Listed, IsChain
  <1>3. \A i \in 1..count : node[q[i]].item \in Items
    BY <1>1, <1>2 DEF Cells
  <1> QED BY <1>1, <1>2, <1>3 DEF Listed, IsChain

LEMMA ContentsCount ==
    ASSUME ListOK
    PROVE  Contents \in Seq(Items) /\ Len(Contents) = count
  <1>1. PICK q : Listed(q)
    BY HasChain DEF Listed
  <1> QED BY <1>1, ContentsAre, ContentsHeld, ElementsListed

\* linkFirst puts the element before the others, linkLast behind them.
LEMMA InsertShows ==
    ASSUME ListOK, NEW end, NEW e \in Items, NEW calls, Insert(end, e, calls), count < Capacity,
           UNCHANGED taken
    PROVE  Contents' = <<e>> \o Contents \/ Contents' = Append(Contents, e)
  <1>1. PICK n \in Fresh : IF end = "first" THEN LinkFirst(n, e) ELSE LinkLast(n, e)
    BY DEF Insert, Link
  <1>2. n \in Nodes /\ node[n].item = NULL
    BY <1>1 DEF Fresh
  <1>3. CASE LinkFirst(n, e)
    <2>1. PICK q : Listed(q) /\ ListedNext(Before(n, q, count))
      BY <1>2, <1>3, LinkFirstChain
    <2>2. Contents = Elements(q, count, node) /\ Contents' = Elements(Before(n, q, count), count', node')
      BY <2>1, ContentsAre, NextContentsAre
    <2>3. /\ count \in Nat /\ node \in [Nodes -> Cells]
          /\ \A i \in 1..count : q[i] \in Nodes /\ node[q[i]].item \in Items
      BY <2>1, ContentsHeld
    <2>4. count' = count + 1 /\ node'[n].item = e
      BY <1>2, <1>3 DEF LinkFirst
    <2>5. \A m \in Nodes : m # n => node'[m].item = node[m].item
      BY <1>3, <2>3 DEF LinkFirst, Cells
    <2>6. \A i \in 1..count : node'[q[i]].item = node[q[i]].item
      BY <1>2, <2>3, <2>5, NullAssumption
    <2> QED BY <2>2, <2>3, <2>4, <2>6, ElementsBefore
  <1>4. CASE LinkLast(n, e)
    <2>1. PICK q : Listed(q) /\ ListedNext(Behind(q, count, n))
      BY <1>2, <1>4, LinkLastChain
    <2>2. Contents = Elements(q, count, node) /\ Contents' = Elements(Behind(q, count, n), count', node')
      BY <2>1, ContentsAre, NextContentsAre
    <2>3. /\ count \in Nat /\ node \in [Nodes -> Cells]
          /\ \A i \in 1..count : q[i] \in Nodes /\ node[q[i]].item \in Items
      BY <2>1, ContentsHeld
    <2>4. count' = count + 1 /\ node'[n].item = e
      BY <1>2, <1>4 DEF LinkLast
    <2>5. \A m \in Nodes : m # n => node'[m].item = node[m].item
      BY <1>4, <2>3 DEF LinkLast, Cells
    <2>6. \A i \in 1..count : node'[q[i]].item = node[q[i]].item
      BY <1>2, <2>3, <2>5, NullAssumption
    <2>7. Appended(Elements(q, count, node), Elements(Behind(q, count, n), count + 1, node'), e)
      BY <2>3, <2>4, <2>6, ElementsBehind
    <2> QED BY <2>2, <2>4, <2>7 DEF Appended
  <1> QED BY <1>1, <1>3, <1>4

LEMMA UnlinkFirstShows ==
    ASSUME ListOK, UnlinkFirst, taken' \in Items \cup {NULL}
    PROVE  /\ Contents # <<>> /\ node[first].item = Head(Contents)
           /\ Contents' = Tail(Contents) /\ Dropped(Contents, Contents', 1)
  <1>1. PICK q : Listed(q) /\ ListedNext(Without(q, count, 1))
    BY UnlinkFirstChain
  <1>2. count \in Nat /\ count # 0 /\ count' = count - 1
    BY <1>1, ContentsHeld, EmptyOrNot DEF UnlinkFirst
  <1>3. Contents = Elements(q, count, node) /\ Contents' = Elements(Without(q, count, 1), count - 1, node')
    BY <1>1, <1>2, ContentsAre, NextContentsAre
  <1>4. /\ node \in [Nodes -> Cells] /\ first = q[1]
        /\ \A i \in 1..count : q[i] \in Nodes /\ node[q[i]].item \in Items
    BY <1>1, <1>2, ContentsHeld
  <1>5. \A m \in Nodes : m # first => node'[m].item = node[m].item
    BY <1>4 DEF UnlinkFirst, Cells
  <1>6. \A i \in 1..count : i # 1 => q[i] # q[1]
    BY <1>1, <1>2 DEF Listed, IsChain
  <1>7. \A i \in 1..count : i # 1 => node'[q[i]].item = node[q[i]].item
    BY <1>4, <1>5, <1>6
  <1>8. 1 \in 1..count
    BY <1>2
  <1>9. Dropped(Contents, Contents', 1)
    BY <1>2, <1>3, <1>4, <1>7, <1>8, ElementsWithout
  <1>10. Contents[1] = node[q[1]].item
    BY <1>2, <1>3, <1>4, <1>8, ElementsListed
  <1>11. Head(Contents) = Contents[1] /\ Contents # <<>> /\ Contents' = Tail(Contents)
    BY <1>9 DEF Dropped
  <1> QED BY <1>4, <1>9, <1>10, <1>11

LEMMA UnlinkLastShows ==
    ASSUME ListOK, UnlinkLast, taken' \in Items \cup {NULL}
    PROVE  /\ Contents # <<>> /\ node[last].item = Contents[Len(Contents)]
           /\ Contents' = SubSeq(Contents, 1, Len(Contents) - 1) /\ Dropped(Contents, Contents', Len(Contents))
  <1>1. PICK q : Listed(q) /\ ListedNext(Without(q, count, count))
    BY UnlinkLastChain
  <1>2. count \in Nat /\ count # 0 /\ count' = count - 1
    BY <1>1, ContentsHeld, EmptyOrNot DEF UnlinkLast
  <1>3. Contents = Elements(q, count, node) /\ Contents' = Elements(Without(q, count, count), count - 1, node')
    BY <1>1, <1>2, ContentsAre, NextContentsAre
  <1>4. /\ node \in [Nodes -> Cells] /\ last = q[count]
        /\ \A i \in 1..count : q[i] \in Nodes /\ node[q[i]].item \in Items
    BY <1>1, <1>2, ContentsHeld
  <1>5. \A m \in Nodes : m # last => node'[m].item = node[m].item
    <2> SUFFICES ASSUME NEW m \in Nodes, m # last PROVE node'[m].item = node[m].item
      OBVIOUS
    <2>1. node'[m] = [node[m] EXCEPT !.next = NULL] \/ node'[m] = node[m]
      BY DEF UnlinkLast
    <2> QED BY <1>4, <2>1 DEF Cells
  <1>6. \A i \in 1..count : i # count => q[i] # q[count]
    BY <1>1, <1>2 DEF Listed, IsChain
  <1>7. \A i \in 1..count : i # count => node'[q[i]].item = node[q[i]].item
    BY <1>4, <1>5, <1>6
  <1>8. count \in 1..count
    BY <1>2
  <1>9. Dropped(Contents, Contents', count)
    BY <1>2, <1>3, <1>4, <1>7, <1>8, ElementsWithout
  <1>10. Contents[count] = node[q[count]].item /\ Len(Contents) = count
    BY <1>2, <1>3, <1>4, <1>8, ElementsListed
  <1> QED BY <1>4, <1>9, <1>10 DEF Dropped

LEMMA UnlinkShows ==
    ASSUME ListOK, NEW x \in Linked, Unlink(x), taken' \in Items \cup {NULL}
    PROVE  \E p \in 1..Len(Contents) : Dropped(Contents, Contents', p)
  <1>1. CASE UnlinkFirst
    BY <1>1, UnlinkFirstShows DEF Dropped
  <1>2. CASE UnlinkLast
    BY <1>2, UnlinkLastShows DEF Dropped
  <1>3. CASE UnlinkMiddle(x)
    <2>1. PICK q : \E p \in 1..count : q[p] = x /\ Listed(q) /\ ListedNext(Without(q, count, p))
      BY <1>3, UnlinkMiddleChain
    <2>2. PICK p \in 1..count : q[p] = x /\ Listed(q) /\ ListedNext(Without(q, count, p))
      BY <2>1
    <2>3. count \in Nat /\ count' = count - 1
      BY <1>3, <2>2, ContentsHeld DEF UnlinkMiddle
    <2>4. Contents = Elements(q, count, node) /\ Contents' = Elements(Without(q, count, p), count - 1, node')
      BY <2>2, <2>3, ContentsAre, NextContentsAre
    <2>5. /\ node \in [Nodes -> Cells]
          /\ \A i \in 1..count : q[i] \in Nodes /\ node[q[i]].item \in Items
      BY <2>2, ContentsHeld
    <2>6. ASSUME NEW m \in Nodes, m # x PROVE node'[m].item = node[m].item
      <3>1. \/ node'[m] = [node[m] EXCEPT !.next = node[x].next]
            \/ node'[m] = [node[m] EXCEPT !.prev = node[x].prev]
            \/ node'[m] = node[m]
        BY <1>3, <2>6 DEF UnlinkMiddle
      <3> QED BY <2>5, <3>1 DEF Cells
    <2>7. \A i \in 1..count : i # p => q[i] # q[p]
      BY <2>2 DEF Listed, IsChain
    <2>8. \A i \in 1..count : i # p => node'[q[i]].item = node[q[i]].item
      BY <2>2, <2>5, <2>6, <2>7
    <2>9. Dropped(Contents, Contents', p)
      BY <2>2, <2>3, <2>4, <2>5, <2>8, ElementsWithout
    <2> QED BY <2>9 DEF Dropped
  <1> QED BY <1>1, <1>2, <1>3 DEF Unlink

\* A step of BlockingDeque, or one it does not notice.
AbstractStep == Abstract!Next \/ UNCHANGED <<Contents, taken>>

LEMMA AbstractIs ==
    /\ Abstract!InsertFirst <=> /\ Len(Contents) < Capacity
                                /\ \E e \in Items : Contents' = <<e>> \o Contents
                                /\ UNCHANGED taken
    /\ Abstract!InsertLast <=> /\ Len(Contents) < Capacity
                               /\ \E e \in Items : Contents' = Append(Contents, e)
                               /\ UNCHANGED taken
    /\ Abstract!TakeFirst <=> Contents # <<>> /\ taken' = Head(Contents) /\ Contents' = Tail(Contents)
    /\ Abstract!TakeLast <=> /\ Contents # <<>> /\ taken' = Contents[Len(Contents)]
                             /\ Contents' = SubSeq(Contents, 1, Len(Contents) - 1)
    /\ Abstract!RemoveSome <=>
           /\ \E p \in 1..Len(Contents) :
                  Contents' = SubSeq(Contents, 1, p - 1) \o SubSeq(Contents, p + 1, Len(Contents))
           /\ UNCHANGED taken
    /\ Abstract!Clear <=> Contents' = <<>> /\ UNCHANGED taken
  BY DEF Abstract!InsertFirst, Abstract!InsertLast, Abstract!TakeFirst, Abstract!TakeLast, Abstract!RemoveSome,
         Abstract!Clear, Abstract!Last, Abstract!Front, Abstract!RemoveAt, Contents

LEMMA InsertRefines ==
    ASSUME ListOK, NEW end, NEW e \in Items, NEW calls, Insert(end, e, calls), count < Capacity,
           UNCHANGED taken
    PROVE  AbstractStep
  <1>1. Contents' = <<e>> \o Contents \/ Contents' = Append(Contents, e)
    BY InsertShows
  <1>2. Len(Contents) < Capacity
    BY ContentsCount
  <1> QED BY <1>1, <1>2, AbstractIs DEF AbstractStep, Abstract!Next

LEMMA TakeRefines ==
    ASSUME ListOK, NEW end, NEW calls, Take(end, calls)
    PROVE  AbstractStep
  <1>1. node \in [Nodes -> Cells] /\ first \in Nodes \cup {NULL} /\ last \in Nodes \cup {NULL}
    BY DEF ListOK, ListTypes
  <1>2. CASE end = "first"
    <2>1. UnlinkFirst /\ taken' = node[first].item
      BY <1>2 DEF Take
    <2>2. taken' \in Items \cup {NULL}
      BY <1>1, <2>1 DEF UnlinkFirst, Cells
    <2>3. Abstract!TakeFirst
      BY <2>1, <2>2, UnlinkFirstShows, AbstractIs
    <2> QED BY <2>3 DEF AbstractStep, Abstract!Next
  <1>3. CASE end # "first"
    <2>1. UnlinkLast /\ taken' = node[last].item
      BY <1>3 DEF Take
    <2>2. taken' \in Items \cup {NULL}
      BY <1>1, <2>1 DEF UnlinkLast, Cells
    <2>3. Abstract!TakeLast
      BY <2>1, <2>2, UnlinkLastShows, AbstractIs
    <2> QED BY <2>3 DEF AbstractStep, Abstract!Next
  <1> QED BY <1>2, <1>3

LEMMA RemoveRefines ==
    ASSUME ListOK, NEW x \in Linked, Remove(x)
    PROVE  AbstractStep
  <1>1. Unlink(x) /\ taken' = taken /\ taken \in Items \cup {NULL}
    BY DEF Remove, ListOK, ListTypes
  <1>2. PICK p \in 1..Len(Contents) : Dropped(Contents, Contents', p)
    BY <1>1, UnlinkShows
  <1>3. Abstract!RemoveSome
    BY <1>1, <1>2, AbstractIs DEF Dropped
  <1> QED BY <1>3 DEF AbstractStep, Abstract!Next

LEMMA ClearRefines ==
    ASSUME Clear
    PROVE  AbstractStep
  <1>1. count' = 0 /\ taken' = taken
    BY DEF Clear
  <1>2. Contents' = <<>>
    <2>1. 1..0 = {}
      OBVIOUS
    <2> QED BY <1>1, <2>1 DEF Contents
  <1> QED BY <1>1, <1>2, AbstractIs DEF AbstractStep, Abstract!Next

LEMMA IdleRefines ==
    ASSUME UNCHANGED list, UNCHANGED taken
    PROVE  AbstractStep
  <1>1. Contents' = Contents
    BY DEF list, Contents, Walk
  <1> QED BY <1>1 DEF AbstractStep

LEMMA NextRefines ==
    ASSUME IInv, [Next]_vars
    PROVE  AbstractStep
  <1>0. ListOK /\ op \in [Threads -> Calls]
    BY DEF IInv, CallTypes
  <1>1. ASSUME NEW t \in Threads, NEW end \in Ends, NEW e \in Items, Offer(t, end, e)
        PROVE  AbstractStep
    BY <1>0, <1>1, InsertRefines DEF Offer
  <1>2. ASSUME NEW t \in Threads, NEW end \in Ends, Poll(t, end)
        PROVE  AbstractStep
    BY <1>0, <1>2, TakeRefines DEF Poll
  <1>3. ASSUME NEW t \in Threads, Resume(t)
        PROVE  AbstractStep
    <2>1. CASE ResumeTaking(t)
      BY <1>0, <2>1, TakeRefines DEF ResumeTaking
    <2>2. CASE ResumeInserting(t)
      <3>1. op[t].item \in Items
        BY <1>0, <2>2 DEF ResumeInserting, Calls
      <3> QED BY <1>0, <2>2, <3>1, InsertRefines DEF ResumeInserting
    <2>3. CASE ResumeInVain(t)
      BY <2>3, IdleRefines DEF ResumeInVain
    <2> QED BY <1>3, <2>1, <2>2, <2>3 DEF Resume
  <1>4. ASSUME NEW t \in Threads, DrainOne(t)
        PROVE  AbstractStep
    BY <1>0, <1>4, TakeRefines DEF DrainOne, Take
  <1>5. ASSUME NEW end \in Ends, NEW o \in Items, RemoveOccurrence(end, o)
        PROVE  AbstractStep
    <2>1. PICK x \in Nodes : node[x].item = o /\ Remove(x)
      BY <1>5 DEF RemoveOccurrence
    <2>2. x \in Linked
      BY <2>1, NullAssumption DEF Linked
    <2> QED BY <1>0, <2>1, <2>2, RemoveRefines
  <1>6. ASSUME NEW i \in Iterators, IteratorRemoves(i)
        PROVE  AbstractStep
    <2>1. CASE it[i].lastRet \in Linked
      BY <1>0, <1>6, <2>1, RemoveRefines DEF IteratorRemoves
    <2>2. CASE it[i].lastRet \notin Linked
      BY <1>6, <2>2, IdleRefines DEF IteratorRemoves
    <2> QED BY <2>1, <2>2
  <1>7. CASE Clear
    BY <1>7, ClearRefines
  <1>8. ASSUME NEW t \in Threads, NEW end \in Ends, NEW timed \in Waits,
               AwaitElement(t, end, timed) \/ \E e \in Items : AwaitRoom(t, end, e, timed)
        PROVE  AbstractStep
    BY <1>8, IdleRefines DEF AwaitElement, AwaitRoom
  <1>9. ASSUME NEW t \in Threads, DrainTo(t) \/ EndDrain(t) \/ Timeout(t) \/ Interrupt(t)
        PROVE  AbstractStep
    BY <1>9, IdleRefines DEF DrainTo, EndDrain, Timeout, Interrupt
  <1>10. ASSUME NEW i \in Iterators,
                Advance(i) \/ Forget(i) \/ \E dir \in {"ascending", "descending"} : Iterate(i, dir)
         PROVE  AbstractStep
    BY <1>10, IdleRefines DEF Advance, Forget, Iterate
  <1>11. CASE UNCHANGED vars
    BY <1>11, IdleRefines DEF vars
  <1> QED BY <1>1, <1>2, <1>3, <1>4, <1>5, <1>6, <1>7, <1>8, <1>9, <1>10, <1>11
          DEF Next, Call, GoOn

\* The deque is what BlockingDeque.java and Deque.java promise, for any
\* threads, nodes, items and capacity: each call puts one element at its end,
\* takes the one that is at its end, removes one, or empties the sequence, and
\* none adds to a full one; a thread that waits, is woken, gives up or iterates
\* changes nothing.
THEOREM IsABlockingDeque == Spec => AbstractSpec
  <1>1. Init => Abstract!Init
    <2> SUFFICES ASSUME Init PROVE Abstract!Init
      OBVIOUS
    <2>1. count = 0 /\ taken = NULL /\ 1..0 = {}
      BY DEF Init
    <2> QED BY <2>1 DEF Abstract!Init
  <1>2. IInv /\ [Next]_vars => [Abstract!Next]_<<Contents, taken>>
    BY NextRefines DEF AbstractStep
  <1>3. Spec => []IInv
    BY InitiallyOK, Inductive, PTL DEF Spec
  <1> QED BY <1>1, <1>2, <1>3, PTL DEF Spec, AbstractSpec, Abstract!Spec, Contents
=============================================================================
