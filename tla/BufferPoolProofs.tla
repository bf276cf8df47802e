-------------------------- MODULE BufferPoolProofs --------------------------
(***************************************************************************)
(* BufferPool for any number of threads and buffers: every buffer is in    *)
(* one place, a buffer is written by one thread only, and the pool is      *)
(* freed after its last use.  The two counters are tied to the sets they   *)
(* count; that ties the decision to free to the absence of users.          *)
(***************************************************************************)
EXTENDS BufferPool, FiniteSetTheorems, TLAPS

\* Where a thread has an entry kept, and where it has a list in its hands.
Keeping == {"refs", "count", "rest", "rest+", "create", "claim"}
Listing == {"keep", "rest", "rest+", "back", "back+", "free", "free+"}

\* Locals are set only where the code has them in use, and get runs on an
\* open pool.
Shape ==
  \A t \in Threads :
    /\ kept[t] # Nil <=> pc[t] \in Keeping
    /\ mine[t] # {} => pc[t] \in Listing
    /\ writes[t] # Nil <=> pc[t] = "write"
    /\ pc[t] \in Getting \cup {"rest", "rest+", "back", "back+"} => open

\* A reference is a caller's, or belongs to the get about to return it.
Owns(t, e) == e \in holds[t] \/ (kept[t] = e /\ pc[t] \in {"refs", "count", "claim"})
Owners == [e \in Entries |-> {t \in Threads : Owns(t, e)}]

RefsExact == \A e \in Entries : refs[e] = Cardinality(Owners[e])

\* The pool counts its owner, the referenced buffers and the threads that
\* still have to give a reference back or have just taken one.
Held == {e \in Entries : \E t \in Threads : e \in holds[t]}
Returning == {t \in Threads : pc[t] \in {"free", "free+", "drop", "count"}}
OwnerCount == IF open THEN 1 ELSE 0

CountExact == refcount = Cardinality(Held) + Cardinality(Returning) + OwnerCount

\* Freeing starts at zero, once.
Ending ==
  /\ \A t \in Threads : pc[t] = "destroy" => refcount = 0 /\ ~freed
  /\ \A t, u \in Threads : pc[t] = "destroy" /\ pc[u] = "destroy" => t = u
  /\ freed => refcount = 0 /\ allocated = {}

IInv == TypeOK /\ Shape /\ OwnedOnce /\ SoleWriter /\ RefsExact /\ CountExact /\ Ending

\* The count tells whether a reference is the last one.
LEMMA LastReference ==
  ASSUME IInv, NEW t \in Threads, NEW e \in Entries, e \in holds[t]
  PROVE  IF refs[e] = 1 THEN \A u \in Threads \ {t} : e \notin holds[u]
         ELSE refs[e] > 1 /\ \E u \in Threads \ {t} : e \in holds[u]
<1>1. IsFiniteSet(Owners[e]) /\ t \in Owners[e]
  BY Finite, FS_Subset DEF Owners, Owns
<1>2. Owners[e] = Holders(e)
  BY NilIsNone DEF IInv, OwnedOnce, Hand, Owners, Owns, Holders
<1>3. /\ IsFiniteSet(Owners[e] \ {t})
      /\ Cardinality(Owners[e] \ {t}) = Cardinality(Owners[e]) - 1
  BY <1>1, FS_RemoveElement
<1>6. Cardinality(Owners[e]) \in Nat /\ Cardinality(Owners[e] \ {t}) \in Nat
  BY <1>1, <1>3, FS_CardinalityType
<1>4. Cardinality(Owners[e] \ {t}) = 0 <=> Owners[e] \ {t} = {}
  BY <1>3, FS_EmptySet
<1>5. refs[e] = Cardinality(Owners[e])
  BY DEF IInv, RefsExact
<1> QED BY <1>2, <1>3, <1>4, <1>5, <1>6 DEF Holders

\* Locals follow the program counter.
LEMMA ShapeStep == IInv /\ [Next]_vars => Shape'
<1> SUFFICES ASSUME IInv, [Next]_vars PROVE Shape'
  OBVIOUS
<1> USE NilIsNone
<1>1. CASE UNCHANGED vars
  BY <1>1 DEF IInv, Shape, Keeping, Listing, Places, Getting, Adding, vars, poolVars
<1>2. ASSUME NEW t \in Threads, Call(t) \/ Continue(t) PROVE Shape'
  <2>1. CASE Get(t)
    BY <2>1 DEF IInv, TypeOK, Shape, Keeping, Listing, Places, Getting, Adding, Get, GoTo, poolVars
  <2>2. CASE GetPool(t)
    BY <2>2 DEF IInv, TypeOK, Shape, Keeping, Listing, Places, Getting, Adding, GetPool, GoTo, poolVars
  <2>3. CASE ReadFirst(t)
    BY <2>3 DEF IInv, TypeOK, Shape, Keeping, Listing, Places, Getting, Adding, ReadFirst, GoTo, poolVars
  <2>4. CASE Compare(t)
    BY <2>4 DEF IInv, TypeOK, Shape, Keeping, Listing, Places, Getting, Adding, Compare, GoTo, poolVars
  <2>5. CASE AllocBuffer(t)
    BY <2>5 DEF IInv, TypeOK, Shape, Keeping, Listing, Places, Getting, Adding, AllocBuffer, GoTo, poolVars
  <2>6. CASE CountRef(t)
    BY <2>6 DEF IInv, TypeOK, Shape, Keeping, Listing, Places, Getting, Adding, CountRef, GoTo, poolVars
  <2>7. CASE CountAllocated(t)
    BY <2>7 DEF IInv, TypeOK, Shape, Keeping, Listing, Places, Getting, Adding, CountAllocated, Return, GoTo, poolVars
  <2>8. CASE KeepFirst(t)
    BY <2>8 DEF IInv, TypeOK, Shape, Keeping, Listing, Places, Getting, Adding, KeepFirst, GoTo, poolVars
  <2>9. CASE Create(t)
    BY <2>9 DEF IInv, TypeOK, Shape, Keeping, Listing, Places, Getting, Adding, Create, GoTo, poolVars
  <2>10. CASE Claim(t)
    BY <2>10 DEF IInv, TypeOK, Shape, Keeping, Listing, Places, Getting, Adding, Claim, Return, GoTo, poolVars
  <2>11. CASE Publish(t)
    BY <2>11 DEF IInv, TypeOK, Shape, Keeping, Listing, Places, Getting, Adding, Publish, Along, GoTo, poolVars
  <2>12. CASE PublishBlocked(t)
    BY <2>12 DEF IInv, TypeOK, Shape, Keeping, Listing, Places, Getting, Adding, PublishBlocked, Along, GoTo, poolVars
  <2>13. CASE TakeToo(t)
    BY <2>13 DEF IInv, TypeOK, Shape, Keeping, Listing, Places, Getting, Adding, TakeToo, Along, GoTo, poolVars
  <2>14. CASE EndWrite(t)
    BY <2>14 DEF IInv, TypeOK, Shape, Keeping, Listing, Places, Getting, Adding, EndWrite, GoTo, poolVars
  <2>15. CASE Drop(t)
    BY <2>15 DEF IInv, TypeOK, Shape, Keeping, Listing, Places, Getting, Adding, Drop, DropReference, GoTo, poolVars
  <2>16. CASE FreeEntry(t)
    BY <2>16 DEF IInv, TypeOK, Shape, Keeping, Listing, Places, Getting, Adding, FreeEntry, GoTo, poolVars
  <2>17. CASE FreePool(t)
    BY <2>17 DEF IInv, TypeOK, Shape, Keeping, Listing, Places, Getting, Adding, FreePool, GoTo, poolVars
  <2>18. CASE Uninit(t)
    BY <2>18 DEF IInv, TypeOK, Shape, Keeping, Listing, Places, Getting, Adding, Uninit, DropReference, GoTo, poolVars
  <2>19. ASSUME NEW e \in Entries, Unref(t, e) PROVE Shape'
    BY <2>19 DEF IInv, TypeOK, Shape, Keeping, Listing, Places, Getting, Adding, Unref, GoTo, poolVars
  <2>20. ASSUME NEW e \in Entries, MakeWritable(t, e) PROVE Shape'
    BY <2>20 DEF IInv, TypeOK, Shape, Keeping, Listing, Places, Getting, Adding, MakeWritable, GoTo, poolVars
  <2>21. ASSUME NEW e \in Entries, NEW u \in Threads, Ref(t, u, e) PROVE Shape'
    BY <2>21 DEF IInv, TypeOK, Shape, Keeping, Listing, Places, Getting, Adding, Ref, GoTo, poolVars
  <2> QED BY <1>2, <2>1, <2>2, <2>3, <2>4, <2>5, <2>6, <2>7, <2>8, <2>9, <2>10, <2>11, <2>12, <2>13, <2>14, <2>15, <2>16, <2>17, <2>18, <2>19, <2>20, <2>21 DEF Call, Continue
<1> QED BY <1>1, <1>2 DEF Next

\* Each step moves buffers from one place to another.
LEMMA OwnedStep == IInv /\ [Next]_vars => OwnedOnce'
<1> SUFFICES ASSUME IInv, [Next]_vars PROVE OwnedOnce'
  OBVIOUS
<1> USE NilIsNone
<1>1. CASE UNCHANGED vars
  BY <1>1 DEF IInv, OwnedOnce, Hand, vars, poolVars
<1>2. ASSUME NEW t \in Threads, Call(t) \/ Continue(t) PROVE OwnedOnce'
  <2>1. CASE Get(t)
    BY <2>1 DEF IInv, TypeOK, Shape, Keeping, Listing, Places, Getting, Adding, OwnedOnce, Hand, Get, GoTo, poolVars
  <2>2. CASE GetPool(t)
    <3>1. CASE list = {}
      BY <2>2, <3>1 DEF IInv, OwnedOnce, Hand, GetPool, TypeOK
    <3>2. CASE list # {}
      <4>1. \A u \in Threads \ {t} : Hand'[u] = Hand[u]
        BY <2>2, <3>2 DEF IInv, TypeOK, Hand, GetPool, GoTo
      <4>2. Hand'[t] = list
        BY <2>2, <3>2, NilIsNone DEF IInv, TypeOK, Shape, Keeping, Listing, Getting, Adding, Hand, GetPool, GoTo
      <4>3. \A u \in Threads : kept'[u] \notin mine'[u]
        BY <2>2, <3>2, NilIsNone DEF IInv, TypeOK, Shape, Keeping, Listing, Getting, Adding, OwnedOnce, Hand, GetPool, GoTo
      <4>4. list' = {} /\ UNCHANGED <<allocated, holds>> /\ Hand[t] = {}
        BY <2>2, <3>2 DEF IInv, TypeOK, Shape, Keeping, Listing, Getting, Adding, OwnedOnce, Hand, GetPool, GoTo
      <4> HIDE DEF Hand
      <4>a. OwnedOnce /\ t \in Threads /\ holds \in [Threads -> SUBSET Entries]
        BY <2>2, <3>2 DEF IInv, TypeOK
      <4>b. \A f \in allocated' : f \in list' \/ \E v \in Threads : f \in Hand'[v] \cup holds'[v]
        BY <4>1, <4>2, <4>4, <4>a DEF OwnedOnce
      <4>c. list' \subseteq allocated' /\ \A v \in Threads : Hand'[v] \cup holds'[v] \subseteq allocated'
        BY <4>1, <4>2, <4>4, <4>a DEF OwnedOnce
      <4>d. \A v \in Threads : list' \cap Hand'[v] = {} /\ list' \cap holds'[v] = {}
        BY <4>1, <4>2, <4>4, <4>a DEF OwnedOnce
      <4>e. \A v, w \in Threads : Hand'[v] \cap holds'[w] = {}
        BY <4>1, <4>2, <4>4, <4>a DEF OwnedOnce
      <4>f. \A v \in Threads : \A w \in Threads \ {v} : Hand'[v] \cap Hand'[w] = {}
        BY <4>1, <4>2, <4>4, <4>a DEF OwnedOnce
      <4> QED BY <4>3, <4>b, <4>c, <4>d, <4>e, <4>f DEF OwnedOnce
    <3> QED BY <3>1, <3>2
  <2>3. CASE ReadFirst(t)
    BY <2>3 DEF IInv, TypeOK, Shape, Keeping, Listing, Places, Getting, Adding, OwnedOnce, Hand, ReadFirst, GoTo, poolVars
  <2>4. CASE Compare(t)
    BY <2>4 DEF IInv, TypeOK, Shape, Keeping, Listing, Places, Getting, Adding, OwnedOnce, Hand, Compare, GoTo, poolVars
  <2>5. CASE AllocBuffer(t)
    <3>1. CASE UNCHANGED <<allocated, kept>>
      BY <2>5, <3>1 DEF IInv, OwnedOnce, Hand, AllocBuffer
    <3>2. ASSUME NEW e \in Entries \ allocated,
                 allocated' = allocated \cup {e}, kept' = [kept EXCEPT ![t] = e]
          PROVE  OwnedOnce'
      <4>1. \A u \in Threads \ {t} : Hand'[u] = Hand[u]
        BY <2>5, <3>2 DEF IInv, TypeOK, Hand, AllocBuffer, GoTo
      <4>2. Hand'[t] = {e}
        BY <2>5, <3>2, NilIsNone DEF IInv, TypeOK, Shape, Keeping, Listing, Getting, Adding, Hand, AllocBuffer, GoTo
      <4>3. \A u \in Threads : kept'[u] \notin mine'[u]
        BY <2>5, <3>2, NilIsNone DEF IInv, TypeOK, Shape, Keeping, Listing, Getting, Adding, OwnedOnce, Hand, AllocBuffer, GoTo
      <4>4. e \notin allocated /\ allocated' = allocated \cup {e} /\ UNCHANGED <<list, holds>> /\ Hand[t] = {}
        BY <2>5, <3>2 DEF IInv, TypeOK, Shape, Keeping, Listing, Getting, Adding, OwnedOnce, Hand, AllocBuffer, GoTo
      <4> HIDE DEF Hand
      <4>a. OwnedOnce /\ t \in Threads /\ holds \in [Threads -> SUBSET Entries]
        BY <2>5, <3>2 DEF IInv, TypeOK
      <4>b. \A f \in allocated' : f \in list' \/ \E v \in Threads : f \in Hand'[v] \cup holds'[v]
        BY <4>1, <4>2, <4>4, <4>a DEF OwnedOnce
      <4>c. list' \subseteq allocated' /\ \A v \in Threads : Hand'[v] \cup holds'[v] \subseteq allocated'
        BY <4>1, <4>2, <4>4, <4>a DEF OwnedOnce
      <4>d. \A v \in Threads : list' \cap Hand'[v] = {} /\ list' \cap holds'[v] = {}
        BY <4>1, <4>2, <4>4, <4>a DEF OwnedOnce
      <4>e. \A v, w \in Threads : Hand'[v] \cap holds'[w] = {}
        BY <4>1, <4>2, <4>4, <4>a DEF OwnedOnce
      <4>f. \A v \in Threads : \A w \in Threads \ {v} : Hand'[v] \cap Hand'[w] = {}
        BY <4>1, <4>2, <4>4, <4>a DEF OwnedOnce
      <4> QED BY <4>3, <4>b, <4>c, <4>d, <4>e, <4>f DEF OwnedOnce
    <3> QED BY <2>5, <3>1, <3>2 DEF AllocBuffer
  <2>6. CASE CountRef(t)
    BY <2>6 DEF IInv, TypeOK, Shape, Keeping, Listing, Places, Getting, Adding, OwnedOnce, Hand, CountRef, GoTo, poolVars
  <2>7. CASE CountAllocated(t)
    BY <2>7 DEF IInv, TypeOK, Shape, Keeping, Listing, Places, Getting, Adding, OwnedOnce, Hand, CountAllocated, Return, GoTo, poolVars
  <2>8. CASE KeepFirst(t)
    <3>1. PICK e \in mine[t] : /\ kept' = [kept EXCEPT ![t] = e]
                              /\ mine' = [mine EXCEPT ![t] = @ \ {e}]
      BY <2>8 DEF KeepFirst
    <3>5. \A u \in Threads \ {t} : Hand'[u] = Hand[u]
      BY <2>8, <3>1 DEF IInv, TypeOK, Hand, KeepFirst, GoTo, poolVars
    <3>2. Hand'[t] = Hand[t]
      BY <2>8, <3>1, NilIsNone DEF IInv, TypeOK, Shape, Keeping, Listing, Getting, Adding, Hand, KeepFirst, GoTo, poolVars
    <3>3. \A u \in Threads : kept'[u] \notin mine'[u]
      BY <2>8, <3>1, NilIsNone DEF IInv, TypeOK, Shape, Keeping, Listing, Getting, Adding, OwnedOnce, Hand, KeepFirst, GoTo, poolVars
    <3>4. UNCHANGED <<list, allocated, holds>>
      BY <2>8, <3>1 DEF IInv, TypeOK, Shape, Keeping, Listing, Getting, Adding, OwnedOnce, Hand, KeepFirst, GoTo, poolVars
    <3> HIDE DEF Hand
    <3>a. OwnedOnce /\ t \in Threads /\ holds \in [Threads -> SUBSET Entries]
      BY <2>8, <3>1 DEF IInv, TypeOK
    <3>b. \A f \in allocated' : f \in list' \/ \E v \in Threads : f \in Hand'[v] \cup holds'[v]
      BY <3>5, <3>2, <3>4, <3>a DEF OwnedOnce
    <3>c. list' \subseteq allocated' /\ \A v \in Threads : Hand'[v] \cup holds'[v] \subseteq allocated'
      BY <3>5, <3>2, <3>4, <3>a DEF OwnedOnce
    <3>d. \A v \in Threads : list' \cap Hand'[v] = {} /\ list' \cap holds'[v] = {}
      BY <3>5, <3>2, <3>4, <3>a DEF OwnedOnce
    <3>e. \A v, w \in Threads : Hand'[v] \cap holds'[w] = {}
      BY <3>5, <3>2, <3>4, <3>a DEF OwnedOnce
    <3>f. \A v \in Threads : \A w \in Threads \ {v} : Hand'[v] \cap Hand'[w] = {}
      BY <3>5, <3>2, <3>4, <3>a DEF OwnedOnce
    <3> QED BY <3>3, <3>b, <3>c, <3>d, <3>e, <3>f DEF OwnedOnce
  <2>9. CASE Create(t)
    <3>1. \A u \in Threads \ {t} : Hand'[u] = Hand[u]
      BY <2>9 DEF IInv, TypeOK, Hand, Create, GoTo, poolVars
    <3>2. Hand'[t] = Hand[t]
      BY <2>9, NilIsNone DEF IInv, TypeOK, Shape, Keeping, Listing, Getting, Adding, Hand, Create, GoTo, poolVars
    <3>3. \A u \in Threads : kept'[u] \notin mine'[u]
      BY <2>9, NilIsNone DEF IInv, TypeOK, Shape, Keeping, Listing, Getting, Adding, OwnedOnce, Hand, Create, GoTo, poolVars
    <3>4. UNCHANGED <<list, allocated, holds>>
      BY <2>9 DEF IInv, TypeOK, Shape, Keeping, Listing, Getting, Adding, OwnedOnce, Hand, Create, GoTo, poolVars
    <3> HIDE DEF Hand
    <3>a. OwnedOnce /\ t \in Threads /\ holds \in [Threads -> SUBSET Entries]
      BY <2>9 DEF IInv, TypeOK
    <3>b. \A f \in allocated' : f \in list' \/ \E v \in Threads : f \in Hand'[v] \cup holds'[v]
      BY <3>1, <3>2, <3>4, <3>a DEF OwnedOnce
    <3>c. list' \subseteq allocated' /\ \A v \in Threads : Hand'[v] \cup holds'[v] \subseteq allocated'
      BY <3>1, <3>2, <3>4, <3>a DEF OwnedOnce
    <3>d. \A v \in Threads : list' \cap Hand'[v] = {} /\ list' \cap holds'[v] = {}
      BY <3>1, <3>2, <3>4, <3>a DEF OwnedOnce
    <3>e. \A v, w \in Threads : Hand'[v] \cap holds'[w] = {}
      BY <3>1, <3>2, <3>4, <3>a DEF OwnedOnce
    <3>f. \A v \in Threads : \A w \in Threads \ {v} : Hand'[v] \cap Hand'[w] = {}
      BY <3>1, <3>2, <3>4, <3>a DEF OwnedOnce
    <3> QED BY <3>3, <3>b, <3>c, <3>d, <3>e, <3>f DEF OwnedOnce
  <2>10. CASE Claim(t)
    BY <2>10 DEF IInv, TypeOK, Shape, Keeping, Listing, Places, Getting, Adding, OwnedOnce, Hand, Claim, Return, GoTo, poolVars
  <2>11. CASE Publish(t)
    BY <2>11 DEF IInv, TypeOK, Shape, Keeping, Listing, Places, Getting, Adding, OwnedOnce, Hand, Publish, Along, GoTo, poolVars
  <2>12. CASE PublishBlocked(t)
    BY <2>12 DEF IInv, TypeOK, Shape, Keeping, Listing, Places, Getting, Adding, OwnedOnce, Hand, PublishBlocked, Along, GoTo, poolVars
  <2>13. CASE TakeToo(t)
    <3>1. \A u \in Threads \ {t} : Hand'[u] = Hand[u]
      BY <2>13 DEF IInv, TypeOK, Hand, TakeToo, Along, GoTo
    <3>2. Hand'[t] = Hand[t] \cup list
      BY <2>13, NilIsNone DEF IInv, TypeOK, Shape, Keeping, Listing, Getting, Adding, Hand, TakeToo, Along, GoTo
    <3>3. \A u \in Threads : kept'[u] \notin mine'[u]
      BY <2>13, NilIsNone DEF IInv, TypeOK, Shape, Keeping, Listing, Getting, Adding, OwnedOnce, Hand, TakeToo, Along, GoTo
    <3>4. list' = {} /\ UNCHANGED <<allocated, holds>>
      BY <2>13 DEF IInv, TypeOK, Shape, Keeping, Listing, Getting, Adding, OwnedOnce, Hand, TakeToo, Along, GoTo
    <3> HIDE DEF Hand
    <3>a. OwnedOnce /\ t \in Threads /\ holds \in [Threads -> SUBSET Entries]
      BY <2>13 DEF IInv, TypeOK
    <3>b. \A f \in allocated' : f \in list' \/ \E v \in Threads : f \in Hand'[v] \cup holds'[v]
      BY <3>1, <3>2, <3>4, <3>a DEF OwnedOnce
    <3>c. list' \subseteq allocated' /\ \A v \in Threads : Hand'[v] \cup holds'[v] \subseteq allocated'
      BY <3>1, <3>2, <3>4, <3>a DEF OwnedOnce
    <3>d. \A v \in Threads : list' \cap Hand'[v] = {} /\ list' \cap holds'[v] = {}
      BY <3>1, <3>2, <3>4, <3>a DEF OwnedOnce
    <3>e. \A v, w \in Threads : Hand'[v] \cap holds'[w] = {}
      BY <3>1, <3>2, <3>4, <3>a DEF OwnedOnce
    <3>f. \A v \in Threads : \A w \in Threads \ {v} : Hand'[v] \cap Hand'[w] = {}
      BY <3>1, <3>2, <3>4, <3>a DEF OwnedOnce
    <3> QED BY <3>3, <3>b, <3>c, <3>d, <3>e, <3>f DEF OwnedOnce
  <2>14. CASE EndWrite(t)
    BY <2>14 DEF IInv, TypeOK, Shape, Keeping, Listing, Places, Getting, Adding, OwnedOnce, Hand, EndWrite, GoTo, poolVars
  <2>15. CASE Drop(t)
    BY <2>15 DEF IInv, TypeOK, Shape, Keeping, Listing, Places, Getting, Adding, OwnedOnce, Hand, Drop, DropReference, GoTo, poolVars
  <2>16. CASE FreeEntry(t)
    BY <2>16 DEF IInv, TypeOK, Shape, Keeping, Listing, Places, Getting, Adding, OwnedOnce, Hand, FreeEntry, GoTo, poolVars
  <2>17. CASE FreePool(t)
    BY <2>17 DEF IInv, TypeOK, Shape, Keeping, Listing, Places, Getting, Adding, OwnedOnce, Hand, FreePool, GoTo, poolVars
  <2>18. CASE Uninit(t)
    BY <2>18 DEF IInv, TypeOK, Shape, Keeping, Listing, Places, Getting, Adding, OwnedOnce, Hand, Uninit, DropReference, GoTo, poolVars
  <2>19. ASSUME NEW e \in Entries, Unref(t, e) PROVE OwnedOnce'
    <3>1. \A u \in Threads \ {t} : Hand'[u] = Hand[u]
      BY <2>19 DEF IInv, TypeOK, Hand, Unref, GoTo, poolVars
    <3>2. Hand'[t] = IF refs[e] = 1 THEN {e} ELSE {}
      BY <2>19, NilIsNone DEF IInv, TypeOK, Shape, Keeping, Listing, Getting, Adding, Hand, Unref, GoTo, poolVars
    <3>3. \A u \in Threads : kept'[u] \notin mine'[u]
      BY <2>19, NilIsNone DEF IInv, TypeOK, Shape, Keeping, Listing, Getting, Adding, OwnedOnce, Hand, Unref, GoTo, poolVars
    <3>4. e \in holds[t] /\ Hand[t] = {} /\ holds' = [holds EXCEPT ![t] = @ \ {e}] /\ UNCHANGED <<list, allocated>>
      BY <2>19 DEF IInv, TypeOK, Shape, Keeping, Listing, Getting, Adding, OwnedOnce, Hand, Unref, GoTo, poolVars
    <3>5. IF refs[e] = 1 THEN \A u \in Threads \ {t} : e \notin holds[u]
          ELSE \E u \in Threads \ {t} : e \in holds[u]
      BY <2>19, LastReference DEF IInv, TypeOK, Unref
    <3> HIDE DEF Hand
    <3>a. OwnedOnce /\ t \in Threads /\ holds \in [Threads -> SUBSET Entries]
      BY <2>19 DEF IInv, TypeOK
    <3>b. \A f \in allocated' : f \in list' \/ \E v \in Threads : f \in Hand'[v] \cup holds'[v]
      BY <3>1, <3>2, <3>4, <3>5, <3>a DEF OwnedOnce
    <3>c. list' \subseteq allocated' /\ \A v \in Threads : Hand'[v] \cup holds'[v] \subseteq allocated'
      BY <3>1, <3>2, <3>4, <3>5, <3>a DEF OwnedOnce
    <3>d. \A v \in Threads : list' \cap Hand'[v] = {} /\ list' \cap holds'[v] = {}
      BY <3>1, <3>2, <3>4, <3>5, <3>a DEF OwnedOnce
    <3>e. \A v, w \in Threads : Hand'[v] \cap holds'[w] = {}
      BY <3>1, <3>2, <3>4, <3>5, <3>a DEF OwnedOnce
    <3>f. \A v \in Threads : \A w \in Threads \ {v} : Hand'[v] \cap Hand'[w] = {}
      BY <3>1, <3>2, <3>4, <3>5, <3>a DEF OwnedOnce
    <3> QED BY <3>3, <3>b, <3>c, <3>d, <3>e, <3>f DEF OwnedOnce
  <2>20. ASSUME NEW e \in Entries, MakeWritable(t, e) PROVE OwnedOnce'
    BY <2>20 DEF IInv, TypeOK, Shape, Keeping, Listing, Places, Getting, Adding, OwnedOnce, Hand, MakeWritable, GoTo, poolVars
  <2>21. ASSUME NEW e \in Entries, NEW u \in Threads, Ref(t, u, e) PROVE OwnedOnce'
    BY <2>21 DEF IInv, TypeOK, Shape, Keeping, Listing, Places, Getting, Adding, OwnedOnce, Hand, Ref, GoTo, poolVars
  <2> QED BY <1>2, <2>1, <2>2, <2>3, <2>4, <2>5, <2>6, <2>7, <2>8, <2>9, <2>10, <2>11, <2>12, <2>13, <2>14, <2>15, <2>16, <2>17, <2>18, <2>19, <2>20, <2>21 DEF Call, Continue
<1> QED BY <1>1, <1>2 DEF Next

\* Nobody else gets at a buffer that is written.
LEMMA WriterStep == IInv /\ [Next]_vars => SoleWriter'
<1> SUFFICES ASSUME IInv, [Next]_vars PROVE SoleWriter'
  OBVIOUS
<1> USE NilIsNone
<1>1. CASE UNCHANGED vars
  BY <1>1 DEF IInv, SoleWriter, Holders, vars, poolVars
<1>2. ASSUME NEW t \in Threads, Call(t) \/ Continue(t) PROVE SoleWriter'
  <2>1. CASE Get(t)
    BY <2>1 DEF IInv, TypeOK, Shape, Keeping, Places, Getting, Adding, OwnedOnce, Hand, SoleWriter, Holders, Get, GoTo, poolVars
  <2>2. CASE GetPool(t)
    BY <2>2 DEF IInv, TypeOK, Shape, Keeping, Places, Getting, Adding, OwnedOnce, Hand, SoleWriter, Holders, GetPool, GoTo, poolVars
  <2>3. CASE ReadFirst(t)
    BY <2>3 DEF IInv, TypeOK, Shape, Keeping, Places, Getting, Adding, OwnedOnce, Hand, SoleWriter, Holders, ReadFirst, GoTo, poolVars
  <2>4. CASE Compare(t)
    BY <2>4 DEF IInv, TypeOK, Shape, Keeping, Places, Getting, Adding, OwnedOnce, Hand, SoleWriter, Holders, Compare, GoTo, poolVars
  <2>5. CASE AllocBuffer(t)
    BY <2>5 DEF IInv, TypeOK, Shape, Keeping, Places, Getting, Adding, OwnedOnce, Hand, SoleWriter, Holders, AllocBuffer, GoTo, poolVars
  <2>6. CASE CountRef(t)
    BY <2>6 DEF IInv, TypeOK, Shape, Keeping, Places, Getting, Adding, OwnedOnce, Hand, SoleWriter, Holders, CountRef, GoTo, poolVars
  <2>7. CASE CountAllocated(t)
    BY <2>7 DEF IInv, TypeOK, Shape, Keeping, Places, Getting, Adding, OwnedOnce, Hand, SoleWriter, Holders, CountAllocated, Return, GoTo, poolVars
  <2>8. CASE KeepFirst(t)
    BY <2>8 DEF IInv, TypeOK, Shape, Keeping, Places, Getting, Adding, OwnedOnce, Hand, SoleWriter, Holders, KeepFirst, GoTo, poolVars
  <2>9. CASE Create(t)
    BY <2>9 DEF IInv, TypeOK, Shape, Keeping, Places, Getting, Adding, OwnedOnce, Hand, SoleWriter, Holders, Create, GoTo, poolVars
  <2>10. CASE Claim(t)
    BY <2>10 DEF IInv, TypeOK, Shape, Keeping, Places, Getting, Adding, OwnedOnce, Hand, SoleWriter, Holders, Claim, Return, GoTo, poolVars
  <2>11. CASE Publish(t)
    BY <2>11 DEF IInv, TypeOK, Shape, Keeping, Places, Getting, Adding, OwnedOnce, Hand, SoleWriter, Holders, Publish, Along, GoTo, poolVars
  <2>12. CASE PublishBlocked(t)
    BY <2>12 DEF IInv, TypeOK, Shape, Keeping, Places, Getting, Adding, OwnedOnce, Hand, SoleWriter, Holders, PublishBlocked, Along, GoTo, poolVars
  <2>13. CASE TakeToo(t)
    BY <2>13 DEF IInv, TypeOK, Shape, Keeping, Places, Getting, Adding, OwnedOnce, Hand, SoleWriter, Holders, TakeToo, Along, GoTo, poolVars
  <2>14. CASE EndWrite(t)
    BY <2>14 DEF IInv, TypeOK, Shape, Keeping, Places, Getting, Adding, OwnedOnce, Hand, SoleWriter, Holders, EndWrite, GoTo, poolVars
  <2>15. CASE Drop(t)
    BY <2>15 DEF IInv, TypeOK, Shape, Keeping, Places, Getting, Adding, OwnedOnce, Hand, SoleWriter, Holders, Drop, DropReference, GoTo, poolVars
  <2>16. CASE FreeEntry(t)
    BY <2>16 DEF IInv, TypeOK, Shape, Keeping, Places, Getting, Adding, OwnedOnce, Hand, SoleWriter, Holders, FreeEntry, GoTo, poolVars
  <2>17. CASE FreePool(t)
    BY <2>17 DEF IInv, TypeOK, Shape, Keeping, Places, Getting, Adding, OwnedOnce, Hand, SoleWriter, Holders, FreePool, GoTo, poolVars
  <2>18. CASE Uninit(t)
    BY <2>18 DEF IInv, TypeOK, Shape, Keeping, Places, Getting, Adding, OwnedOnce, Hand, SoleWriter, Holders, Uninit, DropReference, GoTo, poolVars
  <2>19. ASSUME NEW e \in Entries, Unref(t, e) PROVE SoleWriter'
    BY <2>19 DEF IInv, TypeOK, Shape, Keeping, Places, Getting, Adding, OwnedOnce, Hand, SoleWriter, Holders, Unref, GoTo, poolVars
  <2>20. ASSUME NEW e \in Entries, MakeWritable(t, e) PROVE SoleWriter'
    <3>1. Holders(e) = {t}
      BY <2>20, LastReference DEF MakeWritable, Holders
    <3> QED BY <2>20, <3>1 DEF IInv, TypeOK, SoleWriter, Holders, MakeWritable, GoTo
  <2>21. ASSUME NEW e \in Entries, NEW u \in Threads, Ref(t, u, e) PROVE SoleWriter'
    BY <2>21 DEF IInv, TypeOK, Shape, Keeping, Places, Getting, Adding, OwnedOnce, Hand, SoleWriter, Holders, Ref, GoTo, poolVars
  <2> QED BY <1>2, <2>1, <2>2, <2>3, <2>4, <2>5, <2>6, <2>7, <2>8, <2>9, <2>10, <2>11, <2>12, <2>13, <2>14, <2>15, <2>16, <2>17, <2>18, <2>19, <2>20, <2>21 DEF Call, Continue
<1> QED BY <1>1, <1>2 DEF Next

\* The buffer's count follows its owners.
LEMMA RefsStep == IInv /\ [Next]_vars => RefsExact'
<1> SUFFICES ASSUME IInv, [Next]_vars PROVE RefsExact'
  OBVIOUS
<1> USE NilIsNone
<1>1. CASE UNCHANGED vars
  BY <1>1 DEF IInv, RefsExact, Owners, Owns, vars, poolVars
<1>2. ASSUME NEW t \in Threads, Call(t) \/ Continue(t) PROVE RefsExact'
  <2>1. CASE Get(t)
    <3>1. Owners' = Owners
      BY <2>1 DEF IInv, TypeOK, Shape, Keeping, OwnedOnce, Hand, Owners, Owns, Get, GoTo, poolVars
    <3>2. refs' = refs
      BY <2>1 DEF Get
    <3> QED BY <3>1, <3>2 DEF IInv, RefsExact
  <2>2. CASE GetPool(t)
    <3>1. Owners' = Owners
      BY <2>2 DEF IInv, TypeOK, Shape, Keeping, OwnedOnce, Hand, Owners, Owns, GetPool, GoTo, poolVars
    <3>2. refs' = refs
      BY <2>2 DEF GetPool
    <3> QED BY <3>1, <3>2 DEF IInv, RefsExact
  <2>3. CASE ReadFirst(t)
    <3>1. Owners' = Owners
      BY <2>3 DEF IInv, TypeOK, Shape, Keeping, OwnedOnce, Hand, Owners, Owns, ReadFirst, GoTo, poolVars
    <3>2. refs' = refs
      BY <2>3 DEF ReadFirst
    <3> QED BY <3>1, <3>2 DEF IInv, RefsExact
  <2>4. CASE Compare(t)
    <3>1. Owners' = Owners
      BY <2>4 DEF IInv, TypeOK, Shape, Keeping, OwnedOnce, Hand, Owners, Owns, Compare, GoTo, poolVars
    <3>2. refs' = refs
      BY <2>4 DEF Compare
    <3> QED BY <3>1, <3>2 DEF IInv, RefsExact
  <2>5. CASE AllocBuffer(t)
    <3>1. CASE UNCHANGED <<kept, refs>>
      <4>1. Owners' = Owners
        BY <2>5, <3>1 DEF IInv, TypeOK, Shape, Keeping, Owners, Owns, AllocBuffer, GoTo
      <4> QED BY <3>1, <4>1 DEF IInv, RefsExact
    <3>2. ASSUME NEW e \in Entries \ allocated, kept' = [kept EXCEPT ![t] = e],
                 refs' = [refs EXCEPT ![e] = 1], GoTo(t, "refs")
          PROVE  RefsExact'
      <4>1. Owners'[e] = {t}
        BY <2>5, <3>2 DEF IInv, TypeOK, OwnedOnce, Hand, Owners, Owns, AllocBuffer, GoTo
      <4>2. \A d \in Entries \ {e} : Owners'[d] = Owners[d]
        BY <2>5, <3>2 DEF IInv, TypeOK, Shape, Keeping, Owners, Owns, AllocBuffer, GoTo
      <4>3. Cardinality({t}) = 1  BY FS_Singleton
      <4> QED BY <3>2, <4>1, <4>2, <4>3 DEF IInv, TypeOK, RefsExact
    <3> QED BY <2>5, <3>1, <3>2 DEF AllocBuffer
  <2>6. CASE CountRef(t)
    <3>1. Owners' = Owners
      BY <2>6 DEF IInv, TypeOK, Shape, Keeping, OwnedOnce, Hand, Owners, Owns, CountRef, GoTo, poolVars
    <3>2. refs' = refs
      BY <2>6 DEF CountRef
    <3> QED BY <3>1, <3>2 DEF IInv, RefsExact
  <2>7. CASE CountAllocated(t)
    <3>1. Owners' = Owners
      BY <2>7 DEF IInv, TypeOK, Shape, Keeping, OwnedOnce, Hand, Owners, Owns, CountAllocated, Return, GoTo, poolVars
    <3>2. refs' = refs
      BY <2>7 DEF CountAllocated, Return
    <3> QED BY <3>1, <3>2 DEF IInv, RefsExact
  <2>8. CASE KeepFirst(t)
    <3>1. Owners' = Owners
      BY <2>8 DEF IInv, TypeOK, Shape, Keeping, OwnedOnce, Hand, Owners, Owns, KeepFirst, GoTo, poolVars
    <3>2. refs' = refs
      BY <2>8 DEF KeepFirst
    <3> QED BY <3>1, <3>2 DEF IInv, RefsExact
  <2>9. CASE Create(t)
    <3>1. CASE UNCHANGED refs /\ GoTo(t, "back") /\ kept' = [kept EXCEPT ![t] = Nil]
      <4>1. Owners' = Owners
        BY <2>9, <3>1 DEF IInv, TypeOK, Shape, Keeping, Owners, Owns, Create, GoTo
      <4> QED BY <3>1, <4>1 DEF IInv, RefsExact
    <3>2. CASE refs' = [refs EXCEPT ![kept[t]] = 1] /\ GoTo(t, "claim") /\ UNCHANGED kept
      <4>1. kept[t] \in Entries  BY <2>9 DEF IInv, TypeOK, Shape, Keeping, Create
      <4>2. Owners'[kept[t]] = {t}
        BY <2>9, <3>2, <4>1 DEF IInv, TypeOK, OwnedOnce, Hand, Owners, Owns, Create, GoTo
      <4>3. Cardinality({t}) = 1  BY FS_Singleton
      <4>4. \A d \in Entries \ {kept[t]} : Owners'[d] = Owners[d]
        BY <2>9, <3>2, <4>1 DEF IInv, TypeOK, Shape, Keeping, Owners, Owns, Create, GoTo
      <4> QED BY <3>2, <4>1, <4>2, <4>3, <4>4 DEF IInv, TypeOK, RefsExact
    <3> QED BY <2>9, <3>1, <3>2 DEF Create
  <2>10. CASE Claim(t)
    <3>1. Owners' = Owners
      BY <2>10 DEF IInv, TypeOK, Shape, Keeping, OwnedOnce, Hand, Owners, Owns, Claim, Return, GoTo, poolVars
    <3>2. refs' = refs
      BY <2>10 DEF Claim, Return
    <3> QED BY <3>1, <3>2 DEF IInv, RefsExact
  <2>11. CASE Publish(t)
    <3>1. Owners' = Owners
      BY <2>11 DEF IInv, TypeOK, Shape, Keeping, OwnedOnce, Hand, Owners, Owns, Publish, Along, GoTo, poolVars
    <3>2. refs' = refs
      BY <2>11 DEF Publish, Along
    <3> QED BY <3>1, <3>2 DEF IInv, RefsExact
  <2>12. CASE PublishBlocked(t)
    <3>1. Owners' = Owners
      BY <2>12 DEF IInv, TypeOK, Shape, Keeping, OwnedOnce, Hand, Owners, Owns, PublishBlocked, Along, GoTo, poolVars
    <3>2. refs' = refs
      BY <2>12 DEF PublishBlocked, Along
    <3> QED BY <3>1, <3>2 DEF IInv, RefsExact
  <2>13. CASE TakeToo(t)
    <3>1. Owners' = Owners
      BY <2>13 DEF IInv, TypeOK, Shape, Keeping, OwnedOnce, Hand, Owners, Owns, TakeToo, Along, GoTo, poolVars
    <3>2. refs' = refs
      BY <2>13 DEF TakeToo, Along
    <3> QED BY <3>1, <3>2 DEF IInv, RefsExact
  <2>14. CASE EndWrite(t)
    <3>1. Owners' = Owners
      BY <2>14 DEF IInv, TypeOK, Shape, Keeping, OwnedOnce, Hand, Owners, Owns, EndWrite, GoTo, poolVars
    <3>2. refs' = refs
      BY <2>14 DEF EndWrite
    <3> QED BY <3>1, <3>2 DEF IInv, RefsExact
  <2>15. CASE Drop(t)
    <3>1. Owners' = Owners
      BY <2>15 DEF IInv, TypeOK, Shape, Keeping, OwnedOnce, Hand, Owners, Owns, Drop, DropReference, GoTo, poolVars
    <3>2. refs' = refs
      BY <2>15 DEF Drop, DropReference
    <3> QED BY <3>1, <3>2 DEF IInv, RefsExact
  <2>16. CASE FreeEntry(t)
    <3>1. Owners' = Owners
      BY <2>16 DEF IInv, TypeOK, Shape, Keeping, OwnedOnce, Hand, Owners, Owns, FreeEntry, GoTo, poolVars
    <3>2. refs' = refs
      BY <2>16 DEF FreeEntry
    <3> QED BY <3>1, <3>2 DEF IInv, RefsExact
  <2>17. CASE FreePool(t)
    <3>1. Owners' = Owners
      BY <2>17 DEF IInv, TypeOK, Shape, Keeping, OwnedOnce, Hand, Owners, Owns, FreePool, GoTo, poolVars
    <3>2. refs' = refs
      BY <2>17 DEF FreePool
    <3> QED BY <3>1, <3>2 DEF IInv, RefsExact
  <2>18. CASE Uninit(t)
    <3>1. Owners' = Owners
      BY <2>18 DEF IInv, TypeOK, Shape, Keeping, OwnedOnce, Hand, Owners, Owns, Uninit, DropReference, GoTo, poolVars
    <3>2. refs' = refs
      BY <2>18 DEF Uninit, DropReference
    <3> QED BY <3>1, <3>2 DEF IInv, RefsExact
  <2>19. ASSUME NEW e \in Entries, Unref(t, e) PROVE RefsExact'
    <3>1. Owners'[e] = Owners[e] \ {t}
      BY <2>19 DEF IInv, TypeOK, Shape, Keeping, Getting, Owners, Owns, Unref, GoTo
    <3>4. \A d \in Entries \ {e} : Owners'[d] = Owners[d]
      BY <2>19 DEF IInv, TypeOK, Shape, Keeping, Getting, Owners, Owns, Unref, GoTo
    <3>2. t \in Owners[e] /\ Owners \in [Entries -> SUBSET Threads]
      BY <2>19 DEF IInv, TypeOK, Shape, Keeping, Getting, OwnedOnce, Hand, Owners, Owns, Unref, GoTo
    <3>5. IsFiniteSet(Owners[e])
      BY <3>2, Finite, FS_Subset
    <3>3. Cardinality(Owners[e] \ {t}) = Cardinality(Owners[e]) - 1
      BY <3>2, <3>5, FS_AddElement, FS_RemoveElement
    <3> HIDE DEF Owners
    <3> QED BY <2>19, <3>1, <3>3, <3>4 DEF IInv, TypeOK, RefsExact, Unref, GoTo
  <2>20. ASSUME NEW e \in Entries, MakeWritable(t, e) PROVE RefsExact'
    <3>1. Owners' = Owners
      BY <2>20 DEF IInv, TypeOK, Shape, Keeping, OwnedOnce, Hand, Owners, Owns, MakeWritable, GoTo, poolVars
    <3>2. refs' = refs
      BY <2>20 DEF MakeWritable
    <3> QED BY <3>1, <3>2 DEF IInv, RefsExact
  <2>21. ASSUME NEW e \in Entries, NEW u \in Threads, Ref(t, u, e) PROVE RefsExact'
    <3>1. Owners'[e] = Owners[e] \cup {u}
      BY <2>21 DEF IInv, TypeOK, Shape, Keeping, Getting, Owners, Owns, Ref, GoTo
    <3>4. \A d \in Entries \ {e} : Owners'[d] = Owners[d]
      BY <2>21 DEF IInv, TypeOK, Shape, Keeping, Getting, Owners, Owns, Ref, GoTo
    <3>2. u \notin Owners[e] /\ Owners \in [Entries -> SUBSET Threads]
      BY <2>21 DEF IInv, TypeOK, Shape, Keeping, Getting, OwnedOnce, Hand, Owners, Owns, Ref, GoTo
    <3>5. IsFiniteSet(Owners[e])
      BY <3>2, Finite, FS_Subset
    <3>3. Cardinality(Owners[e] \cup {u}) = Cardinality(Owners[e]) + 1
      BY <3>2, <3>5, FS_AddElement, FS_RemoveElement
    <3> HIDE DEF Owners
    <3> QED BY <2>21, <3>1, <3>3, <3>4 DEF IInv, TypeOK, RefsExact, Ref, GoTo
  <2> QED BY <1>2, <2>1, <2>2, <2>3, <2>4, <2>5, <2>6, <2>7, <2>8, <2>9, <2>10, <2>11, <2>12, <2>13, <2>14, <2>15, <2>16, <2>17, <2>18, <2>19, <2>20, <2>21 DEF Call, Continue
<1> QED BY <1>1, <1>2 DEF Next

\* The two counted sets are finite.
LEMMA CountsAreNat ==
  /\ IsFiniteSet(Held) /\ Cardinality(Held) \in Nat
  /\ IsFiniteSet(Returning) /\ Cardinality(Returning) \in Nat
BY Finite, FS_Subset, FS_CardinalityType DEF Held, Returning

\* The pool's count follows the references given out and taken back.
LEMMA CountStep == IInv /\ [Next]_vars => CountExact'
<1> SUFFICES ASSUME IInv, [Next]_vars PROVE CountExact'
  OBVIOUS
<1> USE NilIsNone
<1>1. CASE UNCHANGED vars
  BY <1>1 DEF IInv, CountExact, Held, Returning, OwnerCount, vars, poolVars
<1>2. ASSUME NEW t \in Threads, Call(t) \/ Continue(t) PROVE CountExact'
  <2>1. CASE Get(t)
    <3>1. UNCHANGED <<Held, Returning, refcount, open>>
      BY <2>1 DEF IInv, TypeOK, Held, Returning, Get, GoTo, poolVars
    <3> QED BY <3>1 DEF IInv, CountExact, OwnerCount
  <2>2. CASE GetPool(t)
    <3>1. UNCHANGED <<Held, Returning, refcount, open>>
      BY <2>2 DEF IInv, TypeOK, Held, Returning, GetPool, GoTo, poolVars
    <3> QED BY <3>1 DEF IInv, CountExact, OwnerCount
  <2>3. CASE ReadFirst(t)
    <3>1. UNCHANGED <<Held, Returning, refcount, open>>
      BY <2>3 DEF IInv, TypeOK, Held, Returning, ReadFirst, GoTo, poolVars
    <3> QED BY <3>1 DEF IInv, CountExact, OwnerCount
  <2>4. CASE Compare(t)
    <3>1. UNCHANGED <<Held, Returning, refcount, open>>
      BY <2>4 DEF IInv, TypeOK, Held, Returning, Compare, GoTo, poolVars
    <3> QED BY <3>1 DEF IInv, CountExact, OwnerCount
  <2>5. CASE AllocBuffer(t)
    <3>1. UNCHANGED <<Held, Returning, refcount, open>>
      BY <2>5 DEF IInv, TypeOK, Held, Returning, AllocBuffer, GoTo, poolVars
    <3> QED BY <3>1 DEF IInv, CountExact, OwnerCount
  <2>6. CASE CountRef(t)
    <3>1. Held' = Held
      BY <2>6 DEF IInv, TypeOK, Shape, Keeping, OwnedOnce, Hand, Held, CountRef, GoTo, poolVars
    <3>2. t \notin Returning /\ Returning' = Returning \cup {t}
      BY <2>6 DEF IInv, TypeOK, Returning, CountRef, GoTo, poolVars
    <3>3. refcount' = refcount + 1 /\ open' = open
      BY <2>6 DEF IInv, TypeOK, CountRef, poolVars
    <3> HIDE DEF Held, Returning
    <3>4. Cardinality(Held') = Cardinality(Held)
      BY <3>1, CountsAreNat, FS_AddElement, FS_RemoveElement
    <3>5. Cardinality(Returning') = Cardinality(Returning) + 1
      BY <3>2, CountsAreNat, FS_AddElement, FS_RemoveElement
    <3> QED BY <3>3, <3>4, <3>5, CountsAreNat DEF IInv, CountExact, OwnerCount
  <2>7. CASE CountAllocated(t)
    <3>1. kept[t] \notin Held /\ Held' = Held \cup {kept[t]}
      BY <2>7 DEF IInv, TypeOK, Shape, Keeping, OwnedOnce, Hand, Held, CountAllocated, Return, GoTo, poolVars
    <3>2. t \in Returning /\ Returning' = Returning \ {t}
      BY <2>7 DEF IInv, TypeOK, Returning, CountAllocated, Return, GoTo, poolVars
    <3>3. refcount' = refcount /\ open' = open
      BY <2>7 DEF IInv, TypeOK, CountAllocated, Return, poolVars
    <3> HIDE DEF Held, Returning
    <3>4. Cardinality(Held') = Cardinality(Held) + 1
      BY <3>1, CountsAreNat, FS_AddElement, FS_RemoveElement
    <3>5. Cardinality(Returning') = Cardinality(Returning) - 1
      BY <3>2, CountsAreNat, FS_AddElement, FS_RemoveElement
    <3> QED BY <3>3, <3>4, <3>5, CountsAreNat DEF IInv, CountExact, OwnerCount
  <2>8. CASE KeepFirst(t)
    <3>1. UNCHANGED <<Held, Returning, refcount, open>>
      BY <2>8 DEF IInv, TypeOK, Held, Returning, KeepFirst, GoTo, poolVars
    <3> QED BY <3>1 DEF IInv, CountExact, OwnerCount
  <2>9. CASE Create(t)
    <3>1. UNCHANGED <<Held, Returning, refcount, open>>
      BY <2>9 DEF IInv, TypeOK, Held, Returning, Create, GoTo, poolVars
    <3> QED BY <3>1 DEF IInv, CountExact, OwnerCount
  <2>10. CASE Claim(t)
    <3>1. kept[t] \notin Held /\ Held' = Held \cup {kept[t]}
      BY <2>10 DEF IInv, TypeOK, Shape, Keeping, OwnedOnce, Hand, Held, Claim, Return, GoTo, poolVars
    <3>2. Returning' = Returning
      BY <2>10 DEF IInv, TypeOK, Returning, Claim, Return, GoTo, poolVars
    <3>3. refcount' = refcount + 1 /\ open' = open
      BY <2>10 DEF IInv, TypeOK, Claim, Return, poolVars
    <3> HIDE DEF Held, Returning
    <3>4. Cardinality(Held') = Cardinality(Held) + 1
      BY <3>1, CountsAreNat, FS_AddElement, FS_RemoveElement
    <3>5. Cardinality(Returning') = Cardinality(Returning)
      BY <3>2, CountsAreNat, FS_AddElement, FS_RemoveElement
    <3> QED BY <3>3, <3>4, <3>5, CountsAreNat DEF IInv, CountExact, OwnerCount
  <2>11. CASE Publish(t)
    <3>1. UNCHANGED <<Held, Returning, refcount, open>>
      BY <2>11 DEF IInv, TypeOK, Held, Returning, Publish, Along, GoTo, poolVars
    <3> QED BY <3>1 DEF IInv, CountExact, OwnerCount
  <2>12. CASE PublishBlocked(t)
    <3>1. UNCHANGED <<Held, Returning, refcount, open>>
      BY <2>12 DEF IInv, TypeOK, Held, Returning, PublishBlocked, Along, GoTo, poolVars
    <3> QED BY <3>1 DEF IInv, CountExact, OwnerCount
  <2>13. CASE TakeToo(t)
    <3>1. UNCHANGED <<Held, Returning, refcount, open>>
      BY <2>13 DEF IInv, TypeOK, Held, Returning, TakeToo, Along, GoTo, poolVars
    <3> QED BY <3>1 DEF IInv, CountExact, OwnerCount
  <2>14. CASE EndWrite(t)
    <3>1. UNCHANGED <<Held, Returning, refcount, open>>
      BY <2>14 DEF IInv, TypeOK, Held, Returning, EndWrite, GoTo, poolVars
    <3> QED BY <3>1 DEF IInv, CountExact, OwnerCount
  <2>15. CASE Drop(t)
    <3>1. Held' = Held
      BY <2>15 DEF IInv, TypeOK, Shape, Keeping, OwnedOnce, Hand, Held, Drop, DropReference, GoTo, poolVars
    <3>2. t \in Returning /\ Returning' = Returning \ {t}
      BY <2>15 DEF IInv, TypeOK, Returning, Drop, DropReference, GoTo, poolVars
    <3>3. refcount' = refcount - 1 /\ open' = open
      BY <2>15 DEF IInv, TypeOK, Drop, DropReference, poolVars
    <3> HIDE DEF Held, Returning
    <3>4. Cardinality(Held') = Cardinality(Held)
      BY <3>1, CountsAreNat, FS_AddElement, FS_RemoveElement
    <3>5. Cardinality(Returning') = Cardinality(Returning) - 1
      BY <3>2, CountsAreNat, FS_AddElement, FS_RemoveElement
    <3> QED BY <3>3, <3>4, <3>5, CountsAreNat DEF IInv, CountExact, OwnerCount
  <2>16. CASE FreeEntry(t)
    <3>1. UNCHANGED <<Held, Returning, refcount, open>>
      BY <2>16 DEF IInv, TypeOK, Held, Returning, FreeEntry, GoTo, poolVars
    <3> QED BY <3>1 DEF IInv, CountExact, OwnerCount
  <2>17. CASE FreePool(t)
    <3>1. UNCHANGED <<Held, Returning, refcount, open>>
      BY <2>17 DEF IInv, TypeOK, Held, Returning, FreePool, GoTo, poolVars
    <3> QED BY <3>1 DEF IInv, CountExact, OwnerCount
  <2>18. CASE Uninit(t)
    <3>1. Held' = Held
      BY <2>18 DEF IInv, TypeOK, Shape, Keeping, OwnedOnce, Hand, Held, Uninit, DropReference, GoTo, poolVars
    <3>2. Returning' = Returning
      BY <2>18 DEF IInv, TypeOK, Returning, Uninit, DropReference, GoTo, poolVars
    <3>3. refcount' = refcount - 1 /\ open /\ ~open'
      BY <2>18 DEF IInv, TypeOK, Uninit, DropReference, poolVars
    <3> HIDE DEF Held, Returning
    <3>4. Cardinality(Held') = Cardinality(Held)
      BY <3>1, CountsAreNat, FS_AddElement, FS_RemoveElement
    <3>5. Cardinality(Returning') = Cardinality(Returning)
      BY <3>2, CountsAreNat, FS_AddElement, FS_RemoveElement
    <3> QED BY <3>3, <3>4, <3>5, CountsAreNat DEF IInv, CountExact, OwnerCount
  <2>19. ASSUME NEW e \in Entries, Unref(t, e) PROVE CountExact'
    <3>1. UNCHANGED <<refcount, open>>
      BY <2>19 DEF Unref, poolVars
    <3>2. CASE refs[e] = 1
      <4>1. e \in Held /\ Held' = Held \ {e}
        BY <2>19, <3>2, LastReference DEF IInv, TypeOK, Held, Unref
      <4>2. t \notin Returning /\ Returning' = Returning \cup {t}
        BY <2>19, <3>2 DEF IInv, TypeOK, Returning, Unref, GoTo
      <4> HIDE DEF Held, Returning
      <4>3. Cardinality(Held') = Cardinality(Held) - 1
        BY <4>1, CountsAreNat, FS_RemoveElement
      <4>4. Cardinality(Returning') = Cardinality(Returning) + 1
        BY <4>2, CountsAreNat, FS_AddElement
      <4> QED BY <3>1, <4>3, <4>4, CountsAreNat DEF IInv, CountExact, OwnerCount
    <3>3. CASE refs[e] # 1
      <4>1. PICK u \in Threads \ {t} : e \in holds[u]
        BY <2>19, <3>3, LastReference DEF Unref
      <4>2. Held' = Held
        BY <2>19, <4>1 DEF IInv, TypeOK, Held, Unref
      <4>3. Returning' = Returning
        BY <2>19, <3>3 DEF Returning, Unref
      <4> QED BY <3>1, <4>2, <4>3 DEF IInv, CountExact, OwnerCount
    <3> QED BY <3>2, <3>3
  <2>20. ASSUME NEW e \in Entries, MakeWritable(t, e) PROVE CountExact'
    <3>1. UNCHANGED <<Held, Returning, refcount, open>>
      BY <2>20 DEF IInv, TypeOK, Held, Returning, MakeWritable, GoTo, poolVars
    <3> QED BY <3>1 DEF IInv, CountExact, OwnerCount
  <2>21. ASSUME NEW e \in Entries, NEW u \in Threads, Ref(t, u, e) PROVE CountExact'
    <3>1. UNCHANGED <<Held, Returning, refcount, open>>
      BY <2>21 DEF IInv, TypeOK, Held, Returning, Ref, GoTo, poolVars
    <3> QED BY <3>1 DEF IInv, CountExact, OwnerCount
  <2> QED BY <1>2, <2>1, <2>2, <2>3, <2>4, <2>5, <2>6, <2>7, <2>8, <2>9, <2>10, <2>11, <2>12, <2>13, <2>14, <2>15, <2>16, <2>17, <2>18, <2>19, <2>20, <2>21 DEF Call, Continue
<1> QED BY <1>1, <1>2 DEF Next

\* With no reference left, everybody has gone home and every buffer is in
\* the pool.
LEMMA AtZero ==
  ASSUME IInv, refcount = 0
  PROVE  /\ ~open /\ allocated = list
         /\ \A t \in Threads : holds[t] = {} /\ pc[t] \in {"idle", "destroy"}
<1>1. ~open /\ Cardinality(Held) = 0 /\ Cardinality(Returning) = 0
  BY CountsAreNat DEF IInv, CountExact, OwnerCount
<1>2. Held = {} /\ Returning = {}
  BY <1>1, CountsAreNat, FS_EmptySet
<1>3. \A t \in Threads : holds[t] = {}
  BY <1>2 DEF IInv, TypeOK, Held
<1>4. \A t \in Threads : pc[t] # "write"
  BY <1>3 DEF IInv, SoleWriter, Holders
<1>5. \A t \in Threads : pc[t] \in {"idle", "destroy"}
  BY <1>1, <1>2, <1>4 DEF IInv, TypeOK, Shape, Places, Getting, Adding, Returning
<1>6. \A t \in Threads : Hand[t] = {}
  BY <1>5 DEF IInv, Shape, Keeping, Listing, Hand
<1>8. \A e \in allocated : e \in list
  BY <1>3, <1>6 DEF IInv, OwnedOnce
<1>7. allocated = list
  BY <1>8 DEF IInv, OwnedOnce
<1> QED BY <1>1, <1>3, <1>5, <1>7

\* Zero is reached once, and nothing goes on from there but freeing.
LEMMA EndingStep == IInv /\ [Next]_vars => Ending'
<1> SUFFICES ASSUME IInv, [Next]_vars PROVE Ending'
  OBVIOUS
<1> USE NilIsNone
<1>1. CASE UNCHANGED vars
  BY <1>1 DEF IInv, Ending, vars, poolVars
<1>2. ASSUME NEW t \in Threads, Call(t) \/ Continue(t) PROVE Ending'
  <2>1. CASE Get(t)
    BY <2>1, AtZero DEF IInv, TypeOK, Ending, Getting, Adding, Get, GoTo, poolVars
  <2>2. CASE GetPool(t)
    BY <2>2, AtZero DEF IInv, TypeOK, Ending, Getting, Adding, GetPool, GoTo, poolVars
  <2>3. CASE ReadFirst(t)
    BY <2>3, AtZero DEF IInv, TypeOK, Ending, Getting, Adding, ReadFirst, GoTo, poolVars
  <2>4. CASE Compare(t)
    BY <2>4, AtZero DEF IInv, TypeOK, Ending, Getting, Adding, Compare, GoTo, poolVars
  <2>5. CASE AllocBuffer(t)
    BY <2>5, AtZero DEF IInv, TypeOK, Ending, Getting, Adding, AllocBuffer, GoTo, poolVars
  <2>6. CASE CountRef(t)
    BY <2>6, AtZero DEF IInv, TypeOK, Ending, Getting, Adding, CountRef, GoTo, poolVars
  <2>7. CASE CountAllocated(t)
    BY <2>7, AtZero DEF IInv, TypeOK, Ending, Getting, Adding, CountAllocated, Return, GoTo, poolVars
  <2>8. CASE KeepFirst(t)
    BY <2>8, AtZero DEF IInv, TypeOK, Ending, Getting, Adding, KeepFirst, GoTo, poolVars
  <2>9. CASE Create(t)
    BY <2>9, AtZero DEF IInv, TypeOK, Ending, Getting, Adding, Create, GoTo, poolVars
  <2>10. CASE Claim(t)
    BY <2>10, AtZero DEF IInv, TypeOK, Ending, Getting, Adding, Claim, Return, GoTo, poolVars
  <2>11. CASE Publish(t)
    BY <2>11, AtZero DEF IInv, TypeOK, Ending, Getting, Adding, Publish, Along, GoTo, poolVars
  <2>12. CASE PublishBlocked(t)
    BY <2>12, AtZero DEF IInv, TypeOK, Ending, Getting, Adding, PublishBlocked, Along, GoTo, poolVars
  <2>13. CASE TakeToo(t)
    BY <2>13, AtZero DEF IInv, TypeOK, Ending, Getting, Adding, TakeToo, Along, GoTo, poolVars
  <2>14. CASE EndWrite(t)
    BY <2>14, AtZero DEF IInv, TypeOK, Ending, Getting, Adding, EndWrite, GoTo, poolVars
  <2>15. CASE Drop(t)
    BY <2>15, AtZero DEF IInv, TypeOK, Ending, Drop, DropReference, GoTo
  <2>16. CASE FreeEntry(t)
    BY <2>16 DEF IInv, Ending, FreeEntry
  <2>17. CASE FreePool(t)
    BY <2>17, AtZero DEF IInv, TypeOK, Ending, FreePool, GoTo
  <2>18. CASE Uninit(t)
    BY <2>18, AtZero DEF IInv, TypeOK, Ending, Uninit, DropReference, GoTo
  <2>19. ASSUME NEW e \in Entries, Unref(t, e) PROVE Ending'
    BY <2>19, AtZero DEF IInv, TypeOK, Ending, Getting, Adding, Unref, GoTo, poolVars
  <2>20. ASSUME NEW e \in Entries, MakeWritable(t, e) PROVE Ending'
    BY <2>20, AtZero DEF IInv, TypeOK, Ending, Getting, Adding, MakeWritable, GoTo, poolVars
  <2>21. ASSUME NEW e \in Entries, NEW u \in Threads, Ref(t, u, e) PROVE Ending'
    BY <2>21, AtZero DEF IInv, TypeOK, Ending, Getting, Adding, Ref, GoTo, poolVars
  <2> QED BY <1>2, <2>1, <2>2, <2>3, <2>4, <2>5, <2>6, <2>7, <2>8, <2>9, <2>10, <2>11, <2>12, <2>13, <2>14, <2>15, <2>16, <2>17, <2>18, <2>19, <2>20, <2>21 DEF Call, Continue
<1> QED BY <1>1, <1>2 DEF Next

\* Types; that the counts stay natural follows from what they count.
LEMMA TypeStep == IInv /\ [Next]_vars => TypeOK'
<1> SUFFICES ASSUME IInv, [Next]_vars PROVE TypeOK'
  OBVIOUS
<1> USE NilIsNone
<1>1. CASE UNCHANGED vars
  BY <1>1 DEF IInv, TypeOK, Places, Getting, Adding, vars, poolVars
<1>2. ASSUME NEW t \in Threads, Call(t) \/ Continue(t) PROVE TypeOK'
  <2>1. CASE Get(t)
    BY <2>1 DEF IInv, Shape, Keeping, TypeOK, Places, Getting, Adding, Get, GoTo, poolVars
  <2>2. CASE GetPool(t)
    <3>1. list' \in SUBSET Entries /\ allocated' \in SUBSET Entries
      BY <2>2 DEF IInv, TypeOK, Shape, Keeping, Places, Getting, Adding, GetPool, GoTo
    <3>2. mine' \in [Threads -> SUBSET Entries]
      BY <2>2 DEF IInv, TypeOK, Shape, Keeping, Places, Getting, Adding, GetPool, GoTo
    <3>3. pc' \in [Threads -> Places]
      BY <2>2 DEF IInv, TypeOK, Shape, Keeping, Places, Getting, Adding, GetPool, GoTo
    <3> QED BY <2>2, <3>1, <3>2, <3>3 DEF IInv, TypeOK, GetPool, GoTo
  <2>3. CASE ReadFirst(t)
    BY <2>3 DEF IInv, Shape, Keeping, TypeOK, Places, Getting, Adding, ReadFirst, GoTo, poolVars
  <2>4. CASE Compare(t)
    BY <2>4 DEF IInv, Shape, Keeping, TypeOK, Places, Getting, Adding, Compare, GoTo, poolVars
  <2>5. CASE AllocBuffer(t)
    <3>1. list' \in SUBSET Entries /\ allocated' \in SUBSET Entries
      BY <2>5 DEF IInv, TypeOK, Shape, Keeping, Places, Getting, Adding, AllocBuffer, GoTo
    <3>2. kept' \in [Threads -> Entries \cup {Nil}]
      BY <2>5 DEF IInv, TypeOK, Shape, Keeping, Places, Getting, Adding, AllocBuffer, GoTo
    <3>3. refs' \in [Entries -> Nat]
      BY <2>5 DEF IInv, TypeOK, Shape, Keeping, Places, Getting, Adding, AllocBuffer, GoTo
    <3>4. pc' \in [Threads -> Places]
      BY <2>5 DEF IInv, TypeOK, Shape, Keeping, Places, Getting, Adding, AllocBuffer, GoTo
    <3> QED BY <2>5, <3>1, <3>2, <3>3, <3>4 DEF IInv, TypeOK, AllocBuffer, GoTo
  <2>6. CASE CountRef(t)
    BY <2>6 DEF IInv, Shape, Keeping, TypeOK, Places, Getting, Adding, CountRef, GoTo, poolVars
  <2>7. CASE CountAllocated(t)
    BY <2>7 DEF IInv, Shape, Keeping, TypeOK, Places, Getting, Adding, CountAllocated, Return, GoTo, poolVars
  <2>8. CASE KeepFirst(t)
    BY <2>8 DEF IInv, Shape, Keeping, TypeOK, Places, Getting, Adding, KeepFirst, GoTo, poolVars
  <2>9. CASE Create(t)
    <3>5. kept[t] \in Entries
      BY <2>9 DEF IInv, TypeOK, Shape, Keeping, Create
    <3>1. mine' \in [Threads -> SUBSET Entries]
      BY <2>9 DEF IInv, TypeOK, Shape, Keeping, Places, Getting, Adding, Create, GoTo, poolVars
    <3>2. kept' \in [Threads -> Entries \cup {Nil}]
      BY <2>9 DEF IInv, TypeOK, Shape, Keeping, Places, Getting, Adding, Create, GoTo, poolVars
    <3>3. refs' \in [Entries -> Nat]
      <4>1. CASE refs' = refs  BY <4>1 DEF IInv, TypeOK
      <4>2. CASE refs' = [refs EXCEPT ![kept[t]] = 1]  BY <4>2 DEF IInv, TypeOK
      <4> QED BY <2>9, <4>1, <4>2 DEF Create
    <3>4. pc' \in [Threads -> Places]
      BY <2>9 DEF IInv, TypeOK, Shape, Keeping, Places, Getting, Adding, Create, GoTo, poolVars
    <3> QED BY <2>9, <3>1, <3>2, <3>3, <3>4 DEF IInv, TypeOK, Create, GoTo, poolVars
  <2>10. CASE Claim(t)
    BY <2>10 DEF IInv, Shape, Keeping, TypeOK, Places, Getting, Adding, Claim, Return, GoTo, poolVars
  <2>11. CASE Publish(t)
    BY <2>11 DEF IInv, Shape, Keeping, TypeOK, Places, Getting, Adding, Publish, Along, GoTo, poolVars
  <2>12. CASE PublishBlocked(t)
    BY <2>12 DEF IInv, Shape, Keeping, TypeOK, Places, Getting, Adding, PublishBlocked, Along, GoTo, poolVars
  <2>13. CASE TakeToo(t)
    BY <2>13 DEF IInv, Shape, Keeping, TypeOK, Places, Getting, Adding, TakeToo, Along, GoTo, poolVars
  <2>14. CASE EndWrite(t)
    BY <2>14 DEF IInv, Shape, Keeping, TypeOK, Places, Getting, Adding, EndWrite, GoTo, poolVars
  <2>15. CASE Drop(t)
    BY <2>15, AtZero DEF IInv, TypeOK, Places, Drop, DropReference, GoTo
  <2>16. CASE FreeEntry(t)
    BY <2>16 DEF IInv, Shape, Keeping, TypeOK, Places, Getting, Adding, FreeEntry, GoTo, poolVars
  <2>17. CASE FreePool(t)
    BY <2>17 DEF IInv, Shape, Keeping, TypeOK, Places, Getting, Adding, FreePool, GoTo, poolVars
  <2>18. CASE Uninit(t)
    <3>1. refcount' \in Nat
      BY <2>18, AtZero DEF IInv, TypeOK, Shape, Keeping, Places, Getting, Adding, Uninit, DropReference, GoTo
    <3>2. pc' \in [Threads -> Places]
      BY <2>18, AtZero DEF IInv, TypeOK, Shape, Keeping, Places, Getting, Adding, Uninit, DropReference, GoTo
    <3> QED BY <2>18, <3>1, <3>2 DEF IInv, TypeOK, Uninit, DropReference, GoTo
  <2>19. ASSUME NEW e \in Entries, Unref(t, e) PROVE TypeOK'
    <3>1. refs' \in [Entries -> Nat]
      BY <2>19, LastReference DEF IInv, TypeOK, Shape, Keeping, Places, Getting, Adding, Unref, GoTo, poolVars
    <3>2. holds' \in [Threads -> SUBSET Entries]
      BY <2>19, LastReference DEF IInv, TypeOK, Shape, Keeping, Places, Getting, Adding, Unref, GoTo, poolVars
    <3>3. mine' \in [Threads -> SUBSET Entries]
      BY <2>19, LastReference DEF IInv, TypeOK, Shape, Keeping, Places, Getting, Adding, Unref, GoTo, poolVars
    <3>4. pc' \in [Threads -> Places]
      BY <2>19, LastReference DEF IInv, TypeOK, Shape, Keeping, Places, Getting, Adding, Unref, GoTo, poolVars
    <3> QED BY <2>19, <3>1, <3>2, <3>3, <3>4 DEF IInv, TypeOK, Unref, GoTo, poolVars
  <2>20. ASSUME NEW e \in Entries, MakeWritable(t, e) PROVE TypeOK'
    BY <2>20 DEF IInv, Shape, Keeping, TypeOK, Places, Getting, Adding, MakeWritable, GoTo, poolVars
  <2>21. ASSUME NEW e \in Entries, NEW u \in Threads, Ref(t, u, e) PROVE TypeOK'
    BY <2>21 DEF IInv, Shape, Keeping, TypeOK, Places, Getting, Adding, Ref, GoTo, poolVars
  <2> QED BY <1>2, <2>1, <2>2, <2>3, <2>4, <2>5, <2>6, <2>7, <2>8, <2>9, <2>10, <2>11, <2>12, <2>13, <2>14, <2>15, <2>16, <2>17, <2>18, <2>19, <2>20, <2>21 DEF Call, Continue
<1> QED BY <1>1, <1>2 DEF Next

\* A new pool satisfies the invariant.
LEMMA Begins == Init => IInv
<1> SUFFICES ASSUME Init PROVE IInv
  OBVIOUS
<1>1. TypeOK /\ Shape /\ OwnedOnce /\ SoleWriter /\ Ending
  BY NilIsNone DEF Init, TypeOK, Places, Shape, Keeping, Getting, OwnedOnce, Hand, SoleWriter, Ending
<1>2. \A e \in Entries : Owners[e] = {}
  BY NilIsNone DEF Init, Owners, Owns
<1>3. Held = {} /\ Returning = {}
  BY DEF Init, Held, Returning
<1>5. Cardinality({}) = 0
  BY FS_EmptySet
<1>4. RefsExact /\ CountExact
  BY <1>2, <1>3, <1>5 DEF Init, RefsExact, CountExact, OwnerCount
<1> QED BY <1>1, <1>4 DEF IInv

\* The invariant holds throughout.
LEMMA Inductive == Spec => []IInv
<1>1. IInv /\ [Next]_vars => IInv'
  BY TypeStep, ShapeStep, OwnedStep, WriterStep, RefsStep, CountStep, EndingStep DEF IInv
<1> QED BY Begins, <1>1, PTL DEF Spec

(***************************************************************************)
(* The pool's words keep their types; in particular neither count of       *)
(* references ever falls below zero.                                       *)
(***************************************************************************)
THEOREM TypeCorrect == Spec => []TypeOK
<1>1. IInv => TypeOK  BY DEF IInv
<1> QED BY Inductive, <1>1, PTL

(***************************************************************************)
(* No buffer is handed out twice, appended twice or lost, whatever lists   *)
(* the threads take from each other.                                       *)
(***************************************************************************)
THEOREM BuffersOwnedOnce == Spec => []OwnedOnce
<1>1. IInv => OwnedOnce  BY DEF IInv
<1> QED BY Inductive, <1>1, PTL

(***************************************************************************)
(* Types and owners together, as the run checks them.                      *)
(***************************************************************************)
THEOREM PoolStaysWhole == Spec => []PoolWhole
BY TypeCorrect, BuffersOwnedOnce, PTL DEF PoolWhole

(***************************************************************************)
(* Writing in place is exclusive.                                          *)
(***************************************************************************)
THEOREM WriterIsAlone == Spec => []SoleWriter
<1>1. IInv => SoleWriter  BY DEF IInv
<1> QED BY Inductive, <1>1, PTL

(***************************************************************************)
(* The pool is freed by one thread, after its last use, with every buffer  *)
(* in its list.                                                            *)
(***************************************************************************)
THEOREM PoolFreedLast == Spec => []PoolOutlivesUse
<1>1. ASSUME IInv PROVE PoolOutlivesUse
  <2>1. CASE freed \/ \E t \in Threads : pc[t] = "destroy"
    <3>1. refcount = 0  BY <1>1, <2>1 DEF IInv, Ending
    <3> QED BY <1>1, <3>1, AtZero DEF IInv, Ending, PoolOutlivesUse
  <2> QED BY <2>1 DEF PoolOutlivesUse
<1> QED BY Inductive, <1>1, PTL
=============================================================================
