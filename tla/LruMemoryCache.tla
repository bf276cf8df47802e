--------------------------- MODULE LruMemoryCache ---------------------------
(***************************************************************************)
(* cache/memory/impl/LruMemoryCache.java: an access-ordered LinkedHashMap  *)
(* and a running byte count, shared by the UI thread and the pool threads. *)
(* put() and clear() leave the monitor between the eviction steps of       *)
(* trimToSize(), so calls of other threads interleave with a trim.         *)
(***************************************************************************)
EXTENDS Integers, FiniteSets, Sequences

CONSTANTS
    Threads,  \* callers: UI thread, pool threads
    Keys,     \* memory cache keys
    Bitmaps,  \* decoded bitmaps
    SizeOf,   \* sizeOf(): rowBytes * height, fixed while cached
    MaxSize,  \* constructor argument, > 0
    NULL      \* no mapping; no trim in progress

SE == INSTANCE SequencesExt

VARIABLES
    map,    \* the key-value content of the LinkedHashMap
    order,  \* its access order, eldest first
    size,   \* the field size
    goal    \* per thread: the argument of its trimToSize, NULL outside

vars == <<map, order, size, goal>>

\* What the class implements, whatever its eviction order.
Abstract == INSTANCE MemoryCache

ASSUME SizeAssumption    == SizeOf \in [Bitmaps -> Nat]
ASSUME MaxSizeAssumption == MaxSize \in Nat \ {0}
ASSUME NullAssumption    == NULL \notin Bitmaps /\ NULL \notin Int

Cached == {k \in Keys : map[k] # NULL}

Init == /\ map   = [k \in Keys |-> NULL]
        /\ order = <<>>
        /\ size  = 0
        /\ goal  = [t \in Threads |-> NULL]

\* LinkedHashMap(accessOrder = true): a used key becomes the youngest.
Without(s, k) == SE!RemoveFirst(s, k)

\* Variants a wrong accessOrder flag or a missed unlink would give.
TouchInInsertionOrder(s, k) ==
    IF \E i \in DOMAIN s : s[i] = k THEN s ELSE Append(s, k)
TouchWithoutUnlink(s, k) == Append(s, k)
Touch(s, k) == Append(Without(s, k), k)

\* The bytes that leave the count when the mapping of k goes.
Weight(k) == IF map[k] = NULL THEN 0 ELSE SizeOf[map[k]]

Get(t, k) ==
    /\ goal[t] = NULL
    /\ map[k] # NULL
    /\ order' = Touch(order, k)
    /\ UNCHANGED <<map, size, goal>>

\* Variant: the replaced bitmap is not taken off the count.
PutKeepingCount(t, k, b) ==
    /\ goal[t] = NULL
    /\ size'  = size + SizeOf[b]
    /\ map'   = [map EXCEPT ![k] = b]
    /\ order' = Touch(order, k)
    /\ goal'  = [goal EXCEPT ![t] = MaxSize]

\* Variant: a bitmap that fits by itself is taken not to need a trim.
PutTrimmingBig(t, k, b) ==
    /\ goal[t] = NULL
    /\ size'  = size + SizeOf[b] - Weight(k)
    /\ map'   = [map EXCEPT ![k] = b]
    /\ order' = Touch(order, k)
    /\ goal'  = IF SizeOf[b] > MaxSize THEN [goal EXCEPT ![t] = MaxSize] ELSE goal

\* The synchronized block of put(); trimToSize(maxSize) follows unlocked.
Put(t, k, b) ==
    /\ goal[t] = NULL
    /\ size'  = size + SizeOf[b] - Weight(k)
    /\ map'   = [map EXCEPT ![k] = b]
    /\ order' = Touch(order, k)
    /\ goal'  = [goal EXCEPT ![t] = MaxSize]

Remove(t, k) ==
    /\ goal[t] = NULL
    /\ map[k] # NULL
    /\ size'  = size - Weight(k)
    /\ map'   = [map EXCEPT ![k] = NULL]
    /\ order' = Without(order, k)
    /\ UNCHANGED goal

\* Variant: clear trims to 0 and so keeps bitmaps of 0 bytes.
ClearToZero(t) ==
    /\ goal[t] = NULL
    /\ goal' = [goal EXCEPT ![t] = 0]
    /\ UNCHANGED <<map, order, size>>

Clear(t) ==
    /\ goal[t] = NULL
    /\ goal' = [goal EXCEPT ![t] = -1]
    /\ UNCHANGED <<map, order, size>>

\* The test that makes trimToSize throw IllegalStateException.
Inconsistent == size < 0 \/ (order = <<>> /\ size # 0)

\* Variant: the loop has no map.isEmpty() exit.
TrimEndsBySize(t) ==
    /\ goal[t] # NULL
    /\ Inconsistent \/ size <= goal[t]
    /\ goal' = [goal EXCEPT ![t] = NULL]
    /\ UNCHANGED <<map, order, size>>

\* The loop is left, by its break or by the exception.
TrimEnds(t) ==
    /\ goal[t] # NULL
    /\ Inconsistent \/ size <= goal[t] \/ order = <<>>
    /\ goal' = [goal EXCEPT ![t] = NULL]
    /\ UNCHANGED <<map, order, size>>

\* Variant: evicts at the limit already.
TrimEvictsAtLimit(t) ==
    /\ goal[t] # NULL
    /\ ~Inconsistent
    /\ size >= goal[t] /\ order # <<>>
    /\ size'  = size - Weight(Head(order))
    /\ map'   = [map EXCEPT ![Head(order)] = NULL]
    /\ order' = Tail(order)
    /\ UNCHANGED goal

\* One turn of the loop: the eldest entry goes.
TrimEvicts(t) ==
    /\ goal[t] # NULL
    /\ ~Inconsistent
    /\ size > goal[t] /\ order # <<>>
    /\ size'  = size - Weight(Head(order))
    /\ map'   = [map EXCEPT ![Head(order)] = NULL]
    /\ order' = Tail(order)
    /\ UNCHANGED goal

TrimToSize(t) == TrimEnds(t) \/ TrimEvicts(t)

Call(t) == \/ \E k \in Keys : Get(t, k) \/ Remove(t, k)
           \/ \E k \in Keys, b \in Bitmaps : Put(t, k, b)
           \/ Clear(t)

Next == \E t \in Threads : Call(t) \/ TrimToSize(t)

Spec == Init /\ [][Next]_vars

\* A thread inside trimToSize is eventually scheduled and gets the monitor.
FairSpec == Spec /\ \A t \in Threads : WF_vars(TrimToSize(t))

----------------------------------------------------------------------------
TypeOK ==
    /\ map   \in [Keys -> Bitmaps \cup {NULL}]
    /\ order \in Seq(Keys)
    /\ size  \in Int
    /\ goal  \in [Threads -> {NULL, MaxSize, -1}]

\* The access order lists exactly the cached keys, each once: the entry a
\* trim takes from its head is a cached one (LruMemoryCache.java:92-97).
OrderListsCached ==
    /\ {order[i] : i \in DOMAIN order} = Cached
    /\ \A i, j \in DOMAIN order : order[i] = order[j] => i = j

\* The running count is the number of bytes really held, across replaced
\* values, removals and evictions of interleaved callers (fields 26-29).
SizeIsSum == size = Abstract!Total(map)

\* No interleaving makes trimToSize report "inconsistent results" (84-86).
NeverThrows == (\E t \in Threads : goal[t] # NULL) => ~Inconsistent

\* The limit may be exceeded only while some put is still trimming: a put
\* never leaves its overweight to nobody (67-68).
OverLimitIsTrimmed ==
    Abstract!Total(map) > MaxSize => \E t \in Threads : goal[t] # NULL

\* Content, access order and count agree whatever calls interleave, no turn of a
\* trim can throw, and no weight over the limit is left to nobody.
Consistent ==
    TypeOK /\ OrderListsCached /\ SizeIsSum /\ NeverThrows /\ OverLimitIsTrimmed

IInv == /\ TypeOK
        /\ OrderListsCached
        /\ SizeIsSum
        /\ IsFiniteSet(Abstract!Bytes(map))
        /\ OverLimitIsTrimmed

\* The class implements the bounded cache MemoryCache describes.
AbstractSpec == Abstract!Spec

\* Once callers stop making new calls, every put and clear returns: the
\* trim loop has no way to spin (79-102).
TrimsEnd ==
    <>[][\A t \in Threads : ~(goal[t] = NULL /\ goal'[t] # NULL)]_vars
        => <>[](\A t \in Threads : goal[t] = NULL)
============================================================================
