---------------------------- MODULE MemoryCache ----------------------------
(***************************************************************************)
(* What a size-bounded MemoryCache promises its callers, whatever its      *)
(* eviction policy: a key yields the bitmap last put under it or nothing,  *)
(* only a call in progress (never idle time) may evict, and a call returns *)
(* at a moment when the cache meets the goal of that call: the size limit  *)
(* after a put, emptiness after a clear.                                   *)
(***************************************************************************)
EXTENDS Integers, FiniteSets

CONSTANTS
    Threads,  \* callers: UI thread, pool threads
    Keys,     \* memory cache keys (uri_WxH)
    Bitmaps,  \* decoded bitmaps
    SizeOf,   \* bytes of a bitmap: getRowBytes() * getHeight()
    MaxSize,  \* limit of the cache in bytes
    NULL      \* no bitmap, no call

VARIABLES
    map,   \* the bitmap cached under each key, or NULL
    goal   \* per thread: the size its put/clear must reach before returning

vars == <<map, goal>>

\* clear() asks for -1, so that even bitmaps of 0 bytes go.
Goals == {MaxSize, -1}

Cached(m) == {k \in Keys : m[k] # NULL}

\* Every byte of every cached bitmap, so that the total is a cardinality.
Bytes(m) == UNION {{k} \X (1..SizeOf[m[k]]) : k \in Cached(m)}

Total(m) == Cardinality(Bytes(m))

Init == /\ map  = [k \in Keys |-> NULL]
        /\ goal = [t \in Threads |-> NULL]

Put(t, k, b) == /\ goal[t] = NULL
                /\ map'  = [map EXCEPT ![k] = b]
                /\ goal' = [goal EXCEPT ![t] = MaxSize]

Clear(t) == /\ goal[t] = NULL
            /\ goal' = [goal EXCEPT ![t] = -1]
            /\ UNCHANGED map

Remove(t, k) == /\ goal[t] = NULL
                /\ map' = [map EXCEPT ![k] = NULL]
                /\ UNCHANGED goal

\* A call in progress gives up one bitmap of its choice.
Evict(t, k) == /\ goal[t] # NULL
               /\ Total(map) > goal[t]
               /\ map' = [map EXCEPT ![k] = NULL]
               /\ UNCHANGED goal

Return(t) == /\ goal[t] # NULL
             /\ Total(map) <= goal[t] \/ Cached(map) = {}
             /\ goal' = [goal EXCEPT ![t] = NULL]
             /\ UNCHANGED map

Next == \E t \in Threads :
            \/ \E k \in Keys, b \in Bitmaps : Put(t, k, b)
            \/ \E k \in Keys : Remove(t, k) \/ Evict(t, k)
            \/ Clear(t)
            \/ Return(t)

Spec == Init /\ [][Next]_vars
============================================================================
