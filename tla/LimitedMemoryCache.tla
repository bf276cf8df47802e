-------------------------- MODULE LimitedMemoryCache --------------------------
(***************************************************************************)
(* cache/memory/LimitedMemoryCache.java over BaseMemoryCache.java, with    *)
(* the four policies that say what to give up: FIFO, LRU, largest and      *)
(* least used.  Every structure has a lock of its own and no method holds  *)
(* more than one, so each access to one is an action, and op[t].at names   *)
(* the access that the call of thread t makes next.                        *)
(***************************************************************************)
EXTENDS Integers, Sequences, FiniteSetsExt, Sums

CONSTANTS
    Threads, Keys, Bitmaps, NULL,
    SizeOf,     \* getSize
    Limit,      \* sizeLimit
    Kinds,      \* policies, a subset of Policies
    MaxListed,  \* bound: entries of hardCache, and of the policy, at a put
    MaxUses     \* bound: usage counts stop here

Policies == {"fifo", "lru", "largest", "usingFreq"}
ASSUME KindsAssumption == Kinds \subseteq Policies
ASSUME SizesAssumption == SizeOf \in [Bitmaps -> Nat \ {0}]
ASSUME LimitAssumption == Limit \in Nat \ {0}   \* ImageLoaderConfiguration.memoryCacheSize
ASSUME FiniteAssumption == IsFiniteSet(Threads) /\ IsFiniteSet(Bitmaps)
ASSUME NullAssumption == NULL \notin Bitmaps \cup Keys
ASSUME BoundsAssumption == MaxListed \in Nat /\ MaxUses \in Nat

S == INSTANCE SequencesExt

VARIABLES
    kind,       \* the policy of this cache
    hard,       \* hardCache: how often each bitmap is listed
    cacheSize,
    soft,       \* softMap: the bitmap the key's reference gives, or NULL
    policy,     \* queue, lruCache, valueSizes or usingCounts
    op,         \* per thread, the call with its locals
    disturbed   \* history: a clear() ran beside another call
vars == <<kind, hard, cacheSize, soft, policy, op, disturbed>>

\* value: put's or remove's; victim: removedValue; cur: curCacheSize, or the
\* usage count that was read.
IDLE == [at |-> "idle", key |-> NULL, value |-> NULL, victim |-> NULL, cur |-> 0]

Init ==
    /\ kind \in Kinds
    /\ hard = [b \in Bitmaps |-> 0] /\ cacheSize = 0
    /\ soft = [k \in Keys |-> NULL] /\ policy = <<>>
    /\ op = [t \in Threads |-> IDLE]
    /\ disturbed = FALSE

Clears == {"clearPolicy", "clearHard", "clearSize", "clearSoft"}

\* Thread t begins a call.
Begin(t, call) ==
    /\ op[t].at = "idle"
    /\ op' = [op EXCEPT ![t] = call]
    /\ disturbed' = (disturbed \/ \E u \in Threads \ {t} :
           op[u].at # "idle" /\ (call.at \in Clears \/ op[u].at \in Clears))

GoOn(t, call) == op' = [op EXCEPT ![t] = call] /\ UNCHANGED <<kind, disturbed>>
GoTo(t, a)    == GoOn(t, [op[t] EXCEPT !.at = a])
Return(t)     == GoOn(t, IDLE)

-----------------------------------------------------------------------------
(* The policies: a queue of bitmaps, a map from keys to bitmaps in order   *)
(* of access, maps from bitmaps.                                           *)

\* Where a key's or a bitmap's entries are.
At(k, b) == {i \in DOMAIN policy : IF kind = "lru" THEN policy[i].key = k ELSE policy[i].value = b}

\* remove: the first one goes.
Without(k, b) == IF At(k, b) = {} THEN policy ELSE S!RemoveAt(policy, Min(At(k, b)))

\* add and put: a queue lists a bitmap again, a map has one entry.
With(k, b) ==
    LET entry == [key |-> IF kind = "lru" THEN k ELSE NULL, value |-> b, uses |-> 0]
    IN  Append(IF kind = "fifo" THEN policy ELSE Without(k, b), entry)

\* The entries removeNext may take; a hash map lists equals in any order.
Candidates ==
    CASE kind \in {"fifo", "lru"} -> {1} \cap DOMAIN policy
      [] kind = "largest" ->
             {i \in DOMAIN policy : \A j \in DOMAIN policy : SizeOf[policy[j].value] <= SizeOf[policy[i].value]}
      [] kind = "usingFreq" ->
             {i \in DOMAIN policy : \A j \in DOMAIN policy : policy[i].uses <= policy[j].uses}

-----------------------------------------------------------------------------
(* put                                                                     *)

Listed == SumOf(hard)

Put(t, k, b) ==
    /\ Begin(t, [IDLE EXCEPT !.at = IF SizeOf[b] < Limit THEN "fit" ELSE "putSoftOnly",
                             !.key = k, !.value = b, !.cur = cacheSize])
    /\ Len(policy) < MaxListed /\ Listed < MaxListed
    /\ UNCHANGED <<kind, hard, cacheSize, soft, policy>>

MustEvictBefore(t) == op[t].cur > Limit
MustEvict(t) == op[t].cur + SizeOf[op[t].value] > Limit

\* removeNext of an empty policy: a list throws, put ends; the others return
\* null, which hardCache does not contain, and put tries again.
RemoveNextFails(t) ==
    /\ op[t].at = "fit" /\ MustEvict(t) /\ policy = <<>>
    /\ IF kind = "fifo" THEN Return(t) ELSE GoTo(t, "fit")
    /\ UNCHANGED <<hard, cacheSize, soft, policy>>

\* The queue and the access order give up their first entry at once; the other
\* two look for an entry and remove it later.
RemoveNext(t) ==
    /\ op[t].at = "fit" /\ MustEvict(t)
    /\ \E i \in Candidates :
        /\ policy' = IF kind \in {"fifo", "lru"} THEN S!RemoveAt(policy, i) ELSE policy
        /\ GoOn(t, [op[t] EXCEPT !.victim = policy[i].value,
                                 !.at = IF kind \in {"fifo", "lru"} THEN "evict" ELSE "forget"])
    /\ UNCHANGED <<hard, cacheSize, soft>>

Forget(t) ==
    /\ op[t].at = "forget"
    /\ policy' = Without(NULL, op[t].victim)
    /\ GoTo(t, "evict")
    /\ UNCHANGED <<hard, cacheSize, soft>>

\* hardCache.remove: bytes are given back only for what it listed.
EvictAnyway(t) ==
    /\ op[t].at = "evict"
    /\ LET b == op[t].victim
       IN  /\ hard' = IF hard[b] > 0 THEN [hard EXCEPT ![b] = @ - 1] ELSE hard
           /\ GoTo(t, "evicted")
    /\ UNCHANGED <<cacheSize, soft, policy>>
Evict(t) ==
    /\ op[t].at = "evict"
    /\ LET b == op[t].victim
       IN  IF hard[b] > 0 THEN hard' = [hard EXCEPT ![b] = @ - 1] /\ GoTo(t, "evicted")
                          ELSE hard' = hard /\ GoOn(t, [op[t] EXCEPT !.at = "fit", !.victim = NULL])
    /\ UNCHANGED <<cacheSize, soft, policy>>

CountEvicted(t) ==
    /\ op[t].at = "evicted"
    /\ cacheSize' = cacheSize - SizeOf[op[t].victim]
    /\ GoOn(t, [op[t] EXCEPT !.at = "fit", !.victim = NULL, !.cur = cacheSize'])
    /\ UNCHANGED <<hard, soft, policy>>

PutHard(t) ==
    /\ op[t].at = "fit" /\ ~MustEvict(t)
    /\ hard' = [hard EXCEPT ![op[t].value] = @ + 1]
    /\ GoTo(t, "added")
    /\ UNCHANGED <<cacheSize, soft, policy>>

CountAdded(t) ==
    /\ op[t].at = "added"
    /\ cacheSize' = cacheSize + SizeOf[op[t].value]
    /\ GoTo(t, "putSoft")
    /\ UNCHANGED <<hard, soft, policy>>

PutSoft(t) ==
    /\ op[t].at \in {"putSoft", "putSoftOnly"}
    /\ soft' = [soft EXCEPT ![op[t].key] = op[t].value]
    /\ IF op[t].at = "putSoft" THEN GoTo(t, "remember") ELSE Return(t)
    /\ UNCHANGED <<hard, cacheSize, policy>>

Remember(t) ==
    /\ op[t].at = "remember"
    /\ policy' = With(op[t].key, op[t].value)
    /\ Return(t)
    /\ UNCHANGED <<hard, cacheSize, soft>>

-----------------------------------------------------------------------------
(* get: the access order changes, or a usage count is read and written     *)
(* back; FIFO and largest change nothing.                                  *)

GetTouches(k) ==
    /\ kind = "lru"
    /\ \E i \in At(k, NULL) : policy' = Append(S!RemoveAt(policy, i), policy[i])
    /\ UNCHANGED <<kind, hard, cacheSize, soft, op, disturbed>>

Get(t, k) ==
    /\ kind = "usingFreq" /\ soft[k] # NULL
    /\ Begin(t, [IDLE EXCEPT !.at = "use", !.value = soft[k]])
    /\ UNCHANGED <<kind, hard, cacheSize, soft, policy>>

\* Nothing is counted of a bitmap without an entry.
ReadUses(t) ==
    /\ op[t].at = "use"
    /\ IF At(NULL, op[t].value) = {} THEN Return(t)
       ELSE LET i == Min(At(NULL, op[t].value))
            IN  GoOn(t, [op[t] EXCEPT !.at = "count", !.cur = Min({MaxUses, policy[i].uses + 1})])
    /\ UNCHANGED <<hard, cacheSize, soft, policy>>

\* The entry is put back if it was removed meanwhile.
CountUse(t) ==
    /\ op[t].at = "count"
    /\ LET b == op[t].value
           used == [key |-> NULL, value |-> b, uses |-> op[t].cur]
       IN  policy' = Append(Without(NULL, b), used)
    /\ Return(t)
    /\ UNCHANGED <<hard, cacheSize, soft>>

-----------------------------------------------------------------------------
(* remove: the policy's entry, the list's, the counted bytes, the reference *)

Remove(t, k) ==
    /\ Begin(t, [IDLE EXCEPT !.at = IF kind = "lru" \/ soft[k] # NULL THEN "removePolicy" ELSE "removeHard",
                             !.key = k, !.value = soft[k]])
    /\ UNCHANGED <<kind, hard, cacheSize, soft, policy>>

RemovePolicy(t) ==
    /\ op[t].at = "removePolicy"
    /\ policy' = Without(op[t].key, op[t].value)
    /\ GoTo(t, "removeHard")
    /\ UNCHANGED <<hard, cacheSize, soft>>

\* LimitedMemoryCache.remove asks the reference again.
RemoveLooksUp(t) ==
    /\ op[t].at = "removeHard"
    /\ GoOn(t, [op[t] EXCEPT !.value = soft[op[t].key],
                             !.at = IF soft[op[t].key] = NULL THEN "removeSoft" ELSE "unlist"])
    /\ UNCHANGED <<hard, cacheSize, soft, policy>>

RemoveHard(t) ==
    /\ op[t].at = "unlist"
    /\ LET b == op[t].value
       IN  IF hard[b] > 0 THEN hard' = [hard EXCEPT ![b] = @ - 1] /\ GoTo(t, "removed")
                          ELSE hard' = hard /\ GoTo(t, "removeSoft")
    /\ UNCHANGED <<cacheSize, soft, policy>>

CountRemoved(t) ==
    /\ op[t].at = "removed"
    /\ cacheSize' = cacheSize - SizeOf[op[t].value]
    /\ GoTo(t, "removeSoft")
    /\ UNCHANGED <<hard, soft, policy>>

RemoveSoft(t) ==
    /\ op[t].at = "removeSoft"
    /\ soft' = [soft EXCEPT ![op[t].key] = NULL]
    /\ Return(t)
    /\ UNCHANGED <<hard, cacheSize, policy>>

-----------------------------------------------------------------------------
(* clear, and the collector                                                *)

Clear(t) ==
    /\ Begin(t, [IDLE EXCEPT !.at = "clearPolicy"])
    /\ UNCHANGED <<kind, hard, cacheSize, soft, policy>>

ClearPolicy(t) ==
    /\ op[t].at = "clearPolicy" /\ policy' = <<>> /\ GoTo(t, "clearHard")
    /\ UNCHANGED <<hard, cacheSize, soft>>
ClearHard(t) ==
    /\ op[t].at = "clearHard" /\ hard' = [b \in Bitmaps |-> 0] /\ GoTo(t, "clearSize")
    /\ UNCHANGED <<cacheSize, soft, policy>>
ClearSize(t) ==
    /\ op[t].at = "clearSize" /\ cacheSize' = 0 /\ GoTo(t, "clearSoft")
    /\ UNCHANGED <<hard, soft, policy>>
ClearSoft(t) ==
    /\ op[t].at = "clearSoft" /\ soft' = [k \in Keys |-> NULL] /\ Return(t)
    /\ UNCHANGED <<hard, cacheSize, policy>>

\* A reference is cleared when only references are left to its bitmap.
Collect(k) ==
    /\ soft[k] # NULL /\ hard[soft[k]] = 0
    /\ \A i \in DOMAIN policy : policy[i].value # soft[k]
    /\ \A t \in Threads : soft[k] \notin {op[t].value, op[t].victim}
    /\ soft' = [soft EXCEPT ![k] = NULL]
    /\ UNCHANGED <<kind, hard, cacheSize, policy, op, disturbed>>

Step(t) ==
    \/ RemoveNextFails(t) \/ RemoveNext(t) \/ Forget(t) \/ Evict(t) \/ CountEvicted(t)
    \/ PutHard(t) \/ CountAdded(t) \/ PutSoft(t) \/ Remember(t) \/ ReadUses(t) \/ CountUse(t)
    \/ RemovePolicy(t) \/ RemoveLooksUp(t) \/ RemoveHard(t) \/ CountRemoved(t) \/ RemoveSoft(t)
    \/ ClearPolicy(t) \/ ClearHard(t) \/ ClearSize(t) \/ ClearSoft(t)

Next ==
    \/ \E t \in Threads :
        \/ \E k \in Keys, b \in Bitmaps : Put(t, k, b)
        \/ \E k \in Keys : Get(t, k) \/ Remove(t, k)
        \/ Clear(t) \/ Step(t)
    \/ \E k \in Keys : GetTouches(k) \/ Collect(k)
Spec == Init /\ [][Next]_vars

-----------------------------------------------------------------------------
\* The bytes hardCache lists, and what the threads have added to it or removed
\* from it and not yet counted.
ListedBytes == [b \in Bitmaps |-> hard[b] * SizeOf[b]]
Added == [t \in Threads |-> IF op[t].at = "added" THEN SizeOf[op[t].value] ELSE 0]
Taken == [t \in Threads |-> CASE op[t].at = "evicted" -> SizeOf[op[t].victim]
                              [] op[t].at = "removed" -> SizeOf[op[t].value]
                              [] OTHER -> 0]

\* cacheSize is the size of what hardCache lists, but for the updates under
\* way: puts, evictions and removals of the same bitmaps in different threads,
\* of values a policy still lists or lists no more, give every byte back once
\* ("Size of all stored bitmaps", LimitedMemoryCache.java:30).  A clear() that
\* runs beside another call loses this for good, so it is stated without one.
BytesCounted ==
    ~disturbed /\ (\A t \in Threads : op[t].at # "clearSize") =>
        cacheSize + SumOf(Added) = SumOf(ListedBytes) + SumOf(Taken)

\* How far the code goes past the limit its documentation promises: threads
\* that each read the size before the other's bitmap is in exceed it, but only
\* by one bitmap for each thread but one, since a put never adds to a size above
\* the limit without bringing it down first.  A cache that one thread uses stays within
\* the limit.  That the promise itself is broken is StoredWithinLimit.
OvershootBounded == ~disturbed => cacheSize <= Limit + (Cardinality(Threads) - 1) * (Limit - 1)
=============================================================================
