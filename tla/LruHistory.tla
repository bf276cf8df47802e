----------------------------- MODULE LruHistory -----------------------------
(***************************************************************************)
(* LruMemoryCache with a history of uses, so that the order of eviction    *)
(* can be stated without the order field itself.                           *)
(***************************************************************************)
EXTENDS LruMemoryCache

VARIABLE since  \* per key: the keys used after its own last use

\* Key k was used: it has nothing after it, everything else has it after.
Used(k) == since' = [j \in Keys |-> IF j = k THEN {} ELSE since[j] \cup {k}]

HInit == Init /\ since = [k \in Keys |-> {}]

HNext == \E t \in Threads :
    \/ \E k \in Keys : Get(t, k) /\ Used(k)
    \/ \E k \in Keys, b \in Bitmaps : Put(t, k, b) /\ Used(k)
    \/ \E k \in Keys : Remove(t, k) /\ UNCHANGED since
    \/ (Clear(t) \/ TrimToSize(t)) /\ UNCHANGED since

HSpec == HInit /\ [][HNext]_<<vars, since>>

\* FairSpec's fairness.
HFairSpec == HSpec /\ \A t \in Threads :
                 WF_<<vars, since>>(TrimToSize(t) /\ UNCHANGED since)

\* What a trim gives up was used before every other cached key.
LeastRecentGoes(t) ==
    TrimEvicts(t) =>
        \A k \in Keys : map[k] # NULL /\ map'[k] = NULL => Cached \ {k} \subseteq since[k]

\* A trim gives up only a key that every other cached key was used after
\* ("evict the eldest", LruMemoryCache.java:74-76 and the accessOrder flag).
EvictsLeastRecent == [][\A t \in Threads : LeastRecentGoes(t)]_<<vars, since>>
=============================================================================
