------------------------ MODULE MCLimitedMemoryCache ------------------------
(* Two bitmaps of one and of two bytes under a limit of three, and one that *)
(* is as large as the limit and only gets a weak reference.                 *)
EXTENDS LimitedMemoryCache, TLC

CONSTANTS one, two, big

MCSizeOf == one :> 1 @@ two :> 2 @@ big :> 3

\* Two bitmaps that each fit, but not both.
MCPair == one :> 2 @@ two :> 2

\* The properties say nothing once a clear() was disturbed.
Undisturbed == ~disturbed

Symmetric == Permutations(Threads) \cup Permutations(Keys)

\* "Size of all stored bitmaps will not to exceed size limit"
\* (LimitedMemoryCache.java:29): of the bitmaps the strong list holds, each
\* taken once, when no call is in progress.  Two puts that both find room
\* before either has counted its bitmap break it, and nothing is evicted until
\* a later put needs room.
StoredBytes == [b \in Bitmaps |-> IF hard[b] > 0 THEN SizeOf[b] ELSE 0]
StoredWithinLimit == (\A t \in Threads : op[t].at = "idle") => SumOf(StoredBytes) <= Limit
=============================================================================
