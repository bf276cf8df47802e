-------------------------- MODULE ImageLoaderEngine --------------------------
(***************************************************************************)
(* core/ImageLoaderEngine.java: the tables and switches that the UI thread *)
(* and the task threads share, and the executors that run the tasks. The   *)
(* life of one request inside LoadAndDisplayImageTask and the calls of     *)
(* ImageLoader are in the modules that extend this one.                    *)
(***************************************************************************)
EXTENDS Integers, Sequences, FiniteSets

CONSTANTS
    Requests,   \* calls of displayImage with a uri, each made at most once
    Views,      \* ids of the image aware views
    Keys,       \* memory cache keys: a uri at a target size
    UriOf,      \* the uri of a memory cache key
    Options,    \* sets of DisplayImageOptions flags callers use
    PoolSize,   \* configuration.threadPoolSize
    MaxStops,   \* bound on calls of stop()
    MaxPauses,  \* bound on calls of pause()
    Env,        \* what else may happen, a subset of EnvEvents
    NULL        \* Java null

\* Memory or disk entries evicted, views collected, downloads denied, uri
\* strings collected, views cancelled, empty uris shown, I/O or decode
\* failures, bitmap processors that give no bitmap back.
EnvEvents ==
    {"evict", "collect", "deny", "gc", "cancel", "empty", "fail", "noBitmap"}

\* Flags of DisplayImageOptions: resetViewBeforeLoading, delayBeforeLoading,
\* postProcessor, cacheOnDisk, cacheInMemory, imageResOnFail.
Flags == {"reset", "delay", "post", "disk", "memory", "onFail"}

Uris  == {UriOf[k] : k \in Keys}
Kinds == {"net", "cached"}  \* taskExecutor, taskExecutorForCachedImages

ASSUME EnvAssumption     == Env \subseteq EnvEvents
ASSUME OptionsAssumption == Options \subseteq SUBSET Flags
ASSUME PoolAssumption    == PoolSize \in Nat \ {0}
ASSUME BoundsAssumption  == MaxStops \in Nat /\ MaxPauses \in Nat
ASSUME NullAssumption    == NULL \notin Keys \cup Requests \cup Views \cup Nat

VARIABLES
    \* ImageLoaderEngine
    viewKey,    \* cacheKeysForImageAwares
    lockTable,  \* uriLocks; a lock is named by the request that created it
    paused,     \* the flag paused
    denied,     \* the flag networkDenied
    executor,   \* the two executor fields: numbers of pools
    pools,      \* pools created so far
    shut,       \* pools shut down
    \* LoadAndDisplayImageTask, ProcessAndDisplayImageTask
    req,        \* the ImageLoadingInfo of each request
    pc,         \* how far it is
    pool,       \* the pool it was handed to
    renew,      \* executors its dispatcher found shut down
    intr,       \* the interrupt flag of its thread
    holder,     \* who holds each uri lock
    \* caches
    memory,     \* keys in the memory cache
    disk,       \* uris in the disk cache
    \* UI thread
    ui,         \* the ImageLoader call in progress on the UI thread
    handler,    \* runnables posted to the UI thread, in order
    shown,      \* what each view shows: a key, BLANK or ONFAIL
    collected,  \* views reclaimed by the garbage collector
    heard,      \* the callbacks each request's listener received
    latest,     \* history: the request whose image a view is to get
    stops, pauses  \* calls made, for the bounds

engineVars == <<viewKey, lockTable, paused, denied, executor, pools, shut>>
taskVars   == <<req, pc, pool, renew, intr, holder>>
cacheVars  == <<memory, disk>>
viewVars   == <<shown, collected, heard, latest>>
countVars  == <<stops, pauses>>
vars == <<engineVars, taskVars, cacheVars, ui, handler, viewVars, countVars>>

BLANK  == "blank"
ONFAIL == "onFail"

ASSUME ShownAssumption == BLANK \notin Keys /\ ONFAIL \notin Keys

ViewOf(r) == req[r].view
KeyOf(r)  == req[r].key
Uri(r)    == UriOf[req[r].key]
Has(r, f) == f \in req[r].opt

EngineInit ==
    /\ viewKey   = [v \in Views |-> NULL]
    /\ lockTable = [u \in Uris |-> NULL]
    /\ paused    = FALSE
    /\ denied    = FALSE
    /\ executor  = [k \in Kinds |-> IF k = "net" THEN 1 ELSE 2]
    /\ pools     = 2
    /\ shut      = {}

----------------------------------------------------------------------------
\* Variant: initExecutorsIfNeed is not called.
DistributeWithoutInit(r) ==
    /\ pc[r] = "distributed"
    /\ pc' = [pc EXCEPT ![r] = IF Uri(r) \in disk THEN "toCached" ELSE "toNet"]
    /\ UNCHANGED <<engineVars, req, pool, renew, intr, holder, cacheVars, ui,
                   handler, viewVars, countVars>>

\* submit(): the distributor thread looks into the disk cache and starts
\* initExecutorsIfNeed, noting which executors it finds shut down. The image
\* goes to the pool for cached images if it is on disk.
Distribute(r) ==
    /\ pc[r] = "distributed"
    /\ renew' = [renew EXCEPT ![r] = {k \in Kinds : executor[k] \in shut}]
    /\ pc' = [pc EXCEPT ![r] = IF Uri(r) \in disk THEN "toCached" ELSE "toNet"]
    /\ UNCHANGED <<engineVars, req, pool, intr, holder, cacheVars, ui, handler,
                   viewVars, countVars>>

\* initExecutorsIfNeed replaces an executor it found shut down; nothing
\* synchronises it with another thread doing the same.
RenewExecutor(r, k) ==
    /\ k \in renew[r]
    /\ k = "cached" => "net" \notin renew[r]
    /\ executor' = [executor EXCEPT ![k] = pools + 1]
    /\ pools' = pools + 1
    /\ renew' = [renew EXCEPT ![r] = @ \ {k}]
    /\ UNCHANGED <<viewKey, lockTable, paused, denied, shut, req, pc, pool,
                   intr, holder, cacheVars, ui, handler, viewVars, countVars>>

\* execute(): a pool that was shut down meanwhile rejects the task.
Execute(r, k) ==
    /\ pc[r] = (IF k = "net" THEN "toNet" ELSE "toCached")
    /\ renew[r] = {}
    /\ pool' = [pool EXCEPT ![r] = executor[k]]
    /\ pc' = [pc EXCEPT ![r] = IF executor[k] \in shut THEN "rejected" ELSE "queued"]
    /\ UNCHANGED <<engineVars, req, renew, intr, holder, cacheVars, ui, handler,
                   viewVars, countVars>>

Submit(r) == \/ Distribute(r)
             \/ \E k \in Kinds : RenewExecutor(r, k) \/ Execute(r, k)

\* Steps of a task between its start on a pool thread and its end.
Running == {"pausing", "waiting", "woken", "sleeping", "locking", "memory",
            "disk", "network", "copying", "decodeFile", "decodeNet", "failing",
            "loaded", "final", "processing"}

\* A worker of r's pool is free.
WorkerFree(r) ==
    Cardinality({s \in Requests : pool[s] = pool[r] /\ pc[s] \in Running}) < PoolSize

\* getLockForUri
LockFor(u, r) == IF lockTable[u] = NULL THEN r ELSE lockTable[u]

\* shutdownNow() on one executor: queued tasks are dropped, the threads of
\* running ones interrupted.
ShutdownNow(k) ==
    LET p == executor[k] IN
    /\ shut' = shut \cup {p}
    /\ pc'   = [r \in Requests |->
                   IF pool[r] = p /\ pc[r] \in {"queued", "queuedProcess"}
                   THEN "dropped" ELSE pc[r]]
    /\ intr' = [r \in Requests |->
                   intr[r] \/ (pool[r] = p /\ pc[r] \in Running)]

----------------------------------------------------------------------------
\* The uri strings that keyed an entry of the WeakHashMap uriLocks were
\* collected: its creator is finished, others may still use the lock.
CollectLock(u) ==
    /\ "gc" \in Env
    /\ lockTable[u] # NULL
    /\ pc[lockTable[u]] \in {"done", "dropped", "rejected"}
    /\ \A i \in DOMAIN handler : handler[i].req # lockTable[u]
    /\ lockTable' = [lockTable EXCEPT ![u] = NULL]
    /\ UNCHANGED <<viewKey, paused, denied, executor, pools, shut, taskVars,
                   cacheVars, ui, handler, viewVars, countVars>>

\* Other images push entries out of the caches; clearMemoryCache and
\* clearDiskCache do the same.
EvictMemory(k) ==
    /\ "evict" \in Env
    /\ k \in memory
    /\ memory' = memory \ {k}
    /\ UNCHANGED <<engineVars, taskVars, disk, ui, handler, viewVars, countVars>>

EvictDisk(u) ==
    /\ "evict" \in Env
    /\ u \in disk
    /\ disk' = disk \ {u}
    /\ UNCHANGED <<engineVars, taskVars, memory, ui, handler, viewVars, countVars>>

CollectView(v) ==
    /\ "collect" \in Env
    /\ v \notin collected
    /\ ~ \E r \in Requests : pc[r] = "preparing" /\ ViewOf(r) = v
    /\ collected' = collected \cup {v}
    /\ latest' = [latest EXCEPT ![v] = NULL]
    /\ UNCHANGED <<engineVars, taskVars, cacheVars, ui, handler, shown, heard,
                   countVars>>

Environment == \/ \E u \in Uris : CollectLock(u) \/ EvictDisk(u)
               \/ \E k \in Keys : EvictMemory(k)
               \/ \E v \in Views : CollectView(v)
============================================================================
