----------------------------- MODULE ImageLoader -----------------------------
(***************************************************************************)
(* core/ImageLoader.java and core/DisplayBitmapTask.java: what the UI      *)
(* thread does. Callers are on the UI thread, so every runnable of a task  *)
(* comes back through one Handler. With ImageLoaderEngine and              *)
(* LoadAndDisplayImageTask this is the whole loading of images into views. *)
(***************************************************************************)
EXTENDS LoadAndDisplayImageTask

Init ==
    /\ EngineInit
    /\ req    = [r \in Requests |-> NULL]
    /\ pc     = [r \in Requests |-> "new"]
    /\ pool   = [r \in Requests |-> 0]
    /\ renew  = [r \in Requests |-> {}]
    /\ intr   = [r \in Requests |-> FALSE]
    /\ holder = [r \in Requests |-> NULL]
    /\ memory = {}
    /\ disk   = {}
    /\ ui     = "idle"
    /\ handler = <<>>
    /\ shown  = [v \in Views |-> BLANK]
    /\ collected = {}
    /\ heard  = [r \in Requests |-> <<>>]
    /\ latest = [v \in Views |-> NULL]
    /\ stops  = 0
    /\ pauses = 0

Tell(r, event) == heard' = [heard EXCEPT ![r] = Append(@, event)]

----------------------------------------------------------------------------
\* displayImage up to onLoadingStarted: the view now belongs to this key.
DisplayImage(r, v, k, o) ==
    /\ ui = "idle" /\ pc[r] = "new" /\ v \notin collected
    /\ req' = [req EXCEPT ![r] = [view |-> v, key |-> k, opt |-> o, lock |-> NULL]]
    /\ viewKey' = [viewKey EXCEPT ![v] = k]
    /\ latest'  = [latest EXCEPT ![v] = r]
    /\ Tell(r, "started")
    /\ Goto(r, "preparing")
    /\ ui' = "display"
    /\ UNCHANGED <<lockTable, paused, denied, executor, pools, shut, pool, renew,
                   intr, holder, cacheVars, handler, shown, collected, countVars>>

\* displayImage finds the bitmap in memory: shown at once. The table entry
\* of the view stays.
AnswerFromMemory(r) ==
    /\ ui = "display" /\ pc[r] = "preparing"
    /\ KeyOf(r) \in memory /\ ~Has(r, "post")
    /\ shown' = [shown EXCEPT ![ViewOf(r)] = KeyOf(r)]
    /\ Tell(r, "complete")
    /\ Goto(r, "done")
    /\ ui' = "idle"
    /\ UNCHANGED <<engineVars, req, pool, renew, intr, holder, cacheVars,
                   handler, collected, latest, countVars>>

\* getLockForUri, for the ImageLoadingInfo of a task.
TakeLock(r) ==
    LET l == LockFor(Uri(r), r) IN
    /\ req' = [req EXCEPT ![r].lock = l]
    /\ lockTable' = [lockTable EXCEPT ![Uri(r)] = l]

\* submit(ProcessAndDisplayImageTask): to the pool for cached images; the UI
\* thread itself renews executors that are shut down.
AnswerProcessed(r) ==
    /\ ui = "display" /\ pc[r] = "preparing"
    /\ KeyOf(r) \in memory /\ Has(r, "post")
    /\ LET down == {k \in Kinds : executor[k] \in shut}
           fresh(k) == IF k = "net" THEN pools + 1 ELSE pools + Cardinality(down)
           new == [k \in Kinds |-> IF k \in down THEN fresh(k) ELSE executor[k]]
       IN  /\ executor' = new
           /\ pools' = pools + Cardinality(down)
           /\ pool' = [pool EXCEPT ![r] = new["cached"]]
    /\ TakeLock(r)
    /\ Goto(r, "queuedProcess")
    /\ ui' = "idle"
    /\ UNCHANGED <<viewKey, paused, denied, shut, renew, intr, holder,
                   cacheVars, handler, viewVars, countVars>>

\* Not in memory: the view may be reset and the task goes to the distributor.
SubmitTask(r) ==
    /\ ui = "display" /\ pc[r] = "preparing"
    /\ KeyOf(r) \notin memory
    /\ shown' = IF Has(r, "reset") THEN [shown EXCEPT ![ViewOf(r)] = BLANK] ELSE shown
    /\ TakeLock(r)
    /\ Goto(r, "distributed")
    /\ ui' = "idle"
    /\ UNCHANGED <<viewKey, paused, denied, executor, pools, shut, pool, renew,
                   intr, holder, cacheVars, handler, collected, heard, latest,
                   countVars>>

\* displayImage with an empty uri: answered at once with no bitmap.
DisplayNothing(v) ==
    /\ "empty" \in Env
    /\ ui = "idle" /\ v \notin collected
    /\ viewKey' = [viewKey EXCEPT ![v] = NULL]
    /\ latest'  = [latest EXCEPT ![v] = NULL]
    /\ shown'   = [shown EXCEPT ![v] = BLANK]
    /\ UNCHANGED <<lockTable, paused, denied, executor, pools, shut, taskVars,
                   cacheVars, ui, handler, collected, heard, countVars>>

CancelDisplayTask(v) ==
    /\ "cancel" \in Env
    /\ ui = "idle" /\ v \notin collected
    /\ viewKey' = [viewKey EXCEPT ![v] = NULL]
    /\ latest'  = [latest EXCEPT ![v] = NULL]
    /\ UNCHANGED <<lockTable, paused, denied, executor, pools, shut, taskVars,
                   cacheVars, ui, handler, shown, collected, heard, countVars>>

DenyNetworkDownloads(deny) ==
    /\ "deny" \in Env
    /\ ui = "idle" /\ denied # deny
    /\ denied' = deny
    /\ UNCHANGED <<viewKey, lockTable, paused, executor, pools, shut, taskVars,
                   cacheVars, ui, handler, viewVars, countVars>>

----------------------------------------------------------------------------
Pause ==
    /\ ui = "idle" /\ pauses < MaxPauses
    /\ paused' = TRUE
    /\ pauses' = pauses + 1
    /\ UNCHANGED <<viewKey, lockTable, denied, executor, pools, shut, taskVars,
                   cacheVars, ui, handler, viewVars, stops>>

\* resume() clears the flag, then notifies under pauseLock.
Resume ==
    /\ ui = "idle" /\ paused
    /\ paused' = FALSE
    /\ ui' = "resume"
    /\ UNCHANGED <<viewKey, lockTable, denied, executor, pools, shut, taskVars,
                   cacheVars, handler, viewVars, countVars>>

ResumeNotify ==
    /\ ui = "resume"
    /\ pc' = [r \in Requests |-> IF pc[r] = "waiting" THEN "woken" ELSE pc[r]]
    /\ ui' = "idle"
    /\ UNCHANGED <<engineVars, req, pool, renew, intr, holder, cacheVars,
                   handler, viewVars, countVars>>

\* stop(): the executors one after the other, then both tables.
Stop ==
    /\ ui = "idle" /\ stops < MaxStops
    /\ ShutdownNow("net")
    /\ stops'  = stops + 1
    /\ latest' = [v \in Views |-> NULL]
    /\ ui' = "stopCached"
    /\ UNCHANGED <<viewKey, lockTable, paused, denied, executor, pools, req,
                   pool, renew, holder, cacheVars, handler, shown, collected,
                   heard, pauses>>

StopCached ==
    /\ ui = "stopCached"
    /\ ShutdownNow("cached")
    /\ ui' = "stopClear"
    /\ UNCHANGED <<viewKey, lockTable, paused, denied, executor, pools, req,
                   pool, renew, holder, cacheVars, handler, viewVars, countVars>>

\* Variant: only the locks are cleared.
StopClearLocks ==
    /\ ui = "stopClear"
    /\ lockTable' = [u \in Uris |-> NULL]
    /\ ui' = "idle"
    /\ UNCHANGED <<viewKey, paused, denied, executor, pools, shut, taskVars,
                   cacheVars, handler, viewVars, countVars>>

StopClear ==
    /\ ui = "stopClear"
    /\ viewKey'   = [v \in Views |-> NULL]
    /\ lockTable' = [u \in Uris |-> NULL]
    /\ ui' = "idle"
    /\ UNCHANGED <<paused, denied, executor, pools, shut, taskVars, cacheVars,
                   handler, viewVars, countVars>>

----------------------------------------------------------------------------
\* The UI thread takes the next runnable of the Handler.
Takes(what) ==
    /\ ui = "idle" /\ handler # <<>>
    /\ Head(handler).what = what
    /\ handler' = Tail(handler)

\* Variant: the last check before showing is left out.
RunDisplayUnchecked(r) ==
    /\ Takes("display") /\ Head(handler).req = r
    /\ shown'   = [shown EXCEPT ![ViewOf(r)] = KeyOf(r)]
    /\ viewKey' = [viewKey EXCEPT ![ViewOf(r)] = NULL]
    /\ Tell(r, "complete")
    /\ UNCHANGED <<lockTable, paused, denied, executor, pools, shut, taskVars,
                   cacheVars, ui, collected, latest, countVars>>

\* Variant: the table entry is removed also when the view was reused.
RunDisplayReleasing(r) ==
    /\ Takes("display") /\ Head(handler).req = r
    /\ viewKey' = [viewKey EXCEPT ![ViewOf(r)] = NULL]
    /\ IF NotActual(r)
       THEN Tell(r, "cancelled") /\ UNCHANGED shown
       ELSE /\ shown' = [shown EXCEPT ![ViewOf(r)] = KeyOf(r)]
            /\ Tell(r, "complete")
    /\ UNCHANGED <<lockTable, paused, denied, executor, pools, shut, taskVars,
                   cacheVars, ui, collected, latest, countVars>>

\* DisplayBitmapTask: a view collected or reused meanwhile is left alone,
\* any other gets its bitmap and its table entry is removed. The bitmap is
\* null after a pre- or post-processor that gave none: the view is cleared
\* and the listener still told that loading is complete.
RunDisplay(r) ==
    /\ Takes("display") /\ Head(handler).req = r
    /\ IF NotActual(r)
       THEN /\ Tell(r, "cancelled")
            /\ UNCHANGED <<shown, viewKey>>
       ELSE /\ \E bitmap \in {KeyOf(r), BLANK} :
                  /\ bitmap = BLANK => "noBitmap" \in Env
                  /\ shown' = [shown EXCEPT ![ViewOf(r)] = bitmap]
            /\ viewKey' = [viewKey EXCEPT ![ViewOf(r)] = NULL]
            /\ Tell(r, "complete")
    /\ UNCHANGED <<lockTable, paused, denied, executor, pools, shut, taskVars,
                   cacheVars, ui, collected, latest, countVars>>

\* The runnable of fireFailEvent shows the onFail image without looking
\* whether the view still belongs to the task.
RunFailed(r) ==
    /\ Takes("failed") /\ Head(handler).req = r
    /\ shown' = IF Has(r, "onFail") /\ ~Collected(r)
                THEN [shown EXCEPT ![ViewOf(r)] = ONFAIL] ELSE shown
    /\ Tell(r, "failed")
    /\ UNCHANGED <<engineVars, taskVars, cacheVars, ui, collected, latest, countVars>>

RunCancelled(r) ==
    /\ Takes("cancelled") /\ Head(handler).req = r
    /\ Tell(r, "cancelled")
    /\ UNCHANGED <<engineVars, taskVars, cacheVars, ui, shown, collected, latest,
                   countVars>>

RunPosted == \E r \in Requests : RunDisplay(r) \/ RunFailed(r) \/ RunCancelled(r)

\* What an ImageLoader call in progress on the UI thread does next.
FinishCall ==
    \/ \E r \in Requests : AnswerFromMemory(r) \/ AnswerProcessed(r) \/ SubmitTask(r)
    \/ ResumeNotify \/ StopCached \/ StopClear

Call == \/ \E r \in Requests, v \in Views, k \in Keys, o \in Options :
              DisplayImage(r, v, k, o)
        \/ \E v \in Views : DisplayNothing(v) \/ CancelDisplayTask(v)
        \/ \E deny \in BOOLEAN : DenyNetworkDownloads(deny)
        \/ Pause \/ Resume \/ Stop

Next == \/ Call \/ FinishCall \/ RunPosted
        \/ \E r \in Requests : Submit(r) \/ Task(r)
        \/ Environment

Spec == Init /\ [][Next]_vars

\* Pool threads, distributor threads and the UI thread are scheduled.
Fairness == /\ \A r \in Requests : WF_vars(Submit(r)) /\ WF_vars(Task(r))
            /\ WF_vars(FinishCall)
            /\ WF_vars(RunPosted)

FairSpec == Spec /\ Fairness

----------------------------------------------------------------------------
Stages == Running \cup {"new", "preparing", "distributed", "toNet", "toCached",
                        "queued", "queuedProcess", "rejected", "dropped", "done"}
UnderLock == {"memory", "disk", "network", "copying", "decodeFile", "decodeNet",
              "failing", "loaded", "final"}
Infos == [view : Views, key : Keys, opt : Options, lock : Requests \cup {NULL}]
Runnables == [what : {"display", "failed", "cancelled"}, req : Requests]
Terminal == {"complete", "failed", "cancelled"}

TypeOK ==
    /\ viewKey   \in [Views -> Keys \cup {NULL}]
    /\ lockTable \in [Uris -> Requests \cup {NULL}]
    /\ paused \in BOOLEAN /\ denied \in BOOLEAN
    /\ pools \in Nat /\ executor \in [Kinds -> 1..pools] /\ shut \subseteq 1..pools
    /\ req   \in [Requests -> Infos \cup {NULL}]
    /\ pc    \in [Requests -> Stages]
    /\ pool  \in [Requests -> 0..pools]
    /\ renew \in [Requests -> SUBSET Kinds]
    /\ intr  \in [Requests -> BOOLEAN]
    /\ holder \in [Requests -> Requests \cup {NULL}]
    /\ memory \subseteq Keys /\ disk \subseteq Uris
    /\ ui \in {"idle", "display", "resume", "stopCached", "stopClear"}
    /\ handler \in Seq(Runnables)
    /\ shown \in [Views -> Keys \cup {BLANK, ONFAIL}]
    /\ collected \subseteq Views
    /\ heard  \in [Requests -> Seq({"started"} \cup Terminal)]
    /\ latest \in [Views -> Requests \cup {NULL}]
    /\ stops \in 0..MaxStops /\ pauses \in 0..MaxPauses

\* A runnable of r waits in the Handler.
Posted(r) == \E i \in DOMAIN handler : handler[i].req = r

\* Nothing of r is left to run.
Over(r) == pc[r] \in {"done", "dropped", "rejected"} /\ ~Posted(r)

Answered(r) == Len(heard[r]) = 2

\* A listener hears onLoadingStarted first and then at most one of
\* complete, failed and cancelled (ImageLoadingListener), whichever of the
\* UI thread and the task's three ways to end comes first; what is still
\* posted for a request is what it has not heard yet.
ListenerProtocol ==
    \A r \in Requests :
        /\ Len(heard[r]) + Cardinality({i \in DOMAIN handler : handler[i].req = r}) <= 2
        /\ heard[r] # <<>> => heard[r][1] = "started"
        /\ heard[r] = <<>> <=> pc[r] = "new"
        /\ Answered(r) => heard[r][2] \in Terminal

\* While no stop() is half done, the table entry of a view names the key
\* last requested for it, or nothing (ImageLoaderEngine.java:115-127).
TableNamesLatest ==
    ui \notin {"stopCached", "stopClear"} =>
        \A v \in Views \ collected : viewKey[v] # NULL =>
            latest[v] # NULL /\ KeyOf(latest[v]) = viewKey[v]

\* A uri lock is held by the task that is inside its locked region and by
\* no other; nobody keeps one after its end (LoadAndDisplayImageTask:128-171).
LocksHeld ==
    /\ \A r \in Requests : pc[r] \in UnderLock => holder[req[r].lock] = r
    /\ \A l \in Requests : holder[l] # NULL =>
           pc[holder[l]] \in UnderLock /\ req[holder[l]].lock = l

\* The two tables of the engine tell the truth about views and about locks.
EngineTables == TableNamesLatest /\ LocksHeld

\* A bitmap that appears in a view is the one last requested for it; none
\* appears after the view's request was cancelled, emptied or stopped.
NeverShowsStale ==
    [][\A v \in Views : shown'[v] # shown[v] /\ shown'[v] \in Keys =>
           latest[v] # NULL /\ KeyOf(latest[v]) = shown'[v]]_vars

\* The request a view waits for is never lost: it ends unanswered only if
\* an equal request for the same view brought the image (waitIfPaused and
\* fireFailEvent end silently, LoadAndDisplayImageTask:195, 358), or a stop()
\* made the executor reject it.
NoSilentLoss ==
    \A v \in Views : latest[v] # NULL /\ Over(latest[v]) /\ pc[latest[v]] # "rejected" =>
        \/ Answered(latest[v])
        \/ \E s \in Requests : pc[s] # "new" /\ ViewOf(s) = v
               /\ KeyOf(s) = KeyOf(latest[v]) /\ heard[s] = <<"started", "complete">>

\* PauseOnScrollListener resumes when a list comes to rest.
Unpaused == <>[]~paused

\* Every task that was submitted comes to an end once pauses end: none
\* sleeps through its notification, no lock is kept from it.
TasksEnd ==
    Unpaused => \A r \in Requests : pc[r] = "distributed" ~> Over(r)

\* The request a view waits for is answered, or its image is there, or it
\* is superseded, once pauses end.
LatestAnswered ==
    Unpaused => \A r \in Requests, v \in Views :
        latest[v] = r ~> latest[v] # r \/ Answered(r) \/ shown[v] = KeyOf(r)
==============================================================================
