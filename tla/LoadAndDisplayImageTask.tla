----------------------- MODULE LoadAndDisplayImageTask -----------------------
(***************************************************************************)
(* core/LoadAndDisplayImageTask.java, ProcessAndDisplayImageTask.java: the *)
(* life of a request on a pool thread. One action per stretch of code that *)
(* reads or writes something shared; other threads run between them.       *)
(***************************************************************************)
EXTENDS ImageLoaderEngine

Collected(r) == ViewOf(r) \in collected

\* isViewReused: the view's table entry is no longer this task's key.
Reused(r) == viewKey[ViewOf(r)] # KeyOf(r)

\* isTaskNotActual
NotActual(r) == Collected(r) \/ Reused(r)

Goto(r, s) == pc' = [pc EXCEPT ![r] = s]

\* runTask with a Handler: the runnable goes to the end of the UI queue.
Post(r, what) == handler' = Append(handler, [what |-> what, req |-> r])

\* Thread.interrupted() clears the flag it reads.
ClearInterrupt(r) == intr' = [intr EXCEPT ![r] = FALSE]

Unlock(r) == holder' = [holder EXCEPT ![req[r].lock] = NULL]

\* TaskCancelledException: fireCancelEvent, then the lock is released. The
\* event is not fired to an interrupted thread; a cancellation that comes
\* from checkTaskInterrupted has cleared the flag and is fired.
Cancel(r, interrupted) ==
    /\ Goto(r, "done")
    /\ Unlock(r)
    /\ ClearInterrupt(r)
    /\ IF interrupted THEN UNCHANGED handler ELSE Post(r, "cancelled")

----------------------------------------------------------------------------
(***************************************************************************)
(* Before the lock. A task that ends here tells its listener nothing.      *)
(***************************************************************************)

\* A worker takes the task; waitIfPaused reads the flag without the lock.
Start(r) ==
    /\ pc[r] = "queued"
    /\ WorkerFree(r)
    /\ Goto(r, IF paused THEN "pausing" ELSE "woken")
    /\ UNCHANGED <<engineVars, req, pool, renew, intr, holder, cacheVars, ui,
                   handler, viewVars, countVars>>

\* Under pauseLock the flag is read again; wait() releases the lock.
EnterPause(r) ==
    /\ pc[r] = "pausing"
    /\ Goto(r, IF paused THEN "waiting" ELSE "woken")
    /\ UNCHANGED <<engineVars, req, pool, renew, intr, holder, cacheVars, ui,
                   handler, viewVars, countVars>>

\* An interrupt ends wait() and sleep(), and the task with them.
Interrupted(r) ==
    /\ pc[r] \in {"waiting", "sleeping"}
    /\ intr[r]
    /\ Goto(r, "done")
    /\ ClearInterrupt(r)
    /\ UNCHANGED <<engineVars, req, pool, renew, holder, cacheVars, ui, handler,
                   viewVars, countVars>>

\* The isTaskNotActual at the end of waitIfPaused.
AfterPause(r) ==
    /\ pc[r] = "woken"
    /\ Goto(r, IF NotActual(r) THEN "done"
               ELSE IF Has(r, "delay") THEN "sleeping" ELSE "locking")
    /\ UNCHANGED <<engineVars, req, pool, renew, intr, holder, cacheVars, ui,
                   handler, viewVars, countVars>>

\* delayIfNeed slept its time and checks again.
AfterDelay(r) ==
    /\ pc[r] = "sleeping"
    /\ ~intr[r]
    /\ Goto(r, IF NotActual(r) THEN "done" ELSE "locking")
    /\ UNCHANGED <<engineVars, req, pool, renew, intr, holder, cacheVars, ui,
                   handler, viewVars, countVars>>

----------------------------------------------------------------------------
(***************************************************************************)
(* Under the uri lock.                                                     *)
(***************************************************************************)

\* loadFromUriLock.lock() and the first checkTaskNotActual.
Lock(r) ==
    /\ pc[r] = "locking"
    /\ holder[req[r].lock] = NULL
    /\ IF NotActual(r)
       THEN /\ Cancel(r, intr[r])
       ELSE /\ Goto(r, "memory")
            /\ holder' = [holder EXCEPT ![req[r].lock] = r]
            /\ UNCHANGED <<intr, handler>>
    /\ UNCHANGED <<engineVars, req, pool, renew, cacheVars, ui, viewVars,
                   countVars>>

\* Another task may have loaded the image while this one waited.
LookInMemory(r) ==
    /\ pc[r] = "memory"
    /\ Goto(r, IF KeyOf(r) \in memory THEN "final" ELSE "disk")
    /\ UNCHANGED <<engineVars, req, pool, renew, intr, holder, cacheVars, ui,
                   handler, viewVars, countVars>>

\* tryLoadBitmap, first part: a cached file is decoded; a file that does
\* not decode to a bitmap (of at least a pixel) is loaded from the network,
\* one that makes the decoder throw fails.
LookOnDisk(r) ==
    /\ pc[r] = "disk"
    /\ IF Uri(r) \in disk /\ NotActual(r)
       THEN Cancel(r, intr[r])
       ELSE /\ \E s \in {"loaded", "network", "failing"} :
                  /\ s = "loaded" => Uri(r) \in disk
                  /\ s = "failing" => Uri(r) \in disk /\ "fail" \in Env
                  /\ s = "network" => Uri(r) \notin disk \/ "fail" \in Env
                  /\ Goto(r, s)
            /\ UNCHANGED <<intr, holder, handler>>
    /\ UNCHANGED <<engineVars, req, pool, renew, cacheVars, ui, viewVars,
                   countVars>>

\* tryLoadBitmap, second part: with cacheOnDisk the image is first copied
\* into the disk cache. The network-denied downloader throws out of it.
OpenStream(r) ==
    /\ pc[r] = "network"
    /\ Goto(r, IF ~Has(r, "disk") THEN "decodeNet"
               ELSE IF denied THEN "failing" ELSE "copying")
    /\ UNCHANGED <<engineVars, req, pool, renew, intr, holder, cacheVars, ui,
                   handler, viewVars, countVars>>

\* Variant: the file is saved under the memory cache key.
CopyUnderKey(r) ==
    /\ pc[r] = "copying"
    /\ disk' = disk \cup {KeyOf(r)}
    /\ Goto(r, "decodeFile")
    /\ UNCHANGED <<engineVars, req, pool, renew, intr, holder, memory, ui,
                   handler, viewVars, countVars>>

\* downloadImage and resizeAndSaveImage: copied, failed before or after the
\* file was there, or stopped by onBytesCopied before three quarters were
\* read. Its isTaskInterrupted clears the interrupt flag either way. An
\* IOException is caught here; anything else thrown, an OutOfMemoryError of
\* the resizing first, is one of tryLoadBitmap.
Copy(r) ==
    /\ pc[r] = "copying"
    /\ \E i \in {intr[r], FALSE} : intr' = [intr EXCEPT ![r] = i]
    /\ \E s \in {"decodeFile", "decodeNet", "failing"}, saved \in BOOLEAN :
          /\ disk' = IF saved THEN disk \cup {Uri(r)} ELSE disk
          /\ s = "decodeFile" => saved
          /\ s = "decodeNet" => \/ "fail" \in Env
                                \/ ~saved /\ (NotActual(r) \/ (intr[r] /\ ~intr'[r]))
          /\ s = "failing" => "fail" \in Env
          /\ Goto(r, s)
    /\ UNCHANGED <<engineVars, req, pool, renew, holder, memory, ui, handler,
                   viewVars, countVars>>

\* The image is decoded from the copied file, or from the uri itself if
\* there is none; a null bitmap and an exception both end in fireFailEvent.
Decode(r) ==
    /\ pc[r] \in {"decodeFile", "decodeNet"}
    /\ LET fromFile == pc[r] = "decodeFile" /\ Uri(r) \in disk IN
       IF NotActual(r)
       THEN Cancel(r, intr[r])
       ELSE /\ \E s \in {"loaded", "failing"} :
                  /\ s = "loaded" => fromFile \/ ~denied
                  /\ s = "failing" => "fail" \in Env \/ (denied /\ ~fromFile)
                  /\ Goto(r, s)
            /\ UNCHANGED <<intr, holder, handler>>
    /\ UNCHANGED <<engineVars, req, pool, renew, cacheVars, ui, viewVars,
                   countVars>>

\* Variant: the null bitmap of a failed load does not end the task.
FireFailGoingOn(r) ==
    /\ pc[r] = "failing"
    /\ Goto(r, "final")
    /\ IF intr[r] \/ NotActual(r) THEN UNCHANGED handler ELSE Post(r, "failed")
    /\ UNCHANGED <<engineVars, req, pool, renew, intr, holder, cacheVars, ui,
                   viewVars, countVars>>

\* fireFailEvent: told to the listener unless the thread is interrupted or
\* the task is not actual any more; the view is not looked at again when
\* the runnable runs. tryLoadBitmap returns null and the task ends.
FireFail(r) ==
    /\ pc[r] = "failing"
    /\ Goto(r, "done")
    /\ Unlock(r)
    /\ ClearInterrupt(r)
    /\ IF intr[r] \/ NotActual(r) THEN UNCHANGED handler ELSE Post(r, "failed")
    /\ UNCHANGED <<engineVars, req, pool, renew, cacheVars, ui, viewVars,
                   countVars>>

\* Loaded: checked, pre-processed, put into the memory cache. A bitmap that
\* a pre-processor turns into none is as one evicted at once.
Keep(r) ==
    /\ pc[r] = "loaded"
    /\ IF NotActual(r) \/ intr[r]
       THEN Cancel(r, NotActual(r) /\ intr[r]) /\ UNCHANGED memory
       ELSE /\ Goto(r, "final")
            /\ memory' = IF Has(r, "memory") THEN memory \cup {KeyOf(r)} ELSE memory
            /\ UNCHANGED <<intr, holder, handler>>
    /\ UNCHANGED <<engineVars, req, pool, renew, disk, ui, viewVars, countVars>>

\* Variant: the lock is not released after a successful load.
DeliverLocked(r) ==
    /\ pc[r] = "final"
    /\ IF NotActual(r) \/ intr[r]
       THEN Cancel(r, NotActual(r) /\ intr[r])
       ELSE /\ Goto(r, "done")
            /\ Post(r, "display")
            /\ UNCHANGED <<intr, holder>>
    /\ UNCHANGED <<engineVars, req, pool, renew, cacheVars, ui, viewVars,
                   countVars>>

\* Post-processed, checked for the last time, unlocked, and handed to the
\* UI thread as a DisplayBitmapTask.
Deliver(r) ==
    /\ pc[r] = "final"
    /\ IF NotActual(r) \/ intr[r]
       THEN Cancel(r, NotActual(r) /\ intr[r])
       ELSE /\ Goto(r, "done")
            /\ Unlock(r)
            /\ Post(r, "display")
            /\ UNCHANGED intr
    /\ UNCHANGED <<engineVars, req, pool, renew, cacheVars, ui, viewVars,
                   countVars>>

----------------------------------------------------------------------------
(***************************************************************************)
(* ProcessAndDisplayImageTask: post-processing of a memory cache hit. It   *)
(* neither pauses nor checks; DisplayBitmapTask does.                      *)
(***************************************************************************)
StartProcess(r) ==
    /\ pc[r] = "queuedProcess"
    /\ WorkerFree(r)
    /\ Goto(r, "processing")
    /\ UNCHANGED <<engineVars, req, pool, renew, intr, holder, cacheVars, ui,
                   handler, viewVars, countVars>>

Process(r) ==
    /\ pc[r] = "processing"
    /\ Goto(r, "done")
    /\ Post(r, "display")
    /\ UNCHANGED <<engineVars, req, pool, renew, intr, holder, cacheVars, ui,
                   viewVars, countVars>>

Task(r) == \/ Start(r) \/ EnterPause(r) \/ Interrupted(r) \/ AfterPause(r)
           \/ AfterDelay(r) \/ Lock(r) \/ LookInMemory(r) \/ LookOnDisk(r)
           \/ OpenStream(r) \/ Copy(r) \/ Decode(r) \/ FireFail(r) \/ Keep(r)
           \/ Deliver(r) \/ StartProcess(r) \/ Process(r)
============================================================================
