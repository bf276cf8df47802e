-------------------------- MODULE ImageLoaderProofs --------------------------
(***************************************************************************)
(* ImageLoader for any requests, views, keys, options, pool size and       *)
(* bounds, and whatever else may happen: a recycled view never shows a     *)
(* stale bitmap, and a uri lock is held by exactly the task inside it.     *)
(***************************************************************************)
EXTENDS ImageLoader, FiniteSetTheorems, SequenceTheorems, TLAPS

\* Stages in which a request has no lock of its own yet.
Early == {"new", "preparing"}

\* Stages in which it may have none: a memory hit ends without a lock.
NoLock == Early \cup {"done"}

\* The functions that the view table, its history and the requests are.
Shape ==
    /\ viewKey \in [Views -> Keys \cup {NULL}]
    /\ latest  \in [Views -> Requests \cup {NULL}]
    /\ pc      \in [Requests -> Stages]
    /\ req     \in [Requests -> Infos \cup {NULL}]
    /\ shown = [v \in Views |-> shown[v]]

Known == \A r \in Requests : pc[r] # "new" => req[r] \in Infos

Awaited == \A v \in Views : latest[v] # NULL => pc[latest[v]] # "new"

\* displayImage has just given the view to the request it is busy with.
Prepared == \A r \in Requests : pc[r] = "preparing" =>
                /\ ui = "display"
                /\ latest[ViewOf(r)] = r
                /\ \A s \in Requests : pc[s] = "preparing" => s = r

NamesInv == Shape /\ Known /\ Awaited /\ Prepared /\ TableNamesLatest

LockInv ==
    /\ lockTable \in [Uris -> Requests \cup {NULL}]
    /\ holder \in [Requests -> Requests \cup {NULL}]
    /\ \A r \in Requests : pc[r] \notin NoLock => req[r].lock \in Requests
    /\ LocksHeld

IInv == NamesInv /\ LockInv

----------------------------------------------------------------------------
\* A step of a thread that leaves the UI's state and the requests alone, and
\* no request enters or leaves the early stages.
Quiet ==
    /\ UNCHANGED <<viewKey, latest, shown, ui, collected, req>>
    /\ pc' \in [Requests -> Stages]
    /\ \A r \in Requests : pc'[r] = pc[r] \/ (pc[r] \notin Early /\ pc'[r] \notin Early)

LEMMA QuietNames == NamesInv /\ Quiet => NamesInv'
<1> SUFFICES ASSUME NamesInv, Quiet PROVE NamesInv'  OBVIOUS
<1> USE DEF NamesInv, Quiet
<1>1. Shape'  BY DEF Shape
<1>2. Known'  BY DEF Known, Early
<1>3. Awaited'  BY DEF Awaited, Shape, Early
<1>4. Prepared'  BY DEF Prepared, ViewOf, Early
<1>5. TableNamesLatest'  BY DEF TableNamesLatest, KeyOf
<1> QED BY <1>1, <1>2, <1>3, <1>4, <1>5

\* No lock is taken or released.
LEMMA SameLocks ==
    ASSUME LockInv, UNCHANGED holder,
           lockTable' \in [Uris -> Requests \cup {NULL}],
           \A r \in Requests : pc'[r] \notin NoLock => req'[r].lock \in Requests,
           \A r \in Requests : (pc'[r] \in UnderLock) = (pc[r] \in UnderLock),
           \A r \in Requests : pc[r] \in UnderLock => req'[r].lock = req[r].lock
    PROVE  LockInv'
<1>1. \A r \in Requests : pc'[r] \in UnderLock => holder'[req'[r].lock] = r
  BY DEF LockInv, LocksHeld
<1>2. ASSUME NEW l \in Requests, holder'[l] # NULL
      PROVE  pc'[holder'[l]] \in UnderLock /\ req'[holder'[l]].lock = l
  <2>1. holder[l] \in Requests  BY <1>2 DEF LockInv
  <2>2. pc[holder[l]] \in UnderLock /\ req[holder[l]].lock = l
    BY <1>2 DEF LockInv, LocksHeld
  <2> QED BY <2>1, <2>2
<1>3. LocksHeld'  BY <1>1, <1>2 DEF LocksHeld
<1> QED BY <1>3 DEF LockInv

\* The same for a step of a thread.
LEMMA QuietLocks ==
    ASSUME LockInv, Quiet, UNCHANGED <<holder, lockTable>>,
           \A r \in Requests : pc[r] = "done" => pc'[r] = "done",
           \A r \in Requests : (pc'[r] \in UnderLock) = (pc[r] \in UnderLock)
    PROVE  LockInv'
<1>1. \A r \in Requests : pc'[r] \notin NoLock => req'[r].lock \in Requests
  BY DEF Quiet, LockInv, NoLock
<1>2. lockTable' \in [Uris -> Requests \cup {NULL}]  BY DEF LockInv
<1>3. \A r \in Requests : pc[r] \in UnderLock => req'[r].lock = req[r].lock  BY DEF Quiet
<1> QED BY <1>1, <1>2, <1>3, SameLocks

\* A request leaves the region of its lock, or gives up when it has just
\* taken it, and the lock is free again.
Leaves(r) ==
    /\ pc[r] \in UnderLock \/ (pc[r] = "locking" /\ holder[req[r].lock] = NULL)
    /\ pc' = [pc EXCEPT ![r] = "done"]
    /\ holder' = [holder EXCEPT ![req[r].lock] = NULL]
    /\ UNCHANGED <<viewKey, latest, shown, ui, collected, req, lockTable>>

LEMMA LeavesInv ==
    ASSUME IInv, NEW r \in Requests, Leaves(r)
    PROVE  IInv'
<1> USE DEF Leaves, Early, NoLock, UnderLock, Stages, Running
<1>1. pc \in [Requests -> Stages]  BY DEF IInv, NamesInv, Shape
<1>2. Quiet  BY <1>1 DEF Quiet
<1>3. NamesInv'  BY <1>2, QuietNames DEF IInv
<1>4. req[r].lock \in Requests  BY DEF IInv, LockInv
<1>5. holder \in [Requests -> Requests \cup {NULL}] /\ LocksHeld  BY DEF IInv, LockInv
<1>6. holder[req[r].lock] \in {NULL, r}  BY <1>5 DEF LocksHeld
<1>7. ASSUME NEW s \in Requests, pc'[s] \in UnderLock
      PROVE  holder'[req'[s].lock] = s
  <2>1. s # r /\ pc[s] \in UnderLock  BY <1>1, <1>7
  <2>2. holder[req[s].lock] = s  BY <2>1, <1>5 DEF LocksHeld
  <2>3. s # NULL  BY NullAssumption
  <2>4. req[s].lock # req[r].lock  BY <2>1, <2>2, <2>3, <1>6
  <2>5. req[s].lock \in Requests  BY <2>1 DEF IInv, LockInv
  <2> QED BY <2>2, <2>4, <2>5, <1>5
<1>8. ASSUME NEW l \in Requests, holder'[l] # NULL
      PROVE  pc'[holder'[l]] \in UnderLock /\ req'[holder'[l]].lock = l
  <2>1. l # req[r].lock /\ holder'[l] = holder[l]  BY <1>8, <1>4, <1>5
  <2>2. holder[l] \in Requests  BY <1>8, <2>1, <1>5
  <2>3. pc[holder[l]] \in UnderLock /\ req[holder[l]].lock = l
    BY <1>8, <2>1, <1>5 DEF LocksHeld
  <2>4. holder[l] # r  BY <2>1, <2>3
  <2> QED BY <2>1, <2>2, <2>3, <2>4, <1>1
<1>9. LocksHeld'  BY <1>7, <1>8 DEF LocksHeld
<1>10. \A s \in Requests : pc'[s] \notin NoLock => req'[s].lock \in Requests
  BY <1>1, <1>4 DEF IInv, LockInv
<1> QED BY <1>3, <1>4, <1>5, <1>9, <1>10 DEF IInv, LockInv

\* A thread goes from one stage to another on the same side of the lock.
Advances(r) ==
    /\ pc' = [pc EXCEPT ![r] = pc'[r]]
    /\ pc[r] \notin NoLock /\ pc'[r] \in Stages \ Early
    /\ pc'[r] \in UnderLock <=> pc[r] \in UnderLock
    /\ UNCHANGED <<viewKey, latest, shown, ui, collected, req, lockTable, holder>>

LEMMA AdvancesInv ==
    ASSUME IInv, NEW r \in Requests, Advances(r)
    PROVE  IInv'
<1>1. pc \in [Requests -> Stages]  BY DEF IInv, NamesInv, Shape
<1>2. Quiet  BY <1>1 DEF Quiet, Advances, NoLock
<1>3. NamesInv'  BY <1>2, QuietNames DEF IInv
<1>4. \A t \in Requests : (pc'[t] \in UnderLock) = (pc[t] \in UnderLock)
  BY <1>1 DEF Advances
<1>5. \A t \in Requests : pc[t] = "done" => pc'[t] = "done"
  BY <1>1 DEF Advances, NoLock
<1>6. LockInv'  BY <1>2, <1>4, <1>5, QuietLocks DEF Advances, IInv
<1> QED BY <1>3, <1>6 DEF IInv

LEMMA CancelLeaves ==
    ASSUME NEW r \in Requests, NEW i, Cancel(r, i),
           pc[r] \in UnderLock \/ (pc[r] = "locking" /\ holder[req[r].lock] = NULL),
           UNCHANGED <<viewKey, latest, shown, ui, collected, req, lockTable>>
    PROVE  Leaves(r)
BY DEF Cancel, Goto, Unlock, Leaves

\* The steps of the distributor and of a task.
LEMMA TaskInv ==
    ASSUME IInv, NEW r \in Requests, Submit(r) \/ Task(r)
    PROVE  IInv'
<1> USE DEF Stages, Running, UnderLock, Early, NoLock, engineVars, cacheVars, viewVars, taskVars
<1>1. pc \in [Requests -> Stages]  BY DEF IInv, NamesInv, Shape
<1>2. ASSUME Advances(r) PROVE IInv'  BY <1>2, AdvancesInv
<1>3. ASSUME Leaves(r) PROVE IInv'  BY <1>3, LeavesInv
<1> HIDE DEF Stages
<1>a. CASE Distribute(r)  BY <1>a, <1>1, <1>2 DEF Distribute, Advances, Stages
<1>b. CASE \E k \in Kinds : RenewExecutor(r, k)
  <2>0. PICK k \in Kinds : RenewExecutor(r, k)  BY <1>b
  <2>1. Quiet  BY <2>0, <1>1 DEF RenewExecutor, Quiet
  <2>2. NamesInv'  BY <2>1, QuietNames DEF IInv
  <2>3. UNCHANGED <<pc, holder, lockTable>>  BY <2>0 DEF RenewExecutor
  <2>4. LockInv'  BY <2>1, <2>3, QuietLocks DEF IInv
  <2> QED BY <2>2, <2>4 DEF IInv
<1>c. CASE \E k \in Kinds : Execute(r, k)
  BY <1>c, <1>1, <1>2 DEF Execute, Advances, Stages
<1>d. CASE Start(r)  BY <1>d, <1>1, <1>2 DEF Start, Goto, Advances, Stages
<1>e. CASE EnterPause(r)  BY <1>e, <1>1, <1>2 DEF EnterPause, Goto, Advances, Stages
<1>f. CASE Interrupted(r)  BY <1>f, <1>1, <1>2 DEF Interrupted, Goto, Advances, Stages
<1>g. CASE AfterPause(r)  BY <1>g, <1>1, <1>2 DEF AfterPause, Goto, Advances, Stages
<1>h. CASE AfterDelay(r)  BY <1>h, <1>1, <1>2 DEF AfterDelay, Goto, Advances, Stages
<1>i. CASE Lock(r)
  <2>1. CASE NotActual(r)
    BY <1>i, <2>1, <1>3, CancelLeaves DEF Lock
  <2>2. CASE ~NotActual(r)
    <3>1. Quiet  BY <1>i, <2>2, <1>1 DEF Lock, Goto, Quiet, Stages
    <3>2. NamesInv'  BY <3>1, QuietNames DEF IInv
    <3>3. /\ pc[r] = "locking" /\ pc' = [pc EXCEPT ![r] = "memory"]
          /\ holder[req[r].lock] = NULL
          /\ holder' = [holder EXCEPT ![req[r].lock] = r]
          /\ UNCHANGED <<req, lockTable>>
      BY <1>i, <2>2 DEF Lock, Goto
    <3>4. req[r].lock \in Requests  BY <3>3 DEF IInv, LockInv
    <3>5. holder \in [Requests -> Requests \cup {NULL}] /\ LocksHeld
      BY DEF IInv, LockInv
    <3>6. ASSUME NEW s \in Requests, pc'[s] \in UnderLock
          PROVE  holder'[req'[s].lock] = s
      <4>1. CASE s = r  BY <4>1, <3>3, <3>4, <3>5
      <4>2. CASE s # r
        <5>1. pc[s] \in UnderLock  BY <4>2, <3>3, <3>6, <1>1
        <5>2. holder[req[s].lock] = s /\ s # NULL
          BY <5>1, <3>5, NullAssumption DEF LocksHeld
        <5>3. req[s].lock \in Requests  BY <5>1 DEF IInv, LockInv
        <5> QED BY <5>2, <5>3, <3>3, <3>5
      <4> QED BY <4>1, <4>2
    <3>7. ASSUME NEW l \in Requests, holder'[l] # NULL
          PROVE  pc'[holder'[l]] \in UnderLock /\ req'[holder'[l]].lock = l
      <4>1. CASE l = req[r].lock  BY <4>1, <3>3, <3>5, <1>1
      <4>2. CASE l # req[r].lock
        <5>1. holder'[l] = holder[l]  BY <4>2, <3>3, <3>5
        <5>2. holder[l] \in Requests  BY <5>1, <3>5, <3>7
        <5>3. pc[holder[l]] \in UnderLock /\ req[holder[l]].lock = l
          BY <5>1, <3>5, <3>7 DEF LocksHeld
        <5> QED BY <5>1, <5>2, <5>3, <3>3, <1>1
      <4> QED BY <4>1, <4>2
    <3>8. LocksHeld'  BY <3>6, <3>7 DEF LocksHeld
    <3>9. \A s \in Requests : pc'[s] \notin NoLock => req'[s].lock \in Requests
      BY <3>3, <3>4, <1>1 DEF IInv, LockInv
    <3> QED BY <3>2, <3>3, <3>4, <3>5, <3>8, <3>9 DEF IInv, LockInv
  <2> QED BY <2>1, <2>2
<1>j. CASE LookInMemory(r)  BY <1>j, <1>1, <1>2 DEF LookInMemory, Goto, Advances, Stages
<1>k. CASE LookOnDisk(r)
  <2>1. CASE Uri(r) \in disk /\ NotActual(r)
    BY <1>k, <2>1, <1>3, CancelLeaves DEF LookOnDisk
  <2>2. CASE ~(Uri(r) \in disk /\ NotActual(r))
    BY <1>k, <2>2, <1>1, <1>2 DEF LookOnDisk, Goto, Advances, Stages
  <2> QED BY <2>1, <2>2
<1>l. CASE OpenStream(r)  BY <1>l, <1>1, <1>2 DEF OpenStream, Goto, Advances, Stages
<1>m. CASE Copy(r)  BY <1>m, <1>1, <1>2 DEF Copy, Goto, Advances, Stages
<1>n. CASE Decode(r)
  <2>1. CASE NotActual(r)  BY <1>n, <2>1, <1>3, CancelLeaves DEF Decode
  <2>2. CASE ~NotActual(r)
    BY <1>n, <2>2, <1>1, <1>2 DEF Decode, Goto, Advances, Stages
  <2> QED BY <2>1, <2>2
<1>o. CASE FireFail(r)  BY <1>o, <1>3 DEF FireFail, Goto, Unlock, Leaves
<1>p. CASE Keep(r)
  <2>1. CASE NotActual(r) \/ intr[r]  BY <1>p, <2>1, <1>3, CancelLeaves DEF Keep
  <2>2. CASE ~(NotActual(r) \/ intr[r])
    BY <1>p, <2>2, <1>1, <1>2 DEF Keep, Goto, Advances, Stages
  <2> QED BY <2>1, <2>2
<1>q. CASE Deliver(r)
  <2>1. CASE NotActual(r) \/ intr[r]  BY <1>q, <2>1, <1>3, CancelLeaves DEF Deliver
  <2>2. CASE ~(NotActual(r) \/ intr[r])
    BY <1>q, <2>2, <1>3 DEF Deliver, Goto, Unlock, Leaves
  <2> QED BY <2>1, <2>2
<1>r. CASE StartProcess(r)  BY <1>r, <1>1, <1>2 DEF StartProcess, Goto, Advances, Stages
<1>s. CASE Process(r)  BY <1>s, <1>1, <1>2 DEF Process, Goto, Advances, Stages
<1> QED BY <1>a, <1>b, <1>c, <1>d, <1>e, <1>f, <1>g, <1>h, <1>i, <1>j, <1>k, <1>l,
          <1>m, <1>n, <1>o, <1>p, <1>q, <1>r, <1>s DEF Submit, Task

----------------------------------------------------------------------------
(***************************************************************************)
(* The UI thread. Its steps take and release no lock; what they do to the  *)
(* names of the views is shown action by action.                           *)
(***************************************************************************)
LEMMA DisplayImageInv ==
    ASSUME IInv, NEW r \in Requests, NEW v \in Views, NEW k \in Keys,
           NEW o \in Options, DisplayImage(r, v, k, o)
    PROVE  IInv'
<1> USE DEF DisplayImage, Goto, ViewOf, KeyOf, NoLock, Early, UnderLock
<1> DEFINE info == [view |-> v, key |-> k, opt |-> o, lock |-> NULL]
<1>1. /\ pc \in [Requests -> Stages] /\ req \in [Requests -> Infos \cup {NULL}]
      /\ viewKey \in [Views -> Keys \cup {NULL}]
      /\ latest \in [Views -> Requests \cup {NULL}]
  BY DEF IInv, NamesInv, Shape
<1>2. info \in Infos  BY DEF Infos
<1>3. r # NULL /\ k # NULL  BY NullAssumption
<1>4. Shape'
  <2>1. pc' \in [Requests -> Stages]  BY <1>1 DEF Stages
  <2>2. shown' = [w \in Views |-> shown'[w]]  BY DEF IInv, NamesInv, Shape, viewVars
  <2> QED BY <1>1, <1>2, <2>1, <2>2 DEF Shape
<1>5. Known'
  <2>1. \A s \in Requests \ {r} : pc'[s] = pc[s] /\ req'[s] = req[s]  BY <1>1
  <2>2. req'[r] \in Infos  BY <1>1, <1>2
  <2> QED BY <2>1, <2>2 DEF Known, IInv, NamesInv
<1>6. Awaited'  BY <1>1, <1>3 DEF Awaited, IInv, NamesInv
<1>7. Prepared'
  <2>1. \A s \in Requests : pc'[s] = "preparing" => s = r
    BY <1>1 DEF Prepared, IInv, NamesInv
  <2>2. ui' = "display" /\ latest'[v] = r /\ req'[r].view = v  BY <1>1
  <2> QED BY <2>1, <2>2 DEF Prepared
<1>8. TableNamesLatest'
  <2> SUFFICES ASSUME NEW w \in Views \ collected, viewKey'[w] # NULL
               PROVE  latest'[w] # NULL /\ req'[latest'[w]].key = viewKey'[w]
    BY DEF TableNamesLatest
  <2>1. CASE w = v  BY <2>1, <1>1, <1>3
  <2>2. CASE w # v
    <3>1. latest[w] # NULL /\ req[latest[w]].key = viewKey[w]
      BY <2>2, <1>1 DEF TableNamesLatest, IInv, NamesInv
    <3>2. latest[w] # r  BY <3>1 DEF Awaited, IInv, NamesInv
    <3> QED BY <2>2, <3>1, <3>2, <1>1
  <2> QED BY <2>1, <2>2
<1>9. LockInv'
  <2>1. \A s \in Requests : s # r => pc'[s] = pc[s] /\ req'[s] = req[s]  BY <1>1
  <2>2. pc[r] = "new" /\ pc'[r] = "preparing"  BY <1>1
  <2>3. lockTable' \in [Uris -> Requests \cup {NULL}]  BY DEF IInv, LockInv
  <2>4. \A s \in Requests : pc'[s] \notin NoLock => req'[s].lock \in Requests
    BY <2>1, <2>2 DEF IInv, LockInv
  <2> QED BY <2>1, <2>2, <2>3, <2>4, SameLocks DEF IInv
<1> QED BY <1>4, <1>5, <1>6, <1>7, <1>8, <1>9 DEF IInv, NamesInv

\* The end of displayImage: the request it prepared goes on, with a lock or
\* answered, and keeps its view and key.
Dispatches(r) ==
    /\ ui = "display" /\ pc[r] = "preparing"
    /\ \/ pc' = [pc EXCEPT ![r] = "done"] /\ UNCHANGED <<req, lockTable>>
       \/ /\ pc' = [pc EXCEPT ![r] = "distributed"] \/ pc' = [pc EXCEPT ![r] = "queuedProcess"]
          /\ TakeLock(r)
    /\ shown' = [v \in Views |-> shown'[v]]
    /\ ui' = "idle"
    /\ UNCHANGED <<viewKey, latest, collected, holder>>

LEMMA DispatchesInv ==
    ASSUME IInv, NEW r \in Requests, Dispatches(r)
    PROVE  IInv'
<1> USE DEF Dispatches, NoLock, Early, UnderLock
<1>1. /\ pc \in [Requests -> Stages] /\ req \in [Requests -> Infos \cup {NULL}]
      /\ lockTable \in [Uris -> Requests \cup {NULL}]
  BY DEF IInv, NamesInv, Shape, LockInv
<1>2. req[r] \in Infos  BY DEF IInv, NamesInv, Known
<1>3. \A s \in Requests : s # r => pc'[s] = pc[s] /\ req'[s] = req[s]
  BY <1>1 DEF TakeLock
<1>4. pc'[r] \in {"done", "distributed", "queuedProcess"}  BY <1>1
<1>5. /\ req'[r] \in Infos /\ req'[r].view = req[r].view /\ req'[r].key = req[r].key
      /\ lockTable' \in [Uris -> Requests \cup {NULL}]
      /\ req' \in [Requests -> Infos \cup {NULL}]
      /\ pc'[r] # "done" => req'[r].lock \in Requests
  <2>1. CASE UNCHANGED <<req, lockTable>> /\ pc' = [pc EXCEPT ![r] = "done"]
    BY <2>1, <1>1, <1>2
  <2>2. CASE TakeLock(r)
    <3> DEFINE l == LockFor(Uri(r), r)
    <3>1. Uri(r) \in Uris  BY <1>2 DEF Uri, Uris, Infos
    <3>2. l \in Requests  BY <3>1, <1>1 DEF LockFor
    <3>3. req' = [req EXCEPT ![r].lock = l] /\ lockTable' = [lockTable EXCEPT ![Uri(r)] = l]
      BY <2>2 DEF TakeLock
    <3> HIDE DEF l
    <3>4. req'[r] = [req[r] EXCEPT !.lock = l]  BY <3>3, <1>1
    <3>5. req'[r] \in Infos /\ req'[r].view = req[r].view /\ req'[r].key = req[r].key
          /\ req'[r].lock = l
      BY <3>4, <3>2, <1>2 DEF Infos
    <3> QED BY <3>1, <3>2, <3>3, <3>5, <1>1
  <2> QED BY <2>1, <2>2
<1>6. Shape'
  <2>1. pc' \in [Requests -> Stages]  BY <1>1 DEF Stages
  <2> QED BY <2>1, <1>5 DEF Shape, IInv, NamesInv
<1>7. Known'  BY <1>3, <1>5 DEF Known, IInv, NamesInv
<1>8. Awaited'
  <2>1. \A s \in Requests : pc[s] # "new" => pc'[s] # "new"  BY <1>3, <1>4
  <2> QED BY <2>1 DEF Awaited, IInv, NamesInv, Shape
<1>9. Prepared'  BY <1>3, <1>4 DEF Prepared, IInv, NamesInv
<1>10. TableNamesLatest'
  <2>1. \A s \in Requests : req'[s].key = req[s].key  BY <1>3, <1>5
  <2>2. latest \in [Views -> Requests \cup {NULL}]  BY DEF IInv, NamesInv, Shape
  <2> QED BY <2>1, <2>2 DEF TableNamesLatest, KeyOf, IInv, NamesInv
<1>11. LockInv'
  <2>1. \A s \in Requests : pc'[s] \notin NoLock => req'[s].lock \in Requests
    BY <1>3, <1>4, <1>5 DEF IInv, LockInv
  <2>2. \A s \in Requests : (pc'[s] \in UnderLock) = (pc[s] \in UnderLock)
    BY <1>3, <1>4
  <2>3. \A s \in Requests : pc[s] \in UnderLock => req'[s].lock = req[s].lock
    BY <1>3
  <2> QED BY <1>5, <2>1, <2>2, <2>3, SameLocks DEF IInv
<1> QED BY <1>6, <1>7, <1>8, <1>9, <1>10, <1>11 DEF IInv, NamesInv

\* Every other step of the UI thread and of the environment: views may lose
\* their request, no request changes hands.
Loosens ==
    /\ UNCHANGED <<req, holder>>
    /\ pc' \in [Requests -> Stages]
    /\ \A r \in Requests :
           \/ pc'[r] = pc[r]
           \/ {pc[r], pc'[r]} \cap (NoLock \cup UnderLock) = {}
    /\ lockTable' \in [Uris -> Requests \cup {NULL}]
    /\ viewKey' \in [Views -> Keys \cup {NULL}]
    /\ latest'  \in [Views -> Requests \cup {NULL}]
    /\ shown' = [v \in Views |-> shown'[v]]
    /\ \A v \in Views : latest'[v] \in {latest[v], NULL}
    /\ \A r \in Requests : pc[r] = "preparing" =>
           ui' = "display" /\ latest'[ViewOf(r)] = latest[ViewOf(r)]
    /\ TableNamesLatest'

LEMMA LoosensInv == IInv /\ Loosens => IInv'
<1> SUFFICES ASSUME IInv, Loosens PROVE IInv'  OBVIOUS
<1>1. Shape'  BY DEF Loosens, Shape, IInv, NamesInv
<1>2. Known'  BY DEF Loosens, Known, IInv, NamesInv, NoLock, Early
<1>3. Awaited'  BY DEF Loosens, Awaited, IInv, NamesInv, Shape, NoLock, Early
<1>4. Prepared'
  <2>1. \A r \in Requests : pc'[r] = "preparing" => pc[r] = "preparing"
    BY DEF Loosens, NoLock, Early
  <2> QED BY <2>1 DEF Loosens, Prepared, IInv, NamesInv, ViewOf
<1>5. LockInv'
  <2>1. \A r \in Requests : pc'[r] \notin NoLock => req'[r].lock \in Requests
    BY DEF Loosens, IInv, LockInv
  <2>2. \A r \in Requests : (pc'[r] \in UnderLock) = (pc[r] \in UnderLock)
    BY DEF Loosens
  <2> QED BY <2>1, <2>2, SameLocks DEF Loosens, IInv
<1> QED BY <1>1, <1>2, <1>3, <1>4, <1>5 DEF IInv, NamesInv, Loosens

\* shutdownNow moves queued requests only.
LEMMA ShutdownMoves ==
    ASSUME IInv, NEW k, ShutdownNow(k)
    PROVE  /\ pc' \in [Requests -> Stages]
           /\ \A r \in Requests : \/ pc'[r] = pc[r]
                                  \/ {pc[r], pc'[r]} \cap (NoLock \cup UnderLock) = {}
<1>1. pc \in [Requests -> Stages]  BY DEF IInv, NamesInv, Shape
<1>2. ASSUME NEW r \in Requests
      PROVE  \/ pc'[r] = pc[r]
             \/ pc[r] \in {"queued", "queuedProcess"} /\ pc'[r] = "dropped"
  BY <1>1 DEF ShutdownNow
<1>3. pc' = [r \in Requests |-> pc'[r]]  BY DEF ShutdownNow
<1> QED BY <1>1, <1>2, <1>3 DEF Stages, NoLock, Early, UnderLock

LEMMA UiInv ==
    ASSUME IInv, Call \/ FinishCall \/ RunPosted \/ Environment
    PROVE  IInv'
<1> USE DEF engineVars, taskVars, cacheVars, viewVars
<1>1. /\ pc \in [Requests -> Stages] /\ viewKey \in [Views -> Keys \cup {NULL}]
      /\ latest \in [Views -> Requests \cup {NULL}]
      /\ lockTable \in [Uris -> Requests \cup {NULL}]
      /\ shown = [v \in Views |-> shown[v]]
      /\ TableNamesLatest
  BY DEF IInv, NamesInv, Shape, LockInv
<1>2. \A r \in Requests : pc[r] = "preparing" => ui = "display"
  BY DEF IInv, NamesInv, Prepared
<1>3. ASSUME Loosens PROVE IInv'  BY <1>3, LoosensInv
<1>a. CASE \E r \in Requests, v \in Views, k \in Keys, o \in Options : DisplayImage(r, v, k, o)
  BY <1>a, DisplayImageInv
<1>b. CASE \E v \in Views : DisplayNothing(v) \/ CancelDisplayTask(v)
  <2>1. PICK v \in Views : DisplayNothing(v) \/ CancelDisplayTask(v)  BY <1>b
  <2>2. Loosens  BY <2>1, <1>1, <1>2
    DEF DisplayNothing, CancelDisplayTask, Loosens, TableNamesLatest, KeyOf
  <2> QED BY <2>2, <1>3
<1>c. CASE (\E deny \in BOOLEAN : DenyNetworkDownloads(deny)) \/ Pause \/ Resume
  BY <1>c, <1>1, <1>2, <1>3
  DEF DenyNetworkDownloads, Pause, Resume, Loosens, TableNamesLatest, KeyOf
<1>d. CASE Stop
  <2>1. /\ UNCHANGED <<viewKey, lockTable, req, holder, shown, collected>>
        /\ ui = "idle" /\ ui' = "stopCached" /\ latest' = [v \in Views |-> NULL]
    BY <1>d DEF Stop
  <2>2. ShutdownNow("net")  BY <1>d DEF Stop
  <2>3. TableNamesLatest'  BY <2>1 DEF TableNamesLatest
  <2> QED BY <2>1, <2>2, <2>3, <1>1, <1>2, <1>3, ShutdownMoves DEF Loosens
<1>e. CASE StopCached
  <2>1. /\ UNCHANGED <<viewKey, lockTable, req, holder, shown, collected, latest>>
        /\ ui = "stopCached" /\ ui' = "stopClear"
    BY <1>e DEF StopCached
  <2>2. ShutdownNow("cached")  BY <1>e DEF StopCached
  <2>3. TableNamesLatest'  BY <2>1 DEF TableNamesLatest
  <2> QED BY <2>1, <2>2, <2>3, <1>1, <1>2, <1>3, ShutdownMoves DEF Loosens
<1>f. CASE StopClear
  BY <1>f, <1>1, <1>2, <1>3 DEF StopClear, Loosens, TableNamesLatest, KeyOf
<1>g. CASE ResumeNotify
  <2>1. /\ UNCHANGED <<viewKey, lockTable, req, holder, shown, collected, latest>>
        /\ ui = "resume" /\ ui' = "idle"
        /\ pc' = [r \in Requests |-> IF pc[r] = "waiting" THEN "woken" ELSE pc[r]]
    BY <1>g DEF ResumeNotify
  <2>2. pc' \in [Requests -> Stages]  BY <2>1, <1>1 DEF Stages, Running
  <2>3. \A r \in Requests : \/ pc'[r] = pc[r]
                            \/ {pc[r], pc'[r]} \cap (NoLock \cup UnderLock) = {}
    BY <2>1 DEF NoLock, Early, UnderLock
  <2>4. TableNamesLatest'  BY <2>1, <1>1 DEF TableNamesLatest, KeyOf
  <2> QED BY <2>1, <2>2, <2>3, <2>4, <1>1, <1>2, <1>3 DEF Loosens
<1>h. CASE \E r \in Requests : AnswerFromMemory(r) \/ AnswerProcessed(r) \/ SubmitTask(r)
  <2>1. PICK r \in Requests : AnswerFromMemory(r) \/ AnswerProcessed(r) \/ SubmitTask(r)
    BY <1>h
  <2>2. Dispatches(r)
    <3>1. CASE AnswerFromMemory(r)  BY <3>1, <1>1 DEF AnswerFromMemory, Goto, Dispatches
    <3>2. CASE AnswerProcessed(r)  BY <3>2, <1>1 DEF AnswerProcessed, Goto, Dispatches
    <3>3. CASE SubmitTask(r)  BY <3>3, <1>1 DEF SubmitTask, Goto, Dispatches
    <3> QED BY <2>1, <3>1, <3>2, <3>3
  <2> QED BY <2>2, DispatchesInv
<1>i. CASE RunPosted
  <2>1. PICK r \in Requests : RunDisplay(r) \/ RunFailed(r) \/ RunCancelled(r)
    BY <1>i DEF RunPosted
  <2>2. CASE RunDisplay(r)
    BY <2>2, <1>1, <1>2, <1>3 DEF RunDisplay, Takes, Loosens, TableNamesLatest, KeyOf
  <2>3. CASE RunFailed(r)
    BY <2>3, <1>1, <1>2, <1>3 DEF RunFailed, Takes, Loosens, TableNamesLatest, KeyOf
  <2>4. CASE RunCancelled(r)
    BY <2>4, <1>1, <1>2, <1>3 DEF RunCancelled, Takes, Loosens, TableNamesLatest, KeyOf
  <2> QED BY <2>1, <2>2, <2>3, <2>4
<1>j. CASE \E u \in Uris : CollectLock(u) \/ EvictDisk(u)
  <2>1. PICK u \in Uris : CollectLock(u) \/ EvictDisk(u)  BY <1>j
  <2>2. TableNamesLatest'  BY <2>1, <1>1 DEF CollectLock, EvictDisk, TableNamesLatest, KeyOf
  <2> QED BY <2>1, <2>2, <1>1, <1>2, <1>3 DEF CollectLock, EvictDisk, Loosens
<1>k. CASE \E k \in Keys : EvictMemory(k)
  BY <1>k, <1>1, <1>2, <1>3 DEF EvictMemory, Loosens, TableNamesLatest, KeyOf
<1>l. CASE \E v \in Views : CollectView(v)
  <2>1. PICK v \in Views : CollectView(v)  BY <1>l
  <2>2. TableNamesLatest'  BY <2>1, <1>1 DEF CollectView, TableNamesLatest, KeyOf
  <2>3. \A r \in Requests : pc[r] = "preparing" => ViewOf(r) # v  BY <2>1 DEF CollectView
  <2>4. \A r \in Requests : pc[r] = "preparing" => latest'[ViewOf(r)] = latest[ViewOf(r)]
    BY <2>1, <2>3, <1>1 DEF CollectView
  <2> QED BY <2>1, <2>2, <2>4, <1>1, <1>2, <1>3 DEF CollectView, Loosens
<1> QED BY <1>a, <1>b, <1>c, <1>d, <1>e, <1>f, <1>g, <1>h, <1>i, <1>j, <1>k, <1>l
         DEF Call, FinishCall, Environment

LEMMA InitIInv == Init => IInv
<1> SUFFICES ASSUME Init PROVE IInv  OBVIOUS
<1> USE DEF Init, EngineInit
<1>1. Shape  BY DEF Shape, Stages
<1>2. Known /\ Awaited /\ Prepared /\ TableNamesLatest
  BY DEF Known, Awaited, Prepared, TableNamesLatest
<1>3. LockInv  BY DEF LockInv, LocksHeld, NoLock, Early, UnderLock
<1> QED BY <1>1, <1>2, <1>3 DEF IInv, NamesInv

LEMMA StutterIInv == IInv /\ UNCHANGED vars => IInv'
BY DEF IInv, NamesInv, Shape, Known, Awaited, Prepared, TableNamesLatest, LockInv,
       LocksHeld, ViewOf, KeyOf, vars, engineVars, taskVars, viewVars

LEMMA NextIInv == IInv /\ [Next]_vars => IInv'
<1> SUFFICES ASSUME IInv, [Next]_vars PROVE IInv'  OBVIOUS
<1>1. CASE Call \/ FinishCall \/ RunPosted \/ Environment  BY <1>1, UiInv
<1>2. CASE \E r \in Requests : Submit(r) \/ Task(r)  BY <1>2, TaskInv
<1>3. CASE UNCHANGED vars  BY <1>3, StutterIInv
<1> QED BY <1>1, <1>2, <1>3 DEF Next

\* The strengthened invariant holds in every reachable state.
THEOREM Invariance == Spec => []IInv
<1>1. Init => IInv  BY InitIInv
<1>2. IInv /\ [Next]_vars => IInv'  BY NextIInv
<1> QED BY <1>1, <1>2, PTL DEF Spec

\* Whatever the UI thread, the tasks and the collector do between them,
\* cacheKeysForImageAwares names for a view the key last requested for it,
\* or nothing: what every isViewReused of the tasks relies on.
THEOREM NamesLatest == Spec => []TableNamesLatest
<1>1. IInv => TableNamesLatest  BY DEF IInv, NamesInv
<1> QED BY <1>1, Invariance, PTL

\* Two tasks are never inside the region of one uri lock, and no task ends
\* with the lock: also when the table of locks is cleared by stop() or its
\* entries are collected while tasks hold or wait for them.
THEOREM LocksExclusive == Spec => []LocksHeld
<1>1. IInv => LocksHeld  BY DEF IInv, LockInv
<1> QED BY <1>1, Invariance, PTL

----------------------------------------------------------------------------
\* One step never makes a bitmap appear that is not the view's newest.
LEMMA ShowsLatest ==
    ASSUME IInv, [Next]_vars, NEW v \in Views,
           shown'[v] # shown[v], shown'[v] \in Keys
    PROVE  latest[v] # NULL /\ KeyOf(latest[v]) = shown'[v]
<1> USE DEF engineVars, taskVars, cacheVars, viewVars
<1>1. /\ shown = [w \in Views |-> shown[w]]
      /\ latest \in [Views -> Requests \cup {NULL}]
      /\ TableNamesLatest
  BY DEF IInv, NamesInv, Shape
<1>2. BLANK \notin Keys /\ ONFAIL \notin Keys /\ NULL \notin Keys \cup Requests
  BY ShownAssumption, NullAssumption
<1>a. CASE Call
  <2>1. \/ UNCHANGED shown
        \/ \E w \in Views : shown' = [shown EXCEPT ![w] = BLANK]
    BY <1>a DEF Call, DisplayImage, DisplayNothing, CancelDisplayTask,
                DenyNetworkDownloads, Pause, Resume, Stop
  <2> QED BY <2>1, <1>1, <1>2
<1>b. CASE FinishCall
  <2>1. CASE \E r \in Requests : AnswerFromMemory(r)
    <3>1. PICK r \in Requests : AnswerFromMemory(r)  BY <2>1
    <3>2. latest[ViewOf(r)] = r  BY <3>1 DEF AnswerFromMemory, IInv, NamesInv, Prepared
    <3>3. v = ViewOf(r) /\ shown'[v] = KeyOf(r)  BY <3>1, <1>1 DEF AnswerFromMemory
    <3> QED BY <3>2, <3>3, <1>2
  <2>2. CASE \E r \in Requests : AnswerProcessed(r)  BY <2>2 DEF AnswerProcessed
  <2>3. CASE \E r \in Requests : SubmitTask(r)  BY <2>3, <1>1, <1>2 DEF SubmitTask
  <2>4. CASE ResumeNotify \/ StopCached \/ StopClear
    BY <2>4 DEF ResumeNotify, StopCached, StopClear
  <2> QED BY <1>b, <2>1, <2>2, <2>3, <2>4 DEF FinishCall
<1>c. CASE RunPosted
  <2>1. PICK r \in Requests : RunDisplay(r) \/ RunFailed(r) \/ RunCancelled(r)
    BY <1>c DEF RunPosted
  <2>2. CASE RunDisplay(r)
    <3>1. PICK bitmap \in {KeyOf(r), BLANK} :
             ~NotActual(r) /\ ui = "idle" /\ shown' = [shown EXCEPT ![ViewOf(r)] = bitmap]
      BY <2>2 DEF RunDisplay, Takes
    <3>2. v = ViewOf(r) /\ shown'[v] = KeyOf(r)  BY <3>1, <1>1, <1>2
    <3>3. v \notin collected /\ viewKey[v] = KeyOf(r)
      BY <3>1, <3>2 DEF NotActual, Collected, Reused
    <3> QED BY <3>1, <3>2, <3>3, <1>1, <1>2 DEF TableNamesLatest
  <2>3. CASE RunFailed(r)  BY <2>3, <1>1, <1>2 DEF RunFailed
  <2>4. CASE RunCancelled(r)  BY <2>4 DEF RunCancelled
  <2> QED BY <2>1, <2>2, <2>3, <2>4
<1>d. CASE \E r \in Requests : Submit(r)
  BY <1>d DEF Submit, Distribute, RenewExecutor, Execute
<1>e. CASE \E r \in Requests : Task(r)
  BY <1>e DEF Task, Start, EnterPause, Interrupted, AfterPause, AfterDelay, Lock,
     LookInMemory, LookOnDisk, OpenStream, Copy, Decode, FireFail, Keep, Deliver,
     StartProcess, Process
<1>f. CASE Environment
  BY <1>f DEF Environment, CollectLock, EvictDisk, EvictMemory, CollectView
<1>g. CASE UNCHANGED vars  BY <1>g DEF vars
<1> QED BY <1>a, <1>b, <1>c, <1>d, <1>e, <1>f, <1>g DEF Next

\* Both tables of the engine, for any number of requests, views and stops.
THEOREM TablesTrue == Spec => []EngineTables
BY NamesLatest, LocksExclusive, PTL DEF EngineTables

\* Recycling of views is right for every interleaving: a bitmap that
\* appears in a view is the one last requested for it, however the posts of
\* older tasks, cancellations, stop() and garbage collection fall.
THEOREM NeverStale == Spec => NeverShowsStale
<1> DEFINE Fresh == \A v \in Views : shown'[v] # shown[v] /\ shown'[v] \in Keys =>
                        latest[v] # NULL /\ KeyOf(latest[v]) = shown'[v]
<1>1. IInv /\ [Next]_vars => [Fresh]_vars  BY ShowsLatest
<1>2. Spec => [][Fresh]_vars
  <2> HIDE DEF Fresh
  <2> QED BY <1>1, Invariance, PTL DEF Spec
<1> QED BY <1>2 DEF NeverShowsStale
----------------------------------------------------------------------------
(***************************************************************************)
(* What the listeners hear. A request is told that it started, and at most *)
(* one thing more; what waits in the Handler for it is that one thing.     *)
(***************************************************************************)

\* All a listener ever hears.
Stories == {<<>>, <<"started">>} \cup {<<"started", e>> : e \in Terminal}

LEMMA StoryShape ==
    ASSUME NEW s \in Stories
    PROVE  /\ Len(s) \in 0..2
           /\ s # <<>> => s[1] = "started"
           /\ Len(s) = 2 => s[2] \in Terminal
<1>1. CASE s = <<>>  BY <1>1
<1>2. CASE s = <<"started">>  BY <1>2
<1>3. CASE \E e \in Terminal : s = <<"started", e>>
  <2>1. PICK e \in Terminal : s = <<"started", e>>  BY <1>3
  <2> QED BY <2>1
<1> QED BY <1>1, <1>2, <1>3 DEF Stories

HeardInv ==
    /\ heard \in [Requests -> Stories]
    /\ \A r \in Requests : heard[r] = <<>> <=> pc[r] = "new"
    /\ \A r \in Requests : pc[r] \notin {"new", "done"} => heard[r] = <<"started">>
    /\ handler \in Seq(Runnables)
    /\ \A i \in DOMAIN handler :
           pc[handler[i].req] = "done" /\ heard[handler[i].req] = <<"started">>
    /\ \A i, j \in DOMAIN handler : handler[i].req = handler[j].req => i = j

LEMMA PostedForRequests ==
    ASSUME handler \in Seq(Runnables), NEW i \in DOMAIN handler
    PROVE  handler[i] \in Runnables /\ handler[i].req \in Requests
<1>1. i \in 1..Len(handler)  BY LenProperties
<1>2. handler[i] \in Runnables  BY <1>1, ElementOfSeq
<1> QED BY <1>2 DEF Runnables

LEMMA StoriesGrow ==
    /\ Append(<<>>, "started") = <<"started">>
    /\ \A e : Append(<<"started">>, e) = <<"started", e>>
<1>1. ASSUME NEW e PROVE Append(<<"started">>, e) = <<"started", e>>
  <2> DEFINE T == {"started", e}
             v == <<"started", e>>
             w == Append(<<"started">>, e)
  <2>1. <<"started">> \in Seq(T) /\ e \in T /\ Len(<<"started">>) = 1  OBVIOUS
  <2>2. w \in Seq(T) /\ Len(w) = 2 /\ w[1] = "started" /\ w[2] = e
    BY <2>1, AppendProperties
  <2>3. v \in Seq(T) /\ Len(v) = 2 /\ v[1] = "started" /\ v[2] = e  OBVIOUS
  <2> HIDE DEF v, w, T
  <2>4. \A i \in 1..Len(w) : w[i] = v[i]  BY <2>2, <2>3
  <2>5. w = v  BY <2>2, <2>3, <2>4, SeqEqual
  <2> QED BY <2>5 DEF v, w
<1> QED BY <1>1

LEMMA TellsEnd ==
    ASSUME NEW r \in Requests, NEW e, heard[r] = <<"started">>, Tell(r, e)
    PROVE  heard' = [heard EXCEPT ![r] = <<"started", e>>]
<1>1. Append(heard[r], e) = <<"started", e>>  BY StoriesGrow, Zenon
<1>2. heard' = [heard EXCEPT ![r] = Append(heard[r], e)]  BY DEF Tell
<1> QED BY <1>1, <1>2, Zenon

\* Nothing is told or posted; requests go on, none begins or has been over.
Mute ==
    /\ UNCHANGED <<heard, handler>>
    /\ \A r \in Requests : pc'[r] = pc[r] \/ (pc[r] \notin {"new", "done"} /\ pc'[r] # "new")

LEMMA MuteHeard == HeardInv /\ Mute => HeardInv'
<1> SUFFICES ASSUME HeardInv, Mute PROVE HeardInv'  OBVIOUS
<1> USE DEF HeardInv, Mute
<1>1. \A r \in Requests : (pc'[r] = "new") = (pc[r] = "new")  OBVIOUS
<1>2. \A r \in Requests : pc'[r] \notin {"new", "done"} => pc[r] \notin {"new", "done"}
  OBVIOUS
<1>3. \A i \in DOMAIN handler : handler[i].req \in Requests
  BY PostedForRequests
<1>4. \A i \in DOMAIN handler' : pc'[handler'[i].req] = "done"  BY <1>3
<1> QED BY <1>1, <1>2, <1>4

\* A task comes to its end, with a runnable for the UI thread or without.
Ends(r) ==
    /\ pc[r] \notin {"new", "done"} /\ pc' = [pc EXCEPT ![r] = "done"]
    /\ UNCHANGED heard
    /\ \/ UNCHANGED handler
       \/ \E what \in {"display", "failed", "cancelled"} : Post(r, what)

LEMMA EndsHeard ==
    ASSUME HeardInv, pc \in [Requests -> Stages], NEW r \in Requests, Ends(r)
    PROVE  HeardInv'
<1> USE DEF HeardInv, Ends
<1>1. \A s \in Requests : pc'[s] = (IF s = r THEN "done" ELSE pc[s])  OBVIOUS
<1>2. heard' \in [Requests -> Stories] /\ heard'[r] = <<"started">>  OBVIOUS
<1>3. \A s \in Requests : heard'[s] = <<>> <=> pc'[s] = "new"  BY <1>1
<1>4. \A s \in Requests : pc'[s] \notin {"new", "done"} => heard'[s] = <<"started">>
  BY <1>1
<1>5. \A i \in DOMAIN handler : handler[i].req \in Requests /\ handler[i].req # r
  BY PostedForRequests
<1>6. CASE UNCHANGED handler  BY <1>1, <1>2, <1>3, <1>4, <1>5, <1>6
<1>7. CASE \E what \in {"display", "failed", "cancelled"} : Post(r, what)
  <2>1. PICK what \in {"display", "failed", "cancelled"} :
            handler' = Append(handler, [what |-> what, req |-> r])
    BY <1>7 DEF Post
  <2> DEFINE e == [what |-> what, req |-> r]
  <2>2. e \in Runnables  BY DEF Runnables
  <2>3. /\ handler' \in Seq(Runnables) /\ DOMAIN handler' = 1..Len(handler) + 1
        /\ \A i \in 1..Len(handler) : handler'[i] = handler[i]
        /\ handler'[Len(handler) + 1] = e /\ DOMAIN handler = 1..Len(handler)
        /\ Len(handler) \in Nat
    BY <2>1, <2>2, AppendProperties, LenProperties
  <2>4. \A i \in DOMAIN handler' :
            \/ i \in DOMAIN handler /\ handler'[i] = handler[i]
            \/ i = Len(handler) + 1 /\ handler'[i].req = r
    BY <2>3
  <2>5. \A i \in DOMAIN handler' :
            pc'[handler'[i].req] = "done" /\ heard'[handler'[i].req] = <<"started">>
    BY <2>4, <1>1, <1>2, <1>5
  <2>6. \A i, j \in DOMAIN handler' : handler'[i].req = handler'[j].req => i = j
    BY <2>4, <1>5
  <2> QED BY <2>3, <2>5, <2>6, <1>2, <1>3, <1>4
<1> QED BY <1>6, <1>7

\* displayImage begins a request, or answers the one it is busy with.
Begins(r) ==
    /\ UNCHANGED handler
    /\ \/ pc[r] = "new" /\ pc' = [pc EXCEPT ![r] = "preparing"] /\ Tell(r, "started")
       \/ pc[r] = "preparing" /\ pc' = [pc EXCEPT ![r] = "done"] /\ Tell(r, "complete")

LEMMA BeginsHeard ==
    ASSUME HeardInv, pc \in [Requests -> Stages], NEW r \in Requests, Begins(r)
    PROVE  HeardInv'
<1> USE DEF HeardInv, Begins, Tell
<1>1. \A i \in DOMAIN handler : handler[i].req \in Requests /\ handler[i].req # r
  BY PostedForRequests
<1>2. CASE pc[r] = "new" /\ pc' = [pc EXCEPT ![r] = "preparing"] /\ Tell(r, "started")
  <2>1. heard[r] = <<>> /\ heard' = [heard EXCEPT ![r] = <<"started">>]
    BY <1>2, StoriesGrow
  <2>2. \A s \in Requests : heard'[s] = IF s = r THEN <<"started">> ELSE heard[s]  BY <2>1
  <2>3. \A s \in Requests : pc'[s] = IF s = r THEN "preparing" ELSE pc[s]  BY <1>2
  <2>4. heard' \in [Requests -> Stories]  BY <2>1 DEF Stories
  <2> QED BY <2>2, <2>3, <2>4, <1>1
<1>3. CASE pc[r] = "preparing" /\ pc' = [pc EXCEPT ![r] = "done"] /\ Tell(r, "complete")
  <2>1. heard[r] = <<"started">>  BY <1>3
  <2>2. heard' = [heard EXCEPT ![r] = <<"started", "complete">>]
    BY <1>3, <2>1, StoriesGrow
  <2>3. \A s \in Requests : heard'[s] = IF s = r THEN <<"started", "complete">> ELSE heard[s]
    BY <2>2
  <2>4. \A s \in Requests : pc'[s] = IF s = r THEN "done" ELSE pc[s]  BY <1>3
  <2>5. heard' \in [Requests -> Stories]  BY <2>2 DEF Stories, Terminal
  <2>6. <<"started", "complete">> # <<>>  OBVIOUS
  <2> QED BY <2>3, <2>4, <2>5, <2>6, <1>1
<1> QED BY <1>2, <1>3

\* The UI thread runs a runnable of r, which tells its listener the end.
Hears(r) ==
    /\ handler # <<>> /\ Head(handler).req = r /\ handler' = Tail(handler)
    /\ UNCHANGED pc
    /\ \E e \in Terminal : Tell(r, e)

LEMMA HearsHeard ==
    ASSUME HeardInv, NEW r \in Requests, Hears(r)
    PROVE  HeardInv'
<1> USE DEF HeardInv, Hears
<1>1. /\ Len(handler) \in Nat \ {0} /\ DOMAIN handler = 1..Len(handler)
      /\ handler[1].req = r
      /\ handler' \in Seq(Runnables) /\ DOMAIN handler' = 1..Len(handler) - 1
      /\ \A i \in DOMAIN handler' : handler'[i] = handler[i + 1] /\ i + 1 \in DOMAIN handler
  BY HeadTailProperties, LenProperties, EmptySeq
<1>2. heard[r] = <<"started">> /\ pc[r] = "done"  BY <1>1
<1>0. PICK e \in Terminal : Tell(r, e)  OBVIOUS
<1>3. heard' = [heard EXCEPT ![r] = <<"started", e>>]  BY <1>0, <1>2, TellsEnd
<1>4. \A s \in Requests : heard'[s] = IF s = r THEN <<"started", e>> ELSE heard[s]
  BY <1>3
<1>5. heard' \in [Requests -> Stories] /\ <<"started", e>> # <<>>  BY <1>3 DEF Stories
<1>6. \A i \in DOMAIN handler' : handler'[i].req \in Requests /\ handler'[i].req # r
  <2> SUFFICES ASSUME NEW i \in DOMAIN handler'
               PROVE  handler'[i].req \in Requests /\ handler'[i].req # r
    OBVIOUS
  <2>1. handler'[i] = handler[i + 1] /\ i + 1 \in DOMAIN handler /\ i + 1 # 1
        /\ 1 \in DOMAIN handler
    BY <1>1
  <2>2. handler[i + 1] \in Runnables  BY <2>1, ElementOfSeq
  <2> QED BY <2>1, <2>2, <1>1 DEF Runnables
<1>7. \A i \in DOMAIN handler' :
          pc'[handler'[i].req] = "done" /\ heard'[handler'[i].req] = <<"started">>
  BY <1>1, <1>4, <1>6
<1>8. \A i, j \in DOMAIN handler' : handler'[i].req = handler'[j].req => i = j
  <2> SUFFICES ASSUME NEW i \in DOMAIN handler', NEW j \in DOMAIN handler',
                      handler'[i].req = handler'[j].req
               PROVE  i = j
    OBVIOUS
  <2>1. i + 1 = j + 1  BY <1>1
  <2> QED BY <2>1, <1>1
<1>9. \A s \in Requests : heard'[s] = <<>> <=> pc'[s] = "new"  BY <1>2, <1>4, <1>5
<1>10. \A s \in Requests : pc'[s] \notin {"new", "done"} => heard'[s] = <<"started">>
  BY <1>2, <1>4
<1> QED BY <1>1, <1>5, <1>7, <1>8, <1>9, <1>10

\* The steps of the distributor and of a task either say nothing or end it.
LEMMA TaskHeard ==
    ASSUME IInv, HeardInv, NEW r \in Requests, Submit(r) \/ Task(r)
    PROVE  HeardInv'
<1>1. pc \in [Requests -> Stages]  BY DEF IInv, NamesInv, Shape
<1>2. ASSUME Mute PROVE HeardInv'  BY <1>2, MuteHeard
<1>3. ASSUME Ends(r) PROVE HeardInv'  BY <1>1, <1>3, EndsHeard
<1>4. ASSUME UNCHANGED <<heard, handler>>, pc[r] \notin {"new", "done"},
             NEW s, s \notin {"new", "done"}, Goto(r, s)
      PROVE  HeardInv'
  BY <1>1, <1>2, <1>4 DEF Mute, Goto
<1>5. ASSUME NEW i, pc[r] \notin {"new", "done"}, UNCHANGED heard, Cancel(r, i)
      PROVE  HeardInv'
  BY <1>3, <1>5 DEF Cancel, Goto, Ends
<1> USE DEF viewVars
<1>a. CASE Distribute(r)  BY <1>a, <1>1, <1>2 DEF Distribute, Mute
<1>b. CASE \E k \in Kinds : RenewExecutor(r, k)  BY <1>b, <1>2 DEF RenewExecutor, Mute
<1>c. CASE \E k \in Kinds : Execute(r, k)  BY <1>c, <1>1, <1>2 DEF Execute, Mute
<1>d. CASE Start(r)  BY <1>d, <1>4 DEF Start
<1>e. CASE EnterPause(r)  BY <1>e, <1>4 DEF EnterPause
<1>f. CASE Interrupted(r)  BY <1>f, <1>3 DEF Interrupted, Goto, Ends
<1>g. CASE AfterPause(r)
  BY <1>g, <1>1, <1>2, <1>3 DEF AfterPause, Goto, Ends, Mute
<1>h. CASE AfterDelay(r)
  BY <1>h, <1>1, <1>2, <1>3 DEF AfterDelay, Goto, Ends, Mute
<1>i. CASE Lock(r)  BY <1>i, <1>4, <1>5 DEF Lock
<1>j. CASE LookInMemory(r)  BY <1>j, <1>4 DEF LookInMemory
<1>k. CASE LookOnDisk(r)  BY <1>k, <1>4, <1>5 DEF LookOnDisk
<1>l. CASE OpenStream(r)  BY <1>l, <1>4 DEF OpenStream
<1>m. CASE Copy(r)  BY <1>m, <1>4 DEF Copy
<1>n. CASE Decode(r)  BY <1>n, <1>4, <1>5 DEF Decode
<1>o. CASE FireFail(r)  BY <1>o, <1>3 DEF FireFail, Goto, Ends
<1>p. CASE Keep(r)  BY <1>p, <1>4, <1>5 DEF Keep
<1>q. CASE Deliver(r)
  <2>1. CASE NotActual(r) \/ intr[r]  BY <1>q, <2>1, <1>5 DEF Deliver
  <2>2. CASE ~(NotActual(r) \/ intr[r])  BY <1>q, <2>2, <1>3 DEF Deliver, Goto, Ends
  <2> QED BY <2>1, <2>2
<1>r. CASE StartProcess(r)  BY <1>r, <1>4 DEF StartProcess
<1>s. CASE Process(r)  BY <1>s, <1>3 DEF Process, Goto, Ends
<1> QED BY <1>a, <1>b, <1>c, <1>d, <1>e, <1>f, <1>g, <1>h, <1>i, <1>j, <1>k, <1>l,
          <1>m, <1>n, <1>o, <1>p, <1>q, <1>r, <1>s DEF Submit, Task

\* shutdownNow drops queued tasks: nothing is told to their listeners.
LEMMA ShutdownMutes ==
    ASSUME NEW k, ShutdownNow(k), UNCHANGED <<heard, handler>>
    PROVE  Mute
BY DEF ShutdownNow, Mute

LEMMA UiHeard ==
    ASSUME IInv, HeardInv, Call \/ FinishCall \/ RunPosted \/ Environment
    PROVE  HeardInv'
<1> USE DEF taskVars, viewVars
<1>1. pc \in [Requests -> Stages]  BY DEF IInv, NamesInv, Shape
<1>2. ASSUME Mute PROVE HeardInv'  BY <1>2, MuteHeard
<1>a. CASE \E r \in Requests, v \in Views, k \in Keys, o \in Options : DisplayImage(r, v, k, o)
  <2>1. PICK r \in Requests : Begins(r)  BY <1>a DEF DisplayImage, Goto, Begins
  <2> QED BY <2>1, <1>1, BeginsHeard
<1>b. CASE \/ \E v \in Views : DisplayNothing(v) \/ CancelDisplayTask(v)
           \/ \E deny \in BOOLEAN : DenyNetworkDownloads(deny)
           \/ Pause \/ Resume \/ StopClear \/ Environment
  BY <1>b, <1>2 DEF DisplayNothing, CancelDisplayTask, DenyNetworkDownloads, Pause, Resume,
     StopClear, Environment, CollectLock, EvictDisk, EvictMemory, CollectView, Mute
<1>c. CASE Stop \/ StopCached  BY <1>c, <1>2, ShutdownMutes DEF Stop, StopCached
<1>d. CASE ResumeNotify  BY <1>d, <1>2 DEF ResumeNotify, Mute
<1>e. CASE \E r \in Requests : AnswerFromMemory(r)
  <2>1. PICK r \in Requests : Begins(r)  BY <1>e DEF AnswerFromMemory, Goto, Begins
  <2> QED BY <2>1, <1>1, BeginsHeard
<1>f. CASE \E r \in Requests : AnswerProcessed(r) \/ SubmitTask(r)
  BY <1>f, <1>1, <1>2 DEF AnswerProcessed, SubmitTask, Goto, Mute
<1>g. CASE RunPosted
  <2>1. PICK r \in Requests : RunDisplay(r) \/ RunFailed(r) \/ RunCancelled(r)
    BY <1>g DEF RunPosted
  <2>2. Hears(r)
    BY <2>1 DEF RunDisplay, RunFailed, RunCancelled, Takes, Hears, Terminal
  <2> QED BY <2>2, HearsHeard
<1> QED BY <1>a, <1>b, <1>c, <1>d, <1>e, <1>f, <1>g DEF Call, FinishCall

LEMMA InitHeard == Init => HeardInv
BY EmptySeq DEF Init, HeardInv, Stories

LEMMA NextHeard == IInv /\ HeardInv /\ [Next]_vars => HeardInv'
<1> SUFFICES ASSUME IInv, HeardInv, [Next]_vars PROVE HeardInv'  OBVIOUS
<1>1. CASE UNCHANGED vars
  BY <1>1 DEF HeardInv, vars, taskVars, viewVars
<1> QED BY <1>1, TaskHeard, UiHeard DEF Next

THEOREM HeardInvariance == Spec => []HeardInv
<1>1. Init => HeardInv  BY InitHeard
<1>2. IInv /\ HeardInv /\ [Next]_vars => HeardInv'  BY NextHeard
<1> QED BY <1>1, <1>2, Invariance, PTL DEF Spec

\* ImageLoadingListener's protocol, for any number of requests: started,
\* then at most one of complete, failed and cancelled, whatever stop(),
\* cancellation, recycling and failures do to the tasks; and what is posted
\* to the UI thread never exceeds what is still to be told.
THEOREM ListenersHearOnce == Spec => []ListenerProtocol
<1>1. ASSUME HeardInv PROVE ListenerProtocol
  <2> DEFINE P(r) == {i \in DOMAIN handler : handler[i].req = r}
  <2> SUFFICES ASSUME NEW r \in Requests
               PROVE  /\ Len(heard[r]) + Cardinality(P(r)) <= 2
                      /\ heard[r] # <<>> => heard[r][1] = "started"
                      /\ heard[r] = <<>> <=> pc[r] = "new"
                      /\ Answered(r) => heard[r][2] \in Terminal
    BY DEF ListenerProtocol
  <2>1. heard[r] \in Stories  BY <1>1 DEF HeardInv
  <2>2. Len(heard[r]) \in 0..2 /\ (Len(heard[r]) = 2 => heard[r][2] \in Terminal)
    BY <2>1, StoryShape
  <2>3. heard[r] # <<>> => heard[r][1] = "started"  BY <2>1, StoryShape
  <2>4. heard[r] = <<>> <=> pc[r] = "new"  BY <1>1 DEF HeardInv
  <2>5. Len(heard[r]) + Cardinality(P(r)) <= 2
    <3>1. CASE P(r) = {}
      <4>1. Cardinality(P(r)) = 0  BY <3>1, FS_EmptySet
      <4>2. PICK n \in 0..2 : n = Len(heard[r])  BY <2>2
      <4>3. n + 0 <= 2  OBVIOUS
      <4> HIDE DEF P
      <4> QED BY <4>1, <4>2, <4>3
    <3>2. CASE P(r) # {}
      <4>1. PICK i \in P(r) : TRUE  BY <3>2
      <4>2. P(r) = {i}  BY <4>1, <1>1 DEF HeardInv
      <4>3. Cardinality(P(r)) = 1  BY <4>2, FS_Singleton
      <4>4. heard[r] = <<"started">>  BY <4>1, <1>1 DEF HeardInv
      <4>5. Len(heard[r]) = 1  BY <4>4
      <4> HIDE DEF P
      <4> QED BY <4>3, <4>5
    <3> QED BY <3>1, <3>2
  <2> HIDE DEF P
  <2> QED BY <2>2, <2>3, <2>4, <2>5 DEF Answered
<1> QED BY <1>1, HeardInvariance, PTL

----------------------------------------------------------------------------
(***************************************************************************)
(* No request is lost in silence. A task may end without telling anybody,  *)
(* but then its view waits for another one or has the image.               *)
(***************************************************************************)

\* The image the view is to get has been brought to it by some request.
Served(v) == \E s \in Requests : /\ pc[s] # "new" /\ ViewOf(s) = v
                                 /\ KeyOf(s) = KeyOf(latest[v])
                                 /\ heard[s] = <<"started", "complete">>

Stopping == {"stopCached", "stopClear"}

\* Nothing more will come of r.
Silent(r) == pc[r] = "done" /\ ~Posted(r) /\ ~Answered(r)

\* A request some view waits for is neither interrupted nor dropped, since
\* stop() empties `latest` first; the table still has its key unless the
\* image came; and it ended in silence only if the image came.
Waited(v) == LET r == latest[v] IN
    /\ v \notin collected /\ ui \notin Stopping
    /\ ViewOf(r) = v
    /\ ~intr[r] /\ pc[r] # "dropped"
    /\ viewKey[v] = KeyOf(r) \/ Served(v)
    /\ Silent(r) => Served(v)

WaitInv ==
    /\ intr \in [Requests -> BOOLEAN]
    /\ \A r \in Requests : pc[r] \in Early => ~intr[r]
    /\ \A v \in Views : latest[v] # NULL => Waited(v)

\* What every step does to the requests.
Frame ==
    /\ intr' \in [Requests -> BOOLEAN]
    /\ \A s \in Requests :
        /\ pc'[s] \in Early => pc[s] \in Early /\ ~intr'[s]
        /\ pc[s] # "new" => /\ pc'[s] # "new"
                            /\ req'[s].view = req[s].view /\ req'[s].key = req[s].key
        /\ heard[s] = <<"started", "complete">> => heard'[s] = heard[s]

\* What it does to a view that waits after it, and waited before it.
Keeps(v) == LET r == latest[v] IN
    /\ latest'[v] = r
    /\ v \notin collected' /\ ui' \notin Stopping
    /\ ~intr'[r] /\ pc'[r] # "dropped"
    /\ viewKey'[v] = viewKey[v] \/ Served(v)'
    /\ Silent(r)' => Silent(r) \/ Served(v) \/ Served(v)'

LEMMA ServedStays ==
    ASSUME IInv, Frame, NEW v \in Views, latest[v] # NULL, latest'[v] = latest[v], Served(v)
    PROVE  Served(v)'
<1>1. latest[v] \in Requests /\ pc[latest[v]] # "new"
  BY DEF IInv, NamesInv, Shape, Awaited
<1>2. PICK s \in Requests : /\ pc[s] # "new" /\ ViewOf(s) = v
                            /\ KeyOf(s) = KeyOf(latest[v])
                            /\ heard[s] = <<"started", "complete">>
  BY DEF Served
<1>3. /\ pc'[s] # "new" /\ req'[s].view = v /\ req'[s].key = req'[latest'[v]].key
      /\ heard'[s] = <<"started", "complete">>
  BY <1>1, <1>2 DEF Frame, ViewOf, KeyOf
<1> QED BY <1>3 DEF Served, ViewOf, KeyOf

LEMMA KeepsWaiting ==
    ASSUME IInv, WaitInv, Frame, NEW v \in Views, latest[v] # NULL, Keeps(v)
    PROVE  Waited(v)'
<1> DEFINE r == latest[v]
<1>1. r \in Requests /\ pc[r] # "new" /\ latest'[v] = r
  BY DEF IInv, NamesInv, Shape, Awaited, Keeps
<1>2. Waited(v)  BY DEF WaitInv
<1>3. req'[r].view = req[r].view /\ req'[r].key = req[r].key  BY <1>1 DEF Frame
<1>4. Served(v) => Served(v)'  BY <1>1, ServedStays
<1>5. viewKey'[v] = req'[r].key \/ Served(v)'
  BY <1>2, <1>3, <1>4 DEF Waited, Keeps, KeyOf
<1>6. Silent(r)' => Served(v)'  BY <1>1, <1>2, <1>4 DEF Waited, Keeps
<1> QED BY <1>1, <1>2, <1>3, <1>5, <1>6 DEF Waited, Keeps, ViewOf, KeyOf

LEMMA AllWaits ==
    ASSUME IInv, WaitInv, Frame,
           \A v \in Views : latest'[v] # NULL => latest[v] # NULL /\ Keeps(v)
    PROVE  WaitInv'
<1>1. \A v \in Views : latest'[v] # NULL => Waited(v)'  BY KeepsWaiting
<1> QED BY <1>1 DEF WaitInv, Frame

\* What is posted for r.
LEMMA PostPosts ==
    ASSUME handler \in Seq(Runnables), NEW r \in Requests,
           NEW what \in {"display", "failed", "cancelled"}, Post(r, what)
    PROVE  Posted(r)'
<1> DEFINE e == [what |-> what, req |-> r]
<1>1. e \in Runnables  BY DEF Runnables
<1>2. handler' = Append(handler, e)  BY DEF Post
<1>3. Len(handler') = Len(handler) + 1 /\ handler'[Len(handler) + 1] = e
      /\ handler' \in Seq(Runnables) /\ Len(handler) \in Nat
  BY <1>1, <1>2, AppendProperties, LenProperties
<1>4. Len(handler) + 1 \in DOMAIN handler'  BY <1>3, LenProperties
<1> QED BY <1>3, <1>4 DEF Posted

\* Posting loses nothing.
LEMMA PostKeeps ==
    ASSUME handler \in Seq(Runnables), NEW r \in Requests,
           NEW what \in {"display", "failed", "cancelled"}, Post(r, what),
           NEW s, Posted(s)
    PROVE  Posted(s)'
<1> DEFINE e == [what |-> what, req |-> r]
<1>1. e \in Runnables  BY DEF Runnables
<1>2. handler' = Append(handler, e)  BY DEF Post
<1>3. /\ DOMAIN handler' = 1..Len(handler) + 1 /\ DOMAIN handler = 1..Len(handler)
      /\ \A i \in 1..Len(handler) : handler'[i] = handler[i]
      /\ Len(handler) \in Nat
  BY <1>1, <1>2, AppendProperties, LenProperties
<1> QED BY <1>3 DEF Posted

\* A step of the task r. It ends without a word only if it is interrupted or
\* finds that it is not actual any more.
Works(r) ==
    /\ pc[r] \notin Early
    /\ \E s \in Stages \ (Early \cup {"dropped"}) :
        /\ Goto(r, s)
        /\ s = "done" => Posted(r)' \/ NotActual(r) \/ intr[r]
    /\ intr' \in [Requests -> BOOLEAN]
    /\ \A s \in Requests : intr'[s] => intr[s]
    /\ \/ UNCHANGED handler
       \/ \E what \in {"display", "failed", "cancelled"} : Post(r, what)
    /\ UNCHANGED <<req, viewKey, latest, collected, ui, heard>>

LEMMA WorksWait ==
    ASSUME IInv, HeardInv, WaitInv, NEW r \in Requests, Works(r)
    PROVE  WaitInv'
<1>1. pc \in [Requests -> Stages] /\ latest \in [Views -> Requests \cup {NULL}]
  BY DEF IInv, NamesInv, Shape
<1>2. PICK x \in Stages \ (Early \cup {"dropped"}) :
          Goto(r, x) /\ (x = "done" => Posted(r)' \/ NotActual(r) \/ intr[r])
  BY DEF Works
<1>3. \A s \in Requests : pc'[s] = IF s = r THEN x ELSE pc[s]  BY <1>1, <1>2 DEF Goto
<1>4. Frame  BY <1>2, <1>3 DEF Frame, Works, WaitInv, Early
<1>5. ASSUME NEW s, Posted(s) PROVE Posted(s)'
  <2>1. CASE UNCHANGED handler  BY <1>5, <2>1 DEF Posted
  <2>2. CASE \E what \in {"display", "failed", "cancelled"} : Post(r, what)
    BY <1>5, <2>2, PostKeeps DEF HeardInv
  <2> QED BY <2>1, <2>2 DEF Works
<1>6. ASSUME NEW v \in Views, latest'[v] # NULL
      PROVE  latest[v] # NULL /\ Keeps(v)
  <2> DEFINE q == latest[v]
  <2>1. latest'[v] = q /\ q # NULL /\ q \in Requests /\ Waited(v)
    BY <1>1, <1>6 DEF Works, WaitInv
  <2>2. ~intr'[q] /\ pc'[q] # "dropped"  BY <1>2, <1>3, <2>1 DEF Waited, Works
  <2>3. Silent(q)' => Silent(q) \/ Served(v)
    <3>1. CASE q # r
      BY <1>3, <1>5, <2>1, <3>1 DEF Silent, Answered, Works
    <3>2. CASE q = r
      <4>1. CASE x = "done" /\ ~Posted(r)'
        <5>1. NotActual(r) /\ ViewOf(r) = v /\ v \notin collected
          BY <1>2, <2>1, <3>2, <4>1 DEF Waited
        <5>2. viewKey[v] # KeyOf(r)  BY <5>1 DEF NotActual, Collected, Reused
        <5> QED BY <2>1, <3>2, <5>2 DEF Waited
      <4>2. CASE x # "done" \/ Posted(r)'
        <5>1. latest'[v] = r /\ pc'[r] = x  BY <1>3, <2>1, <3>2
        <5>2. ~Silent(q)'  BY <4>2, <5>1 DEF Silent
        <5> QED BY <5>2
      <4> QED BY <4>1, <4>2
    <3> QED BY <3>1, <3>2
  <2> QED BY <2>1, <2>2, <2>3 DEF Keeps, Waited, Works
<1> QED BY <1>4, <1>6, AllWaits

\* What a task leaves to the UI thread.
Rest == UNCHANGED <<req, viewKey, latest, collected, ui, heard>>

\* Nothing moves that the waiting is about.
LEMMA IdleWaits ==
    ASSUME WaitInv, UNCHANGED <<pc, req, intr, heard, handler, viewKey, latest, collected>>,
           ui' = ui \/ ui' \notin Stopping
    PROVE  WaitInv'
BY DEF WaitInv, Waited, Served, Silent, Posted, Answered, ViewOf, KeyOf

LEMMA TaskWaits ==
    ASSUME IInv, HeardInv, WaitInv, NEW r \in Requests, Submit(r) \/ Task(r)
    PROVE  WaitInv'
<1>1. /\ pc \in [Requests -> Stages] /\ intr \in [Requests -> BOOLEAN]
      /\ handler \in Seq(Runnables)
  BY DEF IInv, NamesInv, Shape, HeardInv, WaitInv
<1>2. ASSUME Works(r) PROVE WaitInv'  BY <1>2, WorksWait
<1>3. ASSUME pc[r] \notin Early, Rest, UNCHANGED <<intr, handler>>,
             NEW s, s \in Stages \ (Early \cup {"dropped", "done"}), Goto(r, s)
      PROVE  WaitInv'
  BY <1>1, <1>2, <1>3 DEF Works, Rest
<1>4. ASSUME ClearInterrupt(r)
      PROVE  intr' \in [Requests -> BOOLEAN] /\ \A s \in Requests : intr'[s] => intr[s]
  BY <1>1, <1>4 DEF ClearInterrupt
<1>5. ASSUME pc[r] \notin Early, Rest, Goto(r, "done"), UNCHANGED handler,
             ClearInterrupt(r) \/ UNCHANGED intr, NotActual(r) \/ intr[r]
      PROVE  WaitInv'
  <2>1. "done" \in Stages \ (Early \cup {"dropped"})  BY DEF Stages, Early
  <2>2. Works(r)  BY <1>1, <1>4, <1>5, <2>1 DEF Works, Rest
  <2> QED BY <2>2, <1>2
<1>6. ASSUME pc[r] \notin Early, Rest, Goto(r, "done"),
             ClearInterrupt(r) \/ UNCHANGED intr,
             NEW what \in {"display", "failed", "cancelled"}, Post(r, what)
      PROVE  WaitInv'
  <2>1. "done" \in Stages \ (Early \cup {"dropped"})  BY DEF Stages, Early
  <2>2. Posted(r)'  BY <1>1, <1>6, PostPosts
  <2>3. Works(r)  BY <1>1, <1>4, <1>6, <2>1, <2>2 DEF Works, Rest
  <2> QED BY <2>3, <1>2
<1>7. ASSUME pc[r] \notin Early, Rest, NEW i, Cancel(r, i), i => NotActual(r) \/ intr[r]
      PROVE  WaitInv'
  BY <1>5, <1>6, <1>7 DEF Cancel
<1> USE DEF viewVars, Rest, Early, Stages, Running
<1>a. CASE Distribute(r)  BY <1>a, <1>3 DEF Distribute, Goto, engineVars
<1>b. CASE \E k \in Kinds : RenewExecutor(r, k)  BY <1>b, IdleWaits DEF RenewExecutor
<1>c. CASE \E k \in Kinds : Execute(r, k)  BY <1>c, <1>3 DEF Execute, Goto, engineVars
<1>d. CASE Start(r)  BY <1>d, <1>3 DEF Start, engineVars
<1>e. CASE EnterPause(r)  BY <1>e, <1>3 DEF EnterPause, engineVars
<1>f. CASE Interrupted(r)  BY <1>f, <1>5 DEF Interrupted, engineVars
<1>g. CASE AfterPause(r)  BY <1>g, <1>3, <1>5 DEF AfterPause, engineVars
<1>h. CASE AfterDelay(r)  BY <1>h, <1>3, <1>5 DEF AfterDelay, engineVars
<1>i. CASE Lock(r)  BY <1>i, <1>3, <1>7 DEF Lock, engineVars
<1>j. CASE LookInMemory(r)  BY <1>j, <1>3 DEF LookInMemory, engineVars
<1>k. CASE LookOnDisk(r)  BY <1>k, <1>3, <1>7 DEF LookOnDisk, engineVars
<1>l. CASE OpenStream(r)  BY <1>l, <1>3 DEF OpenStream, engineVars
<1>m. CASE Copy(r)
  <2>1. intr' \in [Requests -> BOOLEAN] /\ \A s \in Requests : intr'[s] => intr[s]
    BY <1>1, <1>m DEF Copy
  <2>2. \E s \in {"decodeFile", "decodeNet", "failing"} : Goto(r, s)
    BY <1>m DEF Copy
  <2>3. Works(r)  BY <1>m, <2>1, <2>2 DEF Works, Copy, engineVars
  <2> QED BY <2>3, <1>2
<1>n. CASE Decode(r)  BY <1>n, <1>3, <1>7 DEF Decode, engineVars
<1>o. CASE FireFail(r)  BY <1>o, <1>5, <1>6 DEF FireFail, engineVars
<1>p. CASE Keep(r)  BY <1>p, <1>3, <1>7 DEF Keep, engineVars
<1>q. CASE Deliver(r)  BY <1>q, <1>6, <1>7 DEF Deliver, engineVars
<1>r. CASE StartProcess(r)  BY <1>r, <1>3 DEF StartProcess, engineVars
<1>s. CASE Process(r)  BY <1>s, <1>6 DEF Process, engineVars
<1> QED BY <1>a, <1>b, <1>c, <1>d, <1>e, <1>f, <1>g, <1>h, <1>i, <1>j, <1>k, <1>l,
          <1>m, <1>n, <1>o, <1>p, <1>q, <1>r, <1>s DEF Submit, Task

\* A view waits for nothing any more, or is gone.
LEMMA ForgetsWaits ==
    ASSUME IInv, WaitInv, NEW w \in Views,
           UNCHANGED <<pc, req, intr, heard, handler, ui>>,
           latest' = [latest EXCEPT ![w] = NULL],
           collected' \subseteq collected \cup {w},
           \A v \in Views \ {w} : viewKey'[v] = viewKey[v]
    PROVE  WaitInv'
<1>1. latest \in [Views -> Requests \cup {NULL}]  BY DEF IInv, NamesInv, Shape
<1>2. Frame  BY DEF Frame, WaitInv
<1>3. ASSUME NEW v \in Views, latest'[v] # NULL
      PROVE  latest[v] # NULL /\ Keeps(v)
  <2>1. v # w /\ latest'[v] = latest[v] /\ latest[v] # NULL  BY <1>1, <1>3
  <2>2. Waited(v)  BY <2>1 DEF WaitInv
  <2>3. Silent(latest[v])' => Silent(latest[v])  BY <2>1 DEF Silent, Posted, Answered
  <2> QED BY <2>1, <2>2, <2>3 DEF Keeps, Waited
<1> QED BY <1>2, <1>3, AllWaits

\* An ImageLoader call, or the distribution of a request, that leaves the
\* tables of views alone; no request is dropped, none ends.
LEMMA CallWaits ==
    ASSUME IInv, WaitInv,
           UNCHANGED <<viewKey, latest, collected, heard, handler, intr>>,
           ui' \notin Stopping,
           \A s \in Requests : pc[s] # "new" => /\ req'[s].view = req[s].view
                                                /\ req'[s].key = req[s].key,
           \A s \in Requests : pc'[s] = pc[s] \/ (pc[s] # "new" /\
                                   pc'[s] \notin Early \cup {"done", "dropped"})
    PROVE  WaitInv'
<1>1. latest \in [Views -> Requests \cup {NULL}]  BY DEF IInv, NamesInv, Shape
<1>2. Frame  BY DEF Frame, WaitInv, Early
<1>3. ASSUME NEW v \in Views, latest'[v] # NULL
      PROVE  latest[v] # NULL /\ Keeps(v)
  <2>1. latest'[v] = latest[v] /\ latest[v] \in Requests  BY <1>1, <1>3
  <2>2. Waited(v)  BY <1>3, <2>1 DEF WaitInv
  <2>3. Silent(latest[v])' => Silent(latest[v])  BY <2>1 DEF Silent, Posted, Answered
  <2> QED BY <1>3, <2>1, <2>2, <2>3 DEF Keeps, Waited
<1> QED BY <1>2, <1>3, AllWaits

\* stop(): no view waits for anything from its first step to its last.
LEMMA StopWaits ==
    ASSUME IInv, WaitInv, Stop \/ StopCached \/ StopClear
    PROVE  WaitInv'
<1>1. \A v \in Views : latest'[v] = NULL
  <2>1. CASE Stop  BY <2>1 DEF Stop
  <2>2. CASE StopCached \/ StopClear
    <3>1. UNCHANGED latest /\ ui \in Stopping
      BY <2>2 DEF StopCached, StopClear, viewVars, Stopping
    <3> QED BY <3>1 DEF WaitInv, Waited
  <2> QED BY <2>1, <2>2
<1>2. intr' \in [Requests -> BOOLEAN] /\ \A r \in Requests : pc'[r] \in Early => ~intr'[r]
  <2>1. CASE \E k \in Kinds : ShutdownNow(k)
    BY <2>1 DEF ShutdownNow, WaitInv, Early, Running
  <2>2. CASE StopClear  BY <2>2 DEF StopClear, taskVars, WaitInv
  <2> QED BY <2>1, <2>2 DEF Stop, StopCached, Kinds
<1> QED BY <1>1, <1>2 DEF WaitInv

\* displayImage: its view waits for the new request.
LEMMA DisplayWaits ==
    ASSUME IInv, HeardInv, WaitInv, NEW r \in Requests, NEW v \in Views, NEW k \in Keys,
           NEW o \in Options, DisplayImage(r, v, k, o)
    PROVE  WaitInv'
<1> USE DEF DisplayImage, Goto
<1>1. /\ latest \in [Views -> Requests \cup {NULL}] /\ pc \in [Requests -> Stages]
      /\ viewKey \in [Views -> Keys \cup {NULL}] /\ req \in [Requests -> Infos \cup {NULL}]
      /\ heard \in [Requests -> Stories]
  BY DEF IInv, NamesInv, Shape, HeardInv
<1>2. heard[r] = <<>>  BY DEF HeardInv
<1>3. \A s \in Requests \ {r} : heard'[s] = heard[s] /\ pc'[s] = pc[s] /\ req'[s] = req[s]
  BY <1>1 DEF Tell
<1>4. pc'[r] = "preparing" /\ req'[r].view = v /\ req'[r].key = k  BY <1>1
<1>5. Frame
  <2>1. heard[r] # <<"started", "complete">>  BY <1>2
  <2> QED BY <1>3, <1>4, <2>1 DEF Frame, WaitInv, Early
<1>6. ASSUME NEW w \in Views, latest'[w] # NULL
      PROVE  Waited(w)'
  <2>1. CASE w = v
    <3>1. latest'[w] = r /\ viewKey'[w] = k  BY <2>1, <1>1
    <3>2. ~intr'[r]  BY DEF WaitInv, Early
    <3>3. w \notin collected' /\ ui' = "display"  BY <2>1
    <3>4. ~Silent(latest[w])'  BY <3>1, <1>4 DEF Silent
    <3> QED BY <2>1, <3>1, <3>2, <3>3, <3>4, <1>4 DEF Waited, ViewOf, KeyOf, Stopping
  <2>2. CASE w # v
    <3>1. latest'[w] = latest[w] /\ latest[w] \in Requests  BY <1>1, <1>6, <2>2
    <3>2. latest[w] # r /\ latest[w] # NULL  BY <3>1, <1>6 DEF IInv, NamesInv, Awaited
    <3>3. Waited(w)  BY <3>2 DEF WaitInv
    <3>4. Silent(latest[w])' => Silent(latest[w])
      BY <3>1, <3>2, <1>3 DEF Silent, Posted, Answered
    <3>5. Keeps(w)  BY <3>1, <3>2, <3>3, <3>4, <1>1, <1>3, <2>2 DEF Keeps, Waited, Stopping
    <3> QED BY <3>2, <3>5, <1>5, KeepsWaiting
  <2> QED BY <2>1, <2>2
<1> QED BY <1>5, <1>6 DEF WaitInv, Frame

\* A listener is told the end of r. Whoever waits for r has been answered;
\* if the image came, whoever waits for an equal one has been served.
LEMMA EndWaits ==
    ASSUME IInv, HeardInv, WaitInv, NEW r \in Requests,
           heard[r] = <<"started">>, pc[r] # "new",
           NEW e, Tell(r, e),
           UNCHANGED <<req, latest, collected, intr>>, ui' \notin Stopping,
           \A s \in Requests : pc'[s] = pc[s] \/ (s = r /\ pc'[s] = "done"),
           \A s \in Requests \ {r} : Posted(s) => Posted(s)',
           \A v \in Views : latest[v] # NULL => viewKey'[v] = viewKey[v] \/ Served(v)'
    PROVE  WaitInv'
<1>1. latest \in [Views -> Requests \cup {NULL}] /\ heard \in [Requests -> Stories]
  BY DEF IInv, NamesInv, Shape, HeardInv
<1>2. heard'[r] = <<"started", e>> /\ \A s \in Requests \ {r} : heard'[s] = heard[s]
  BY <1>1, TellsEnd
<1>3. Frame
  <2>1. heard[r] # <<"started", "complete">>  OBVIOUS
  <2> QED BY <1>2, <2>1 DEF Frame, WaitInv, Early
<1>4. ASSUME NEW v \in Views, latest'[v] # NULL
      PROVE  latest[v] # NULL /\ Keeps(v)
  <2>1. latest'[v] = latest[v] /\ latest[v] \in Requests  BY <1>1, <1>4
  <2>2. Waited(v)  BY <1>4, <2>1 DEF WaitInv
  <2>3. Silent(latest[v])' => Silent(latest[v])
    <3>1. CASE latest[v] = r
      <4>1. Len(heard'[r]) = 2  BY <1>2
      <4>2. Answered(latest[v])'  BY <2>1, <3>1, <4>1 DEF Answered
      <4> QED BY <4>2 DEF Silent
    <3>2. CASE latest[v] # r  BY <1>2, <2>1, <3>2 DEF Silent, Answered
    <3> QED BY <3>1, <3>2
  <2>4. pc'[latest[v]] # "dropped"  BY <2>1, <2>2 DEF Waited
  <2> QED BY <1>4, <2>1, <2>2, <2>3, <2>4 DEF Keeps, Waited
<1> QED BY <1>3, <1>4, AllWaits

LEMMA UiWaits ==
    ASSUME IInv, HeardInv, WaitInv, Call \/ FinishCall \/ Environment
    PROVE  WaitInv'
<1> USE DEF engineVars, taskVars, viewVars, Stopping
<1>1. pc \in [Requests -> Stages] /\ req \in [Requests -> Infos \cup {NULL}]
  BY DEF IInv, NamesInv, Shape
<1>a. CASE \E r \in Requests, v \in Views, k \in Keys, o \in Options : DisplayImage(r, v, k, o)
  BY <1>a, DisplayWaits
<1>b. CASE \E v \in Views : DisplayNothing(v) \/ CancelDisplayTask(v) \/ CollectView(v)
  <2>1. PICK v \in Views : DisplayNothing(v) \/ CancelDisplayTask(v) \/ CollectView(v)
    BY <1>b
  <2>2. \A w \in Views \ {v} : viewKey'[w] = viewKey[w]
    BY <2>1 DEF DisplayNothing, CancelDisplayTask, CollectView, IInv, NamesInv, Shape
  <2> QED BY <2>1, <2>2, ForgetsWaits DEF DisplayNothing, CancelDisplayTask, CollectView
<1>c. CASE \/ \E deny \in BOOLEAN : DenyNetworkDownloads(deny)
           \/ Pause \/ Resume
           \/ \E u \in Uris : CollectLock(u) \/ EvictDisk(u)
           \/ \E k \in Keys : EvictMemory(k)
  BY <1>c, IdleWaits DEF DenyNetworkDownloads, Pause, Resume, CollectLock, EvictDisk, EvictMemory
<1>d. CASE Stop \/ StopCached \/ StopClear  BY <1>d, StopWaits
<1>e. CASE \E r \in Requests : AnswerFromMemory(r)
  <2>1. PICK r \in Requests : AnswerFromMemory(r)  BY <1>e
  <2> USE DEF AnswerFromMemory, Goto
  <2>2. heard[r] = <<"started">>  BY <2>1 DEF HeardInv
  <2>3. \A s \in Requests : pc'[s] = pc[s] \/ (s = r /\ pc'[s] = "done")  BY <1>1, <2>1
  <2>4. \A s \in Requests : Posted(s) => Posted(s)'  BY <2>1 DEF Posted
  <2> QED BY <2>1, <2>2, <2>3, <2>4, EndWaits
<1>f. CASE \E r \in Requests : AnswerProcessed(r) \/ SubmitTask(r)
  <2>1. PICK r \in Requests : AnswerProcessed(r) \/ SubmitTask(r)  BY <1>f
  <2>2. pc[r] = "preparing" /\ TakeLock(r) /\ ui' = "idle"
        /\ \E s \in {"queuedProcess", "distributed"} : Goto(r, s)
        /\ UNCHANGED <<viewKey, latest, collected, heard, handler, intr>>
    BY <2>1 DEF AnswerProcessed, SubmitTask
  <2>3. \A s \in Requests : pc'[s] = pc[s] \/ (pc[s] # "new" /\
                                pc'[s] \notin Early \cup {"done", "dropped"})
    BY <1>1, <2>2 DEF Goto, Early
  <2>4. \A s \in Requests : pc[s] # "new" => /\ req'[s].view = req[s].view
                                             /\ req'[s].key = req[s].key
    <3>1. req[r] \in Infos  BY <2>2 DEF IInv, NamesInv, Known
    <3>2. req'[r] = [req[r] EXCEPT !.lock = LockFor(Uri(r), r)]  BY <1>1, <2>2 DEF TakeLock
    <3>3. req'[r].view = req[r].view /\ req'[r].key = req[r].key  BY <3>1, <3>2 DEF Infos
    <3>4. \A s \in Requests \ {r} : req'[s] = req[s]  BY <1>1, <2>2 DEF TakeLock
    <3> QED BY <3>3, <3>4
  <2> QED BY <2>2, <2>3, <2>4, CallWaits
<1>g. CASE ResumeNotify
  <2>1. \A s \in Requests : pc'[s] = pc[s] \/ (pc[s] # "new" /\
                                pc'[s] \notin Early \cup {"done", "dropped"})
    BY <1>g DEF ResumeNotify, Early
  <2> QED BY <1>g, <2>1, CallWaits DEF ResumeNotify
<1> QED BY <1>a, <1>b, <1>c, <1>d, <1>e, <1>f, <1>g DEF Call, FinishCall, Environment

\* The UI thread runs what was posted for r.
LEMMA PostedWaits ==
    ASSUME IInv, HeardInv, WaitInv, RunPosted
    PROVE  WaitInv'
<1> USE DEF taskVars, viewVars
<1>1. PICK r \in Requests : RunDisplay(r) \/ RunFailed(r) \/ RunCancelled(r)
  BY DEF RunPosted
<1>2. /\ handler # <<>> /\ Head(handler).req = r /\ handler' = Tail(handler) /\ ui = "idle"
      /\ UNCHANGED <<pc, req, latest, collected, intr, ui>>
  BY <1>1 DEF RunDisplay, RunFailed, RunCancelled, Takes
<1>3. PICK e : Tell(r, e) /\ (viewKey' # viewKey => e = "complete" /\ ~NotActual(r)
                                /\ viewKey' = [viewKey EXCEPT ![ViewOf(r)] = NULL])
  BY <1>1 DEF RunDisplay, RunFailed, RunCancelled, engineVars
<1>4. /\ handler \in Seq(Runnables) /\ Len(handler) \in Nat \ {0}
      /\ DOMAIN handler = 1..Len(handler) /\ handler[1].req = r
      /\ DOMAIN handler' = 1..Len(handler) - 1
      /\ \A i \in DOMAIN handler' : handler'[i] = handler[i + 1]
  BY <1>2, HeadTailProperties, LenProperties, EmptySeq DEF HeardInv
<1>5. heard[r] = <<"started">> /\ pc[r] = "done"  BY <1>4 DEF HeardInv
<1>6. ASSUME NEW s \in Requests \ {r}, Posted(s) PROVE Posted(s)'
  <2>1. PICK i \in DOMAIN handler : handler[i].req = s  BY <1>6 DEF Posted
  <2>2. i \in 1..Len(handler) /\ i # 1  BY <1>4, <2>1
  <2>3. i - 1 \in DOMAIN handler' /\ handler'[i - 1] = handler[i]
    <3>1. i - 1 \in DOMAIN handler' /\ (i - 1) + 1 = i  BY <1>4, <2>2
    <3> QED BY <3>1, <1>4
  <2> QED BY <2>1, <2>3 DEF Posted
<1>7. ASSUME NEW v \in Views, latest[v] # NULL
      PROVE  viewKey'[v] = viewKey[v] \/ Served(v)'
  <2>1. CASE viewKey' = viewKey  BY <2>1
  <2>2. CASE viewKey' # viewKey
    <3>1. viewKey \in [Views -> Keys \cup {NULL}] /\ heard \in [Requests -> Stories]
      BY DEF IInv, NamesInv, Shape, HeardInv
    <3>2. CASE v # ViewOf(r)  BY <1>3, <2>2, <3>1, <3>2
    <3>3. CASE v = ViewOf(r)
      <4>1. req[r] \in Infos  BY <1>5 DEF IInv, NamesInv, Known
      <4>2. v \notin collected /\ viewKey[v] = KeyOf(r)
        BY <1>3, <2>2, <3>3 DEF NotActual, Collected, Reused
      <4>3. KeyOf(r) # NULL  BY <4>1, NullAssumption DEF Infos, KeyOf
      <4>4. KeyOf(latest[v]) = KeyOf(r)
        BY <1>2, <4>2, <4>3 DEF IInv, NamesInv, TableNamesLatest
      <4>5. heard'[r] = <<"started", "complete">>
        BY <1>3, <1>5, <2>2, <3>1, TellsEnd
      <4> QED BY <1>2, <1>5, <3>3, <4>4, <4>5 DEF Served, ViewOf, KeyOf
    <3> QED BY <3>2, <3>3
  <2> QED BY <2>1, <2>2
<1> QED BY <1>2, <1>3, <1>5, <1>6, <1>7, EndWaits DEF Stopping

LEMMA InitWaits == Init => WaitInv
BY DEF Init, WaitInv

LEMMA NextWaits == IInv /\ HeardInv /\ WaitInv /\ [Next]_vars => WaitInv'
<1> SUFFICES ASSUME IInv, HeardInv, WaitInv, [Next]_vars PROVE WaitInv'  OBVIOUS
<1>1. CASE UNCHANGED vars
  BY <1>1, IdleWaits DEF vars, engineVars, taskVars, viewVars
<1> QED BY <1>1, TaskWaits, UiWaits, PostedWaits DEF Next

\* The request a view waits for is never lost in silence, for any number of
\* requests, views and calls: waitIfPaused, an interrupt and fireFailEvent
\* end a task without a word only when its view was collected or reused, and
\* a view that waits for the request is reused only by an equal one whose
\* image has come.
THEOREM NothingLostSilently == Spec => []NoSilentLoss
<1>1. ASSUME IInv, HeardInv, WaitInv PROVE NoSilentLoss
  <2> SUFFICES ASSUME NEW v \in Views, latest[v] # NULL, Over(latest[v]),
                      pc[latest[v]] # "rejected", ~Answered(latest[v])
               PROVE  Served(v)
    BY DEF NoSilentLoss, Served
  <2>1. Waited(v)  BY <1>1 DEF WaitInv
  <2>2. Silent(latest[v])  BY <2>1 DEF Waited, Over, Silent
  <2> QED BY <2>1, <2>2 DEF Waited
<1>2. IInv /\ HeardInv /\ WaitInv /\ [Next]_vars => WaitInv'  BY NextWaits
<1>3. Init => WaitInv  BY InitWaits
<1> QED BY <1>1, <1>2, <1>3, Invariance, HeardInvariance, PTL DEF Spec

----------------------------------------------------------------------------
(***************************************************************************)
(* The types of the rest of the state.                                     *)
(***************************************************************************)

\* The switches, the executors and the threads of the tasks.
EngineTypes ==
    /\ paused \in BOOLEAN /\ denied \in BOOLEAN
    /\ pools \in Nat /\ executor \in [Kinds -> 1..pools] /\ shut \subseteq 1..pools
    /\ pool  \in [Requests -> 0..pools]
    /\ renew \in [Requests -> SUBSET Kinds]
    /\ intr  \in [Requests -> BOOLEAN]

\* The caches, the views and the UI thread.
UiTypes ==
    /\ memory \subseteq Keys /\ disk \subseteq Uris
    /\ ui \in {"idle", "display", "resume", "stopCached", "stopClear"}
    /\ shown \in [Views -> Keys \cup {BLANK, ONFAIL}]
    /\ collected \subseteq Views
    /\ stops \in 0..MaxStops /\ pauses \in 0..MaxPauses

TypesInv == EngineTypes /\ UiTypes

\* Executors are renewed under new numbers, and a request keeps a pool.
LEMMA PoolsGrow ==
    ASSUME EngineTypes, NEW n \in Nat, pools' = pools + n,
           executor' \in [Kinds -> 1..pools'],
           pool' \in [Requests -> 0..pools'],
           renew' \in [Requests -> SUBSET Kinds],
           UNCHANGED <<paused, denied, shut, intr>>
    PROVE  EngineTypes'
<1>1. pools' \in Nat /\ shut' \subseteq 1..pools'  BY DEF EngineTypes
<1> QED BY <1>1 DEF EngineTypes

\* A running thread's interrupt flag may be cleared, nothing else.
LEMMA ClearsTypes ==
    ASSUME EngineTypes, intr' \in [Requests -> BOOLEAN],
           UNCHANGED <<paused, denied, executor, pools, shut, pool, renew>>
    PROVE  EngineTypes'
BY DEF EngineTypes

LEMMA ClearedTypes ==
    ASSUME EngineTypes, NEW r \in Requests
    PROVE  /\ ClearInterrupt(r) => intr' \in [Requests -> BOOLEAN]
           /\ \A i \in {intr[r], FALSE} :
                  intr' = [intr EXCEPT ![r] = i] => intr' \in [Requests -> BOOLEAN]
BY DEF EngineTypes, ClearInterrupt

LEMMA TaskEngineTypes ==
    ASSUME IInv, EngineTypes, NEW r \in Requests, Submit(r) \/ Task(r)
    PROVE  EngineTypes'
<1> USE DEF engineVars, cacheVars, viewVars, taskVars
<1>a. CASE Distribute(r)  BY <1>a DEF Distribute, EngineTypes
<1>b. CASE \E k \in Kinds : RenewExecutor(r, k)
  <2>0. PICK k \in Kinds : RenewExecutor(r, k)  BY <1>b
  <2>1. /\ pools' = pools + 1 /\ executor' = [executor EXCEPT ![k] = pools + 1]
        /\ renew' = [renew EXCEPT ![r] = renew[r] \ {k}]
        /\ UNCHANGED <<paused, denied, shut, intr, pool>>
    BY <2>0 DEF RenewExecutor
  <2>2. executor' \in [Kinds -> 1..pools']  BY <2>1 DEF EngineTypes
  <2>3. pool' \in [Requests -> 0..pools']  BY <2>1 DEF EngineTypes
  <2>4. renew' \in [Requests -> SUBSET Kinds]  BY <2>1 DEF EngineTypes
  <2> QED BY <2>1, <2>2, <2>3, <2>4, PoolsGrow
<1>c. CASE \E k \in Kinds : Execute(r, k)
  <2>0. PICK k \in Kinds : Execute(r, k)  BY <1>c
  <2>1. /\ pool' = [pool EXCEPT ![r] = executor[k]]
        /\ UNCHANGED <<paused, denied, shut, intr, pools, executor, renew>>
    BY <2>0 DEF Execute
  <2>2. pool' \in [Requests -> 0..pools]  BY <2>1 DEF EngineTypes
  <2> QED BY <2>1, <2>2 DEF EngineTypes
<1>d. CASE Task(r)
  <2>1. /\ UNCHANGED <<paused, denied, executor, pools, shut, pool, renew>>
        /\ intr' = intr \/ ClearInterrupt(r)
           \/ \E i \in {intr[r], FALSE} : intr' = [intr EXCEPT ![r] = i]
    BY <1>d DEF Task, Start, EnterPause, Interrupted, AfterPause, AfterDelay, Lock,
                LookInMemory, LookOnDisk, OpenStream, Copy, Decode, FireFail, Keep,
                Deliver, StartProcess, Process, Cancel
  <2>2. intr' \in [Requests -> BOOLEAN]
    BY <2>1, ClearedTypes DEF EngineTypes
  <2> QED BY <2>1, <2>2, ClearsTypes
<1> QED BY <1>a, <1>b, <1>c, <1>d DEF Submit

LEMMA TaskUiTypes ==
    ASSUME IInv, UiTypes, NEW r \in Requests, Submit(r) \/ Task(r)
    PROVE  UiTypes'
<1> USE DEF engineVars, cacheVars, viewVars, taskVars, countVars
<1>1. CASE Submit(r)
  BY <1>1 DEF Submit, Distribute, RenewExecutor, Execute, UiTypes
<1>2. CASE Task(r)
  <2>1. pc[r] \in {"copying", "loaded"} => KeyOf(r) \in Keys /\ Uri(r) \in Uris
    BY DEF IInv, NamesInv, Known, Infos, KeyOf, Uri, Uris
  <2>2. /\ UNCHANGED <<ui, shown, collected, stops, pauses>>
        /\ memory' = memory \/ (pc[r] = "loaded" /\ memory' = memory \cup {KeyOf(r)})
        /\ disk' = disk \/ (pc[r] = "copying" /\ disk' = disk \cup {Uri(r)})
    BY <1>2 DEF Task, Start, EnterPause, Interrupted, AfterPause, AfterDelay, Lock,
                LookInMemory, LookOnDisk, OpenStream, Copy, Decode, FireFail, Keep,
                Deliver, StartProcess, Process
  <2> QED BY <2>1, <2>2 DEF UiTypes
<1> QED BY <1>1, <1>2

\* stop() interrupts the running tasks of an executor it shuts down.
LEMMA ShutdownTypes ==
    ASSUME EngineTypes, NEW k \in Kinds, ShutdownNow(k),
           UNCHANGED <<paused, denied, executor, pools, pool, renew>>
    PROVE  EngineTypes'
<1>1. executor[k] \in 1..pools  BY DEF EngineTypes
<1>2. shut' \subseteq 1..pools  BY <1>1 DEF EngineTypes, ShutdownNow
<1>3. intr' \in [Requests -> BOOLEAN]
  BY Zenon DEF EngineTypes, ShutdownNow
<1> QED BY <1>2, <1>3 DEF EngineTypes

\* The UI thread renews the executors it finds shut down.
LEMMA AnswerTypes ==
    ASSUME EngineTypes, NEW r \in Requests, AnswerProcessed(r)
    PROVE  EngineTypes'
<1> DEFINE down == {k \in Kinds : executor[k] \in shut}
           fresh(k) == IF k = "net" THEN pools + 1 ELSE pools + Cardinality(down)
           new == [k \in Kinds |-> IF k \in down THEN fresh(k) ELSE executor[k]]
<1>1. /\ executor' = new /\ pools' = pools + Cardinality(down)
      /\ pool' = [pool EXCEPT ![r] = new["cached"]]
      /\ UNCHANGED <<paused, denied, shut, renew, intr>>
  BY DEF AnswerProcessed
<1>2. IsFiniteSet(down) /\ Cardinality(down) \in Nat
  <2>1. IsFiniteSet(Kinds)
    <3>1. IsFiniteSet({"net"})  BY FS_Singleton
    <3>2. Kinds = {"net"} \cup {"cached"}  BY DEF Kinds
    <3> QED BY <3>1, <3>2, FS_AddElement
  <2> QED BY <2>1, FS_Subset, FS_CardinalityType
<1>3. ASSUME NEW k \in down PROVE Cardinality(down) >= 1
  BY <1>2, <1>3, FS_EmptySet
<1>4. pools \in Nat /\ executor \in [Kinds -> 1..pools]  BY DEF EngineTypes
<1>5. ASSUME NEW k \in Kinds
      PROVE  (IF k \in down THEN fresh(k) ELSE executor[k]) \in 1..(pools + Cardinality(down))
  BY <1>2, <1>3, <1>4
<1>6. new \in [Kinds -> 1..pools']  BY <1>1, <1>5
<1>7. pool' \in [Requests -> 0..pools']
  <2>0. 0..pools \subseteq 0..pools'
    <3> HIDE DEF down
    <3> QED BY <1>1, <1>2, <1>4
  <2>1. pool \in [Requests -> 0..pools']
    <3>1. pool \in [Requests -> 0..pools]  BY DEF EngineTypes
    <3> HIDE DEF new, down
    <3> QED BY <3>1, <2>0
  <2> HIDE DEF new
  <2>2. new["cached"] \in 0..pools'  BY <1>6 DEF Kinds
  <2> QED BY <1>1, <2>1, <2>2
<1>8. renew' \in [Requests -> SUBSET Kinds]  BY <1>1 DEF EngineTypes
<1> HIDE DEF down, new
<1> QED BY <1>1, <1>2, <1>6, <1>7, <1>8, PoolsGrow

LEMMA CallEngineTypes ==
    ASSUME EngineTypes, Call \/ FinishCall \/ RunPosted \/ Environment
    PROVE  EngineTypes'
<1> USE DEF engineVars, cacheVars, viewVars, taskVars, countVars
<1>1. CASE Stop
  BY <1>1, ShutdownTypes DEF Stop, Kinds
<1>2. CASE StopCached
  BY <1>2, ShutdownTypes DEF StopCached, Kinds
<1>3. CASE \E r \in Requests : AnswerProcessed(r)  BY <1>3, AnswerTypes
<1>4. CASE (\E deny \in BOOLEAN : DenyNetworkDownloads(deny)) \/ Pause \/ Resume
  BY <1>4 DEF DenyNetworkDownloads, Pause, Resume, EngineTypes
<1>5. ASSUME UNCHANGED <<paused, denied, executor, pools, shut, pool, renew, intr>>
      PROVE  EngineTypes'
  BY <1>5 DEF EngineTypes
<1>6. CASE \E r \in Requests, v \in Views, k \in Keys, o \in Options : DisplayImage(r, v, k, o)
  BY <1>6, <1>5 DEF DisplayImage
<1>7. CASE \E v \in Views : DisplayNothing(v) \/ CancelDisplayTask(v)
  BY <1>7, <1>5 DEF DisplayNothing, CancelDisplayTask
<1>8. CASE (\E r \in Requests : AnswerFromMemory(r) \/ SubmitTask(r)) \/ ResumeNotify \/ StopClear
  BY <1>8, <1>5 DEF AnswerFromMemory, SubmitTask, ResumeNotify, StopClear
<1>9. CASE RunPosted
  BY <1>9, <1>5 DEF RunPosted, RunDisplay, RunFailed, RunCancelled
<1>10. CASE Environment
  BY <1>10, <1>5 DEF Environment, CollectLock, EvictDisk, EvictMemory, CollectView
<1> QED BY <1>1, <1>2, <1>3, <1>4, <1>6, <1>7, <1>8, <1>9, <1>10 DEF Call, FinishCall

LEMMA CallUiTypes ==
    ASSUME IInv, HeardInv, UiTypes, Call \/ FinishCall \/ RunPosted \/ Environment
    PROVE  UiTypes'
<1> USE DEF engineVars, cacheVars, viewVars, taskVars, countVars
<1>1. \A r \in Requests : pc[r] # "new" => KeyOf(r) \in Keys /\ ViewOf(r) \in Views
  BY DEF IInv, NamesInv, Known, Infos, KeyOf, ViewOf
<1>2. MaxStops \in Nat /\ MaxPauses \in Nat  BY BoundsAssumption
<1>a. CASE \E r \in Requests, v \in Views, k \in Keys, o \in Options : DisplayImage(r, v, k, o)
  BY <1>a DEF DisplayImage, UiTypes
<1>b. CASE \E v \in Views : DisplayNothing(v) \/ CancelDisplayTask(v)
  BY <1>b DEF DisplayNothing, CancelDisplayTask, UiTypes
<1>c. CASE (\E deny \in BOOLEAN : DenyNetworkDownloads(deny)) \/ Pause \/ Resume
  BY <1>c, <1>2 DEF DenyNetworkDownloads, Pause, Resume, UiTypes
<1>d. CASE Stop \/ StopCached \/ StopClear \/ ResumeNotify
  BY <1>d, <1>2 DEF Stop, StopCached, StopClear, ResumeNotify, UiTypes
<1>e. CASE \E r \in Requests : AnswerFromMemory(r) \/ AnswerProcessed(r) \/ SubmitTask(r)
  BY <1>e, <1>1 DEF AnswerFromMemory, AnswerProcessed, SubmitTask, UiTypes
<1>f. CASE RunPosted
  <2>1. PICK r \in Requests : RunDisplay(r) \/ RunFailed(r) \/ RunCancelled(r)
    BY <1>f DEF RunPosted
  <2>2. handler # <<>> /\ Head(handler).req = r
    BY <2>1 DEF RunDisplay, RunFailed, RunCancelled, Takes
  <2>3. handler \in Seq(Runnables)  BY DEF HeardInv
  <2>4. 1 \in DOMAIN handler /\ Head(handler) = handler[1]
    BY <2>2, <2>3, HeadTailProperties, LenProperties, EmptySeq
  <2>5. pc[r] = "done"  BY <2>2, <2>4 DEF HeardInv
  <2>6. KeyOf(r) \in Keys /\ ViewOf(r) \in Views  BY <2>5, <1>1
  <2> QED BY <2>1, <2>6 DEF RunDisplay, RunFailed, RunCancelled, Takes, UiTypes
<1>g. CASE Environment
  BY <1>g DEF Environment, CollectLock, EvictDisk, EvictMemory, CollectView, UiTypes
<1> QED BY <1>a, <1>b, <1>c, <1>d, <1>e, <1>f, <1>g DEF Call, FinishCall

LEMMA InitTypes == Init => TypesInv
<1> SUFFICES ASSUME Init PROVE TypesInv  OBVIOUS
<1> USE DEF Init, EngineInit
<1>1. executor \in [Kinds -> 1..pools] /\ shut \subseteq 1..pools  OBVIOUS
<1>2. EngineTypes
  <2>1. pools \in Nat /\ pool \in [Requests -> 0..pools]  OBVIOUS
  <2>2. renew \in [Requests -> SUBSET Kinds] /\ intr \in [Requests -> BOOLEAN]  OBVIOUS
  <2> QED BY <1>1, <2>1, <2>2 DEF EngineTypes
<1>3. UiTypes  BY BoundsAssumption DEF UiTypes
<1> QED BY <1>2, <1>3 DEF TypesInv

LEMMA NextTypes == IInv /\ HeardInv /\ TypesInv /\ [Next]_vars => TypesInv'
<1> SUFFICES ASSUME IInv, HeardInv, TypesInv, [Next]_vars PROVE TypesInv'  OBVIOUS
<1>1. CASE UNCHANGED vars
  BY <1>1 DEF TypesInv, EngineTypes, UiTypes, vars, engineVars, taskVars, cacheVars,
              viewVars, countVars
<1> QED BY <1>1, TaskEngineTypes, TaskUiTypes, CallEngineTypes, CallUiTypes
        DEF Next, TypesInv

\* Every variable keeps its type for any number of requests, views and
\* calls: a task is never handed to an executor that does not exist, the
\* caches hold keys of images and uris only, what is posted is a runnable
\* of a request, and a view shows an image, its reset or its onFail picture.
THEOREM TypesRight == Spec => []TypeOK
<1>1. ASSUME IInv, HeardInv, TypesInv PROVE TypeOK
  <2>1. heard \in [Requests -> Seq({"started"} \cup Terminal)]
    <3>1. Stories \subseteq Seq({"started"} \cup Terminal)
      <4> DEFINE S == {"started"} \cup Terminal
      <4>1. \A a, b \in S : <<a>> \in Seq(S) /\ <<a, b>> \in Seq(S)  OBVIOUS
      <4>2. <<>> \in Seq(S) /\ "started" \in S /\ Terminal \subseteq S  BY EmptySeq
      <4> HIDE DEF S
      <4>3. Stories \subseteq Seq(S)  BY <4>1, <4>2 DEF Stories
      <4> QED BY <4>3 DEF S
    <3> QED BY <1>1, <3>1 DEF HeardInv
  <2> QED BY <1>1, <2>1
          DEF TypeOK, IInv, NamesInv, Shape, LockInv, HeardInv, TypesInv, EngineTypes, UiTypes
<1>2. IInv /\ HeardInv /\ TypesInv /\ [Next]_vars => TypesInv'  BY NextTypes
<1>3. Init => TypesInv  BY InitTypes
<1> QED BY <1>1, <1>2, <1>3, Invariance, HeardInvariance, PTL DEF Spec
=============================================================================
