----------------------------- MODULE BufferPool -----------------------------
(***************************************************************************)
(* The lock-free pool of reference-counted buffers of libavutil/buffer.c,  *)
(* from which the HEVC decoder takes the motion and reference tables of a  *)
(* picture.  Threads get buffers, share and drop references to them; a     *)
(* buffer whose last reference goes returns to the pool's list, and the    *)
(* pool frees itself when its owner has given it up and every buffer is    *)
(* back.                                                                   *)
(*                                                                         *)
(* A list of entries is a set: only its being empty is ever tested, and    *)
(* which entry get keeps is left open.  Every access to a shared word is a *)
(* step of its own.  get_pool retries until its compare-and-set succeeds   *)
(* and a success takes the whole list whatever came before, so the read    *)
(* that precedes the success is no step.                                   *)
(***************************************************************************)
EXTENDS Naturals, FiniteSets

CONSTANTS Threads,    \* the callers
          Entries,    \* BufferPoolEntry: every buffer malloc may provide
          Nil

ASSUME Finite == IsFiniteSet(Threads) /\ IsFiniteSet(Entries)
ASSUME NilIsNone == Nil \notin Entries

VARIABLES
  list,        \* pool->pool, the entries waiting for a caller
  refcount,    \* pool->refcount
  allocated,   \* the entries that exist
  nbAllocated, \* pool->nb_allocated
  open,        \* the owner's pointer to the pool is not NULL
  freed,       \* av_freep(&pool) has run
  holds,       \* per thread, the buffers it has an AVBufferRef to
  refs,        \* AVBuffer.refcount of each entry's buffer
  pc,          \* where each thread is
  mine,        \* the list a thread has in its hands
  kept,        \* the entry a get is about to return
  writes,      \* the buffer a thread writes in place
  seen         \* the counter a get has read first, and its value

poolVars == <<list, refcount, allocated, nbAllocated, open, freed>>
vars == <<poolVars, holds, refs, pc, mine, kept, writes, seen>>

\* Where a thread may stand inside av_buffer_pool_get, add_to_pool (for the
\* rest of a list, after a failed get, or for a released buffer) and release.
Getting == {"get", "check", "compare", "alloc", "refs", "count", "keep", "create", "claim"}
Adding  == {"rest", "back", "free"}
Places  == {"idle", "write", "drop", "destroy"} \cup Getting \cup Adding \cup {"rest+", "back+", "free+"}

Holders(e) == {t \in Threads : e \in holds[t]}

Init ==
  /\ list = {} /\ refcount = 1 /\ allocated = {} /\ nbAllocated = 0
  /\ open = TRUE /\ freed = FALSE
  /\ holds = [t \in Threads |-> {}] /\ refs = [e \in Entries |-> 0]
  /\ pc = [t \in Threads |-> "idle"]
  /\ mine = [t \in Threads |-> {}] /\ kept = [t \in Threads |-> Nil]
  /\ writes = [t \in Threads |-> Nil]
  /\ seen = [t \in Threads |-> <<"none", 0>>]

GoTo(t, place) == pc' = [pc EXCEPT ![t] = place]

-----------------------------------------------------------------------------
(* av_buffer_pool_get *)

\* A caller of get has the pool: no get begins once the owner gave it up.
Get(t) ==
  /\ pc[t] = "idle" /\ open
  /\ GoTo(t, "get")
  /\ UNCHANGED <<poolVars, holds, refs, mine, kept, writes, seen>>

\* get_pool takes the whole list; an empty one leads to the counters.
GetPool(t) ==
  /\ pc[t] = "get"
  /\ IF list = {}
     THEN /\ GoTo(t, "check")
          /\ UNCHANGED <<list, mine>>
     ELSE /\ GoTo(t, "keep")
          /\ mine' = [mine EXCEPT ![t] = list]
          /\ list' = {}
  /\ UNCHANGED <<refcount, allocated, nbAllocated, open, freed, holds, refs, kept, writes, seen>>

\* The operands of refcount <= nb_allocated are read in the order the
\* compiler likes.
ReadFirst(t) ==
  /\ pc[t] = "check"
  /\ \/ seen' = [seen EXCEPT ![t] = <<"refcount", refcount>>]
     \/ seen' = [seen EXCEPT ![t] = <<"allocated", nbAllocated>>]
  /\ GoTo(t, "compare")
  /\ UNCHANGED <<poolVars, holds, refs, mine, kept, writes>>

InTransit(t) ==
  IF seen[t][1] = "refcount" THEN seen[t][2] <= nbAllocated ELSE refcount <= seen[t][2]

\* A buffer is on its way back: spin; otherwise allocate.  The check before the
\* loop is the loop's own, once more.
Compare(t) ==
  /\ pc[t] = "compare"
  /\ GoTo(t, IF InTransit(t) THEN "get" ELSE "alloc")
  /\ seen' = [seen EXCEPT ![t] = <<"none", 0>>]
  /\ UNCHANGED <<poolVars, holds, refs, mine, kept, writes>>

\* pool_alloc_buffer: memory may be short at either allocation.
AllocBuffer(t) ==
  /\ pc[t] = "alloc"
  /\ \/ \E e \in Entries \ allocated :
          /\ allocated' = allocated \cup {e}
          /\ kept' = [kept EXCEPT ![t] = e]
          /\ refs' = [refs EXCEPT ![e] = 1]
          /\ GoTo(t, "refs")
     \/ /\ GoTo(t, "idle")
        /\ UNCHANGED <<allocated, kept, refs>>
  /\ UNCHANGED <<list, refcount, nbAllocated, open, freed, holds, mine, writes, seen>>

CountRef(t) ==
  /\ pc[t] = "refs"
  /\ refcount' = refcount + 1
  /\ GoTo(t, "count")
  /\ UNCHANGED <<list, allocated, nbAllocated, open, freed, holds, refs, mine, kept, writes, seen>>

\* The caller gets its reference.
Return(t) ==
  /\ holds' = [holds EXCEPT ![t] = @ \cup {kept[t]}]
  /\ kept' = [kept EXCEPT ![t] = Nil]
  /\ GoTo(t, "idle")

\* Variant: the new buffer is counted twice.
CountAllocatedTwice(t) ==
  /\ pc[t] = "count"
  /\ nbAllocated' = nbAllocated + 2
  /\ Return(t)
  /\ UNCHANGED <<list, refcount, allocated, open, freed, refs, mine, writes, seen>>

CountAllocated(t) ==
  /\ pc[t] = "count"
  /\ nbAllocated' = nbAllocated + 1
  /\ Return(t)
  /\ UNCHANGED <<list, refcount, allocated, open, freed, refs, mine, writes, seen>>

\* Variant: the whole list is given back, the kept entry with it.
KeepFirstLinked(t) ==
  /\ pc[t] = "keep"
  /\ \E e \in mine[t] :
       /\ kept' = [kept EXCEPT ![t] = e]
       /\ GoTo(t, IF mine[t] = {e} THEN "create" ELSE "rest")
  /\ UNCHANGED <<poolVars, holds, refs, mine, writes, seen>>

\* The first entry is kept, the rest is given back before anything else.
KeepFirst(t) ==
  /\ pc[t] = "keep"
  /\ \E e \in mine[t] :
       /\ kept' = [kept EXCEPT ![t] = e]
       /\ mine' = [mine EXCEPT ![t] = @ \ {e}]
       /\ GoTo(t, IF mine[t] = {e} THEN "create" ELSE "rest")
  /\ UNCHANGED <<poolVars, holds, refs, writes, seen>>

\* av_buffer_create may fail; the entry then goes back to the pool.
Create(t) ==
  /\ pc[t] = "create"
  /\ \/ /\ refs' = [refs EXCEPT ![kept[t]] = 1]
        /\ GoTo(t, "claim")
        /\ UNCHANGED <<mine, kept>>
     \/ /\ mine' = [mine EXCEPT ![t] = {kept[t]}]
        /\ kept' = [kept EXCEPT ![t] = Nil]
        /\ GoTo(t, "back")
        /\ UNCHANGED refs
  /\ UNCHANGED <<poolVars, holds, writes, seen>>

Claim(t) ==
  /\ pc[t] = "claim"
  /\ refcount' = refcount + 1
  /\ Return(t)
  /\ UNCHANGED <<list, allocated, nbAllocated, open, freed, refs, mine, writes, seen>>

-----------------------------------------------------------------------------
(* add_to_pool *)

\* From place p, for whichever of the three callers, to place q.
Along(t, p, q) == pc[t] = p /\ GoTo(t, q)

\* The compare-and-set of NULL for the list succeeds on an empty pool only.
Publish(t) ==
  /\ list = {}
  /\ list' = mine[t]
  /\ mine' = [mine EXCEPT ![t] = {}]
  /\ Along(t, "rest", "create") \/ Along(t, "back", "idle") \/ Along(t, "free", "drop")
  /\ UNCHANGED <<refcount, allocated, nbAllocated, open, freed, holds, refs, kept, writes, seen>>

PublishBlocked(t) ==
  /\ list # {}
  /\ Along(t, "rest", "rest+") \/ Along(t, "back", "back+") \/ Along(t, "free", "free+")
  /\ UNCHANGED <<poolVars, holds, refs, mine, kept, writes, seen>>

\* Whatever is in the pool by now is appended to the thread's own list.
TakeToo(t) ==
  /\ mine' = [mine EXCEPT ![t] = @ \cup list]
  /\ list' = {}
  /\ Along(t, "rest+", "rest") \/ Along(t, "back+", "back") \/ Along(t, "free+", "free")
  /\ UNCHANGED <<refcount, allocated, nbAllocated, open, freed, holds, refs, kept, writes, seen>>

-----------------------------------------------------------------------------
(* References *)

\* av_buffer_ref: the new reference is handed to another thread; memory
\* may be short, then nothing changes.
Ref(t, u, e) ==
  /\ pc[t] = "idle"
  /\ e \in holds[t] /\ e \notin holds[u]
  /\ refs' = [refs EXCEPT ![e] = @ + 1]
  /\ holds' = [holds EXCEPT ![u] = @ \cup {e}]
  /\ UNCHANGED <<poolVars, pc, mine, kept, writes, seen>>

\* av_buffer_unref: the last reference runs pool_release_buffer.
Unref(t, e) ==
  /\ pc[t] = "idle"
  /\ e \in holds[t]
  /\ refs' = [refs EXCEPT ![e] = @ - 1]
  /\ holds' = [holds EXCEPT ![t] = @ \ {e}]
  /\ IF refs[e] = 1
     THEN mine' = [mine EXCEPT ![t] = {e}] /\ GoTo(t, "free")
     ELSE UNCHANGED <<mine, pc>>
  /\ UNCHANGED <<poolVars, kept, writes, seen>>

\* Variant: the reference count is not asked.
MakeWritableShared(t, e) ==
  /\ pc[t] = "idle"
  /\ e \in holds[t]
  /\ writes' = [writes EXCEPT ![t] = e]
  /\ GoTo(t, "write")
  /\ UNCHANGED <<poolVars, holds, refs, mine, kept, seen>>

\* av_buffer_make_writable on a buffer of one's own: it is written in place.
\* A shared one is copied to a plain buffer and dropped, which is Unref.
MakeWritable(t, e) ==
  /\ pc[t] = "idle"
  /\ e \in holds[t] /\ refs[e] = 1
  /\ writes' = [writes EXCEPT ![t] = e]
  /\ GoTo(t, "write")
  /\ UNCHANGED <<poolVars, holds, refs, mine, kept, seen>>

EndWrite(t) ==
  /\ pc[t] = "write"
  /\ writes' = [writes EXCEPT ![t] = Nil]
  /\ GoTo(t, "idle")
  /\ UNCHANGED <<poolVars, holds, refs, mine, kept, seen>>

-----------------------------------------------------------------------------
(* The end of the pool *)

\* Variant: whoever drops a reference frees the pool.
DropReferenceFreeing(t) ==
  /\ refcount' = refcount - 1
  /\ GoTo(t, "destroy")

\* One reference to the pool goes; the last one frees it.
DropReference(t) ==
  /\ refcount' = refcount - 1
  /\ GoTo(t, IF refcount = 1 THEN "destroy" ELSE "idle")

\* pool_release_buffer, after its add_to_pool.
Drop(t) ==
  /\ pc[t] = "drop"
  /\ DropReference(t)
  /\ UNCHANGED <<list, allocated, nbAllocated, open, freed, holds, refs, mine, kept, writes, seen>>

\* av_buffer_pool_uninit, by an owner who lets no get run beside it.
Uninit(t) ==
  /\ pc[t] = "idle" /\ open
  /\ \A u \in Threads : pc[u] \notin Getting \cup {"rest", "rest+", "back", "back+"}
  /\ open' = FALSE
  /\ DropReference(t)
  /\ UNCHANGED <<list, allocated, nbAllocated, freed, holds, refs, mine, kept, writes, seen>>

\* buffer_pool_free, entry by entry and then the pool.
FreeEntry(t) ==
  /\ pc[t] = "destroy"
  /\ \E e \in list :
       /\ list' = list \ {e}
       /\ allocated' = allocated \ {e}
  /\ UNCHANGED <<refcount, nbAllocated, open, freed, holds, refs, pc, mine, kept, writes, seen>>

FreePool(t) ==
  /\ pc[t] = "destroy" /\ list = {}
  /\ freed' = TRUE
  /\ GoTo(t, "idle")
  /\ UNCHANGED <<list, refcount, allocated, nbAllocated, open, holds, refs, mine, kept, writes, seen>>

-----------------------------------------------------------------------------
\* A step inside a call, and the calls a thread may make.
Continue(t) ==
  \/ GetPool(t) \/ ReadFirst(t) \/ Compare(t) \/ AllocBuffer(t) \/ CountRef(t)
  \/ CountAllocated(t) \/ KeepFirst(t) \/ Create(t) \/ Claim(t)
  \/ Publish(t) \/ PublishBlocked(t) \/ TakeToo(t)
  \/ EndWrite(t) \/ Drop(t) \/ FreeEntry(t) \/ FreePool(t)

Call(t) ==
  \/ Get(t) \/ Uninit(t)
  \/ \E e \in Entries :
       \/ Unref(t, e) \/ MakeWritable(t, e)
       \/ \E u \in Threads : Ref(t, u, e)

Next == \E t \in Threads : Call(t) \/ Continue(t)

\* A call that has begun goes on: every thread is scheduled.
Fairness == \A t \in Threads : WF_vars(Continue(t))
Spec == Init /\ [][Next]_vars /\ Fairness
-----------------------------------------------------------------------------
TypeOK ==
  /\ list \in SUBSET Entries /\ allocated \in SUBSET Entries
  /\ refcount \in Nat /\ nbAllocated \in Nat
  /\ open \in BOOLEAN /\ freed \in BOOLEAN
  /\ holds \in [Threads -> SUBSET Entries]
  /\ refs \in [Entries -> Nat]
  /\ pc \in [Threads -> Places]
  /\ mine \in [Threads -> SUBSET Entries]
  /\ kept \in [Threads -> Entries \cup {Nil}]
  /\ writes \in [Threads -> Entries \cup {Nil}]
  /\ seen \in [Threads -> {"none", "refcount", "allocated"} \X Nat]

Hand == [t \in Threads |-> mine[t] \cup ({kept[t]} \ {Nil})]

(***************************************************************************)
(* Every buffer that exists is in one place: waiting in the pool, in the   *)
(* hands of one thread, or referenced by callers.  So no buffer is handed  *)
(* out twice, appended to the pool twice, or lost between the steps in     *)
(* which lists are taken and given back.                                   *)
(***************************************************************************)
OwnedOnce ==
  /\ list \subseteq allocated
  /\ \A e \in allocated : e \in list \/ \E t \in Threads : e \in Hand[t] \cup holds[t]
  /\ \A t \in Threads :
       /\ Hand[t] \cup holds[t] \subseteq allocated
       /\ list \cap Hand[t] = {} /\ list \cap holds[t] = {}
       /\ kept[t] \notin mine[t]
       /\ \A u \in Threads : Hand[t] \cap holds[u] = {}
       /\ \A u \in Threads \ {t} : Hand[t] \cap Hand[u] = {}

(***************************************************************************)
(* The pool's words have their types and its buffers one owner each.       *)
(***************************************************************************)
PoolWhole == TypeOK /\ OwnedOnce

(***************************************************************************)
(* av_buffer_make_writable lets a thread write in place only a buffer no   *)
(* other thread refers to, for as long as the writing lasts.               *)
(***************************************************************************)
SoleWriter ==
  \A t \in Threads : pc[t] = "write" => Holders(writes[t]) = {t}

(***************************************************************************)
(* The pool is torn down after its last use: once a thread frees it, no    *)
(* other thread is inside it or holds one of its buffers, all of them are  *)
(* in its list to be freed, and afterwards none is left.                   *)
(***************************************************************************)
PoolOutlivesUse ==
  /\ (freed \/ \E t \in Threads : pc[t] = "destroy") =>
       /\ allocated = list
       /\ \A t \in Threads : holds[t] = {} /\ pc[t] \in {"idle", "destroy"}
       /\ \A t, u \in Threads : pc[t] = "destroy" /\ pc[u] = "destroy" => t = u
  /\ freed => allocated = {} /\ \A t \in Threads : pc[t] = "idle"

(***************************************************************************)
(* The pool is lock-free: as long as some thread is inside a call, some    *)
(* call returns, although get spins while a buffer is on its way back and  *)
(* add_to_pool goes round when others fill the list under its hands.       *)
(***************************************************************************)
LockFree ==
  \/ <>[](\A t \in Threads : pc[t] = "idle")
  \/ []<><<\E t \in Threads : pc[t] # "idle" /\ pc'[t] = "idle">>_vars
=============================================================================
