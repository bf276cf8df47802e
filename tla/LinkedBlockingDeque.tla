------------------------ MODULE LinkedBlockingDeque ------------------------
(***************************************************************************)
(* core/assist/deque/LinkedBlockingDeque.java, the queue of an executor    *)
(* that works in LIFO order: a doubly linked list under one lock, with a   *)
(* condition for takers and one for putters, and iterators that keep       *)
(* pointing into the list, or to nodes that left it, between their calls.  *)
(*                                                                         *)
(* What a method does between lock() and unlock(), or up to an await(), is *)
(* one action; drainTo is several, as the collection it fills may throw.   *)
(* A thread that awaits is one that a signal, a timeout or an interrupt    *)
(* still may pick; afterwards it waits for the lock only.                  *)
(***************************************************************************)
EXTENDS Integers, FiniteSets

CONSTANTS
    Threads, Iterators,
    Nodes,      \* bound: nodes that exist at one time
    Items,
    Capacity,   \* capacity
    Waits,      \* bound: kinds of waits, TRUE for those with a time
    NULL

ASSUME CapacityAssumption == Capacity \in Nat \ {0} /\ Waits \subseteq BOOLEAN
ASSUME ThreadsAssumption == IsFiniteSet(Threads)
ASSUME NullAssumption == NULL \notin Nodes /\ NULL \notin Items

VARIABLES
    node,           \* node -> [item, prev, next]; no item once removed
    first, last, count,
    taken,          \* result of the last call that removed an end
    op,             \* per thread, the call it waits in
    it              \* per iterator, [dir, next, lastRet], NULL before and after use

list == <<node, first, last, count>>
vars == <<list, taken, op, it>>

\* at: the condition the call waits for, or "drain"; end: where it inserts or
\* removes; wake: "no" while it may still be signalled; left: elements drainTo
\* still wants.
IDLE == [at |-> "idle", end |-> "none", item |-> NULL, timed |-> FALSE, wake |-> "no", left |-> 0]

Linked == {n \in Nodes : node[n].item # NULL}

Init ==
    /\ node = [n \in Nodes |-> [item |-> NULL, prev |-> NULL, next |-> NULL]]
    /\ first = NULL /\ last = NULL /\ count = 0
    /\ taken = NULL
    /\ op = [t \in Threads |-> IDLE]
    /\ it = [i \in Iterators |-> NULL]

-----------------------------------------------------------------------------
(* The list.                                                               *)

\* Nodes something still leads to, which the collector keeps.
Kept == LET Roots == {it[i].next : i \in {j \in Iterators : it[j] # NULL}}
                     \cup {it[i].lastRet : i \in {j \in Iterators : it[j] # NULL}}
            Within[k \in Nat] == IF k = 0 THEN Roots \cap Nodes
                ELSE Within[k - 1] \cup {m \in Nodes : \E n \in Within[k - 1] :
                                             m = node[n].prev \/ m = node[n].next}
        IN  Within[Cardinality(Nodes)] \cup Linked

\* new Node(e)
Fresh == {n \in Nodes : node[n].item = NULL} \ Kept

LinkFirst(n, e) ==
    /\ node' = [m \in Nodes |->
           IF m = n THEN [item |-> e, prev |-> NULL, next |-> first]
           ELSE IF m = first THEN [node[m] EXCEPT !.prev = n] ELSE node[m]]
    /\ first' = n
    /\ last' = IF last = NULL THEN n ELSE last
    /\ count' = count + 1

LinkLast(n, e) ==
    /\ node' = [m \in Nodes |->
           IF m = n THEN [item |-> e, prev |-> last, next |-> NULL]
           ELSE IF m = last THEN [node[m] EXCEPT !.next = n] ELSE node[m]]
    /\ last' = n
    /\ first' = IF first = NULL THEN n ELSE first
    /\ count' = count + 1

Link(end, e) == \E n \in Fresh : IF end = "first" THEN LinkFirst(n, e) ELSE LinkLast(n, e)

\* A node taken from an end is linked to itself: an iterator that stands there
\* goes on at its own end of the list.
UnlinkFirst ==
    /\ first # NULL
    /\ node' = [m \in Nodes |->
           IF m = first THEN [node[m] EXCEPT !.item = NULL, !.next = first]
           ELSE IF m = node[first].next THEN [node[m] EXCEPT !.prev = NULL] ELSE node[m]]
    /\ first' = node[first].next
    /\ last' = IF node[first].next = NULL THEN NULL ELSE last
    /\ count' = count - 1

UnlinkLast ==
    /\ last # NULL
    /\ node' = [m \in Nodes |->
           IF m = last THEN [node[m] EXCEPT !.item = NULL, !.prev = last]
           ELSE IF m = node[last].prev THEN [node[m] EXCEPT !.next = NULL] ELSE node[m]]
    /\ last' = node[last].prev
    /\ first' = IF node[last].prev = NULL THEN NULL ELSE first
    /\ count' = count - 1

\* Variant: the successor keeps pointing back at the node.
UnlinkMiddleForward(x) ==
    /\ node[x].prev # NULL /\ node[x].next # NULL
    /\ node' = [m \in Nodes |->
           IF m = x THEN [node[m] EXCEPT !.item = NULL]
           ELSE IF m = node[x].prev THEN [node[m] EXCEPT !.next = node[x].next] ELSE node[m]]
    /\ count' = count - 1
    /\ UNCHANGED <<first, last>>

\* A node taken from the middle keeps its links for an iterator that stands there.
UnlinkMiddle(x) ==
    /\ node[x].prev # NULL /\ node[x].next # NULL
    /\ node' = [m \in Nodes |->
           IF m = x THEN [node[m] EXCEPT !.item = NULL]
           ELSE IF m = node[x].prev THEN [node[m] EXCEPT !.next = node[x].next]
           ELSE IF m = node[x].next THEN [node[m] EXCEPT !.prev = node[x].prev] ELSE node[m]]
    /\ count' = count - 1
    /\ UNCHANGED <<first, last>>

Unlink(x) ==
    \/ node[x].prev = NULL /\ UnlinkFirst
    \/ node[x].prev # NULL /\ node[x].next = NULL /\ UnlinkLast
    \/ UnlinkMiddle(x)

-----------------------------------------------------------------------------
(* The lock and its conditions.                                            *)

Unlocked == \A t \in Threads : op[t].at # "drain"

Waiting(calls, condition) == {t \in Threads : calls[t].at = condition /\ calls[t].wake = "no"}
Awake(t) == op[t].at \in {"notEmpty", "notFull"} /\ op[t].wake # "no"

\* condition.signal(), from which any thread that awaits may return.
Signalled(calls, condition) ==
    IF Waiting(calls, condition) = {} THEN {calls}
    ELSE {[calls EXCEPT ![t].wake = "signal"] : t \in Waiting(calls, condition)}

SignalledAll(calls, condition) ==
    [t \in Threads |-> IF t \in Waiting(calls, condition)
                       THEN [calls[t] EXCEPT !.wake = "signal"] ELSE calls[t]]

Returned(t) == [op EXCEPT ![t] = IDLE]

\* linkFirst, linkLast, the unlinks, and the signal each of them ends with.
Insert(end, e, calls) == Link(end, e) /\ op' \in Signalled(calls, "notEmpty")
Take(end, calls) ==
    /\ IF end = "first" THEN UnlinkFirst /\ taken' = node[first].item
                        ELSE UnlinkLast /\ taken' = node[last].item
    /\ op' \in Signalled(calls, "notFull")
Remove(x) == Unlink(x) /\ op' \in Signalled(op, "notFull") /\ UNCHANGED taken

-----------------------------------------------------------------------------
(* Calls.  One that finds no room, or nothing, and need not wait changes   *)
(* nothing.                                                                *)

\* add, offer, put, push
Offer(t, end, e) ==
    /\ Unlocked /\ op[t] = IDLE /\ count < Capacity
    /\ Insert(end, e, op)
    /\ UNCHANGED <<taken, it>>

\* put, and offer with a time
AwaitRoom(t, end, e, timed) ==
    /\ Unlocked /\ op[t] = IDLE /\ count >= Capacity
    /\ op' = [op EXCEPT ![t] = [IDLE EXCEPT !.at = "notFull", !.end = end, !.item = e, !.timed = timed]]
    /\ UNCHANGED <<list, taken, it>>

\* poll, remove, pop, take
Poll(t, end) ==
    /\ Unlocked /\ op[t] = IDLE
    /\ Take(end, op)
    /\ UNCHANGED it

\* take, and poll with a time
AwaitElement(t, end, timed) ==
    /\ Unlocked /\ op[t] = IDLE /\ first = NULL
    /\ op' = [op EXCEPT ![t] = [IDLE EXCEPT !.at = "notEmpty", !.end = end, !.timed = timed]]
    /\ UNCHANGED <<list, taken, it>>

ResumeTaking(t) ==
    /\ op[t].at = "notEmpty" /\ first # NULL
    /\ Take(op[t].end, Returned(t))

ResumeInserting(t) ==
    /\ op[t].at = "notFull" /\ count < Capacity
    /\ Insert(op[t].end, op[t].item, Returned(t))
    /\ UNCHANGED taken

\* It waits again, or its time is up.
ResumeInVain(t) ==
    /\ IF op[t].at = "notEmpty" THEN first = NULL ELSE count >= Capacity
    /\ \/ op[t].wake = "signal" /\ op' = [op EXCEPT ![t].wake = "no"]
       \/ op[t].timed /\ op' = Returned(t)
    /\ UNCHANGED <<list, taken>>

\* A thread that was woken has the lock again.
Resume(t) ==
    /\ Unlocked /\ Awake(t)
    /\ ResumeTaking(t) \/ ResumeInserting(t) \/ ResumeInVain(t)
    /\ UNCHANGED it

\* awaitNanos() has waited long enough, unless it was signalled before.
Timeout(t) ==
    /\ op[t].at \in {"notEmpty", "notFull"} /\ op[t].wake = "no" /\ op[t].timed
    /\ op' = [op EXCEPT ![t].wake = "timeout"]
    /\ UNCHANGED <<list, taken, it>>

\* An interrupt ends the call, unless the thread was signalled before.
Interrupt(t) ==
    /\ Unlocked
    /\ op[t].at \in {"notEmpty", "notFull"} /\ op[t].wake = "no"
    /\ op' = Returned(t)
    /\ UNCHANGED <<list, taken, it>>

\* The node i steps behind one end.
Walk(end) ==
    LET At[i \in Nat] == IF i = 0 THEN IF end = "first" THEN first ELSE last
                         ELSE IF At[i - 1] = NULL THEN NULL
                         ELSE IF end = "first" THEN node[At[i - 1]].next ELSE node[At[i - 1]].prev
    IN  At

\* remove(o), removeFirstOccurrence, removeLastOccurrence
RemoveOccurrence(end, o) ==
    /\ Unlocked
    /\ \E i \in 0..count - 1, x \in Nodes :
        /\ x = Walk(end)[i] /\ node[x].item = o
        /\ \A j \in 0..i - 1 : node[Walk(end)[j]].item # o
        /\ Remove(x)
    /\ UNCHANGED it

\* Variant: one putter is told, although there is room for several.
ClearSignallingOne ==
    /\ Unlocked
    /\ node' = [n \in Nodes |-> IF n \in Linked THEN [item |-> NULL, prev |-> NULL, next |-> NULL] ELSE node[n]]
    /\ first' = NULL /\ last' = NULL /\ count' = 0
    /\ op' \in Signalled(op, "notFull")
    /\ UNCHANGED <<taken, it>>

Clear ==
    /\ Unlocked
    /\ node' = [n \in Nodes |-> IF n \in Linked THEN [item |-> NULL, prev |-> NULL, next |-> NULL] ELSE node[n]]
    /\ first' = NULL /\ last' = NULL /\ count' = 0
    /\ op' = SignalledAll(op, "notFull")
    /\ UNCHANGED <<taken, it>>

\* drainTo(c, n): fewer elements than asked for stand for an add() that throws.
DrainTo(t) ==
    /\ Unlocked /\ op[t] = IDLE
    /\ \E n \in 1..count : op' = [op EXCEPT ![t] = [IDLE EXCEPT !.at = "drain", !.left = n]]
    /\ UNCHANGED <<list, taken, it>>

\* Variant: the collection is filled from the end.
DrainOneBackwards(t) ==
    /\ op[t].at = "drain" /\ op[t].left > 0
    /\ taken' = node[first].item /\ UnlinkLast
    /\ op' \in Signalled([op EXCEPT ![t].left = @ - 1], "notFull")
    /\ UNCHANGED it

DrainOne(t) ==
    /\ op[t].at = "drain" /\ op[t].left > 0
    /\ taken' = node[first].item /\ UnlinkFirst
    /\ op' \in Signalled([op EXCEPT ![t].left = @ - 1], "notFull")
    /\ UNCHANGED it

EndDrain(t) ==
    /\ op[t].at = "drain" /\ op[t].left = 0
    /\ op' = Returned(t)
    /\ UNCHANGED <<list, taken, it>>

-----------------------------------------------------------------------------
(* Iterators.  nextItem is left out: next() hands out the item that its    *)
(* node had when the iterator arrived there, whatever became of the node.  *)

FirstNode(dir) == IF dir = "ascending" THEN first ELSE last
NextNode(dir, n) == IF dir = "ascending" THEN node[n].next ELSE node[n].prev

\* Variant: a self-link ends the iteration.
SuccEnding(dir, n) ==
    LET From[k \in Nat, m \in Nodes] ==
            LET s == NextNode(dir, m)
            IN  IF s = NULL \/ s = m THEN NULL
                ELSE IF node[s].item # NULL THEN s
                ELSE IF k = 0 THEN "lost" ELSE From[k - 1, s]
    IN  From[Cardinality(Nodes), n]

\* The search is lost if it meets more nodes than there are.
Succ(dir, n) ==
    LET From[k \in Nat, m \in Nodes] ==
            LET s == NextNode(dir, m)
            IN  IF s = NULL THEN NULL
                ELSE IF node[s].item # NULL THEN s
                ELSE IF s = m THEN FirstNode(dir)
                ELSE IF k = 0 THEN "lost" ELSE From[k - 1, s]
    IN  From[Cardinality(Nodes), n]

\* iterator(), descendingIterator()
Iterate(i, dir) ==
    /\ Unlocked /\ it[i] = NULL
    /\ it' = [it EXCEPT ![i] = [dir |-> dir, next |-> FirstNode(dir), lastRet |-> NULL]]
    /\ UNCHANGED <<list, taken, op>>

\* next(), when hasNext()
Advance(i) ==
    /\ Unlocked /\ it[i] # NULL /\ it[i].next # NULL
    /\ it' = [it EXCEPT ![i].lastRet = it[i].next, ![i].next = Succ(it[i].dir, it[i].next)]
    /\ UNCHANGED <<list, taken, op>>

\* remove()
IteratorRemoves(i) ==
    /\ Unlocked /\ it[i] # NULL /\ it[i].lastRet # NULL
    /\ it' = [it EXCEPT ![i].lastRet = NULL]
    /\ IF it[i].lastRet \in Linked THEN Remove(it[i].lastRet)
       ELSE UNCHANGED <<list, taken, op>>

\* The iterator is no longer used.
Forget(i) ==
    /\ it[i] # NULL
    /\ it' = [it EXCEPT ![i] = NULL]
    /\ UNCHANGED <<list, taken, op>>

-----------------------------------------------------------------------------
Ends == {"first", "last"}

Call(t) ==
    \/ \E end \in Ends, e \in Items : Offer(t, end, e) \/ \E timed \in Waits : AwaitRoom(t, end, e, timed)
    \/ \E end \in Ends : Poll(t, end) \/ \E timed \in Waits : AwaitElement(t, end, timed)
    \/ DrainTo(t)

GoOn(t) == Resume(t) \/ DrainOne(t) \/ EndDrain(t)

Next ==
    \/ \E t \in Threads : Call(t) \/ GoOn(t) \/ Timeout(t) \/ Interrupt(t)
    \/ \E end \in Ends, o \in Items : RemoveOccurrence(end, o)
    \/ Clear
    \/ \E i \in Iterators : (\E dir \in {"ascending", "descending"} : Iterate(i, dir))
                            \/ Advance(i) \/ IteratorRemoves(i) \/ Forget(i)

Spec == Init /\ [][Next]_vars

-----------------------------------------------------------------------------
Cells == [item : Items \cup {NULL}, prev : Nodes \cup {NULL}, next : Nodes \cup {NULL}]
Calls == {c \in [at : {"idle", "notEmpty", "notFull", "drain"}, end : Ends \cup {"none"}, item : Items \cup {NULL},
                 timed : BOOLEAN, wake : {"no", "signal", "timeout"}, left : Nat] :
              c.at = "notFull" => c.item # NULL}

ListTypes ==
    /\ node \in [Nodes -> Cells]
    /\ first \in Nodes \cup {NULL} /\ last \in Nodes \cup {NULL}
    /\ count \in 0..Capacity
    /\ taken \in Items \cup {NULL}

CallTypes == op \in [Threads -> Calls]

\* The capacity is kept, also by threads that waited for room together.
TypeOK ==
    /\ ListTypes /\ CallTypes
    /\ it \in [Iterators -> [dir : {"ascending", "descending"}, next : Nodes \cup {NULL},
                             lastRet : Nodes \cup {NULL}] \cup {NULL}]

\* q lists the linked nodes in order.
Chain(q) ==
    /\ \A i, j \in 1..count : q[i] = q[j] => i = j
    /\ \A n \in Linked : \E i \in 1..count : q[i] = n
    /\ first = (IF count = 0 THEN NULL ELSE q[1])
    /\ last = (IF count = 0 THEN NULL ELSE q[count])
    /\ \A i \in 1..count :
        /\ node[q[i]].next = (IF i = count THEN NULL ELSE q[i + 1])
        /\ node[q[i]].prev = (IF i = 1 THEN NULL ELSE q[i - 1])

\* The list is one chain of exactly the nodes that hold an item, the same in
\* both directions, from first to last, and count is its length, whatever is
\* removed from its middle, by iterators that stand on nodes long removed too.
LinksExact == \E q \in [1..count -> Linked] : Chain(q)

Told(condition) == {t \in Threads : op[t].at = condition /\ op[t].wake = "signal"}

\* No wakeup is lost: as long as a thread waits for an element, there is a
\* thread on its way for each element of the list; the same for room.
NoLostWakeup ==
    /\ Waiting(op, "notEmpty") # {} => Cardinality(Told("notEmpty")) >= count
    /\ Waiting(op, "notFull") # {} => Cardinality(Told("notFull")) >= Capacity - count

\* The list is the sequence that BlockingDeque.java and Deque.java speak of.
Abstract == INSTANCE BlockingDeque WITH
    items <- [i \in 1..count |-> node[Walk("first")[i - 1]].item]
AbstractSpec == Abstract!Spec
=============================================================================
