----------------------- MODULE MCLinkedBlockingDeque -----------------------
(***************************************************************************)
(* A small instance of LinkedBlockingDeque, with a history of what its     *)
(* iterators owe.                                                          *)
(***************************************************************************)
EXTENDS LinkedBlockingDeque, TLC

Symmetric == Permutations(Threads) \cup Permutations(Nodes) \cup Permutations(Items)

VARIABLES
    due,     \* per iterator: nodes linked since it began and not handed out
    given    \* per iterator: nodes handed out and still linked

HInit == Init /\ due = [i \in Iterators |-> {}] /\ given = [i \in Iterators |-> {}]

\* The node that iterator i hands out in this step, if any.
HandedOut(i) == IF it[i] # NULL /\ it'[i] # NULL /\ it'[i].next # it[i].next THEN {it[i].next} ELSE {}

HNext ==
    /\ Next
    /\ due' = [i \in Iterators |-> IF it'[i] = NULL THEN {}
               ELSE IF it[i] = NULL THEN Linked ELSE (due[i] \ HandedOut(i)) \cap Linked']
    /\ given' = [i \in Iterators |-> IF it'[i] = NULL THEN {}
                 ELSE (given[i] \cup HandedOut(i)) \cap Linked']

HSpec == HInit /\ [][HNext]_<<vars, due, given>>

Position(n) == CHOOSE i \in 0..count - 1 : Walk("first")[i] = n
Behind(dir, m, n) == IF dir = "ascending" THEN Position(m) >= Position(n) ELSE Position(m) <= Position(n)

\* An iterator hands out every element that stays in the deque, each once and
\* in order, whatever is added and removed around it ("in proper sequence",
\* "guarantees to traverse elements as they existed upon construction",
\* LinkedBlockingDeque.java:988-996).
IteratorsOnTrack ==
    /\ TypeOK
    /\ \A i \in Iterators : it[i] # NULL =>
        /\ due[i] \cap given[i] = {}
        /\ it[i].next = NULL => due[i] = {}
        /\ it[i].next \in Linked =>
            /\ it[i].next \notin given[i]
            /\ \A m \in due[i] : Behind(it[i].dir, m, it[i].next)
            /\ \A m \in given[i] : ~Behind(it[i].dir, m, it[i].next)
=============================================================================
