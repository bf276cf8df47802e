--------------------------- MODULE BlockingDeque ---------------------------
(***************************************************************************)
(* What core/assist/deque/BlockingDeque.java and Deque.java promise: a     *)
(* bounded sequence with two ends.  A caller that must wait has not        *)
(* entered the sequence yet.                                               *)
(***************************************************************************)
EXTENDS Integers, Sequences, SequencesExt

CONSTANTS Items, Capacity, NULL

VARIABLES
    items,   \* the elements, from first to last
    taken    \* the element handed out last, NULL before

Init == items = <<>> /\ taken = NULL

InsertFirst == /\ Len(items) < Capacity
               /\ \E e \in Items : items' = <<e>> \o items
               /\ UNCHANGED taken

InsertLast == /\ Len(items) < Capacity
              /\ \E e \in Items : items' = Append(items, e)
              /\ UNCHANGED taken

TakeFirst == items # <<>> /\ taken' = Head(items) /\ items' = Tail(items)
TakeLast  == items # <<>> /\ taken' = Last(items) /\ items' = Front(items)

\* remove(o) and an iterator's remove() take an element from the middle.
RemoveSome == /\ \E i \in 1..Len(items) : items' = RemoveAt(items, i)
              /\ UNCHANGED taken

Clear == items' = <<>> /\ UNCHANGED taken

Next == InsertFirst \/ InsertLast \/ TakeFirst \/ TakeLast \/ RemoveSome \/ Clear
Spec == Init /\ [][Next]_<<items, taken>>
=============================================================================
