--------------------------- MODULE PersistentStore ---------------------------
(***************************************************************************)
(* What a crash-safe store of one value per key promises: a value is       *)
(* published in one step, survives a close or a crash, and is lost only    *)
(* when the store drops it or when a crash hits an edit of its key.        *)
(***************************************************************************)
CONSTANTS
    Keys,
    Lengths,  \* values, told apart by their lengths
    NULL      \* no value

VARIABLES
    value,    \* what a reader gets under each key, now or after a restart
    editing,  \* keys being edited
    running   \* the store is open

vars == <<value, editing, running>>

Init == /\ value   = [k \in Keys |-> NULL]
        /\ editing = {}
        /\ running = FALSE

Open == /\ ~running /\ running'
        /\ UNCHANGED <<editing, value>>

Begin(k) == /\ running /\ k \notin editing
            /\ editing' = editing \cup {k}
            /\ UNCHANGED <<running, value>>

Publish(k) == /\ k \in editing
              /\ editing' = editing \ {k}
              /\ UNCHANGED running
              /\ \E n \in Lengths : value' = [value EXCEPT ![k] = n]

Abandon(k) == /\ k \in editing
              /\ editing' = editing \ {k}
              /\ UNCHANGED <<running, value>>

\* Removed, evicted or, with the whole store, deleted.
Drop == /\ UNCHANGED <<running, editing>>
        /\ \E S \in SUBSET (Keys \ editing) :
               value' = [k \in Keys |-> IF k \in S THEN NULL ELSE value[k]]

Close == /\ running /\ ~running'
         /\ editing = {} /\ editing' = {}
         /\ UNCHANGED value

Crash == /\ running /\ ~running'
         /\ editing' = {}
         /\ value' = [k \in Keys |-> IF k \in editing THEN NULL ELSE value[k]]

Next == \/ Open \/ Close \/ Crash \/ Drop
        \/ \E k \in Keys : Begin(k) \/ Abandon(k) \/ Publish(k)

Spec == Init /\ [][Next]_vars
==============================================================================
