----------------------------- MODULE DiskJournal -----------------------------
(***************************************************************************)
(* The journal of cache/disc/impl/ext/DiskLruCache.java (lines 100-138):   *)
(* its lines and what reading them builds. Entries have one value.         *)
(***************************************************************************)
EXTENDS Integers, Sequences, FiniteSets

CONSTANTS
    Keys,     \* entry keys
    Lengths,  \* lengths of values
    NULL      \* Java null, no file

SE == INSTANCE SequencesExt

None == [k \in Keys |-> NULL]

Count(f) == Cardinality({k \in Keys : f[k] # NULL})

\* lruEntries.get and put keep the keys in access order.
Without(s, k) == SE!RemoveFirst(s, k)
Touched(s, k) == Append(Without(s, k), k)

----------------------------------------------------------------------------
Line(op, k, n) == [op |-> op, key |-> k, len |-> n]
CleanLine(k, n) == Line("CLEAN", k, n)
DirtyLine(k)  == Line("DIRTY", k, 0)
ReadLine(k)   == Line("READ", k, 0)
RemoveLine(k) == Line("REMOVE", k, 0)

\* What a line appended to an unterminated one reads like.
Garbled == Line("garbled", NULL, 0)

\* new Editor(entry) of readJournalLine; nobody holds it.
JOURNALED == "journaled"

Fresh == [readable |-> FALSE, editor |-> NULL, length |-> 0]

\* The lines of a journal, and lruEntries while it is read.
Lines == [op : {"CLEAN", "DIRTY", "READ", "REMOVE"}, key : Keys, len : Lengths \cup {0}]
            \cup {Garbled}
Journaled == [readable : BOOLEAN, editor : {NULL, JOURNALED}, length : Lengths \cup {0}]
JournalStates == [entries : [Keys -> Journaled \cup {NULL}], order : Seq(Keys)]

\* What a line makes of the entry of its key.
EntryAfter(entry, l) ==
    LET found == IF entry = NULL THEN Fresh ELSE entry IN
    CASE l.op = "REMOVE" -> NULL
      [] l.op = "CLEAN"  -> [readable |-> TRUE, editor |-> NULL, length |-> l.len]
      [] l.op = "DIRTY"  -> [found EXCEPT !.editor = JOURNALED]
      [] l.op = "READ"   -> found

\* readJournalLine, as a function of the entries and the order of lruEntries.
ReadJournalLine(l) ==
    [m \in JournalStates |->
        [entries |-> [m.entries EXCEPT ![l.key] = EntryAfter(@, l)],
         order   |-> IF l.op = "REMOVE" THEN Without(m.order, l.key)
                     ELSE Touched(m.order, l.key)]]

\* lruEntries after so many lines.
Readings(lines) ==
    LET m[i \in 0..Len(lines)] ==
            IF i = 0 THEN [entries |-> None, order |-> <<>>]
            ELSE ReadJournalLine(lines[i])[m[i - 1]]
    IN  m

ReadJournal(lines) == Readings(lines)[Len(lines)]

\* The unterminated end is ignored, any other malformed line is an error.
Corrupt(lines) == \E i \in DOMAIN lines : lines[i] = Garbled

\* processJournal: entries left dirty are dropped, one by one.
Kept(m) == {k \in Keys : m.entries[k] # NULL /\ m.entries[k].editor = NULL}

Siftings(s, S) ==
    LET kept[i \in 0..Len(s)] ==
            IF i = 0 THEN <<>>
            ELSE IF s[i] \in S THEN Append(kept[i - 1], s[i]) ELSE kept[i - 1]
    IN  kept

ProcessJournal(m) ==
    [entries |-> [k \in Keys |-> IF k \in Kept(m) THEN m.entries[k] ELSE NULL],
     order   |-> Siftings(m.order, Kept(m))[Len(m.order)]]
==============================================================================
