----------------------------- MODULE DiskLruCache -----------------------------
(***************************************************************************)
(* cache/disc/impl/ext/DiskLruCache.java with one value per entry, as      *)
(* LruDiskCache opens it: the entries and counters in memory, the journal  *)
(* with its write buffer, and the files. The process may die between any   *)
(* two file operations. Every public method holds the monitor of the       *)
(* cache; a method of several file operations is several actions, and      *)
(* `busy` tells which one owns the monitor meanwhile.                      *)
(***************************************************************************)
EXTENDS DiskJournal, Sums

CONSTANTS
    Edits,             \* callers that edit; each holds one Editor at a time
    MaxSize,           \* maxSize
    MaxFileCount,      \* maxFileCount
    CompactThreshold,  \* redundantOpCompactThreshold, 2000 in the code
    MaxCalls,          \* bound on get() and edit(), which make the journal grow
    Env                \* what may happen besides, a subset of EnvEvents

\* The process dies, the full journal buffer is written out in the middle
\* of a line, a write to a file fails, the cache is deleted.
EnvEvents == {"crash", "spill", "writeError", "delete"}

ASSUME LengthsAssumption == Lengths \subseteq Nat \ {0} /\ Lengths # {}
ASSUME LimitsAssumption  == MaxSize \in Nat \ {0} /\ MaxFileCount \in Nat \ {0}
ASSUME BoundsAssumption  == CompactThreshold \in Nat /\ MaxCalls \in Nat
ASSUME EnvAssumption     == Env \subseteq EnvEvents
ASSUME KeysAssumption    == IsFiniteSet(Keys)

VARIABLES
    \* the instance
    isOpen,     \* journalWriter # null
    entries,    \* lruEntries: [readable, editor, length] or NULL
    order,      \* keys of lruEntries, least recently used first
    size, fileCount,
    redundant,  \* redundantOpCount
    buffer,     \* lines written to journalWriter and not flushed
    cleanup,    \* cleanupCallable waits in executorService
    busy,       \* the method inside the monitor between two actions
    editors,    \* the Editor of each caller, or NULL
    \* the directory
    clean, dirty,  \* length of each key's file and .tmp file
    journal, journalTmp, journalBackup,
    torn,       \* the journal ends in a line without "\n": "none"; "head" of
                \* the first buffered line; "dead", its rest was lost
    \* history
    calls,      \* for the bound
    cut         \* the process died while the directory was being deleted

lruVars     == <<entries, order>>
countVars   == <<size, fileCount, redundant>>
fileVars    == <<clean, dirty>>
journalVars == <<journal, journalTmp, journalBackup, torn>>
vars == <<isOpen, lruVars, countVars, buffer, cleanup, busy, editors, fileVars,
          journalVars, calls, cut>>

IDLE == [op |-> "idle", arg |-> NULL, old |-> NULL, new |-> FALSE]
Idle == busy = IDLE
Ready == isOpen /\ Idle
Busy(op, arg) == busy' = [IDLE EXCEPT !.op = op, !.arg = arg]

LengthOf(entry) == IF entry = NULL THEN 0 ELSE entry.length
Total(e) == SumOf([k \in Keys |-> LengthOf(e[k])])

----------------------------------------------------------------------------
\* The journal file after some lines are written to it.
Written(lines) ==
    IF torn = "dead" /\ lines # <<>>
    THEN journal \o <<Garbled>> \o Tail(lines)
    ELSE journal \o lines

Flushed(lines) == /\ journal' = Written(lines)
                  /\ buffer'  = <<>>
                  /\ torn'    = IF lines = <<>> THEN torn ELSE "none"
                  /\ UNCHANGED <<journalTmp, journalBackup>>

\* The journal open() reads: the backup stands in for a missing one.
Found == IF journal = NULL THEN journalBackup ELSE journal
OnDisk == IF Found = NULL THEN <<>> ELSE Found

\* The entries a restart at this moment would find.
Recovered == IF Corrupt(OnDisk) THEN None ELSE ProcessJournal(ReadJournal(OnDisk)).entries

\* journalRebuildRequired
RebuildRequired(n, e) == n >= CompactThreshold /\ n >= Count(e)

----------------------------------------------------------------------------
Init ==
    /\ isOpen = FALSE /\ entries = None /\ order = <<>>
    /\ size = 0 /\ fileCount = 0 /\ redundant = 0
    /\ buffer = <<>> /\ cleanup = FALSE
    /\ busy = IDLE
    /\ editors = [e \in Edits |-> NULL]
    /\ clean = None /\ dirty = None
    /\ journal = NULL /\ journalTmp = NULL /\ journalBackup = NULL
    /\ torn = "none"
    /\ calls = 0 /\ cut = FALSE

Called == calls < MaxCalls /\ calls' = calls + 1 /\ UNCHANGED cut

Append1(line) == buffer' = Append(buffer, line) /\ UNCHANGED journalVars

SubmitIf(needed) == cleanup' = (cleanup \/ needed)

OverLimit == size > MaxSize \/ fileCount > MaxFileCount

----------------------------------------------------------------------------
(***************************************************************************)
(* open(), and the end of an instance.                                     *)
(***************************************************************************)

\* The lines are read, dirty entries and their files dropped.
OpenJournal ==
    LET m == ReadJournal(OnDisk)
        p == ProcessJournal(m)
        Doomed(k) == m.entries[k] # NULL /\ k \notin Kept(m)
    IN  /\ ~isOpen /\ Idle
        /\ Found # NULL /\ ~Corrupt(OnDisk)
        /\ isOpen' = TRUE
        /\ entries' = p.entries /\ order' = p.order
        /\ size' = Total(p.entries) /\ fileCount' = Count(p.entries)
        /\ redundant' = Len(OnDisk) - Count(m.entries)
        /\ clean' = [k \in Keys |-> IF Doomed(k) THEN NULL ELSE clean[k]]
        /\ dirty' = [k \in Keys |-> IF Doomed(k) THEN NULL ELSE dirty[k]]
        /\ journal' = OnDisk /\ journalTmp' = NULL /\ journalBackup' = NULL
        /\ UNCHANGED <<torn, buffer, cleanup, busy, editors, calls, cut>>

\* No journal: a new empty cache, whatever else is in the directory.
OpenNew ==
    /\ ~isOpen /\ Idle
    /\ Found = NULL
    /\ isOpen' = TRUE
    /\ journal' = <<>> /\ journalTmp' = NULL /\ torn' = "none"
    /\ UNCHANGED <<lruVars, countVars, journalBackup, buffer, cleanup, busy,
                   editors, fileVars, calls, cut>>

\* A corrupt journal: the directory is deleted and a new cache made.
OpenCorrupt ==
    /\ ~isOpen /\ Idle
    /\ Corrupt(OnDisk)
    /\ Busy("deleting", "open")
    /\ journal' = OnDisk /\ journalBackup' = NULL
    /\ UNCHANGED <<isOpen, lruVars, countVars, buffer, cleanup, editors,
                   fileVars, journalTmp, torn, calls, cut>>

Open == OpenJournal \/ OpenNew \/ OpenCorrupt

\* What only lived in memory is gone.
Gone == /\ isOpen' = FALSE /\ entries' = None /\ order' = <<>>
        /\ size' = 0 /\ fileCount' = 0 /\ redundant' = 0
        /\ cleanup' = FALSE

\* The process dies; the buffered lines are lost.
Crash ==
    /\ "crash" \in Env
    /\ isOpen \/ ~Idle
    /\ Gone
    /\ buffer' = <<>>
    /\ busy' = IDLE
    /\ editors' = [e \in Edits |-> NULL]
    /\ torn' = IF torn = "head" THEN "dead" ELSE torn
    /\ cut' = (cut \/ busy.op = "deleting")
    /\ UNCHANGED <<fileVars, journal, journalTmp, journalBackup, calls>>

\* BufferedWriter's 8192 characters are full: they are written up to the
\* middle of the last line (each line of the model stands for many).
Spill ==
    LET n == Len(buffer) IN
    /\ "spill" \in Env
    /\ Ready /\ n > 0
    /\ n > 1 \/ torn = "none"
    /\ journal' = Written(SubSeq(buffer, 1, n - 1))
    /\ buffer'  = <<buffer[n]>>
    /\ torn'    = "head"
    /\ UNCHANGED <<isOpen, lruVars, countVars, cleanup, busy, editors, fileVars,
                   journalTmp, journalBackup, calls, cut>>

----------------------------------------------------------------------------
\* get(): an entry whose file is missing is used all the same, but nothing
\* is returned or logged.
Get(k) ==
    /\ Ready /\ Called
    /\ entries[k] # NULL
    /\ order' = Touched(order, k)
    /\ IF entries[k].readable /\ clean[k] # NULL
       THEN /\ redundant' = redundant + 1
            /\ Append1(ReadLine(k))
            /\ SubmitIf(RebuildRequired(redundant + 1, entries))
       ELSE UNCHANGED <<redundant, buffer, journalVars, cleanup>>
    /\ UNCHANGED <<isOpen, entries, size, fileCount, busy, editors, fileVars>>

\* The journal is flushed before files are created. Variant: it is not.
DirtyBuffered(k) == Append1(DirtyLine(k))
DirtyLogged(k) == Flushed(Append(buffer, DirtyLine(k)))

\* edit(): null if another edit is in progress.
Edit(e, k) ==
    /\ Ready /\ Called
    /\ editors[e] = NULL
    /\ order' = Touched(order, k)
    /\ LET old == IF entries[k] = NULL THEN Fresh ELSE entries[k] IN
       IF old.editor # NULL
       THEN UNCHANGED <<entries, editors, buffer, journalVars>>
       ELSE /\ entries' = [entries EXCEPT ![k] = [old EXCEPT !.editor = e]]
            /\ editors' = [editors EXCEPT ![e] =
                   [key |-> k, written |-> FALSE, errors |-> FALSE, dropping |-> FALSE]]
            /\ DirtyLogged(k)
    /\ UNCHANGED <<isOpen, countVars, cleanup, busy, fileVars>>

\* entry.currentEditor == editor
Current(e) == /\ editors[e] # NULL
              /\ entries[editors[e].key] # NULL
              /\ entries[editors[e].key].editor = e

\* newOutputStream() and the writing: LruDiskCache opens one stream. A
\* failed write is noticed at the commit only.
Write(e, n, failed) ==
    /\ Idle /\ Current(e) /\ ~editors[e].written
    /\ failed => "writeError" \in Env
    /\ dirty' = [dirty EXCEPT ![editors[e].key] = n]
    /\ editors' = [editors EXCEPT ![e].written = TRUE, ![e].errors = failed]
    /\ UNCHANGED <<isOpen, lruVars, countVars, buffer, cleanup, busy, clean,
                   journalVars, calls, cut>>

Release(e) == editors' = [editors EXCEPT ![e] = NULL]

\* completeEdit(editor, false): the .tmp file goes, then the journal gets a
\* CLEAN or a REMOVE line. (One step: a restart deletes the files of a dirty
\* entry, so a crash in between leaves what a crash before leaves.)
FailEdit(e) ==
    LET k == editors[e].key
        kept == entries[k].readable
    IN  /\ dirty' = [dirty EXCEPT ![k] = NULL]
        /\ entries' = [entries EXCEPT ![k] =
                          IF kept THEN [@ EXCEPT !.editor = NULL] ELSE NULL]
        /\ order' = IF kept THEN order ELSE Without(order, k)
        /\ redundant' = redundant + 1
        /\ Flushed(Append(buffer, IF kept THEN CleanLine(k, entries[k].length)
                                  ELSE RemoveLine(k)))
        /\ SubmitIf(OverLimit \/ RebuildRequired(redundant', entries'))
        /\ UNCHANGED <<isOpen, size, fileCount, clean, calls, cut>>

Abort(e) == /\ Idle /\ Current(e)
            /\ FailEdit(e)
            /\ Release(e)
            /\ UNCHANGED busy

\* commit() or abort() of an editor that close() aborted: exception.
EndStale(e) ==
    /\ Idle /\ editors[e] # NULL
    /\ ~Current(e) /\ ~editors[e].dropping
    /\ Release(e)
    /\ UNCHANGED <<isOpen, lruVars, countVars, buffer, cleanup, busy, fileVars,
                   journalVars, calls, cut>>

\* commit() without a value for a new entry: aborted.
CommitNothing(e) ==
    /\ Idle /\ Current(e) /\ ~editors[e].written
    /\ ~entries[editors[e].key].readable
    /\ FailEdit(e)
    /\ Release(e)
    /\ UNCHANGED busy

\* commit() after a write error, first half: completeEdit(this, false). The
\* monitor is free until remove() takes it again.
CommitFailed(e) ==
    /\ Idle /\ Current(e) /\ editors[e].errors
    /\ FailEdit(e)
    /\ editors' = [editors EXCEPT ![e].dropping = TRUE]
    /\ UNCHANGED busy

\* completeEdit(editor, true): the .tmp file replaces the file ...
Commit(e) ==
    LET k == editors[e].key IN
    /\ Idle /\ Current(e) /\ ~editors[e].errors
    /\ entries[k].readable \/ editors[e].written
    /\ busy' = [op |-> "publish", arg |-> e, old |-> clean[k], new |-> dirty[k] # NULL]
    /\ clean' = IF dirty[k] # NULL THEN [clean EXCEPT ![k] = dirty[k]] ELSE clean
    /\ dirty' = [dirty EXCEPT ![k] = NULL]
    /\ UNCHANGED <<isOpen, lruVars, countVars, buffer, cleanup, editors,
                   journalVars, calls, cut>>

\* ... and the journal gets its CLEAN line. `length` is what clean.length()
\* says, or what the entry had if no file was written.
PublishAs(e, length, newSize, newCount) ==
    /\ busy.op = "publish" /\ busy.arg = e
    /\ entries' = [entries EXCEPT ![editors[e].key] =
                       [readable |-> TRUE, editor |-> NULL, length |-> length]]
    /\ size' = newSize
    /\ fileCount' = newCount
    /\ redundant' = redundant + 1
    /\ Flushed(Append(buffer, CleanLine(editors[e].key, length)))
    /\ SubmitIf(OverLimit' \/ RebuildRequired(redundant', entries'))
    /\ Release(e) /\ busy' = IDLE
    /\ UNCHANGED <<isOpen, order, fileVars, calls, cut>>

OldLength(e) == entries[editors[e].key].length
NewLength(e) == IF busy.new THEN clean[editors[e].key] ELSE OldLength(e)
FilesAfter == IF busy.new THEN fileCount + 1 ELSE fileCount

\* Variants: the old length is not given back; the file is not counted.
PublishAdding(e) == PublishAs(e, NewLength(e), size + NewLength(e), FilesAfter)
PublishUncounted(e) ==
    PublishAs(e, NewLength(e), size - OldLength(e) + NewLength(e), fileCount)

\* Every commit of a file counts one more file, also when it replaces one.
Publish(e) == PublishAs(e, NewLength(e), size - OldLength(e) + NewLength(e), FilesAfter)

----------------------------------------------------------------------------
\* remove(), on an entry nobody edits. The journal line is not flushed.
RemoveEntry(k) ==
    /\ clean' = [clean EXCEPT ![k] = NULL]
    /\ size' = size - entries[k].length
    /\ fileCount' = fileCount - 1
    /\ redundant' = redundant + 1
    /\ Append1(RemoveLine(k))
    /\ entries' = [entries EXCEPT ![k] = NULL]
    /\ order' = Without(order, k)
    /\ SubmitIf(RebuildRequired(redundant', entries'))
    /\ UNCHANGED dirty

Removable(k) == entries[k] # NULL /\ entries[k].editor = NULL

\* An entry that is edited is only touched.
RemoveOrTouch(k) ==
    IF Removable(k)
    THEN RemoveEntry(k)
    ELSE /\ order' = IF entries[k] = NULL THEN order ELSE Touched(order, k)
         /\ UNCHANGED <<entries, countVars, buffer, cleanup, fileVars, journalVars>>

Remove(k) == /\ Ready
             /\ entries[k] # NULL
             /\ RemoveOrTouch(k)
             /\ UNCHANGED <<isOpen, busy, editors, calls, cut>>

\* commit() after a write error, second half: the previous value is stale.
RemoveFailed(e) ==
    /\ Ready /\ editors[e] # NULL /\ editors[e].dropping
    /\ RemoveOrTouch(editors[e].key)
    /\ Release(e)
    /\ UNCHANGED <<isOpen, busy, calls, cut>>

----------------------------------------------------------------------------
(***************************************************************************)
(* Trimming: the cleanup task, flush(), close() and delete() go through    *)
(* trimToSize and trimToFileCount with the monitor held.                   *)
(***************************************************************************)
Cleanup == /\ cleanup /\ Ready
           /\ cleanup' = FALSE
           /\ Busy("trim", "cleanup")
           /\ UNCHANGED <<isOpen, lruVars, countVars, buffer, editors, fileVars,
                          journalVars, calls, cut>>

Flush == /\ Ready
         /\ Busy("trim", "flush")
         /\ UNCHANGED <<isOpen, lruVars, countVars, buffer, cleanup, editors,
                        fileVars, journalVars, calls, cut>>

Close == /\ Ready
         /\ Busy("abort", "close")
         /\ UNCHANGED <<isOpen, lruVars, countVars, buffer, cleanup, editors,
                        fileVars, journalVars, calls, cut>>

Delete == /\ "delete" \in Env
          /\ Ready
          /\ Busy("abort", "delete")
          /\ UNCHANGED <<isOpen, lruVars, countVars, buffer, cleanup, editors,
                         fileVars, journalVars, calls, cut>>

\* close() aborts the edits in progress, in the order of lruEntries.
Edited(i) == entries[order[i]].editor # NULL

CloseAborts ==
    /\ busy.op = "abort"
    /\ \/ \E i \in DOMAIN order :
             /\ Edited(i) /\ \A j \in 1..(i - 1) : ~Edited(j)
             /\ FailEdit(entries[order[i]].editor)
             /\ UNCHANGED busy
       \/ /\ \A i \in DOMAIN order : ~Edited(i)
          /\ Busy("trim", busy.arg)
          /\ UNCHANGED <<isOpen, lruVars, countVars, buffer, cleanup, fileVars,
                         journalVars, calls, cut>>
    /\ UNCHANGED editors

\* The eldest entry is removed; one under edit goes to the end instead.
TrimEldest ==
    /\ busy.op = "trim" /\ OverLimit /\ order # <<>>
    /\ RemoveOrTouch(Head(order))
    /\ UNCHANGED <<isOpen, busy, editors, calls, cut>>

\* iterator().next() on no entries: the exception leaves the method.
TrimThrows ==
    /\ busy.op = "trim" /\ OverLimit /\ order = <<>>
    /\ busy' = IDLE
    /\ UNCHANGED <<isOpen, lruVars, countVars, buffer, cleanup, editors, fileVars,
                   journalVars, calls, cut>>

Trimmed(for) == busy.op = "trim" /\ busy.arg = for /\ ~OverLimit

EndCleanup ==
    /\ Trimmed("cleanup")
    /\ IF RebuildRequired(redundant, entries) THEN Busy("rebuild", NULL) ELSE busy' = IDLE
    /\ UNCHANGED <<isOpen, lruVars, countVars, buffer, cleanup, editors, fileVars,
                   journalVars, calls, cut>>

EndFlush == /\ Trimmed("flush")
            /\ Flushed(buffer)
            /\ busy' = IDLE
            /\ UNCHANGED <<isOpen, lruVars, countVars, cleanup, editors, fileVars,
                           calls, cut>>

\* A commit after a write error that comes too late for its remove() throws.
EndClose == /\ Trimmed("close") \/ Trimmed("delete")
            /\ Flushed(buffer)
            /\ Gone
            /\ IF busy.arg = "delete" THEN Busy("deleting", NULL) ELSE busy' = IDLE
            /\ editors' = [e \in Edits |-> IF editors[e] = NULL THEN NULL
                               ELSE [editors[e] EXCEPT !.dropping = FALSE]]
            /\ UNCHANGED <<fileVars, calls, cut>>

\* deleteContents: the files in the order the file system lists them.
DeleteFile ==
    /\ busy.op = "deleting"
    /\ \/ \E k \in Keys :
             \/ clean[k] # NULL /\ clean' = [clean EXCEPT ![k] = NULL]
                /\ UNCHANGED <<dirty, journal, journalTmp, torn>>
             \/ dirty[k] # NULL /\ dirty' = [dirty EXCEPT ![k] = NULL]
                /\ UNCHANGED <<clean, journal, journalTmp, torn>>
       \/ journal # NULL /\ journal' = NULL /\ torn' = "none"
          /\ UNCHANGED <<fileVars, journalTmp>>
       \/ journalTmp # NULL /\ journalTmp' = NULL
          /\ UNCHANGED <<fileVars, journal, torn>>
    /\ UNCHANGED <<isOpen, lruVars, countVars, buffer, cleanup, busy, editors,
                   journalBackup, calls, cut>>

\* All is deleted; open() goes on with a new cache.
EndDelete ==
    /\ busy.op = "deleting"
    /\ clean = None /\ dirty = None /\ journal = NULL /\ journalTmp = NULL
    /\ busy' = IDLE
    /\ isOpen' = (busy.arg = "open")
    /\ journal' = IF busy.arg = "open" THEN <<>> ELSE NULL
    /\ UNCHANGED <<lruVars, countVars, buffer, cleanup, editors, fileVars,
                   journalTmp, journalBackup, torn, calls, cut>>

----------------------------------------------------------------------------
(***************************************************************************)
(* rebuildJournal, one action per file operation.                          *)
(***************************************************************************)
\* Variant: as if no entry were edited.
SnapshotAllClean == [i \in DOMAIN order |-> CleanLine(order[i], entries[order[i]].length)]
SnapshotLines ==
    [i \in DOMAIN order |-> IF entries[order[i]].editor # NULL THEN DirtyLine(order[i])
                            ELSE CleanLine(order[i], entries[order[i]].length)]

RebuildStep(from, to) == /\ busy.op = from
                         /\ Busy(to, NULL)
                         /\ UNCHANGED <<isOpen, lruVars, size, fileCount, cleanup,
                                        editors, fileVars, calls, cut>>

RebuildWrite == /\ RebuildStep("rebuild", "backup")
                /\ journalTmp' = SnapshotLines
                /\ journal' = Written(buffer) /\ buffer' = <<>>
                /\ torn' = IF buffer = <<>> THEN torn ELSE "none"
                /\ UNCHANGED <<journalBackup, redundant>>

\* Variant: the old journal is not kept until the new one is in place.
RebuildNoBackup == /\ RebuildStep("backup", "swap")
                   /\ journal' = NULL
                   /\ UNCHANGED <<journalTmp, journalBackup, torn, buffer, redundant>>

RebuildBackup == /\ RebuildStep("backup", "swap")
                 /\ journalBackup' = journal
                 /\ journal' = NULL
                 /\ UNCHANGED <<journalTmp, torn, buffer, redundant>>

RebuildSwap == /\ RebuildStep("swap", "unback")
               /\ journal' = journalTmp
               /\ journalTmp' = NULL
               /\ torn' = "none"
               /\ UNCHANGED <<journalBackup, buffer, redundant>>

RebuildEnd == /\ busy.op = "unback"
              /\ busy' = IDLE
              /\ journalBackup' = NULL
              /\ redundant' = 0
              /\ UNCHANGED <<isOpen, lruVars, size, fileCount, buffer, cleanup,
                             editors, fileVars, journal, journalTmp, torn, calls, cut>>

Rebuild == RebuildWrite \/ RebuildBackup \/ RebuildSwap \/ RebuildEnd

----------------------------------------------------------------------------
EndEdit(e) == \/ Commit(e) \/ CommitNothing(e) \/ CommitFailed(e) \/ RemoveFailed(e)
              \/ Abort(e) \/ EndStale(e)

\* The method inside the monitor goes on.
Inside == \/ \E e \in Edits : Publish(e)
          \/ CloseAborts \/ TrimEldest \/ TrimThrows
          \/ EndCleanup \/ EndFlush \/ EndClose
          \/ DeleteFile \/ EndDelete \/ Rebuild

Call == \/ Open \/ Flush \/ Close \/ Delete
        \/ \E k \in Keys : Get(k) \/ Remove(k) \/ \E e \in Edits : Edit(e, k)
        \/ \E e \in Edits, n \in Lengths, failed \in BOOLEAN : Write(e, n, failed)

Next == \/ Call \/ Cleanup \/ Inside
        \/ \E e \in Edits : EndEdit(e)
        \/ Spill \/ Crash

Spec == Init /\ [][Next]_vars

----------------------------------------------------------------------------
Entries == [readable : BOOLEAN, editor : Edits \cup {NULL}, length : Lengths \cup {0}]
EditorStates == [key : Keys, written : BOOLEAN, errors : BOOLEAN, dropping : BOOLEAN]

ASSUME NullAssumption ==
    NULL \notin Keys \cup Edits \cup Lengths \cup Entries \cup EditorStates
                 \cup Journaled \cup Seq(Lines) \cup {JOURNALED}
Ops == {"idle", "publish", "abort", "trim", "deleting", "rebuild", "backup", "swap", "unback"}

TypeOK ==
    /\ isOpen \in BOOLEAN /\ cleanup \in BOOLEAN /\ cut \in BOOLEAN
    /\ entries \in [Keys -> Entries \cup {NULL}]
    /\ order \in Seq(Keys)
    /\ size \in Nat /\ fileCount \in Nat /\ redundant \in Nat
    /\ buffer \in Seq(Lines)
    /\ busy.op \in Ops
    /\ editors \in [Edits -> EditorStates \cup {NULL}]
    /\ clean \in [Keys -> Lengths \cup {NULL}] /\ dirty \in [Keys -> Lengths \cup {NULL}]
    /\ \A j \in {journal, journalTmp, journalBackup} : j = NULL \/ j \in Seq(Lines)
    /\ torn \in {"none", "head", "dead"}
    /\ calls \in 0..MaxCalls

\* The byte count is the sum of the published lengths, through commits that
\* replace a value, failed edits, evictions, and the count made at open().
SizeIsTotal == isOpen => size = Total(entries)

\* The file count never falls below the number of published entries: trimming
\* never stops early because of it.
FileCountCovers ==
    isOpen => fileCount >= Cardinality({k \in Keys : entries[k] # NULL /\ entries[k].readable})

\* The counts the limits are compared with, and types.
CountsExact == TypeOK /\ SizeIsTotal /\ FileCountCovers

\* The journal, with what is still in its buffer, tells the whole state: read
\* back, it gives the entries in memory that nobody edits, and no others.
JournalMirrorsMemory ==
    LET all == OnDisk \o buffer
        Unedited(k) == IF entries[k] # NULL /\ entries[k].editor = NULL
                       THEN entries[k] ELSE NULL
    IN  isOpen /\ torn # "dead" /\ ~Corrupt(all) =>
            ProcessJournal(ReadJournal(all)).entries = [k \in Keys |-> Unedited(k)]

\* "Committing is atomic" (line 74), through crashes too: an entry a restart
\* would bring back has the file its last CLEAN line speaks of, or none.
RecoveredAreWhole ==
    \A k \in Keys : Recovered[k] # NULL /\ clean[k] # NULL =>
        Recovered[k].readable /\ clean[k] = Recovered[k].length

\* "Flush the journal before creating files to prevent file leaks" (line
\* 483): a file in the directory belongs to an entry a restart knows of, to
\* keep it or to delete it. Deleting the directory is the exception: it may
\* be cut short with the journal already gone.
NoLeaks ==
    ~cut /\ busy.op # "deleting" /\ ~Corrupt(OnDisk) =>
        \A k \in Keys : clean[k] # NULL \/ dirty[k] # NULL =>
            ReadJournal(OnDisk).entries[k] # NULL

\* What a restart finds is whole, and it finds all there is.
RecoveryWhole == RecoveredAreWhole /\ NoLeaks

\* What readers get of each key, or would get after a restart.
Visible ==
    LET found == Recovered
        Read(k) == IF entries[k] = NULL \/ ~entries[k].readable THEN NULL
                   ELSE IF busy.op = "publish" /\ editors[busy.arg].key = k THEN busy.old
                   ELSE clean[k]
    IN  [k \in Keys |-> IF isOpen THEN Read(k) ELSE IF found[k] = NULL THEN NULL ELSE clean[k]]

Store == INSTANCE PersistentStore WITH
             value   <- Visible,
             editing <- {k \in Keys : entries[k] # NULL /\ entries[k].editor # NULL},
             running <- isOpen

\* A crash left an unterminated line, or a line was since glued to it: the open()
\* after that deletes the cache.
Damaged == torn = "dead" \/ Corrupt(OnDisk \o buffer)

\* The cache implements a store that loses nothing but what it dropped or
\* what was being edited when the process died, as long as no crash has cut a
\* line of the journal in two.
StoreSpec == Store!Init /\ [][Damaged \/ Damaged' \/ Store!Next]_(Store!vars)
=============================================================================
