# Formal models of bpp-android-sdk

bpp-android-sdk is an Android image SDK: a fork of Universal-Image-Loader
(`src/imagedownloader/`), a BPG decoder reached through JNI (`src/bpgdecoder/`,
with the C library libbpg and its copy of libavcodec's HEVC decoder) and a demo
application (`src/app/`). This directory models the parts that keep state and
run concurrently, and the algorithms whose order matters, checks them with TLC
on small instances and proves the main results with TLAPS. Java paths below are
relative to `src/imagedownloader/src/main/java/com/xmtj/imagedownloader/`, C
files are those of `src/bpgdecoder/src/main/jni/`.

## 1. The system

| Part | State it keeps | Operations | Hard behaviour |
|---|---|---|---|
| `core/ImageLoader` | configuration, engine reference | displayImage, loadImage, loadImageSync, cancelDisplayTask, pause, resume, stop, clear caches | memory hit path and task path answer the same view; callers on and off the UI thread |
| `core/ImageLoaderEngine` | `cacheKeysForImageAwares` (view id -> key), `uriLocks`, `paused`, `networkDenied`, three executors | submit, prepare/cancel display task, pause, resume, stop, getLockForUri | executors shut down and recreated, tables cleared while tasks run |
| `core/LoadAndDisplayImageTask` | program counter, `loadedFrom`, the uri lock it holds | run: wait while paused, delay, lock, memory cache, disk cache, network, decode, put, post | a view is reused, collected or cancelled between any two steps; thread interrupts |
| `core/DisplayBitmapTask`, `core/ProcessAndDisplayImageTask` | the bitmap and key of one task | run on the UI thread / on a pool | last reuse check before showing |
| `core/imageaware/*` | weak reference to a view, its id | getId, isCollected, setImage | ids of collected views, ids made of uri hash codes |
| `cache/memory/impl/LruMemoryCache` | access-ordered map, byte count | get, put, remove, clear, keys | trim leaves the monitor between evictions |
| `cache/memory/LimitedMemoryCache` over `BaseMemoryCache`, with FIFO, LRU, largest and least used first | strong list, policy structure, weak map, atomic size | get, put, remove, clear | four structures updated without one lock |
| `cache/memory/impl/{LimitedAge,FuzzyKey}MemoryCache` | load dates / comparator over a wrapped cache | get, put, remove, clear | check then act on the wrapped cache |
| `cache/disc/impl/ext/DiskLruCache` | entries, lru order, size, file count, journal writer, files | open, get, edit, commit, abort, remove, trim, rebuild, close, delete | a crash between any two file operations; journal replay; background cleanup |
| `cache/disc/impl/ext/LruDiskCache` | reference to the DiskLruCache | get, save, remove, clear, close | clear deletes and reopens while pool threads save |
| `cache/disc/impl/{Base,LimitedAge,Unlimited}DiskCache` | directory, load dates | get, save (tmp + rename), remove, clear | partial writes, reserve directory |
| `core/assist/deque/LinkedBlockingDeque` and the queue of `DefaultConfigurationFactory` | linked nodes, count, a lock and two conditions, iterators | put, take, offer, poll at both ends, remove, clear, drainTo, iterators | interrupts and timeouts between a signal and its waiter; nodes unlinked under an iterator |
| `core/download/*`, `utils/IoUtils`, `core/assist/ContentLengthInputStream`, `FlushedInputStream` | one stream | redirects, copy, 75 % interruption rule | a copy stopped late |
| `core/decode/*`, `utils/ImageSizeUtils`, `core/process`, `core/display` | none | scaling arithmetic, decoding, drawing | integer rounding |
| `core/listener/PauseOnScrollListener` | two flags | onScrollStateChanged | pause left set |
| `bpg-utils/*.c`, `BPG.java`, `DecoderWrapper.java` | buffers of one call | getBufferSize, decodeBuffer | row padding, failure results |
| `libbpg/libbpg.c` | one context: two decoders, two pictures, position in the stream, current line, circular chroma buffer | open, decode, start, get_line, close | frames split from the stream, frames started early, failures half way |
| `libbpg/libavutil/buffer.c` | reference counts, lock-free list of free buffers | pool_get, ref, unref, make_writable, pool_uninit | every access a compare-and-swap away from another thread |
| `libbpg/libavcodec/hevc_refs.c`, `hevc.c`, `hevc_ps.c` | picture slots with flags, order counts, sequence counters, parameter sets | a packet: parameter sets, slices, output, bumping | a sequence that begins while pictures wait; errors half way through a packet |
| `hevc.c`, `hevc_cabac.c`, `hevc_filter.c`, `hevc_mvs.c` | availability of neighbours, saved contexts, filter progress | one coding tree block after the other | slices, tiles and synchronised rows, lost segments |
| `hevc.c`, `hevc_filter.c` (QP), `hevcpred_template.c` | quadtree, QP table, sample planes | coding units, QP prediction, intra prediction | quantization groups across units; samples that must be substituted |
| `src/app` | demo screens | configures the loader, calls stop and clear | not modelled (UI) |

Calls and shared state. `ImageLoader.displayImage` (normally on the UI thread)
writes the view's key into the engine's table, answers from the memory cache if
it can and otherwise submits a `LoadAndDisplayImageTask`. The engine's
distributor pool looks into the disk cache to choose between the pool for cached
images and the pool for network loads; with LIFO order the pools' queue is a
`LinkedBlockingDeque`. Tasks for one uri serialise on a lock from `uriLocks`;
the task reads and fills both caches, and posts its callbacks and the final
`DisplayBitmapTask` to the UI thread's `Handler`, a FIFO queue. Every party
decides whether it is still wanted by comparing its key with the table entry of
its view. A file that is a BPG image goes through the JNI wrapper to
`decode_buffer`, which opens a libbpg context, decodes the NAL units of the
colour and alpha layers with one HEVC decoder each, and reads the picture line
by line into a bitmap file in memory. The HEVC decoder keeps pictures in its
picture buffer and takes their tables from buffer pools.

### What makes each part correct

- **Loader** (`ImageLoader`, engine, tasks): a bitmap that appears in a view is
  the one last requested for it; the request a view waits for is never lost;
  a listener hears `onLoadingStarted` and then at most one of the three ends;
  every way out of a task releases the uri lock; a task never sleeps through
  its notification.
- **LruMemoryCache**: the byte count is the sum of the cached sizes, the limit
  holds whenever nobody is trimming, evictions take the least recently used.
- **Limited memory caches**: the byte count is that of the strong list but for
  the updates under way; the limit holds. The second is true of one thread only:
  several pass it, by no more than those that put at once can add.
- **DiskLruCache**: a value is published in one step, survives a close and a
  crash, and is lost only when it is dropped or was being edited; the journal
  tells the state in memory; counts agree with the files; no file is leaked.
- **LruDiskCache, BaseDiskCache, LimitedAgeDiskCache**: a reader never gets a
  half-written file; clear and save may interleave.
- **Deque**: one chain, the same in both directions; no wakeup is lost;
  iterators hand out once and in order what stays; it is the sequence its
  interface promises.
- **libbpg**: lines belong to the frame started last; a line is interpolated
  from the chroma lines around it; the bitmap file is whole; header numbers and
  NAL units arrive as they were written.
- **Buffer pool**: a buffer has one owner, a written one no second reference,
  the pool is freed once and last, some thread always gets on.
- **HEVC**: a reference stays while it is needed, pictures come out in order and
  none is stranded; neighbours, contexts, QPs and intra samples are those of
  H.265; each filter runs after what it needs, once for every block.

## 2. The modules

| Module | Models | Uses |
|---|---|---|
| `MemoryCache` | abstract bounded map: what `MemoryCache` implementations promise | - |
| `LruMemoryCache` | `cache/memory/impl/LruMemoryCache.java` | implements `MemoryCache` |
| `LruHistory` | when each key was last used, beside `LruMemoryCache` | `LruMemoryCache` |
| `LimitedMemoryCache` | `LimitedMemoryCache.java`, `BaseMemoryCache.java` and the four policies | `Sums` |
| `Sums` | the sum of a function over a finite set | - |
| `ImageLoaderEngine` | `core/ImageLoaderEngine.java`: tables, switches, executors | - |
| `LoadAndDisplayImageTask` | `core/LoadAndDisplayImageTask.java`, `ProcessAndDisplayImageTask.java` | `ImageLoaderEngine` |
| `ImageLoader` | `core/ImageLoader.java`, `DisplayBitmapTask.java`, the Handler; composes the three | `LoadAndDisplayImageTask` |
| `PersistentStore` | abstract crash-safe store | - |
| `DiskJournal` | lines of the journal and reading them back, without state | - |
| `DiskLruCache` | `cache/disc/impl/ext/DiskLruCache.java` with its directory | `DiskJournal`, `Sums`; implements `PersistentStore` |
| `BlockingDeque` | abstract bounded sequence with two ends: `BlockingDeque.java` | - |
| `LinkedBlockingDeque` | `core/assist/deque/LinkedBlockingDeque.java` | implements `BlockingDeque` |
| `BPGDecoder` | the context of `libbpg.c`, and `decode_buffer` and `bmp_save_to_buffer` of `decoder.c` | - |
| `BPGFormat` | bytes: `get_ue`, the SPS that `build_msps` writes, escapes, the search for NAL units | - |
| `BufferPool` | `libavutil/buffer.c` | - |
| `HEVCRefs` | picture buffer: `hevc_refs.c`, packet handling of `hevc.c`, `hevc_ps.c` | - |
| `HEVCSlices` | coding tree blocks of one picture: neighbours, contexts, filters | - |
| `HEVCQuant` | coding quadtree and luma QP | - |
| `HEVCIntra` | the samples an intra block is predicted from | - |
| `MC*` | constants, symmetry and constraints of one run; the history of the deque's iterators and the statements of comments that fail | the module they name |
| `*Proofs` | theorems | the module they name, TLAPS |

`MCBPG` and `MCHEVCPicture` each hold several specifications in one run: of
`BPGDecoder` and `BPGFormat` one is idle while the other moves, and a behaviour
of `MCHEVCPicture` is one of `HEVCSlices`, of `HEVCQuant` or of `HEVCIntra`.
They share no variable, so the states add up and nothing is hidden.

Definitions named "Variant" in a comment are what the code would be with a
plausible bug; no specification uses them. PROJECT.json pairs each with the
property that catches it. Properties such as `Consistent`, `EngineTables`,
`CountsExact`, `PoolWhole` or `SlotsServe` are conjunctions of named parts, each
with a comment of its own.

### LruMemoryCache

`map`, `order` and `size` are the content of the access-ordered
`LinkedHashMap`, its order and the field `size`. `put` and `clear` leave the
monitor between two evictions, so a call is in progress: `goal[t]` is the
argument of thread t's `trimToSize`. `Put`, `Get`, `Remove`, `Clear` are the
synchronized blocks; `TrimEvicts`, `TrimEnds` and the throwing case are the
turns of the loop. `SizeOf` is any function to the naturals, as `rowBytes *
height` is; overflow of the count needs more than 2^31 bytes of bitmaps and is
not modelled. `LruHistory` adds `since`, the keys used after each key.

### LimitedMemoryCache

Every access to a structure is a step: `hard` (how often the strong list holds
each bitmap), `cacheSize`, `soft` (the weak map) and `policy` (queue, access
order or counts of the policy in `kind`); `op[t]` is thread t's call with its
locals. Two calls may run any of their steps between each other's. `Collect`
lets the collector take a weakly held bitmap. `disturbed` is set when a
`clear()` runs beside another call: then the byte count may be wrong for good
(`clear` empties the list and then sets the count to zero, so what another call
lists or counts in between is lost), so the properties say nothing after it and
the run stops there. The class promises that what it stores does not exceed
the limit; several threads break that (section 3, over_limit), a single one
keeps it (section 4), and `OvershootBounded` says how far the excess goes.
Also seen: under LRU,
replacing a key's bitmap leaves the old one in the list with no policy entry,
so a later put that must free more than the policy knows spins for ever, and so
do UsingFreq and Largest with one bitmap under two keys; FIFO's `removeNext`
throws on a list another thread emptied; a usage count is put back after its
key was removed.

### The loader

The state of the engine is `viewKey` (`cacheKeysForImageAwares`), `lockTable`
(`uriLocks`, a lock named by the request that created it), `paused`, `denied`,
and the executors: `executor` names the pool each field refers to, `shut` the
pools that were shut down, so a stopped executor and the one that replaces it
are told apart. A request goes through `pc`; one action is one stretch of the
task's code between two accesses to shared state, so other threads run between
any two checks. `handler` is the FIFO queue of the UI thread and `ui` the call
in progress on it (`stop()` and `resume()` are several steps). `shown` and
`heard` are what the user sees and what the listener heard. `latest` is
history: the request whose image a view should get.

Choices that widen the model: a free worker takes any queued task, which covers
the FIFO and LIFO queues and thread priorities; the caches are sets from which
anything may be evicted; a download, decode or resizing may fail in any state
under `fail`; a bitmap processor may give null under `noBitmap`, which clears
the view and is reported as complete, and a bitmap it thus keeps out of the
memory cache is as one evicted at once; `onBytesCopied` may or may not come
before the next check.
Choices that narrow it: callers are on the UI thread (their callbacks go
through the Handler), options are those sets of flags that change control, a
request is made at most once, and `wait()` has no spurious wakeups.

### DiskLruCache

`entries`, `order`, `size`, `fileCount`, `redundant` are the fields of the
instance; `buffer` holds the lines in the `BufferedWriter`; `clean`, `dirty`,
`journal`, `journalTmp`, `journalBackup` are the directory. A file is its
length, a journal a sequence of lines. Every public method holds the monitor:
the methods of several file operations are several actions, with `busy`
naming the method inside, so that `Crash` may come between any two. `Crash`
loses the memory and the buffered lines, never what was written to a file
(the process dies, not the device). `Spill` is the full buffer of the writer,
8192 characters, written up to the middle of a line; each line of the model
stands for many, so it may happen at any line. `torn` remembers that the
journal ends in an unterminated line. `completeEdit(false)` is one action
although it deletes a file and writes a line: a restart deletes the files of a
dirty entry, so a crash in between leaves nothing a crash before does not.
`Recovered` is what a restart would read, `Visible` what readers get now or
after a restart. One value per entry, as `LruDiskCache` opens it.

### LinkedBlockingDeque

`node` gives each node's item and links, `first`, `last` and `count` are the
fields; `op[t]` is the call in which a thread waits for a condition, with
whether it was signalled, timed out or interrupted. All else happens under the
lock and is one action, except `drainTo`, whose collection may throw between
two elements, and the steps of an iterator. A node is used again only when
nothing refers to it any more (`Kept`), as garbage collection has it. A signal
may wake any waiter, which widens the FIFO order of a condition; there are no
spurious wakeups. An untimed wait does what a timed one does whose time does
not come. An iterator's `nextItem`, a copy of an item, is left out.

### libbpg

`BPGDecoder` has the fields of the context by name: the pictures held (`frame`,
`alphaFrame`), what is consumed of the stream (`pos`), the output state, the
circular buffer of eight chroma lines. A picture is its number. `FrameEnd` is
the loop that splits a frame from the stream; `Outcomes` what a decoder may
return, errors included. The callers are `decode_buffer`, which writes a bitmap
file row by row, and a player that starts frames at any line. Seen: the size
`bpg_get_buffer_size_from_bpg` gives is 3·w·h + 54, and the file's own headers
(`bfSize`, `biSizeImage`, decoder.c:139, 147) announce it too; the padded file
is longer where 3·w is no multiple of four. After a failed decode the context is
never closed; the file buffer is never freed; if starting a frame fails, the
lines of the old one must not be read. `bmp_save_to_buffer` may find no memory
before it starts and leave no file; the exchange of red and blue inside a row
(steps of three bytes over the padded row, decoder.c:167) is left out.

`BPGFormat` writes a header number or NAL units byte by byte and compares what
the code reads with what was written. The build takes the byte-wise search
(`HAVE_FAST_UNALIGNED` is 0). A number of five bytes whose first is 0x90 or
more overflows 32 bits, so that "we don't accept non canonical encodings"
(libbpg.c:169) does not hold of it; `NumbersCanonical` is about the others. The
first NAL unit has at least five bytes, and a packet that ends in four zero
bytes does not decode.

### BufferPool

Each access to a shared word is a step: the list head taken and put back by
exchange and compare-and-swap, the counters read and written apart. `Continue`
is a thread's next step inside `av_buffer_pool_get`, a release or the owner's
`uninit`; the calls begin at will. With three threads a get may allocate
although buffers are on their way back, because `pool_alloc_buffer` counts its
buffer after the pool's references (buffer.c:337); this build decodes with one
thread, and each decoder context has pools of its own (hevc_refs.c:99, 104).

### The HEVC decoder

`HEVCRefs`: `dpb` are the slots of `s->DPB`; order counts, sequence counters
and parameter sets have the names of the fields. A packet is a series of
actions, since any NAL unit may fail and only ends the packet (`int ret` of
hevc.c:3059 shadows the outer one). `decoded` and `lastPoc` are history. The
instance has pictures of types IDR, TRAIL_R, CRA and RASL_R, three slots, three
sequence numbers (256 in the code), order counts 0 and 1 and two SPS, one that
outputs at once and one that lets a picture wait. Seen: `.flush` is never
called; a frame start that fails leaves a picture waiting; the drop under
`no_output_of_prior_pics_flag` spares an old picture whose order count is the
new one's.

`HEVCSlices`: one picture, decoded block by block with segments that begin
anywhere the standard lets them, one of which may get lost. Contexts are told
apart by where they come from, samples by which edge columns and rows filters
have touched. A lost or early-ended packet makes the picture not lossless, and
the standard is asked about the rest only. Built as here: one thread,
`USE_SAO_SMALL_BUFFER`, prediction compiled in; a picture starts with the marks
of its predecessor. Seen: chroma of vertical edges after the first rows takes
the left block's tc offset (hevc_filter.c:640); `stat_coeff` is not saved with
the contexts of synchronised rows; after a lost first segment of a tile
`end_of_tiles_x` stays the previous tile's. `FiltersWithin` says which borders
are crossed as H.265 does, where of two slices the later one decides about the
border between them, and names the exception (`AsksEarlier`): SAO asks the
`filter_slice_edges` of the block it filters for all its borders
(hevc_filter.c:253), so that where a later slice says the opposite it reads
beyond a border it should stop at, or stops at one it should read beyond.

`HEVCQuant`: lengths are counted in smallest coding blocks; `todo` are the
calls of `hls_coding_quadtree` still to make; `hist` keeps what H.265 derives,
from its text and not from the code. `HEVCIntra`: smallest coding block 8,
smallest transform 4; undecoded blocks hold the prediction modes of the
picture before. Where the code differs from the standard is named (`Exempt`):
only with `constrained_intra_pred`, where a picture ends inside the neighbours
and the last is inter, where a slice begins with the tree block above right
(the fill of line 200 spreads), and where one begins just above.

## 3. What is checked

All runs use two workers of TLC. Deadlock is checked except in the loader, disk
cache, buffer pool and bpg runs, whose bounded instances come to rest (every
request made, every call used up, the pool freed, a bitmap written). Bounds are
constants named in the modules.

| Run | Instance (states) | Shows |
|---|---|---|
| lru | 2 threads, 3 keys, bitmaps of sizes 0, 1, 2, limit 3 (3,133) | `Consistent`: types, order and count exact, the inconsistency exception unreachable, over the limit only while trimming; refines `MemoryCache`; `EvictsLeastRecent` against the history `since`; `TrimsEnd` |
| loader_safety | 2 requests, 1 view, 2 sizes of one uri, 1 worker per pool, one stop, every environment event; options reset, delay, image on fail, both caches (1,566,290) | `EngineTables`, `ListenerProtocol`, `NoSilentLoss`, `NeverShowsStale` |
| loader_live | 2 requests of one key for 1 view, 1 worker, one stop and one pause, post-processing, fair (102,854) | every task ends and the latest request is answered |
| disk_cache | 2 editors, 2 keys, 2 lengths, byte limit 2, file limit 1, rebuild after 1 redundant line, crashes, half-written lines, write errors, delete; two calls of get or edit, and a third once `fileCount` has drifted (88,385) | counts, journal against memory, whole values after recovery, no leaked files; refinement of `PersistentStore` |
| limited_memory | 2 threads, 2 keys, bitmaps of sizes 1, 2, 3, limit 3, all four policies; a bitmap listed at most twice, usage counts to 1; ends with `disturbed` (1,832,434) | `BytesCounted`; `OvershootBounded`, how far beyond the promised limit the cache gets |
| buffer_pool | 2 threads, 3 buffers, fair (34,827) | `PoolWhole`, `SoleWriter`, `PoolOutlivesUse`, `LockFree` |
| hevc_dpb | 3 slots, 3 sequence numbers, 4 picture types, 2 SPS, order counts 0 and 1 (435,245) | `SlotsServe`, `InOrder` |
| bpg | 22 still images and 3 animations of three frames; numbers of up to 5 bytes of 8 values, 2 NAL units of up to 6 bytes of 4 values (433,934) | `InStep`, `ChromaRight`, `BmpWhole`; `NumbersCanonical`, `UnitsArrive` |
| deque | 2 threads, 1 iterator, 3 nodes, 2 items, capacity 3 (379,399) | `NoLostWakeup`, `LinksExact`, `IteratorsOnTrack`; refines `BlockingDeque` |
| picture | segments: 7 layouts of up to 9 blocks in up to 3 segments of which 1 may be lost, 3 layouts with every SAO choice (411,326); quadtree: 6 layouts walked with up to 3 segments, 2 QP deltas, 2 splits, and 7 pictures of intra and inter blocks (282,640) | `NeighboursByStandard`, `SegmentsContinue`, `FiltersInOrder`, `FiltersWithin`; `QpByStandard`, `TreeWalked`; `PlanesServe`, `PredictsByStandard` |

Why the bounds suffice. The races of the loader need one request overtaking
another for the same view or the same uri; two requests give every order of
one pair, with the same key (loader_live) and with two sizes of one uri, where
they share the lock and the view but not the key (loader_safety). For more
requests, views and workers there are the theorems. Two keys and two lengths let
the disk cache evict one entry for the other and replace a value by a different
one; two calls publish and replace or read a value on both sides of a crash and
a journal rebuild (`CompactThreshold` is 1 instead of 2000, `MaxFileCount` 1);
a third call is only needed where `fileCount` has lost touch with the files.
Only `get` and `edit` are counted, since only they make the journal grow. The
deque's nodes are as many as its capacity, so a put waits at the limit; that
the limit is not passed is shown by the theorem, not by the run. The images are
the smallest around each edge: one chroma line, several, more than the circular
buffer, odd and even, and row widths of each padding. Pictures of three by three
blocks have a block with all eight neighbours, and borders of two tiles that
meet in one. `HEVCSlices` with four segments (1,332,462 states) and the
picture buffer with pictures that refer to nothing (1.01 million) were also run
once and hold.
Requests, views, keys, nodes and editors are declared symmetric where the
configuration treats them alike and no liveness is checked.

### Comments the code does not keep

Two runs are there for TLC to find their property violated; the findings in
PROJECT.json quote the lines.

**disk_torn** `StoredSurvivesClose`: a journal whose last line a crash left
unterminated is accepted and appended to; after a clean `close()` the next
`open()` finds a malformed line and deletes the whole cache.

**over_limit** `StoredWithinLimit`: "Size of all stored bitmaps will not to
exceed size limit" (LimitedMemoryCache.java:29, and the same in the classes of
the four policies). The run has two threads, two bitmaps of size 2 and limit 3.
Both puts read a size that leaves room (line 70) before either has counted its
bitmap (line 79), both bitmaps go in, and they stay after both puts have
returned, until a later put needs room. `OvershootBounded` bounds this excess
and `OneThreadKeepsLimit` shows that it takes two threads.

Seen while modelling, without a run of their own:

- Loader: the runnable of `fireFailEvent` draws `imageOnFail` without checking
  the view again (LoadAndDisplayImageTask.java:362), so a failure may appear in
  a reused view. `stop()` between a distributor's `initExecutorsIfNeed` and its
  `execute` makes the dead executor reject the task (ImageLoaderEngine.java:76).
  Of two equal requests for one view the newer is told it was cancelled,
  because the older one's `DisplayBitmapTask` removed the table entry
  (line 72); the image is shown all the same. A task that ends in
  `waitIfPaused` or `delayIfNeed` tells its listener nothing. A memory hit
  leaves the view's table entry behind, so `getLoadingUriForView` names an
  image that is not loading.
- DiskLruCache: replacing a value counts its file twice (line 564); besides
  early evictions `trimToFileCount` can run out of entries and throw
  `NoSuchElementException` (action `TrimThrows`). With every remaining entry
  under edit `trimToSize` rotates them for ever (line 671) and holds the monitor
  the editors need. A `delete()` cut short after the journal is gone (line 691)
  leaves files no later `open()` knows of (`NoLeaks` states this exception). A
  cache reopened over its limit submits no cleanup until the next commit.
- SAO at the border of two slices that disagree on filtering across it follows
  the slice of its block and not the later one (`AsksEarlier`, section 2).
- HEVC intra prediction: the comment "Infer the unavailable samples"
  (hevcpred_template.c:278) holds but for the cases of `Exempt` above.
- The notes of section 2 on the limited memory caches, libbpg, the buffer pool
  and the HEVC decoder.

### Fairness

- Loader: weak fairness of each request's steps on the distributor and pool
  threads, of the UI thread's call in progress and of its Handler: the JVM and
  the Looper schedule runnable threads. A worker or lock that is contended is
  eventually free for the waiting task because every holder's steps are fair
  and the instance makes finitely many requests. Nothing is assumed of calls,
  failures, evictions or the collector; pauses are assumed to end
  (`PauseOnScrollListener` resumes when a list rests).
- LruMemoryCache: weak fairness of a trimming thread's turn. `TrimsEnd` is
  stated for each call in progress; calls of others may go on.
- BufferPool: weak fairness of `Continue(t)`, a call that has begun is
  scheduled. `LockFree` says that some call returns, not that each does.

The other specifications state no fairness and no liveness.

## 4. What is proved

Every theorem holds for any value of the constants, under the assumptions named
in the module it is about. A run of section 3 checks each property on a small
instance first, and TLC checks the assumptions on it.

**LruMemoryCacheProofs** (any finite sets of threads and keys, any sizes and
limit): `StaysConsistent`, with its parts `TypeCorrect`, `SizeExact`,
`OrderExact`, `TrimNeverThrows`, `LimitHolds`; `Implements`, every step is a
step of `MemoryCache` or stutters; `EldestGoes`, what a trim evicts was used
before all else. `SizeIsSum` is not inductive alone: that an eviction takes a
cached key off the count needs the order to list exactly the cached keys, and
that the limit is restored needs the pending goals. `IInv` is the conjunction of
types, exact order, exact size and "over the limit only while trimming". The sum
over keys is the cardinality of the set of (key, byte) pairs, so that facts on
finite sets replace an induction; `BytesSplit` and `TotalOfUpdate` say what one
changed mapping does to it, `TouchLists`, `TailLists` and `WithoutDrops` what
the list operations do to the order. `EldestGoes` adds `HistoryOK`: the keys
that follow one in the order have all been used since it was.

**ImageLoaderProofs** (any requests, views, keys, options, pool size and bounds,
whatever `Env` allows; `NullAssumption` and `ShownAssumption` are used):

- `TablesTrue`, of `NamesLatest` (the table names the key last requested for a
  view, or nothing) and `LocksExclusive` (a uri lock is held exactly by the task
  inside its region). `TableNamesLatest` is not inductive alone: a new request
  must not change what an older one asked for (`Awaited`), and a memory hit
  shows its bitmap because `displayImage` is still busy with the request it gave
  the view to (`Prepared`). `LocksHeld` needs every task past `SubmitTask` to
  have a lock (`LockInv`), and stages before to have none (`NoLock`). `IInv`
  joins the two. The actions fall into four kinds, each with a lemma: a task
  goes on within its side of the lock (`AdvancesInv`), leaves the lock or gives
  up when it gets it (`LeavesInv`), a call of the UI thread takes names away
  (`LoosensInv`), `displayImage` gives them (`DisplayImageInv`,
  `DispatchesInv`).
- `NeverStale`: a bitmap that appears in a view is the one last requested. A last
  check on the UI thread against a table that names the latest key is enough,
  because no step of `stop()` comes between check and draw (`ShowsLatest`).
- `ListenersHearOnce`: started, then at most one end. `HeardInv` relates what a
  listener heard with the stage of its task and the runnables posted for it;
  a task that tells an end has told none and posts nothing after it.
- `NothingLostSilently`: a request a view waits for ends with an answer, or an
  equal one brought the image. `WaitInv` says of every such request that it is
  on its way, or its answer is posted, or it was served. What an action must
  show for it is a frame: the tables keep what is awaited, and whoever leaves
  has been served, has told its listener or was no longer awaited.
- `TypesRight`: the type invariant, from `IInv`, `HeardInv` and `TypesInv` (the
  executors, queues and UI-thread variables that the other proofs do not need).

**LimitedMemoryCacheProofs** (any finite sets of threads and bitmaps, any keys,
sizes above zero, a limit above zero, which
`ImageLoaderConfiguration.memoryCacheSize` enforces, all policies):
`EveryByteCounted` and `LimitNearlyKept`, both while no `clear()` was disturbed,
and `OneThreadKeepsLimit`: with one thread, which disturbs no `clear()`
(`NeverDisturbed`), the documented limit holds of the list whenever no call is
in progress.
The count with what threads have listed and not yet counted is the sum over the
strong list with what they have taken off it and not yet discounted
(`BytesCounted`). The limit follows from it with `Pending`, what a thread that
has seen room may still add without looking again: `LimitKept` bounds the count
with all pending additions by the limit and the additions of all but one.
`Alone` says that a `clear()` that is not disturbed has no company. `Sums`
defines sums as cardinalities; `SumChange`, `SumOfZeros` and `SumBound`
are their laws. Each action has a lemma on how it changes one
thread's weights (`CallChange`) and the list (`ListedMore`, `ListedLess`).

**BufferPoolProofs** (any finite sets of threads and buffers): `PoolStaysWhole`
with `TypeCorrect` and `BuffersOwnedOnce`, `WriterIsAlone`, `PoolFreedLast`. The
inductive invariant adds to the types that the reference count of a buffer is
the number of references threads hold (`RefsExact`), that the pool's count is
the owner, the buffers out and the calls in progress (`CountExact`), and what is
true once it reached zero (`Ending`). Writers are safe because one that saw a
count of one holds that one reference, and nobody can copy it.

**DiskLruCacheProofs** (any finite set of keys, any editors, lengths above zero,
limits, threshold and number of calls, whatever `Env` allows;
`NullAssumption` says that null is no value): `CountsStayExact`, with the types,
and `JournalTellsAll`. Reading a journal is a recursive function over its lines;
one more line is one more application (`ReadAppend`), and what holds of all
journals is proved by induction over their prefixes as a set. `Tells(s, e)` says
that reading s gives the entries e but for those that are edited, dirty in s, or
that `open()` dropped; it is preserved when the line of a change is appended
(`LogTells`), by the snapshot of a rebuild (`SnapshotTells`) and by `open()`
itself (`ProcessKeeps`). `JournalInv` says where such a journal is at each step:
the file with the buffer, or during the swap of a rebuild the backup, and that
the new file tells the same. What a crash cuts short must at least be sound, as
every prefix is (`SoundJournal`). `JournalMirrorsMemory` alone is not inductive:
the dirty lines say nothing there. The counts follow from `MemoryInv`: an entry
without a value has length 0 (`EntryInv`), an editor that has written has a file
to publish (`Held`), and the commit between its two halves is that of the
entry's editor (`PublishInv`), so the bytes taken off and added are those of one
entry. `EntryStep` is the frame of all methods: one entry changes.

`RestartsFindWhole` states `RecoveryWhole`, from `FileInv` on top of `Inv`
(which TLC checked on the instance before the proof). The difficulty is that the
journal on the disk is behind the entries in memory by what waits in the buffer.
`MemFiles` relates the files to memory: only an entry under edit has a `.tmp`
file, and a readable one has the file of its length, or none, unless a commit has
just moved the new file (`Moved`). `DiskFits` relates them to the journal as it
lies there: what it leaves clean has the length it says, what is under edit is
dirty in it, because every DIRTY line is flushed before a file is created.
`BufferInv` says which lines may wait: READ, and REMOVE of what has no entry any
more, so that nothing on the disk changes its meaning when they are written out
or lost (`WaitingRead`).

`CacheIsPersistent` states `StoreSpec`: every step of the cache that neither
starts nor ends with a damaged journal (`Damaged`: a crash left half a line, or a
line was glued to it) is a step of `PersistentStore` or a stutter. `Shown` is what
a reader of an open cache gets of a key, `Stored` what the disk keeps of it, and
the steps come in three kinds. Those of one key while the cache is open go
through `KeyStep`, which tells begin, publish, abandon and drop apart by what
happens to `Shown` and to the edit. Opening and closing show that `Shown` after
is `Stored` before, or the reverse, from `Mirrors`. A crash is `CrashStored`: the
lines lost with the buffer are reads and removals, and a key whose REMOVE is lost
has no file to come back to. That last fact, that a close begins with no edit
left, and that a commit without a file publishes the value there was, are
`StoreInv`, which TLC checked on the instance before the proof.

**LinkedBlockingDequeProofs** (any threads, iterators, nodes, items and
capacity): `ListStaysOneChain` and `WakeupsSuffice`. A list is a chain if some
sequence of nodes is its walk in both directions (`IsChain`); the proof gives
that witness for each link operation. For wakeups `Owed` counts, per condition,
elements or room that no woken thread will take; each action pays what it owes,
also where a waiter that was signalled leaves by interrupt or timeout and passes
the signal on. `IInv` is both with the shapes of calls and the capacity.
`IsABlockingDeque` is the refinement of `BlockingDeque`, in which the sequence
is a recursive walk along the links: `WalkFollows` shows that it is the one
sequence the chain lists (an induction over the nodes, said of the set of
positions from which the walk is right), the `*Chain` lemmas name the chain each
link operation leaves, and each action then is `InsertFirst`, `InsertLast`,
`TakeFirst`, `TakeLast`, `RemoveSome`, `Clear` or a stutter.

**BPGDecoderProofs** (any images; for `FramesInStep` those whose pictures come
frame by frame, `OrderAssumption`, as libbpg.c:428 assumes "the alpha and color
data are correctly interleaved"): `ChromaAlwaysRight` from `Window`, what the
circular buffer holds around the next line; `BmpAlwaysWhole` from the rows
written so far; `FramesInStep` from `StepInv`, whose core is `Cut`: what is
consumed of the stream ends between the pictures of one frame and the next, of
both layers. `FrameSplit` shows that the rules of the split keep it there: a
frame that gives a picture of each layer has begun each, so the first slice or
header after both ends it. A failed start consumes nothing, and a decoded frame
that was not started waits for the first start.

**HEVCRefsProofs** (any number of slots and of sequence numbers above two, any
parameter sets and reference sets, any range of order counts; the stream keeps
the promise of its parameter sets, `Promised`, and is within `MaxAhead`):
`BufferServes` states `SlotsServe`, `OutputInOrder` states `InOrder`. That no
picture is stranded holds because the output never passes a sequence in which
one waits (`OutputGoesOn`), and because a new sequence is further from the
output than all before it, also when the counters wrap (`SequenceOK`, from
`FurtherOn` on distances modulo the counter). The order is the hard part. When
a picture leaves, others that come later must not belong before it. `Settled`
says why they do not: more pictures than the parameter set lets a picture
overtake are decoded from the one output last on, so the stream has promised
that none of those to come goes first (`NewComesLater`). It holds because a
picture is output from the sequence being decoded only when more than `reorder`
of it wait (`OutputGoesOn`, `CountsDecoded`: they have as many different order
counts); it says nothing once the buffer is being drained or new parameter sets
have come, since then nothing more of that sequence is decoded. `Buffered` adds
what relates the pictures that wait to the history: they are apart, in range,
recorded if they belong to the sequence being decoded, and later than the last
one output. References are kept because taking out, discarding and bumping
leave the marks alone (`RefsKept`), and found again by their low bits
(`SameLowBits`); `FrameRpsGood` is an induction over the set of references, said
of the set of prefixes that keep `RefsGood`. TLC checked the inductive
invariant on the instance before the proof.

### What is only model-checked, and why

- Liveness (`TrimsEnd`, `TasksEnd`, `LatestAnswered`, `LockFree`): fairness and
  ENABLED are outside the proof system.
- The iterators of the deque (`IteratorsOnTrack`): it follows the links of nodes
  that were removed, whose chain the inductive invariant does not keep.
- `BPGFormat`, `HEVCSlices`, `HEVCQuant`, `HEVCIntra`: bytes, recursive functions
  and the geometry of small pictures; their properties compare two algorithms
  and are checked over the instances.

Induction itself is within reach where it can be said of a set (`SetInduction`),
and least elements by well-founded induction over finite intervals.

## 5. What is not modelled

- Loader: callers off the UI thread and `loadImageSync`; `loadImage`, whose
  view ids are hash codes of the uri; `init`, `destroy`; the slow-network
  switch; progress events; a bitmap that is not null and has no pixel, which
  would be reported as failed and displayed all the same
  (LoadAndDisplayImageTask.java:238, 256): an `android.graphics.Bitmap` always
  has at least one.
- DiskLruCache: `setMaxSize` and `Snapshot.edit`, which nothing in the library
  calls; streams that cannot be opened; failures of file operations other than
  writing a value: a `renameTo` whose result line 559 ignores, a file `remove`
  cannot delete (lines 616-618), an IOException of a journal write.
- `LruDiskCache`, `BaseDiskCache` and its subclasses, `LimitedAge` and
  `FuzzyKey` memory caches, stream copying and redirects, sizing,
  `PauseOnScrollListener`: planned below.
- libbpg: header fields and extensions as such, colour conversion, the PPM
  writer; the network code of `DecoderWrapper.c`.
- HEVC: residuals, inter prediction and merge candidates, the bit reader, CABAC,
  sample arithmetic (smoothing, planar, DC and angular prediction, filters),
  intra modes, PCM and lossless bypass, long-term references; frame and wavefront
  threads are not compiled in. In `HEVCQuant` QP deltas out of range and chroma
  offsets; in `HEVCIntra` more than one tile, and transform trees of several
  depths in one unit (`TransformTree` gives a unit blocks of one size); in
  `HEVCSlices` damaged headers and slices that switch deblocking off
  (`slice_deblocking_filter_disabled_flag`, hevc.c:693).
- Left out for good: the demo application, displayers and builders (no
  protocol); the tables, headers and sample decoding of libavcodec, which are
  most of the repository's lines and compute values without a protocol.

## 6. Plan

1. **LruDiskCache** over `DiskLruCache`: `clear` and `close` against `save` and
   `get` with the null field in between; **BaseDiskCache** and
   **LimitedAgeDiskCache**: temporary file, rename, load dates, crash.
2. Loader, second part: callers off the UI thread, `loadImageSync` on the UI
   thread while paused, `PauseOnScrollListener` as the caller of pause and
   resume; the decorators `LimitedAge` and `FuzzyKey` over a memory cache.
3. **Algorithms**: `IoUtils.copyStream` with the 75 % rule in 32-bit
   arithmetic, `ImageSizeUtils`, redirects.
4. **HEVC**: reference lists of a slice, merge candidates, intra modes.
5. **Theorems**: the iterators of the deque, with the removed nodes in the
   invariant.
