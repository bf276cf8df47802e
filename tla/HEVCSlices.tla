----------------------------- MODULE HEVCSlices -----------------------------
(***************************************************************************)
(* One picture of the HEVC decoder, coding tree block by coding tree       *)
(* block: which neighbours a block may look at, where its entropy contexts *)
(* come from, and when its samples are deblocked and SAO filtered.  Slice  *)
(* segments may get lost, and tiles or rows that synchronise contexts      *)
(* divide the picture.  From hevc.c (hls_decode_entry and what it calls),  *)
(* hevc_filter.c, hevc_cabac.c and the tile tables of hevc_ps.c.           *)
(*                                                                         *)
(* A block is known by its raster address (rs), or by its place in         *)
(* decoding order (ts).  Samples are abstracted to what was done to them.  *)
(***************************************************************************)
EXTENDS Integers, Sequences, FiniteSets, SequencesExt

CONSTANT
    Streams       \* pictures that may come, see StreamAssumption

\* layout is what the picture parameter set says: colBd and rowBd begin with 0
\* and end with the width and height in blocks, and rows synchronise contexts
\* in a picture of one tile only.  saoTypes are those a block may state,
\* sliceTypes those of slices; segments and lost bound how many slice segments
\* the picture has and how many of them get lost.
StreamLayouts == {s.layout : s \in Streams}
StreamAssumption == \A s \in Streams :
    /\ s.saoTypes \subseteq {"None", "Band", "Edge"} /\ s.sliceTypes \subseteq {"I", "P"}
    /\ s.segments \in Nat /\ s.lost \in Nat
LayoutAssumption == \A l \in StreamLayouts :
    /\ l.colBd \in Seq(Nat) /\ l.rowBd \in Seq(Nat) /\ l.colBd[1] = 0 /\ l.rowBd[1] = 0
    /\ \A i \in 2..Len(l.colBd) : l.colBd[i - 1] < l.colBd[i]
    /\ \A i \in 2..Len(l.rowBd) : l.rowBd[i - 1] < l.rowBd[i]
    /\ l.sync => Len(l.colBd) = 2 /\ Len(l.rowBd) = 2

VARIABLES
    pps,      \* the layout and its tables
    sh,       \* the slice header
    lc,       \* HEVCLocalContext: what the block ctb may look at, and its contexts
    tables,   \* per block: tab_slice_address, filter_slice_edges, rpl_tab
    saved,    \* s->cabac_state
    frame,    \* what was done to the samples, and s->sao
    phase,    \* idle, header, data, done or failed
    ts,       \* ctb_addr_ts
    stream    \* what the encoder sent: where segments and slices begin, and
              \* what it may send (may)

vars == <<pps, sh, lc, tables, saved, frame, phase, ts, stream>>

-----------------------------------------------------------------------------
(* Tile tables, 6.5: pps_setup in ff_hevc_decode_nal_pps.                  *)

Tables(l) ==
    LET w == Last(l.colBd)
        h == Last(l.rowBd)
        column(x) == CHOOSE i \in 0..Len(l.colBd) - 2 : l.colBd[i + 1] <= x /\ x < l.colBd[i + 2]
        row(y) == CHOOSE j \in 0..Len(l.rowBd) - 2 : l.rowBd[j + 1] <= y /\ y < l.rowBd[j + 2]
        colIdx[x \in 0..w - 1] ==
            IF x = 0 THEN 0
            ELSE IF x > l.colBd[colIdx[x - 1] + 1] THEN colIdx[x - 1] + 1 ELSE colIdx[x - 1]
        toTs(rs) ==
            LET x == rs % w
                y == rs \div w
                i == column(x) + 1
                j == row(y) + 1
            IN  (l.rowBd[j + 1] - l.rowBd[j]) * l.colBd[i] + w * l.rowBd[j]
                + (y - l.rowBd[j]) * (l.colBd[i + 1] - l.colBd[i]) + x - l.colBd[i]
        toRs == [t \in 0..w * h - 1 |-> CHOOSE rs \in 0..w * h - 1 : toTs(rs) = t]
    IN  [w |-> w, h |-> h, sync |-> l.sync, acrossTiles |-> l.acrossTiles, sao |-> l.sao,
         tiles |-> Len(l.colBd) > 2 \/ Len(l.rowBd) > 2,
         widths |-> [i \in 0..Len(l.colBd) - 2 |-> l.colBd[i + 2] - l.colBd[i + 1]],
         colIdx |-> colIdx,
         rsToTs |-> [rs \in 0..w * h - 1 |-> toTs(rs)],
         tsToRs |-> toRs,
         tileId |-> [t \in 0..w * h - 1 |->
            row(toRs[t] \div w) * (Len(l.colBd) - 1) + column(toRs[t] % w)]]

Size == pps.w * pps.h
Ctbs == 0..Size - 1
X(c) == c % pps.w
Y(c) == c \div pps.w
TileOf(c) == pps.tileId[pps.rsToTs[c]]

\* The block at an offset from c, as a set: empty outside the picture.
Beside(c, dx, dy) ==
    IF X(c) + dx \in 0..pps.w - 1 /\ Y(c) + dy \in 0..pps.h - 1 THEN {c + dx + dy * pps.w} ELSE {}
Offsets == {<<dx, dy>> \in (-1..1) \X (-1..1) : <<dx, dy>> # <<0, 0>>}

-----------------------------------------------------------------------------
(* Neighbours of a block: hls_decode_neighbour.  tab is tab_slice_address  *)
(* with the block's own entry; positions are counted in blocks.            *)

NewTile(t) == pps.tiles /\ t > 0 /\ pps.tileId[t] # pps.tileId[t - 1]

EndOfTilesX(c, t) ==
    IF ~pps.tiles THEN pps.w
    ELSE IF NewTile(t) THEN X(c) + pps.widths[pps.colIdx[X(c)]]
    ELSE lc.endX

Boundaries(c, tab) ==
    IF pps.tiles THEN
        LET edge(dx, dy, slice, tile) ==
            {b \in {slice, tile} : \E n \in Beside(c, dx, dy) :
                IF b = tile THEN TileOf(n) # TileOf(c) ELSE tab[n] # tab[c]}
        IN  edge(-1, 0, "LeftSlice", "LeftTile") \cup edge(0, -1, "UpperSlice", "UpperTile")
    ELSE {b \in {"LeftSlice", "UpperSlice"} :
        IF b = "LeftSlice" THEN c - sh.addr = 0 ELSE c - sh.addr < pps.w}

\* The neighbour above to the left, off by one.
NeighboursEarly(c, t, tab) ==
    LET inSlice == c - sh.addr
        boundary == Boundaries(c, tab)
    IN  [ctb |-> c, boundary |-> boundary, endX |-> EndOfTilesX(c, t),
         left |-> X(c) > 0 /\ inSlice > 0 /\ "LeftTile" \notin boundary,
         up |-> Y(c) > 0 /\ inSlice >= pps.w /\ "UpperTile" \notin boundary,
         upRight |-> Y(c) > 0 /\ inSlice + 1 >= pps.w /\ TileOf(c) = TileOf(c + 1 - pps.w),
         upLeft |-> X(c) > 0 /\ Y(c) > 0 /\ inSlice >= pps.w /\ TileOf(c) = TileOf(c - 1 - pps.w)]

Neighbours(c, t, tab) ==
    LET inSlice == c - sh.addr
        boundary == Boundaries(c, tab)
    IN  [ctb |-> c, boundary |-> boundary, endX |-> EndOfTilesX(c, t),
         left |-> X(c) > 0 /\ inSlice > 0 /\ "LeftTile" \notin boundary,
         up |-> Y(c) > 0 /\ inSlice >= pps.w /\ "UpperTile" \notin boundary,
         upRight |-> Y(c) > 0 /\ inSlice + 1 >= pps.w /\ TileOf(c) = TileOf(c + 1 - pps.w),
         upLeft |-> X(c) > 0 /\ Y(c) > 0 /\ inSlice - 1 >= pps.w /\ TileOf(c) = TileOf(c - 1 - pps.w)]

\* ff_hevc_set_neighbour_available at the upper right corner of the block.
CandUpRight == lc.upRight /\ X(lc.ctb) + 1 < lc.endX

\* Edges ff_hevc_deblocking_boundary_strengths leaves alone at the block's border.
FiltersLeft(c, b) == X(c) > 0 /\ ~(~sh.across /\ "LeftSlice" \in b) /\ ~(~pps.acrossTiles /\ "LeftTile" \in b)
FiltersUp(c, b) == Y(c) > 0 /\ ~(~sh.across /\ "UpperSlice" \in b) /\ ~(~pps.acrossTiles /\ "UpperTile" \in b)

-----------------------------------------------------------------------------
(* Entropy contexts: ff_hevc_cabac_init and ff_hevc_save_states.  Contexts *)
(* are known by their origin: initial values, or what block t left.        *)

Initial == -1
Stale == -2

RowStart(t) == pps.sync /\ t % pps.w = 0

StartContexts(t) ==
    IF RowStart(t) /\ ~sh.first /\ (pps.w = 1 \/ sh.dependent)
    THEN IF pps.w = 1 THEN Initial ELSE saved
    ELSE IF ~sh.dependent \/ NewTile(t) THEN Initial ELSE lc.ctx

NextContexts(t) ==
    IF RowStart(t) THEN IF pps.w = 1 THEN Initial ELSE saved
    ELSE IF NewTile(t) THEN Initial ELSE lc.ctx

\* A dependent segment goes on from the one before it also at a row's start.
ContextsGoOn(t) == IF pps.tsToRs[t] = sh.segment /\ sh.dependent /\ ~NewTile(t) THEN lc.ctx
                   ELSE IF pps.tsToRs[t] = sh.segment THEN StartContexts(t) ELSE NextContexts(t)

Contexts(t) == IF pps.tsToRs[t] = sh.segment THEN StartContexts(t) ELSE NextContexts(t)

\* After the block before t, which is the second of its row.
Saves(t) == pps.sync /\ (t % pps.w = 2 \/ (pps.w = 2 /\ t % pps.w = 0))

-----------------------------------------------------------------------------
(* Filters: hevc_filter.c.  Samples of a block are in two columns, all but *)
(* the last eight and these (L, R), and two rows, all but the last and     *)
(* this (T, B).  ver[c] counts filterings of the vertical edges on the     *)
(* left of and inside c, hor[c, col] tells of the horizontal ones above    *)
(* and inside column col of c.                                             *)

\* Horizontal edges need the vertical ones around them filtered first.
VerticalDone(ver, c, col) ==
    \A d \in {<<0, 0>>, <<0, -1>>} \cup IF col = "R" THEN {<<1, 0>>, <<1, -1>>} ELSE {} :
        \A n \in IF d = <<0, 0>> THEN {c} ELSE Beside(c, d[1], d[2]) : ver[n] > 0

\* deblocking_filter_CTB: the last columns wait for the block on the right.
Deblock(f, c) ==
    LET ver == [f.ver EXCEPT ![c] = @ + 1]
        columns == {<<c, "L">>} \cup (Beside(c, -1, 0) \X {"R"})
                   \cup IF X(c) = pps.w - 1 THEN {<<c, "R">>} ELSE {}
    IN  [f EXCEPT !.ver = ver, !.hor = [p \in DOMAIN @ |->
            IF p \notin columns THEN @[p]
            ELSE IF @[p] # "no" THEN "twice"
            ELSE IF VerticalDone(ver, p[1], p[2]) THEN "yes" ELSE "early"]]

Deblocked(f, c, col, row) ==
    /\ f.ver[c] > 0 /\ f.hor[<<c, col>>] \in {"yes", "twice"}
    /\ col = "R" => \A n \in Beside(c, 1, 0) : f.ver[n] > 0
    /\ row = "B" => \A n \in Beside(c, 0, 1) : f.hor[<<n, col>>] \in {"yes", "twice"}

\* Samples of the neighbour at d that border on the block, and are what the
\* block's filter finds: those saved if the neighbour was filtered already.
BorderRight(f, n, d) ==
    IF f.sao[n] = "Applied" THEN f.input[n] = "Deblocked"
    ELSE \A col \in {"L", "R"}, row \in {"T", "B"} :
        (d[1] = -1 => col = "R") /\ (d[1] = 1 => col = "L")
        /\ (d[2] = -1 => row = "B") /\ (d[2] = 1 => row = "T") => Deblocked(f, n, col, row)

\* Corners judged by the edges beside them only.
UnfilterableSides(c, d, n) ==
    \/ ~tables'.lfase[c] /\ \E m \in Beside(c, d[1], 0) \cup Beside(c, 0, d[2]) : tables'.slice[m] # tables'.slice[c]
    \/ /\ pps.tiles /\ ~pps.acrossTiles
       /\ \E m \in Beside(c, d[1], 0) \cup Beside(c, 0, d[2]) : TileOf(m) # TileOf(c)

\* No border with another slice is looked over, whatever the flag says.
UnfilterableSlices(c, d, n) ==
    \/ tables'.slice[n] # tables'.slice[c]
    \/ /\ pps.tiles /\ ~pps.acrossTiles
       /\ \E m \in Beside(c, d[1], 0) \cup Beside(c, 0, d[2]) : TileOf(m) # TileOf(c)

\* Neighbours the edge filter may not look at: vert_edge, horiz_edge, diag_edge.
Unfilterable(c, d, n) ==
    \/ ~tables'.lfase[c] /\ tables'.slice[n] # tables'.slice[c]
    \/ /\ pps.tiles /\ ~pps.acrossTiles
       /\ \E m \in Beside(c, d[1], 0) \cup Beside(c, 0, d[2]) : TileOf(m) # TileOf(c)

\* sao_filter_CTB
SaoFilter(f, c) ==
    LET used == UNION {{<<n, d>> : n \in {m \in Beside(c, d[1], d[2]) : ~Unfilterable(c, d, m)}} : d \in Offsets}
        own == \A col \in {"L", "R"}, row \in {"T", "B"} : Deblocked(f, c, col, row)
        around == f.sao[c] = "Edge" => \A u \in used : BorderRight(f, u[1], u[2])
    IN  IF f.sao[c] \notin {"Band", "Edge"} THEN f
        ELSE [f EXCEPT !.sao[c] = "Applied",
                       !.input[c] = IF own /\ around THEN "Deblocked" ELSE "Other",
                       !.used[c] = IF f.sao[c] = "Edge" THEN {c} \cup {u[1] : u \in used} ELSE {}]

\* Blocks that ff_hevc_hls_filter, then ff_hevc_hls_filters, may filter.
OneOf(c, dx, dy, cond) == IF cond THEN SetToSeq(Beside(c, dx, dy)) ELSE <<>>
AtRight(c) == X(c) = pps.w - 1
AtBottom(c) == Y(c) = pps.h - 1

SaoCalls(c) == OneOf(c, -1, -1, TRUE) \o OneOf(c, -1, 0, AtBottom(c)) \o OneOf(c, 0, -1, AtRight(c))
               \o IF AtRight(c) /\ AtBottom(c) THEN <<c>> ELSE <<>>

HlsFilter(f, c) == LET d == Deblock(f, c) IN IF pps.sao THEN FoldLeft(SaoFilter, d, SaoCalls(c)) ELSE d

\* The block itself instead of the one before it.
FilterCallsEarly(c) == OneOf(c, 0, -1, TRUE) \o IF AtBottom(c) THEN <<c>> ELSE <<>>

\* The last call is hls_decode_entry's own, after its loop.
FilterCalls(c) == OneOf(c, -1, -1, TRUE) \o OneOf(c, 0, -1, AtRight(c)) \o OneOf(c, -1, 0, AtBottom(c))
                  \o IF AtRight(c) /\ AtBottom(c) THEN <<c>> ELSE <<>>

-----------------------------------------------------------------------------
(* The stream: segments an encoder may send.  A segment, and a slice, lies *)
(* in one tile or consists of tiles; with synchronised contexts one that   *)
(* does not begin a row ends in it.                                        *)

TileStart(t) == \A u \in {t - 1} \cap Ctbs : pps.tileId[u] # pps.tileId[t]
TileEnd(t) == \A u \in {t + 1} \cap Ctbs : pps.tileId[u] # pps.tileId[t]
SameTile(t, u) == pps.tileId[t] = pps.tileId[u]
InRow(t, u) == pps.sync => t % pps.w = 0 \/ t \div pps.w = u \div pps.w

Legal(dependent, last) ==
    LET from == IF dependent THEN stream.slice ELSE stream.at
    IN  /\ last \in stream.at..Size - 1
        /\ SameTile(stream.at, last) \/ (TileStart(stream.at) /\ TileEnd(last))
        /\ SameTile(from, last) \/ TileStart(from)
        /\ InRow(stream.at, last) /\ InRow(from, last)
        /\ stream.at = 0 => ~dependent
        /\ ~dependent => \A t \in {stream.at - 1} \cap Ctbs : SameTile(stream.slice, t) \/ TileEnd(t)

Send(dependent, last, lost) ==
    /\ phase = "header" /\ stream.segments < stream.may.segments
    /\ Legal(dependent, last)
    /\ LET slice == IF dependent THEN stream.slice ELSE stream.at
       IN  stream' = [at |-> last + 1, slice |-> slice, segments |-> stream.segments + 1,
                      lost |-> stream.lost + lost, may |-> stream.may,
                      of |-> [t \in Ctbs |-> IF t \in stream.at..last THEN slice ELSE stream.of[t]]]

Init ==
    /\ \E s \in Streams :
        /\ pps = Tables(s.layout)
        /\ stream = [at |-> 0, slice |-> 0, segments |-> 0, lost |-> 0, may |-> s,
                     of |-> [t \in 0..Last(s.layout.colBd) * Last(s.layout.rowBd) - 1 |-> -1]]
    /\ sh = [addr |-> 0, segment |-> 0, dependent |-> FALSE, first |-> TRUE, across |-> FALSE, type |-> "I", idx |-> 0]
    /\ lc = [ctb |-> 0, boundary |-> {}, endX |-> 0, left |-> FALSE, up |-> FALSE, upRight |-> FALSE,
             upLeft |-> FALSE, ctx |-> Stale, from |-> Stale]
    /\ saved = Stale
    \* what an earlier picture of one slice left
    /\ tables = [slice |-> [c \in Ctbs |-> 0], lfase |-> [c \in Ctbs |-> FALSE], rpl |-> [t \in Ctbs |-> 0]]
    /\ frame = [sao |-> [c \in Ctbs |-> "Applied"], ver |-> [c \in Ctbs |-> 0],
                hor |-> [p \in Ctbs \X {"L", "R"} |-> "no"], input |-> [c \in Ctbs |-> "None"],
                used |-> [c \in Ctbs |-> {}], decoded |-> {}, inter |-> {}, left |-> {}, up |-> {}]
    /\ phase = "idle" /\ ts = 0

\* The tables of slices are not begun anew.
ForgottenNot == 0

\* hevc_frame_start, as far as these tables go; none is the address of no slice.
Forgotten == -1
FrameStart ==
    /\ phase = "idle"
    /\ phase' = "header"
    /\ tables' = [tables EXCEPT !.slice = [c \in Ctbs |-> Forgotten]]
    /\ lc' = IF pps.tiles THEN [lc EXCEPT !.endX = pps.widths[0]] ELSE lc
    /\ UNCHANGED <<pps, sh, saved, frame, ts, stream>>

\* hls_slice_header, ff_hevc_slice_rpl and the checks of hls_decode_entry.
SliceHeader(dependent, across, type) ==
    LET rs == pps.tsToRs[stream.at]
    IN  IF dependent THEN [sh EXCEPT !.segment = rs, !.dependent = TRUE, !.first = FALSE]
        ELSE [addr |-> rs, segment |-> rs, dependent |-> FALSE, first |-> rs = 0, across |-> across, type |-> type,
              idx |-> IF rs = 0 THEN 0 ELSE sh.idx + 1]

\* Lists for the first segment's first row of blocks only.
SetListsFirst(h) == IF h.dependent \/ h.type = "I" THEN tables.rpl
                    ELSE [t \in Ctbs |-> IF t \in stream.at..stream.at + pps.w - 1 THEN h.idx ELSE tables.rpl[t]]

\* init_slice_rpl: the lists of the slice count up to the end of the picture.
SetLists(h) == IF h.dependent \/ h.type = "I" THEN tables.rpl
               ELSE [t \in Ctbs |-> IF t >= stream.at THEN h.idx ELSE tables.rpl[t]]

MissingBefore(h) == h.dependent /\ tables.slice[pps.tsToRs[stream.at - 1]] # h.addr

ReceiveSegment(dependent, last, across, type) ==
    /\ Send(dependent, last, 0)
    /\ sh' = SliceHeader(dependent, across, type)
    /\ tables' = [tables EXCEPT !.rpl = SetLists(sh')]
    /\ IF MissingBefore(sh') THEN phase' = "failed" /\ UNCHANGED ts
       ELSE phase' = "data" /\ ts' = stream.at
    /\ UNCHANGED <<pps, lc, saved, frame>>

LoseSegment(dependent, last) ==
    /\ stream.at > 0 /\ stream.lost < stream.may.lost
    /\ Send(dependent, last, 1)
    /\ phase' = IF last = Size - 1 THEN "done" ELSE phase
    /\ UNCHANGED <<pps, sh, lc, tables, saved, frame, ts>>

\* The packet ends before the picture does.
EndPacket ==
    /\ phase = "header" /\ stream.at > 0
    /\ stream' = [stream EXCEPT !.lost = @ + 1]
    /\ phase' = "done"
    /\ UNCHANGED <<pps, sh, lc, tables, saved, frame, ts>>

\* Of hls_decode_entry's loop, up to the samples of a block: neighbours,
\* contexts and SAO parameters, its own or those of a block beside it.
SaoParam(c, nb, type) ==
    \/ type \in stream.may.saoTypes
    \/ nb.left /\ type = frame.sao[c - 1]
    \/ nb.up /\ type = frame.sao[c - pps.w]

Parse(c, type) ==
    LET tab == [tables.slice EXCEPT ![c] = sh.addr]
        nb == Neighbours(c, ts, tab)
    IN  /\ SaoParam(c, nb, type)
        /\ lc' = [ctx |-> ts, from |-> Contexts(ts)] @@ nb
        /\ tables' = [tables EXCEPT !.slice = tab, !.lfase[c] = sh.across]

Parsed(c, type, f) ==
    [f EXCEPT !.sao[c] = type, !.decoded = @ \cup {c},
              !.inter = IF sh.type = "P" THEN @ \cup {c} ELSE @,
              !.left = IF FiltersLeft(c, lc'.boundary) THEN @ \cup {c} ELSE @,
              !.up = IF FiltersUp(c, lc'.boundary) THEN @ \cup {c} ELSE @]

DecodeCtb ==
    /\ phase = "data"
    /\ \E c \in {pps.tsToRs[ts]} : \E type \in stream.may.saoTypes \cup {frame.sao[n] : n \in Ctbs} :
        /\ Parse(c, type)
        /\ frame' = FoldLeft(HlsFilter, Parsed(c, type, frame), FilterCalls(c))
    /\ saved' = IF Saves(ts + 1) THEN ts ELSE saved
    /\ ts' = ts + 1
    /\ phase' = IF ts + 1 < stream.at THEN "data" ELSE IF ts + 1 < Size THEN "header" ELSE "done"
    /\ UNCHANGED <<pps, sh, stream>>

\* hls_coding_quadtree fails: the packet ends with the picture as it is.
CtbFails ==
    /\ phase = "data"
    /\ \E c \in {pps.tsToRs[ts]} : \E type \in stream.may.saoTypes :
        /\ tables' = [tables EXCEPT !.slice[c] = -1, !.lfase[c] = sh.across]
        /\ lc' = [ctx |-> Stale, from |-> Contexts(ts)] @@ Neighbours(c, ts, [tables.slice EXCEPT ![c] = sh.addr])
        /\ frame' = [frame EXCEPT !.sao[c] = type]
    /\ phase' = "failed"
    /\ UNCHANGED <<pps, sh, saved, ts, stream>>

Rest == phase \in {"done", "failed"} /\ UNCHANGED vars

Next ==
    \/ FrameStart
    \/ \E dependent \in BOOLEAN, last \in Ctbs :
        \/ \E across \in BOOLEAN, type \in stream.may.sliceTypes :
            (dependent => across = sh.across /\ type = sh.type) /\ ReceiveSegment(dependent, last, across, type)
        \/ LoseSegment(dependent, last)
    \/ EndPacket
    \/ DecodeCtb
    \/ CtbFails
    \/ Rest

Spec == Init /\ [][Next]_vars

-----------------------------------------------------------------------------
TypeOK ==
    /\ phase \in {"idle", "header", "data", "done", "failed"}
    /\ ts \in 0..Size /\ saved \in -2..Size - 1
    /\ sh.addr \in Ctbs /\ sh.segment \in Ctbs /\ sh.idx \in 0..stream.may.segments
    /\ tables.slice \in [Ctbs -> Ctbs \cup {-1}] /\ tables.lfase \in [Ctbs -> BOOLEAN]
    /\ tables.rpl \in [Ctbs -> 0..stream.may.segments]
    /\ lc.ctb \in Ctbs /\ lc.endX \in 0..pps.w /\ lc.ctx \in -2..Size - 1
    /\ frame.sao \in [Ctbs -> {"None", "Band", "Edge", "Applied"}]
    /\ frame.ver \in [Ctbs -> 0..1] /\ frame.decoded \subseteq Ctbs

SliceOf(c) == stream.of[pps.rsToTs[c]]
Lossless == stream.lost = 0 /\ phase # "failed"

\* The standard, 6.4.1: a block may be looked at from c if it comes before c,
\* in the same slice and tile.
Available(c, dx, dy) == \E n \in Beside(c, dx, dy) :
    pps.rsToTs[n] < pps.rsToTs[c] /\ SliceOf(n) = SliceOf(c) /\ TileOf(n) = TileOf(c)

\* hls_decode_neighbour answers from differences of raster addresses and a
\* width left over from the tile before: a block is never told that it may
\* look at one the standard rules out, and always told of all it may look at
\* unless segments of the picture were lost.
NeighboursByStandard == lc.ctb \in frame.decoded =>
    \A a \in {<<lc.left, -1, 0>>, <<lc.up, 0, -1>>, <<lc.upLeft, -1, -1>>, <<CandUpRight, 1, -1>>} :
        /\ a[1] => Available(lc.ctb, a[2], a[3])
        /\ Lossless /\ Available(lc.ctb, a[2], a[3]) => a[1]

\* Whatever is lost, a block is decoded only with all of its slice before it
\* decoded, and under the header of its slice: dependent segments never go on
\* from another slice, nor from an earlier picture.
SlicesWhole == \A c \in frame.decoded :
    /\ pps.rsToTs[tables.slice[c]] = SliceOf(c)
    /\ \A t \in SliceOf(c)..pps.rsToTs[c] : pps.tsToRs[t] \in frame.decoded

\* The standard, 9.3.1: contexts begin anew with slices and tiles, come from
\* the second block of the row above where rows synchronise and the slice
\* holds that block, and otherwise from the block before, over the ends of
\* dependent segments.
StandardContexts(t) ==
    LET c == pps.tsToRs[t]
    IN  IF SliceOf(c) = t \/ TileStart(t) THEN Initial
        ELSE IF RowStart(t) THEN IF Available(c, 1, -1) THEN pps.rsToTs[c + 1 - pps.w] ELSE Initial
        ELSE t - 1
ContextsByStandard == lc.ctb \in frame.decoded => lc.from = StandardContexts(pps.rsToTs[lc.ctb])

\* The reference lists the deblocking filter finds for a block of a slice with
\* references are those of the block's slice, also from another slice.
ListsOfSlice == \A c, d \in frame.inter :
    tables.rpl[pps.rsToTs[c]] = tables.rpl[pps.rsToTs[d]] <=> SliceOf(c) = SliceOf(d)

\* Slice segments go on from one another in all a block takes from those before
\* it: its slice, its contexts and its lists.
SegmentsContinue == TypeOK /\ SlicesWhole /\ ContextsByStandard /\ ListsOfSlice

\* Intra prediction reads the samples beside a block before any filter changes
\* them: while a block of the tile is still to come, the last row of blocks
\* above it and the last column of the one before are as they were decoded.
Unfiltered(n) == frame.ver[n] = 0 /\ frame.input[n] = "None" /\ \A col \in {"L", "R"} : frame.hor[<<n, col>>] = "no"
PredictsUnfiltered == \A c \in {b \in Ctbs : pps.rsToTs[b] >= ts} : phase # "failed" =>
    /\ \A dx \in -1..1 : \A n \in Beside(c, dx, -1) : n \in frame.decoded /\ TileOf(n) = TileOf(c) => Unfiltered(n)
    /\ \A n \in Beside(c, -1, 0) : n \in frame.decoded /\ TileOf(n) = TileOf(c) =>
        frame.ver[c] = 0 /\ frame.input[n] = "None" /\ frame.hor[<<n, "R">>] = "no"

\* The standard, 8.7.2: no edge is filtered twice, and no horizontal one before
\* the vertical ones that change the samples around it.
EdgesInOrder == Lossless =>
    \A c \in Ctbs : frame.ver[c] <= 1 /\ \A col \in {"L", "R"} : frame.hor[<<c, col>>] \in {"no", "yes"}

\* SAO finds samples that are deblocked and not yet changed by SAO, its own and
\* those around the block, in the picture or among those saved from it.
SaoReadsDeblocked == Lossless => \A c \in Ctbs : frame.input[c] # "Other"

\* A block whose parameters were merged is filtered itself, too: none inherits
\* the mark that the block it takes them from was filtered already.
MarksOwn == \A c \in frame.decoded : frame.sao[c] = "Applied" => frame.input[c] # "None"

\* The standard, 8.7.2.3 and 8.7.3: filters cross the border of two blocks
\* unless tiles forbid it, or slices: the slice that comes later in decoding
\* order says whether its borders with earlier ones are crossed.
Later(c, n) == IF pps.rsToTs[n] > pps.rsToTs[c] THEN n ELSE c
TilesAllow(c, n) == TileOf(c) = TileOf(n) \/ pps.acrossTiles
MayCross(c, n) == TilesAllow(c, n) /\ (SliceOf(c) = SliceOf(n) \/ tables.lfase[Later(c, n)])

\* Where SAO does otherwise: it asks the slice of its own block for all borders
\* (hevc_filter.c:253), also for one with a later slice that says the opposite.
AsksEarlier(c, n) == /\ TilesAllow(c, n) /\ SliceOf(c) # SliceOf(n)
                     /\ Later(c, n) = n /\ tables.lfase[c] # tables.lfase[n]

\* Deblocking crosses the left and upper border of a block, and the edge filter
\* of SAO looks over the borders and corners of a block to its neighbours, if
\* and only if the standard has it so; for SAO but where AsksEarlier says.
BordersKept == \A c \in frame.decoded :
    /\ c \in frame.left <=> \E n \in Beside(c, -1, 0) : MayCross(c, n)
    /\ c \in frame.up <=> \E n \in Beside(c, 0, -1) : MayCross(c, n)
    /\ c \in frame.used[c] => \A d \in Offsets : \A n \in Beside(c, d[1], d[2]) \cap frame.decoded :
        AsksEarlier(c, n) \/ (n \in frame.used[c] <=> MayCross(c, n))

\* A block is filtered for itself, and within its borders.
FiltersWithin == BordersKept /\ MarksOwn

\* When a picture ends and nothing was lost, every block is deblocked to its
\* last column, and has had its SAO.
PictureFinished == phase = "done" /\ Lossless => \A c \in Ctbs :
    /\ frame.ver[c] = 1 /\ \A col \in {"L", "R"} : frame.hor[<<c, col>>] = "yes"
    /\ pps.sao => frame.sao[c] \in {"None", "Applied"}

\* The filters run in their order, each where the one before is finished, and
\* all of them in the end.
FiltersInOrder == PredictsUnfiltered /\ EdgesInOrder /\ SaoReadsDeblocked /\ PictureFinished
=============================================================================
