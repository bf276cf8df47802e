----------------------------- MODULE HEVCQuant ------------------------------
(***************************************************************************)
(* The coding quadtree of one picture and the luma QP of its coding units. *)
(* A QP is predicted from the units left and above of its quantization     *)
(* group and from the group before, and differences are coded once in a    *)
(* group, at its first unit that has a residual.  The walk also decides    *)
(* where a slice segment ends.  From hevc.c (hls_coding_quadtree,          *)
(* hls_coding_unit, the QP part of hls_transform_unit, the loop of         *)
(* hls_decode_entry) and hevc_filter.c (ff_hevc_set_qPy).                  *)
(*                                                                         *)
(* Lengths are in coding blocks of the smallest size.                      *)
(***************************************************************************)
EXTENDS Integers, Sequences, FiniteSets, SequencesExt

CONSTANTS
    Layouts,       \* parameter sets, see LayoutAssumption
    SliceQps,      \* values slice headers state
    Deltas,        \* values of CuQpDeltaVal
    MaxSegments,   \* bound: slice segments of the picture
    MaxDeltas,     \* bound: units that code a difference
    MaxSplits      \* bound: blocks split by choice

\* width and height of the picture, ctb of a coding tree block, group of a
\* quantization group; offset is qp_bd_offset, tiles the first blocks of tiles,
\* which are columns, so that the blocks of a picture of tiles are one row.
LayoutAssumption == \A l \in Layouts :
    /\ {l.width, l.height, l.group, l.ctb} \subseteq Nat \ {0} /\ l.ctb % l.group = 0
    /\ l.offset \in Nat /\ l.sync \in BOOLEAN
    /\ l.tiles # {} => l.height <= l.ctb
\* The values the standard allows; assumed by the module that instantiates this.
QpAssumption == \A l \in Layouts :
    /\ SliceQps \subseteq -l.offset..51
    /\ Deltas \subseteq -(26 + l.offset \div 2)..25 + l.offset \div 2

Stale == 99   \* an entry of qp_y_tab that this picture has not written

VARIABLES
    pps,     \* the layout
    sh,      \* slice_qp
    lc,      \* HEVCLocalContext: firstQpGroup, qPyPred, qpY, cuQpDelta, isCoded
    qpTab,   \* qp_y_tab
    todo,    \* the calls of hls_coding_quadtree begun or still to be made
    more,    \* more_data of the innermost call
    ts,      \* ctb_addr_ts
    flags,   \* end_of_slice_segment_flags read so far
    used,    \* bounds used up: segments, deltas, splits
    hist     \* what H.265 would derive, see Derived

vars == <<pps, sh, lc, qpTab, todo, more, ts, flags, used, hist>>

CtbsPerRow == (pps.width + pps.ctb - 1) \div pps.ctb
CtbCount == CtbsPerRow * ((pps.height + pps.ctb - 1) \div pps.ctb)
XCtb == (ts % CtbsPerRow) * pps.ctb
YCtb == (ts \div CtbsPerRow) * pps.ctb
Blocks == (0..pps.width - 1) \X (0..pps.height - 1)
Covered(x, y, size) == {b \in Blocks : b[1] - x \in 0..size - 1 /\ b[2] - y \in 0..size - 1}

Call(x, y, size) == [kind |-> "tree", x |-> x, y |-> y, size |-> size]
Return(x, y, size) == [kind |-> "end", x |-> x, y |-> y, size |-> size]

Init ==
    /\ pps \in Layouts
    /\ sh \in SliceQps
    /\ lc = [firstQpGroup |-> FALSE, qPyPred |-> 0, qpY |-> 0, cuQpDelta |-> 0, isCoded |-> FALSE]
    /\ qpTab = [b \in Blocks |-> Stale]
    /\ todo = <<>> /\ more = FALSE
    /\ ts = 0 /\ flags = 0
    /\ used = [segments |-> 0, deltas |-> 0, splits |-> 0]
    /\ hist = [group |-> <<-1, -1>>, starts |-> TRUE, first |-> TRUE,
               last |-> 0, prev |-> 0, delta |-> 0, at |-> <<0, 0>>, qp |-> Stale]

-----------------------------------------------------------------------------
(* Slice segments and coding tree blocks.                                  *)

\* hls_slice_header, as far as the QP goes.
StartSegment(dependent) ==
    /\ todo = <<>> /\ ~more /\ ts < CtbCount
    /\ dependent => ts > 0
    /\ used.segments < MaxSegments
    /\ sh' \in IF dependent THEN {sh} ELSE SliceQps
    /\ lc' = [lc EXCEPT !.firstQpGroup = ~dependent]
    /\ more' = TRUE
    /\ used' = [used EXCEPT !.segments = @ + 1]
    /\ hist' = [hist EXCEPT !.starts = @ \/ ~dependent]
    /\ UNCHANGED <<pps, qpTab, todo, ts, flags>>

RowStarts == pps.sync /\ XCtb = 0
TileStarts == ts \in pps.tiles

\* One turn of hls_decode_entry begins: hls_decode_neighbour, then the tree.
StartCtb ==
    /\ todo = <<>> /\ more /\ ts < CtbCount
    /\ lc' = [lc EXCEPT !.firstQpGroup = @ \/ RowStarts \/ (~pps.sync /\ TileStarts)]
    /\ todo' = <<Call(XCtb, YCtb, pps.ctb)>>
    /\ hist' = [hist EXCEPT !.starts = @ \/ RowStarts \/ TileStarts]
    /\ UNCHANGED <<pps, sh, qpTab, more, ts, flags, used>>

\* The calls still to be made are `rest`; without any the block is done.
GoOn(rest) ==
    /\ todo' = rest
    /\ ts' = IF rest = <<>> THEN ts + 1 ELSE ts

-----------------------------------------------------------------------------
(* The quadtree.                                                           *)

\* The first part of hls_coding_quadtree: a block that begins a quantization
\* group has no difference yet.
Entered(node) ==
    IF node.size >= pps.group THEN [lc EXCEPT !.isCoded = FALSE, !.cuQpDelta = 0] ELSE lc

Inside(node) == node.x + node.size <= pps.width /\ node.y + node.size <= pps.height

EndsGroup(node) == (node.x + node.size) % pps.group = 0 /\ (node.y + node.size) % pps.group = 0

Split ==
    /\ todo # <<>> /\ Head(todo).kind = "tree" /\ more
    /\ LET node == Head(todo)
           half == node.size \div 2
           children == SelectSeq(<<Call(node.x, node.y, half), Call(node.x + half, node.y, half),
                                   Call(node.x, node.y + half, half),
                                   Call(node.x + half, node.y + half, half)>>,
                                 LAMBDA c : c.x < pps.width /\ c.y < pps.height)
       IN  /\ node.size > 1
           /\ Inside(node) => used.splits < MaxSplits
           /\ used' = [used EXCEPT !.splits = IF Inside(node) THEN @ + 1 ELSE @]
           /\ lc' = Entered(node)
           /\ todo' = children \o <<Return(node.x, node.y, node.size)>> \o Tail(todo)
    /\ UNCHANGED <<pps, sh, qpTab, more, ts, flags, hist>>

\* hls_coding_quadtree comes back from its four parts.
Leave ==
    /\ todo # <<>> /\ Head(todo).kind = "end"
    /\ LET node == Head(todo) IN
        /\ lc' = IF EndsGroup(node) THEN [lc EXCEPT !.qPyPred = lc.qpY] ELSE lc
        /\ more' = (more /\ (node.x + node.size < pps.width \/ node.y + node.size < pps.height))
    /\ GoOn(Tail(todo))
    /\ UNCHANGED <<pps, sh, qpTab, flags, used, hist>>

-----------------------------------------------------------------------------
(* The QP of a coding unit.                                                *)

Corner(node) == <<node.x - (node.x % pps.group), node.y - (node.y % pps.group)>>

\* get_qPy_pred, for the local context c.
Predicted(node, c) ==
    LET g == Corner(node)
        isFirst == c.firstQpGroup \/ g = <<0, 0>>
        qPyPred == IF isFirst THEN sh ELSE c.qPyPred
        qPyA == IF node.x % pps.ctb # 0 /\ g[1] % pps.ctb # 0 THEN qpTab[<<g[1] - 1, g[2]>>] ELSE qPyPred
        qPyB == IF node.y % pps.ctb # 0 /\ g[2] % pps.ctb # 0 THEN qpTab[<<g[1], g[2] - 1>>] ELSE qPyPred
    IN  (qPyA + qPyB + 1) \div 2

Wrapped(qp, delta) == ((qp + delta + 52 + 2 * pps.offset) % (52 + pps.offset)) - pps.offset

\* Variant: the first unit of a slice ends its first group, coded or not.
SetQpOnce(node, c) ==
    LET qp == Predicted(node, c)
    IN  [c EXCEPT !.firstQpGroup = FALSE,
                  !.qpY = IF c.cuQpDelta # 0 THEN Wrapped(qp, c.cuQpDelta) ELSE qp]

\* ff_hevc_set_qPy.
SetQp(node, c) ==
    LET qp == Predicted(node, c)
        isFirst == c.firstQpGroup \/ Corner(node) = <<0, 0>>
    IN  [c EXCEPT !.firstQpGroup = IF isFirst THEN ~c.isCoded ELSE @,
                  !.qpY = IF c.cuQpDelta # 0 THEN Wrapped(qp, c.cuQpDelta) ELSE qp]

\* The QP part of hls_transform_unit: `coded` holds the difference, if the unit
\* has a residual and none was coded in the group.
Transformed(node, c, coded) ==
    IF coded = {} THEN c
    ELSE SetQp(node, [c EXCEPT !.cuQpDelta = CHOOSE d \in coded : TRUE, !.isCoded = TRUE])

\* The end of hls_coding_unit.
Finished(node, c) ==
    LET set == IF c.isCoded THEN c ELSE SetQp(node, c)
    IN  IF EndsGroup(node) THEN [set EXCEPT !.qPyPred = set.qpY] ELSE set

\* What H.265, 8.6.1 derives for the unit: qPY_PREV is the slice's QP in the
\* first group of a slice, a tile or a synchronised row, and otherwise that of
\* the last unit of the group before in decoding order; CuQpDeltaVal is 0
\* in a group until a difference is coded.
Derived(node, coded) ==
    LET g == Corner(node)
        new == hist.group # g
        first == IF new THEN hist.starts ELSE hist.first
        prev == IF new THEN hist.last ELSE hist.prev
        delta == IF coded # {} THEN CHOOSE d \in coded : TRUE ELSE IF new THEN 0 ELSE hist.delta
        qPyPrev == IF first THEN sh ELSE prev
        beside(b) == IF b \in Blocks /\ b[1] >= XCtb /\ b[2] >= YCtb THEN qpTab[b] ELSE qPyPrev
        qPyPred == (beside(<<g[1] - 1, g[2]>>) + beside(<<g[1], g[2] - 1>>) + 1) \div 2
        qp == Wrapped(qPyPred, delta)
    IN  [group |-> g, starts |-> IF new THEN FALSE ELSE hist.starts, first |-> first,
         last |-> qp, prev |-> prev, delta |-> delta, at |-> <<node.x, node.y>>, qp |-> qp]

\* Variant: only whole blocks end.
EndsWholeCtb(node) == (node.x + node.size) % pps.ctb = 0 /\ (node.y + node.size) % pps.ctb = 0

EndsCtb(node) ==
    /\ (node.x + node.size) % pps.ctb = 0 \/ node.x + node.size >= pps.width
    /\ (node.y + node.size) % pps.ctb = 0 \/ node.y + node.size >= pps.height

\* A block that is not split: hls_coding_unit, then the end of slice flag.
CodingUnit(coded) ==
    /\ todo # <<>> /\ Head(todo).kind = "tree" /\ more
    /\ LET node == Head(todo)
           entered == Entered(node)
           left == Finished(node, Transformed(node, entered, coded))
       IN  /\ Inside(node)
           /\ coded # {} => ~entered.isCoded /\ used.deltas < MaxDeltas
           /\ lc' = left
           /\ qpTab' = [b \in Covered(node.x, node.y, node.size) |-> left.qpY] @@ qpTab
           /\ hist' = Derived(node, coded)
           /\ IF EndsCtb(node)
              THEN more' \in BOOLEAN /\ flags' = flags + 1
              ELSE more' = TRUE /\ flags' = flags
    /\ used' = [used EXCEPT !.deltas = @ + Cardinality(coded)]
    /\ GoOn(Tail(todo))
    /\ UNCHANGED <<pps, sh>>

\* The picture is complete, or no segment is left to come.
Rest ==
    /\ todo = <<>>
    /\ ts = CtbCount \/ (~more /\ used.segments = MaxSegments)
    /\ UNCHANGED vars

Next ==
    \/ \E dependent \in BOOLEAN : StartSegment(dependent)
    \/ StartCtb \/ Split \/ Leave
    \/ CodingUnit({})
    \/ \E d \in Deltas : CodingUnit({d})
    \/ Rest

Spec == Init /\ [][Next]_vars

-----------------------------------------------------------------------------
(* Properties.                                                             *)

\* Type invariant, with the assertions of get_qPy_pred: a QP taken from beside a
\* group is in range, so no stale entry is averaged.
TypeOK ==
    /\ pps \in Layouts /\ sh \in SliceQps
    /\ lc.firstQpGroup \in BOOLEAN /\ lc.isCoded \in BOOLEAN
    /\ {lc.qPyPred, lc.qpY} \subseteq -pps.offset..51 /\ lc.cuQpDelta \in Deltas \cup {0}
    /\ qpTab \in [Blocks -> (-pps.offset..51) \cup {Stale}]
    /\ \A i \in DOMAIN todo : todo[i].kind \in {"tree", "end"} /\ todo[i].size \in 1..pps.ctb
    /\ more \in BOOLEAN /\ ts \in 0..CtbCount /\ flags \in Nat
    /\ used.segments <= MaxSegments /\ used.deltas <= MaxDeltas /\ used.splits <= MaxSplits

\* Every coding unit gets the QP H.265 derives for it: hevc.c keeps qPy_pred
\* and first_qp_group up to date at five places for it, some of which a unit
\* without residual must not touch.
QpByStandard == hist.qp # Stale => qpTab[hist.at] = hist.qp

\* Between coding tree blocks all those before are covered by coding units, and
\* the end of slice flag was read once for each, also where the picture ends
\* inside a block.
CtbsWhole ==
    todo = <<>> =>
        /\ flags = ts
        /\ \A b \in Blocks :
              qpTab[b] # Stale <=> (b[2] \div pps.ctb) * CtbsPerRow + b[1] \div pps.ctb < ts

\* When the walk says there is no more data, it does so after the last unit of a
\* coding tree block: no call is dropped by it.
NoCallDropped == ~more => \A i \in DOMAIN todo : todo[i].kind = "end"

\* The walk covers the picture, tree block by tree block, and stops only there.
TreeWalked == TypeOK /\ CtbsWhole /\ NoCallDropped
=============================================================================
