----------------------------- MODULE HEVCIntra ------------------------------
(***************************************************************************)
(* The samples an intra predicted block is predicted from: which of the    *)
(* samples beside it exist, are decoded, belong to its slice and, with     *)
(* constrained intra prediction, to intra blocks, and what stands in for   *)
(* the others.  A picture is decoded block by block, every block intra or  *)
(* inter.  From intra_pred (hevcpred_template.c, before its filter), the   *)
(* flags it starts from (hevc_mvs.c, hevc.c) and the order of blocks in    *)
(* hls_transform_unit.                                                     *)
(*                                                                         *)
(* A sample is its place in the plane of its component.  Positions of      *)
(* blocks and sizes are in luma samples, as in the code.                   *)
(***************************************************************************)
EXTENDS Integers, Sequences, FiniteSets, FiniteSetsExt, SequencesExt

CONSTANT
    Layouts      \* parameter sets, see LayoutAssumption

MinCb == 8       \* smallest coding block
MinTb == 4       \* smallest transform block, and smallest prediction unit

\* chroma is chroma_format_idc, constrained is constrained_intra_pred_flag and
\* sliceStarts the blocks at which a slice may begin.  tbSizes are the sizes of
\* luma transform blocks; splits bounds the coding blocks split by choice, inter
\* the coding units that are not intra.
ASSUME LayoutAssumption == \A l \in Layouts :
    /\ l.ctb \in {16, 32, 64} /\ l.chroma \in 0..3 /\ l.constrained \in BOOLEAN
    /\ \A n \in {l.width, l.height} : n \in Nat \ {0} /\ n % MinCb = 0
    /\ l.sliceStarts \subseteq Nat /\ l.tbSizes \subseteq {4, 8, 16, 32}
    /\ l.splits \in Nat /\ l.inter \in Nat

VARIABLES
    pps,     \* the layout
    slice,   \* slice_addr
    pred,    \* pred_flag of tab_mvf, per smallest coding block
    decoded, \* history: what of the planes is decoded, in units of 4 by 4 samples
    todo,    \* coding blocks still to come in this tree block
    tbs,     \* transform blocks still to be predicted in this unit
    tb,      \* the block being predicted, as a set
    ts,      \* the tree block
    used     \* bounds used up

vars == <<pps, slice, pred, decoded, todo, tbs, tb, ts, used>>

CtbsPerRow == (pps.width + pps.ctb - 1) \div pps.ctb
CtbCount == CtbsPerRow * ((pps.height + pps.ctb - 1) \div pps.ctb)
CtbOf(x, y) == (y \div pps.ctb) * CtbsPerRow + x \div pps.ctb
Cbs == (0..(pps.width \div MinCb) - 1) \X (0..(pps.height \div MinCb) - 1)
CbAt(x, y) == <<x \div MinCb, y \div MinCb>>
Covered(x, y, size) ==
    {b \in Cbs : b[1] * MinCb - x \in 0..size - 1 /\ b[2] * MinCb - y \in 0..size - 1}

Cb(x, y, size) == [x |-> x, y |-> y, size |-> size]
\* A transform block of component c: size counts its own samples.
Tb(c, x, y, size) == [c |-> c, x |-> x, y |-> y, size |-> size]

HShift(c) == IF c > 0 /\ pps.chroma \in {1, 2} THEN 1 ELSE 0
VShift(c) == IF c > 0 /\ pps.chroma = 1 THEN 1 ELSE 0

SizeH(b) == b.size * 2 ^ HShift(b.c)   \* size_in_luma_h, size_in_luma_v
SizeV(b) == b.size * 2 ^ VShift(b.c)
PlaneX(b) == b.x \div 2 ^ HShift(b.c)
PlaneY(b) == b.y \div 2 ^ VShift(b.c)

Planes == IF pps.chroma = 0 THEN {0} ELSE {0, 1}
\* The units of plane c that the luma rectangle from (x, y) covers.
Units(c, x, y, width, height) ==
    LET columns == {u \in x..x + width - 1 : u % (4 * 2 ^ HShift(c)) = 0}
        rows == {v \in y..y + height - 1 : v % (4 * 2 ^ VShift(c)) = 0}
    IN  {<<c, u \div (4 * 2 ^ HShift(c)), v \div (4 * 2 ^ VShift(c))>> : u \in columns, v \in rows}
UnitsOf(b) == Units(b.c, b.x, b.y, SizeH(b), SizeV(b))

\* What an earlier picture left in tab_mvf is all intra or all inter.
Init ==
    /\ pps \in Layouts
    /\ slice = 0
    /\ \E left \in {"intra", "inter"} : pred = [b \in Cbs |-> left]
    /\ decoded = {} /\ tbs = <<>> /\ tb = {} /\ ts = 0
    /\ todo = <<Cb(0, 0, pps.ctb)>>
    /\ used = [splits |-> 0, inter |-> 0]

-----------------------------------------------------------------------------
(* Coding blocks and their transform blocks.                               *)

Quarters(b) ==
    LET h == b.size \div 2
    IN  SelectSeq(<<Cb(b.x, b.y, h), Cb(b.x + h, b.y, h), Cb(b.x, b.y + h, h), Cb(b.x + h, b.y + h, h)>>,
                  LAMBDA q : q.x < pps.width /\ q.y < pps.height)

Inside(b) == b.x + b.size <= pps.width /\ b.y + b.size <= pps.height

\* hls_coding_quadtree.
Split ==
    /\ tbs = <<>> /\ todo # <<>>
    /\ LET b == Head(todo) IN
        /\ b.size > MinCb
        /\ Inside(b) => used.splits < pps.splits
        /\ used' = [used EXCEPT !.splits = IF Inside(b) THEN @ + 1 ELSE @]
        /\ todo' = Quarters(b) \o Tail(todo)
    /\ tb' = {}
    /\ UNCHANGED <<pps, slice, pred, decoded, tbs, ts>>

\* The k-th of the blocks of a square in the order of the quadtree.
ZScanX(k) == (k % 2) + 2 * ((k \div 4) % 2) + 4 * ((k \div 16) % 2)
ZScanY(k) == ((k \div 2) % 2) + 2 * ((k \div 8) % 2) + 4 * ((k \div 32) % 2)

\* hls_transform_unit: the luma block, then one of the chroma components (the
\* other is predicted alike); with 4:2:2 two blocks one above the other, and for
\* the smallest luma blocks one for four of them, at the place of the first.
Chroma(x, y, size) ==
    LET n == size \div 2
        upper == Tb(1, x, y, n)
    IN  CASE pps.chroma = 0 -> <<>>
          [] pps.chroma = 1 -> <<upper>>
          [] pps.chroma = 2 -> <<upper, Tb(1, x, y + n, n)>>
          [] pps.chroma = 3 -> <<Tb(1, x, y, size)>>

TransformUnit(x, y, size, blkIdx) ==
    <<Tb(0, x, y, size)>> \o
    (IF size > MinTb \/ pps.chroma = 3 THEN Chroma(x, y, size)
     ELSE IF blkIdx = 3 THEN Chroma(x - MinTb, y - MinTb, 2 * MinTb)
     ELSE <<>>)

TransformTree(b, size) ==
    LET n == b.size \div size
    IN  FlattenSeq([k \in 1..n * n |->
            TransformUnit(b.x + size * ZScanX(k - 1), b.y + size * ZScanY(k - 1), size, (k - 1) % 4)])

\* hls_coding_unit: an intra unit predicts its transform blocks one after the
\* other, an inter unit looks at no sample beside it.
CodingUnit(mode, size) ==
    /\ tbs = <<>> /\ todo # <<>>
    /\ LET b == Head(todo) IN
        /\ Inside(b) /\ size <= b.size
        /\ mode = "inter" => used.inter < pps.inter /\ size = b.size
        /\ pred' = [c \in Covered(b.x, b.y, b.size) |-> mode] @@ pred
        /\ decoded' = IF mode = "inter" THEN decoded \cup UNION {Units(c, b.x, b.y, b.size, b.size) : c \in Planes}
                       ELSE decoded
        /\ tbs' = IF mode = "intra" THEN TransformTree(b, size) ELSE <<>>
    /\ todo' = Tail(todo)
    /\ used' = [used EXCEPT !.inter = IF mode = "inter" THEN @ + 1 ELSE @]
    /\ tb' = {}
    /\ UNCHANGED <<pps, slice, ts>>

\* intra_pred is called for the next block.
Predict ==
    /\ tbs # <<>>
    /\ tb' = {Head(tbs)}
    /\ tbs' = Tail(tbs)
    /\ decoded' = decoded \cup UnitsOf(Head(tbs))
    /\ UNCHANGED <<pps, slice, pred, todo, ts, used>>

NextCtb ==
    /\ tbs = <<>> /\ todo = <<>> /\ ts + 1 < CtbCount
    /\ ts' = ts + 1
    /\ slice' \in {slice} \cup (pps.sliceStarts \cap {ts + 1})
    /\ todo' = <<Cb((ts' % CtbsPerRow) * pps.ctb, (ts' \div CtbsPerRow) * pps.ctb, pps.ctb)>>
    /\ tb' = {}
    /\ UNCHANGED <<pps, pred, decoded, tbs, used>>

Rest == tbs = <<>> /\ todo = <<>> /\ ts + 1 = CtbCount /\ UNCHANGED vars

Next ==
    \/ Split \/ Predict \/ NextCtb \/ Rest
    \/ \E mode \in {"intra", "inter"}, size \in pps.tbSizes \cup {pps.ctb} : CodingUnit(mode, size)

Spec == Init /\ [][Next]_vars

-----------------------------------------------------------------------------
(* The samples beside a block, as intra_pred collects them.                *)

\* min_tb_addr_zs: within a tree block, and -1 left of and above it.
MinTbAddrZs(x, y) ==
    LET bit(n, i) == (n \div 2 ^ i) % 2
    IN  IF x < 0 \/ y < 0 THEN -1
        ELSE FoldSet(LAMBDA i, sum : sum + (bit(x, i) + 2 * bit(y, i)) * 4 ^ i, 0, 0..3)

\* hls_decode_neighbour for one tile, then ff_hevc_set_neighbour_available.
NeighbourAvailable(b) ==
    LET inSlice == CtbOf(b.x, b.y) - slice
        xCtb == b.x - (b.x % pps.ctb)
        yCtb == b.y - (b.y % pps.ctb)
        x0b == b.x % pps.ctb
        y0b == b.y % pps.ctb
        ctbLeft == xCtb > 0 /\ inSlice > 0
        ctbUp == yCtb > 0 /\ inSlice >= CtbsPerRow
        ctbUpRight == yCtb > 0 /\ inSlice + 1 >= CtbsPerRow
        ctbUpLeft == xCtb > 0 /\ yCtb > 0 /\ inSlice - 1 >= CtbsPerRow
        up == ctbUp \/ y0b > 0
        left == ctbLeft \/ x0b > 0
        sap == IF x0b + SizeH(b) = pps.ctb THEN ctbUpRight /\ y0b = 0 ELSE up
    IN  [up |-> up, left |-> left,
         upLeft |-> IF x0b = 0 /\ y0b = 0 THEN ctbUpLeft ELSE left /\ up,
         upRight |-> sap /\ b.x + SizeH(b) < pps.width,
         bottomLeft |-> b.y + SizeV(b) < Min({yCtb + pps.ctb, pps.height}) /\ left]

\* Variant: what lies above is taken to be decoded.
DecodedAbove(b, cand) ==
    LET mask == pps.ctb \div MinTb
        xTb == (b.x \div MinTb) % mask
        yTb == (b.y \div MinTb) % mask
    IN  [cand EXCEPT !.bottomLeft = @ /\ MinTbAddrZs(xTb, yTb)
            > MinTbAddrZs(xTb - 1, (yTb + SizeV(b) \div MinTb) % mask)]

\* The two candidates that may not be decoded yet.
Decoded(b, cand) ==
    LET mask == pps.ctb \div MinTb
        xTb == (b.x \div MinTb) % mask
        yTb == (b.y \div MinTb) % mask
        cur == MinTbAddrZs(xTb, yTb)
    IN  [cand EXCEPT
            !.bottomLeft = @ /\ cur > MinTbAddrZs(xTb - 1, (yTb + SizeV(b) \div MinTb) % mask),
            !.upRight = @ /\ cur > MinTbAddrZs((xTb + SizeH(b) \div MinTb) % mask, yTb - 1)]

BottomLeftSize(b) == (Min({b.y + 2 * SizeV(b), pps.height}) - (b.y + SizeV(b))) \div 2 ^ VShift(b.c)
TopRightSize(b) == (Min({b.x + 2 * SizeH(b), pps.width}) - (b.x + SizeH(b))) \div 2 ^ HShift(b.c)

\* IS_INTRA, at a sample next to the block.
IsIntra(b, i, j) ==
    pred[CbAt((PlaneX(b) + i) * 2 ^ HShift(b.c), (PlaneY(b) + j) * 2 ^ VShift(b.c))] = "intra"

\* Variant: the first block of a side speaks for all.
IntraSidesFirst(b, cand) ==
    LET at(x, y) == pred[CbAt(x, y)] = "intra"
    IN  [bottomLeft |-> cand.bottomLeft /\ at(b.x - 1, b.y + SizeV(b)),
         left |-> cand.left /\ at(b.x - 1, b.y),
         upLeft |-> cand.upLeft /\ at(b.x - 1, b.y - 1),
         up |-> cand.up /\ at(b.x, b.y - 1),
         upRight |-> cand.upRight /\ at(b.x + SizeH(b), b.y - 1)]

\* With constrained prediction a side counts if one of its blocks is intra; the
\* loops look at every second unit, which is every coding block.
IntraSides(b, cand) ==
    LET row(x, y) == \E i \in 0..SizeH(b) - 1 :
                        i % MinCb = 0 /\ x + i < pps.width /\ pred[CbAt(x + i, y)] = "intra"
        column(x, y) == \E i \in 0..SizeV(b) - 1 :
                        i % MinCb = 0 /\ y + i < pps.height /\ pred[CbAt(x, y + i)] = "intra"
    IN  [bottomLeft |-> cand.bottomLeft /\ column(b.x - 1, b.y + SizeV(b)),
         left |-> cand.left /\ column(b.x - 1, b.y),
         upLeft |-> cand.upLeft /\ pred[CbAt(b.x - 1, b.y - 1)] = "intra",
         up |-> cand.up /\ row(b.x, b.y - 1),
         upRight |-> cand.upRight /\ row(b.x + SizeH(b), b.y - 1)]

\* left and top are arrays from -1; a sample is its place in the plane, the
\* value of the memset, a zero, the middle of the range, or not set at all.
Filler == <<"filler">>
Middle == <<"middle">>
Zero == <<"zero">>
Unset == <<"unset">>

Fill(line, from, len, sample) ==
    [i \in DOMAIN line |-> IF i \in from..from + len - 1 THEN sample ELSE line[i]]

\* The same with the sample at `at`, and for the corner alone.
FillUnless(keep, line, from, len, at) == IF keep THEN line ELSE Fill(line, from, len, line[at])
CornerUnless(keep, line, at) == IF keep THEN line ELSE [line EXCEPT ![-1] = line[at]]

Copied(b, cand) ==
    LET n == b.size
        pos(i, j) == <<PlaneX(b) + i, PlaneY(b) + j>>
        empty == [i \in -1..2 * n - 1 |-> IF pps.constrained THEN Filler ELSE Unset]
        corner(line) == IF cand.upLeft THEN [line EXCEPT ![-1] = pos(-1, -1)] ELSE line
    IN  [top |-> [i \in -1..2 * n - 1 |->
                    IF i \in 0..n - 1 /\ cand.up THEN pos(i, -1)
                    ELSE IF i >= n /\ cand.upRight THEN pos(Min({i, n + TopRightSize(b) - 1}), -1)
                    ELSE corner(empty)[i]],
         left |-> [i \in -1..2 * n - 1 |->
                    IF i \in 0..n - 1 /\ cand.left THEN pos(-1, i)
                    ELSE IF i >= n /\ cand.bottomLeft THEN pos(-1, Min({i, n + BottomLeftSize(b) - 1}))
                    ELSE corner(empty)[i]]]

Group(i) == i - (i % 4)

\* EXTEND_RIGHT_CIP and EXTEND_DOWN_CIP: groups of four that are not intra take
\* the last sample before them.  EXTEND_UP_CIP goes the other way.
ExtendOn(line, len, Intra(_)) ==
    [i \in DOMAIN line |->
        IF i < 0 \/ i >= len \/ Intra(Group(i)) THEN line[i]
        ELSE LET before == {g \in 0..Group(i) - 1 : g % 4 = 0 /\ Intra(g)}
             IN  IF before = {} THEN line[-1] ELSE line[Max(before) + 3]]

ExtendUp(line, len, Intra(_)) ==
    [i \in DOMAIN line |->
        IF i < 0 \/ i >= len \/ Intra(Group(i)) THEN line[i]
        ELSE LET after == {g \in Group(i) + 4..len - 1 : g % 4 = 0 /\ Intra(g)}
             IN  IF after = {} THEN line[len - 1] ELSE line[Min(after)]]

\* EXTEND_LEFT_CIP from the first intra sample j of the top line down to `to`.
ExtendLeft(line, j, to, Intra(_)) ==
    [i \in DOMAIN line |-> IF i \in to..j - 1 /\ ~Intra(i) THEN line[j] ELSE line[i]]

\* The substitution of constrained intra prediction.
Substituted(b, cand, arr) ==
    LET n == b.size
        onTop(i) == IsIntra(b, i, -1)
        onLeft(j) == IsIntra(b, -1, j)
        maxX == LET len == IF cand.upRight THEN 2 * n ELSE n
                IN  IF b.x + len * 2 ^ HShift(b.c) < pps.width THEN len
                    ELSE (pps.width - b.x) \div 2 ^ HShift(b.c)
        maxY == LET len == IF cand.bottomLeft THEN 2 * n ELSE n
                IN  IF b.y + len * 2 ^ VShift(b.c) < pps.height THEN len
                    ELSE (pps.height - b.y) \div 2 ^ VShift(b.c)
        lowest == n + (IF cand.bottomLeft THEN BottomLeftSize(b) ELSE 0) - 1
        first == LET s == {j \in 0..maxX - 1 : onTop(j)} IN IF s = {} THEN maxX ELSE Min(s)
        \* the corner and the top line, up to left[-1] = top[-1]
        top1 ==
            IF cand.bottomLeft \/ cand.left \/ cand.upLeft
            THEN IF (\E j \in 0..lowest : onLeft(j)) \/ onLeft(-1) THEN arr.top
                 ELSE ExtendLeft(arr.top, first, -1, onTop)
            ELSE IF first = 0 THEN arr.top
            ELSE IF b.x > 0 THEN ExtendLeft(arr.top, first, -1, onTop)
            ELSE CornerUnless(FALSE, ExtendLeft(arr.top, first, 0, onTop), 0)
        left1 == [arr.left EXCEPT ![-1] = top1[-1]]
        left2 == IF cand.bottomLeft \/ cand.left THEN ExtendOn(left1, maxY, onLeft) ELSE left1
        left3 == FillUnless(cand.left, left2, 0, n, -1)
        left4 == FillUnless(cand.bottomLeft, left3, n, n, n - 1)
        left5 == IF b.x = 0 THEN Fill(left4, 0, maxY, Zero)
                 ELSE ExtendUp(left4, maxY, onLeft)
        left6 == CornerUnless(b.x = 0 \/ b.y = 0 \/ onLeft(-1), left5, 0)
        top2 == [top1 EXCEPT ![-1] = left6[-1]]
    IN  [left |-> left6, top |-> IF b.y = 0 THEN top2 ELSE ExtendOn(top2, maxX, onTop)]

\* Variant: a missing corner is taken from the top line.
InferredFromTop(b, cand, arr) ==
    LET n == b.size
        corner == IF cand.upLeft THEN arr.left[-1] ELSE IF cand.up THEN arr.top[0]
                  ELSE IF cand.left THEN arr.left[0] ELSE Middle
        left1 == IF cand.left THEN arr.left ELSE Fill(arr.left, 0, n, corner)
        left2 == FillUnless(cand.bottomLeft, left1, n, n, n - 1)
        top1 == IF cand.up THEN arr.top ELSE Fill(arr.top, 0, n, corner)
        top2 == FillUnless(cand.upRight, top1, n, n, n - 1)
    IN  [left |-> [left2 EXCEPT ![-1] = corner], top |-> [top2 EXCEPT ![-1] = corner]]

\* "Infer the unavailable samples".
Inferred(b, cand, arr) ==
    LET n == b.size
        none == ~(cand.bottomLeft \/ cand.left \/ cand.upLeft \/ cand.up \/ cand.upRight)
        rightOnly == ~(cand.bottomLeft \/ cand.left \/ cand.upLeft \/ cand.up) /\ cand.upRight
        upFirst == ~(cand.bottomLeft \/ cand.left \/ cand.upLeft) /\ cand.up
        top1 == IF none THEN Fill(arr.top, 0, 2 * n, Middle)
                ELSE FillUnless(~rightOnly, arr.top, 0, n, n)
        corner == IF none THEN Middle
                  ELSE IF rightOnly \/ upFirst THEN top1[IF rightOnly THEN n ELSE 0]
                  ELSE arr.left[-1]
        left1 == IF cand.bottomLeft THEN arr.left
                 ELSE IF cand.left THEN Fill(arr.left, n, n, arr.left[n - 1])
                 ELSE Fill([arr.left EXCEPT ![-1] = corner], 0, 2 * n, corner)
        left2 == FillUnless(~cand.bottomLeft \/ cand.left, left1, 0, n, n)
        left3 == CornerUnless(cand.upLeft \/ ~(cand.bottomLeft \/ cand.left), left2, 0)
        top2 == IF cand.up \/ none \/ rightOnly THEN top1 ELSE Fill(top1, 0, n, left3[-1])
        top3 == FillUnless(cand.upRight \/ none, top2, n, n, n - 1)
    IN  [left |-> left3, top |-> [top3 EXCEPT ![-1] = left3[-1]]]

\* The lines intra_pred predicts block b from, before they are smoothed.
LinesFrom(b, cand) ==
    LET arr == Copied(b, cand)
        any == cand.bottomLeft \/ cand.left \/ cand.upLeft \/ cand.up \/ cand.upRight
    IN  Inferred(b, cand, IF pps.constrained /\ any THEN Substituted(b, cand, arr) ELSE arr)
Lines(b) ==
    LET avail == Decoded(b, NeighbourAvailable(b))
    IN  LinesFrom(b, IF pps.constrained THEN IntraSides(b, avail) ELSE avail)

-----------------------------------------------------------------------------
(* What H.265 says.                                                        *)

\* 6.4.1 and 8.4.4.2.2: sample (i, j) beside b can be used if it lies in the
\* picture, comes before b in decoding order, and in the same slice.
Usable(b, i, j) ==
    LET x == (PlaneX(b) + i) * 2 ^ HShift(b.c)
        y == (PlaneY(b) + j) * 2 ^ VShift(b.c)
        addr(u, v) == MinTbAddrZs((u % pps.ctb) \div MinTb, (v % pps.ctb) \div MinTb)
    IN  /\ x \in 0..pps.width - 1 /\ y \in 0..pps.height - 1
        /\ CtbOf(x, y) \in slice..CtbOf(b.x, b.y)
        /\ CtbOf(x, y) = CtbOf(b.x, b.y) => addr(x, y) < addr(b.x, b.y)
        /\ pps.constrained => pred[CbAt(x, y)] = "intra"

\* 8.4.4.2.2: from the bottom left upwards, then to the right, a sample that
\* cannot be used is that before it, and the first is the first that can.
StandardLines(b) ==
    LET n == b.size
        i(k) == IF k <= 2 * n THEN -1 ELSE k - 2 * n - 1
        j(k) == IF k <= 2 * n THEN 2 * n - 1 - k ELSE -1
        usable == {k \in 0..4 * n : Usable(b, i(k), j(k))}
        at(k) ==
            LET before == {m \in usable : m <= k}
                m == IF before = {} THEN Min(usable) ELSE Max(before)
            IN  IF usable = {} THEN Middle ELSE <<PlaneX(b) + i(m), PlaneY(b) + j(m)>>
    IN  [left |-> [r \in -1..2 * n - 1 |-> at(2 * n - 1 - r)],
         top |-> [r \in -1..2 * n - 1 |-> at(2 * n + 1 + r)]]

-----------------------------------------------------------------------------
(* Properties.                                                             *)

LineSamples(b) == LET lines == Lines(b) IN Range(lines.left) \cup Range(lines.top)

\* Type invariant.
TypeOK ==
    /\ pps \in Layouts /\ slice \in {0} \cup pps.sliceStarts /\ slice <= ts
    /\ pred \in [Cbs -> {"intra", "inter"}]
    /\ \A i \in DOMAIN todo : todo[i].x \in 0..pps.width - 1 /\ todo[i].y \in 0..pps.height - 1
    /\ \A b \in Range(tbs) \cup tb :
        /\ b.c \in Planes /\ b.size \in {4, 8, 16, 32}
        /\ b.x + SizeH(b) <= pps.width /\ b.y + SizeV(b) <= pps.height
    /\ Cardinality(tb) <= 1 /\ ts \in 0..CtbCount - 1
    /\ used.splits <= pps.splits /\ used.inter <= pps.inter

\* Every sample of every plane is decoded once, in whatever sizes the blocks
\* come: hls_transform_unit leaves chroma blocks to the last of four small luma
\* blocks and makes two of them with 4:2:2.
PlanesWhole ==
    tbs = <<>> /\ todo = <<>> =>
        decoded = {u \in UNION {Units(c, 0, 0, pps.width, pps.height) : c \in Planes} :
                    CtbOf(u[2] * 4 * 2 ^ HShift(u[1]), u[3] * 4 * 2 ^ VShift(u[1])) <= ts}

\* No block is predicted from samples outside the picture, not decoded yet, or of
\* another slice: intra_pred asks flags of the tree block and compares addresses
\* within it.
ReadsDecoded ==
    \A b \in tb : \A p \in LineSamples(b) :
        Len(p) = 2 =>
            /\ <<b.c, p[1] \div 4, p[2] \div 4>> \in decoded \ UnitsOf(b)
            /\ CtbOf(p[1] * 2 ^ HShift(b.c), p[2] * 2 ^ VShift(b.c)) >= slice

\* The planes are decoded in an order that serves prediction.
BlocksWhole == TypeOK /\ PlanesWhole /\ ReadsDecoded

\* The code differs from the standard in two cases of constrained prediction: the
\* picture ends inside the blocks above right or below left and the last of them
\* in the picture is not intra; or the slice begins just above right or above, so
\* that what is left of its beginning cannot be used but may be intra.
LastNotIntra(b, cand) ==
    \/ cand.upRight /\ TopRightSize(b) < b.size /\ ~IsIntra(b, b.size + TopRightSize(b) - 1, -1)
    \/ cand.bottomLeft /\ BottomLeftSize(b) < b.size /\ ~IsIntra(b, -1, b.size + BottomLeftSize(b) - 1)
SliceBegins(cand) == (cand.upRight /\ ~cand.up) \/ (cand.up /\ cand.left /\ ~cand.upLeft)
Exempt(b) ==
    LET cand == Decoded(b, NeighbourAvailable(b))
    IN  pps.constrained /\ (LastNotIntra(b, cand) \/ SliceBegins(cand))

\* The lines are those of H.265, 8.4.4.2.2: every sample that cannot be used is
\* the last usable one on the way from the bottom left to the top right.  The code
\* gets there by extending in four directions and correcting what it extended.
LinesByStandard == \A b \in tb : Exempt(b) \/ Lines(b) = StandardLines(b)
=============================================================================
