---------------------------- MODULE MCHEVCPicture ----------------------------
(***************************************************************************)
(* Small pictures for the three specifications that go through a picture:  *)
(* HEVCIntra and HEVCQuant, which walk its quadtree, and HEVCSlices, which *)
(* decodes its tree blocks segment by segment.  They share no state: a     *)
(* behaviour is one of the three, as `walk` says.                          *)
(***************************************************************************)
EXTENDS HEVCIntra

Picture(w, h, c, f, con, starts, inter) ==
    [width |-> w, height |-> h, ctb |-> c, chroma |-> f, constrained |-> con, sliceStarts |-> starts,
     tbSizes |-> IF c = 64 THEN {8, 32} ELSE {4, 8, 16}, splits |-> IF c = 64 THEN 2 ELSE 3, inter |-> inter]

\* Pictures that end inside tree blocks, in all chroma formats and with slices;
\* then with constrained prediction, last a block of 32 samples with 16 of the
\* picture to its right.
MCPictures == {
    Picture(24, 24, 16, 1, FALSE, {1, 2, 3}, 1), Picture(24, 24, 16, 2, FALSE, {2}, 1),
    Picture(32, 24, 32, 3, FALSE, {}, 1),
    Picture(24, 24, 16, 1, TRUE, {}, 3), Picture(24, 24, 16, 2, TRUE, {1, 2, 3}, 3),
    Picture(32, 24, 16, 0, TRUE, {1}, 2),
    Picture(48, 64, 64, 0, TRUE, {}, 1)}

QuantPicture(w, h, c, g, off, s, t) ==
    [width |-> w, height |-> h, ctb |-> c, group |-> g, offset |-> off, sync |-> s, tiles |-> t]

\* Groups as large as a block, a quarter and a sixteenth of it; a picture that
\* ends inside blocks; synchronised rows, and a tile to the right.
MCQuantPictures ==
    {QuantPicture(6, 4, 4, 2, 0, FALSE, {}), QuantPicture(6, 3, 4, 4, 6, FALSE, {1}),
     QuantPicture(3, 4, 2, 1, 0, TRUE, {}), QuantPicture(4, 4, 2, 2, 6, FALSE, {}),
     QuantPicture(6, 4, 4, 2, 0, FALSE, {1}), QuantPicture(3, 3, 4, 1, 0, FALSE, {})}

Layout(cols, rows, sync, acrossTiles) ==
    [colBd |-> cols, rowBd |-> rows, sync |-> sync, acrossTiles |-> acrossTiles, sao |-> TRUE]

\* One tile; rows that synchronise, also of two blocks and of one; four tiles
\* and three.
Plain == Layout(<<0, 3>>, <<0, 3>>, FALSE, TRUE)
Rows == {Layout(<<0, w>>, <<0, 3>>, TRUE, TRUE) : w \in 1..3}
Tiles == {Layout(<<0, 1, 3>>, <<0, 2, 3>>, FALSE, across) : across \in BOOLEAN}
         \cup {Layout(<<0, 2, 3, 4>>, <<0, 2>>, FALSE, FALSE)}

\* Pictures of up to three segments, of which one may get lost.
Divided == {[layout |-> l, saoTypes |-> {"Edge"}, sliceTypes |-> {"I", "P"}, segments |-> 3, lost |-> 1] :
                l \in {Plain} \cup Rows \cup Tiles}

\* Whole pictures, for every choice of filters.
Undivided == {[layout |-> l, saoTypes |-> {"None", "Band", "Edge"}, sliceTypes |-> {"P"}, segments |-> 1, lost |-> 0] :
                  l \in {Plain, Layout(<<0, 1, 3>>, <<0, 1, 2>>, FALSE, FALSE),
                         Layout(<<0, 2, 3, 4>>, <<0, 2>>, FALSE, TRUE)}}

MCStreams == Divided \cup Undivided

-----------------------------------------------------------------------------
VARIABLES walk, qPps, qSh, qLc, qTab, qTodo, qMore, qTs, qFlags, qUsed, qHist,
          sPps, sSh, sLc, sTables, sSaved, sFrame, sPhase, sTs, sStream
qVars == <<qPps, qSh, qLc, qTab, qTodo, qMore, qTs, qFlags, qUsed, qHist>>
sVars == <<sPps, sSh, sLc, sTables, sSaved, sFrame, sPhase, sTs, sStream>>

Quant == INSTANCE HEVCQuant WITH
    pps <- qPps, sh <- qSh, lc <- qLc, qpTab <- qTab, todo <- qTodo, more <- qMore, ts <- qTs,
    flags <- qFlags, used <- qUsed, hist <- qHist,
    Layouts <- MCQuantPictures, SliceQps <- {26, 50}, Deltas <- {0, 3},
    MaxSegments <- 3, MaxDeltas <- 2, MaxSplits <- 2

Slices == INSTANCE HEVCSlices WITH
    pps <- sPps, sh <- sSh, lc <- sLc, tables <- sTables, saved <- sSaved, frame <- sFrame,
    phase <- sPhase, ts <- sTs, stream <- sStream, Streams <- MCStreams

ASSUME QuantAssumption == Quant!LayoutAssumption /\ Quant!QpAssumption
ASSUME SlicesAssumption == Slices!StreamAssumption /\ Slices!LayoutAssumption

None == "none"
Idle == pps = None /\ slice = None /\ pred = None /\ decoded = None /\ todo = None /\ tbs = None
        /\ tb = None /\ ts = None /\ used = None
QuantIdle == qPps = None /\ qSh = None /\ qLc = None /\ qTab = None /\ qTodo = None /\ qMore = None
             /\ qTs = None /\ qFlags = None /\ qUsed = None /\ qHist = None
SlicesIdle == sPps = None /\ sSh = None /\ sLc = None /\ sTables = None /\ sSaved = None
              /\ sFrame = None /\ sPhase = None /\ sTs = None /\ sStream = None

EachInit == \/ walk = "intra" /\ Init /\ QuantIdle /\ SlicesIdle
            \/ walk = "quant" /\ Quant!Init /\ Idle /\ SlicesIdle
            \/ walk = "slices" /\ Slices!Init /\ Idle /\ QuantIdle
EachNext ==
    \/ walk = "intra" /\ Next /\ UNCHANGED <<walk, qVars, sVars>>
    \/ walk = "quant" /\ Quant!Next /\ UNCHANGED <<walk, vars, sVars>>
    \/ walk = "slices" /\ Slices!Next /\ UNCHANGED <<walk, vars, qVars>>
EachSpec == EachInit /\ [][EachNext]_<<walk, vars, qVars, sVars>>

\* Every coding unit gets the QP H.265 derives for it (HEVCQuant.tla).
QpByStandard == walk = "quant" => Quant!QpByStandard
\* The walk covers the picture and stops only there (HEVCQuant.tla).
TreeWalked == walk = "quant" => Quant!TreeWalked
\* Planes are decoded in an order that serves prediction (HEVCIntra.tla).
PlanesServe == walk = "intra" => BlocksWhole
\* Blocks are predicted from the samples H.265 names (HEVCIntra.tla).
PredictsByStandard == walk = "intra" => LinesByStandard
\* Tree blocks look at the neighbours H.265 lets them (HEVCSlices.tla).
NeighboursByStandard == walk = "slices" => Slices!NeighboursByStandard
\* Segments continue slice, contexts and lists (HEVCSlices.tla).
SegmentsContinue == walk = "slices" => Slices!SegmentsContinue
\* Each filter runs after what it needs, once for a block (HEVCSlices.tla).
FiltersInOrder == walk = "slices" => Slices!FiltersInOrder
\* Filters cross the borders H.265 lets them cross (HEVCSlices.tla).
FiltersWithin == walk = "slices" => Slices!FiltersWithin
=============================================================================
