--------------------------- MODULE BPGDecoderProofs ---------------------------
(***************************************************************************)
(* The circular chroma buffer, the rows of bitmap files, and the frames    *)
(* split from a stream, for images of any size and any number of pictures. *)
(***************************************************************************)
EXTENDS BPGDecoder, FiniteSetTheorems, WellFoundedInduction, TLAPS

Started == phase = "started"

\* Of the types, what the proofs need: y counts lines once a frame is started.
Shape ==
    /\ phase # "closed" => image \in Images
    /\ Started => y \in Nat
    /\ chroma = [i \in 0..7 |-> chroma[i]]

\* The buffer holds the chroma lines around the next line to read, and the one
\* that comes in after it.
Window == Started /\ image.format = "420" /\ y > 0 =>
    \A k \in -3..4 : chroma[(y \div 2 + k) % 8] = <<yPic, Clamp(y \div 2 + k, image)>>

IInv == Shape /\ Window /\ ChromaRight

-----------------------------------------------------------------------------
\* Slots of the buffer are told apart by their distance to the current line.
LEMMA SlotsDiffer ==
    ASSUME NEW n \in Int, NEW j \in -2..4
    PROVE  /\ (n + j) % 8 \in 0..7
           /\ (n + 5) % 8 \in 0..7
           /\ (n + j) % 8 # (n + 5) % 8
  BY SMT

LEMMA NextSlot ==
    ASSUME NEW n \in Int, NEW k \in -3..4
    PROVE  /\ k + 1 \in -2..5 /\ n + 1 + k = n + (k + 1)
           /\ k + 1 # 5 => k + 1 \in -2..4 /\ k + 1 \in -3..4
  BY SMT

\* Lines share a chroma line in pairs.
LEMMA Halves ==
    ASSUME NEW v \in Nat
    PROVE  /\ v \div 2 \in Nat
           /\ v % 2 = 0 => (v + 1) \div 2 = v \div 2
           /\ v % 2 # 0 => (v + 1) \div 2 = v \div 2 + 1
  BY SMT

\* The first line finds the window in the buffer it fills.
LEMMA FreshWindow ==
    ASSUME y = 0, NEW m
    PROVE  \A k \in -3..4 : ChromaAt(m)[(y \div 2 + k) % 8] = <<yPic, Clamp(y \div 2 + k, m)>>
  <1> SUFFICES ASSUME NEW k \in -3..4
               PROVE  ChromaAt(m)[(y \div 2 + k) % 8] = <<yPic, Clamp(y \div 2 + k, m)>>
    OBVIOUS
  <1> DEFINE at == [i \in 0..7 |-> <<yPic, Clamp(IF i > 4 THEN i - 8 ELSE i, m)>>]
  <1>1. ChromaAt(m) = at
    BY DEF ChromaAt, ITAPS, ITAPS2
  <1>2. /\ k % 8 \in 0..7
        /\ (IF k % 8 > 4 THEN (k % 8) - 8 ELSE k % 8) = k
    BY SMT
  <1>3. at[k % 8] = <<yPic, Clamp(k, m)>>
    BY <1>2, Zenon
  <1>4. y \div 2 + k = k
    BY SMT
  <1> QED BY <1>1, <1>3, <1>4, Zenon

\* The window moves on with the lines that are read.
LEMMA WindowMoves ==
    ASSUME NEW m, y \in Nat, NEW c,
           c = [i \in 0..7 |-> c[i]],
           \A k \in -3..4 : c[(y \div 2 + k) % 8] = <<yPic, Clamp(y \div 2 + k, m)>>
    PROVE  \A k \in -3..4 : ChromaAfter(c, m)[((y + 1) \div 2 + k) % 8]
                               = <<yPic, Clamp((y + 1) \div 2 + k, m)>>
  <1> DEFINE n == y \div 2
  <1>0. n \in Nat
    BY Halves
  <1>1. CASE y % 2 = 0
    <2>1. (y + 1) \div 2 = n
      BY <1>1, Halves
    <2>2. ChromaAfter(c, m) = c
      BY <1>1 DEF ChromaAfter
    <2> QED BY <2>1, <2>2, Zenon
  <1>2. CASE y % 2 # 0
    <2>1. (y + 1) \div 2 = n + 1
      BY <1>2, Halves
    <2>2. ChromaAfter(c, m) = [c EXCEPT ![(n + 5) % 8] = <<yPic, Clamp(n + 5, m)>>]
      <3>1. n + 4 + 1 = n + 5
        BY <1>0, SMT
      <3> QED BY <1>2, <3>1 DEF ChromaAfter, ITAPS, ITAPS2
    <2> SUFFICES ASSUME NEW k \in -3..4
                 PROVE  ChromaAfter(c, m)[(n + 1 + k) % 8] = <<yPic, Clamp(n + 1 + k, m)>>
      BY <2>1, Zenon
    <2> DEFINE j == k + 1
    <2>3. n \in Int
      BY <1>0
    <2>6. n + 1 + k = n + j
      BY <2>3, NextSlot
    <2>4. CASE j = 5
      <3>1. (n + 5) % 8 \in 0..7
        BY <2>3, SlotsDiffer
      <3>2. ChromaAfter(c, m)[(n + 5) % 8] = <<yPic, Clamp(n + 5, m)>>
        BY <2>2, <3>1, Zenon
      <3> QED BY <2>6, <2>4, <3>2, Zenon
    <2>5. CASE j # 5
      <3>1. j \in -2..4 /\ j \in -3..4
        BY <2>3, <2>5, NextSlot
      <3>2. (n + j) % 8 \in 0..7 /\ (n + j) % 8 # (n + 5) % 8
        BY <2>3, <3>1, SlotsDiffer
      <3>3. ChromaAfter(c, m)[(n + j) % 8] = c[(n + j) % 8]
        BY <2>2, <3>2, Zenon
      <3>4. c[(n + j) % 8] = <<yPic, Clamp(n + j, m)>>
        BY <3>1, Zenon
      <3> QED BY <2>6, <3>3, <3>4, Zenon
    <2> QED BY <2>4, <2>5
  <1> QED BY <1>1, <1>2

LEMMA GetLineInv ==
    ASSUME IInv, GetLine
    PROVE  IInv'
  <1> DEFINE c == ChromaAt(image)
  <1>1. Started /\ y \in Nat /\ image \in Images /\ phase' = phase /\ image' = image
        /\ yPic' = yPic /\ y' = y + 1
    BY DEF IInv, Shape, GetLine, Started, context
  <1>2. c = [i \in 0..7 |-> c[i]]
    BY DEF IInv, Shape, ChromaAt, ITAPS, ITAPS2
  <1>3. ASSUME image.format = "420"
        PROVE  \A k \in -3..4 : c[(y \div 2 + k) % 8] = <<yPic, Clamp(y \div 2 + k, image)>>
    <2>1. CASE y = 0
      BY <2>1, FreshWindow
    <2>2. CASE y # 0
      <3>1. y > 0
        BY <1>1, <2>2, SMT
      <3>2. c = chroma
        BY <2>2 DEF ChromaAt
      <3> QED BY <1>1, <1>3, <3>1, <3>2, Zenon DEF IInv, Window
    <2> QED BY <2>1, <2>2
  <1>4. Shape'
    <2>1. (y + 1) \in Nat
      BY <1>1, SMT
    <2>2. CASE image.format = "420"
      <3>1. chroma' = ChromaAfter(c, image)
        BY <2>2 DEF GetLine
      <3>2. ChromaAfter(c, image) = [i \in 0..7 |-> ChromaAfter(c, image)[i]]
        BY <1>2 DEF ChromaAfter
      <3> QED BY <1>1, <2>1, <3>1, <3>2, Zenon DEF Shape, Started
    <2>3. CASE image.format # "420"
      <3>1. chroma' = chroma
        BY <2>3 DEF GetLine
      <3> QED BY <1>1, <2>1, <3>1, Zenon DEF Shape, Started, IInv
    <2> QED BY <2>2, <2>3
  <1>5. Window'
    <2> SUFFICES ASSUME image.format = "420"
                 PROVE  \A k \in -3..4 : chroma'[((y + 1) \div 2 + k) % 8]
                                            = <<yPic, Clamp((y + 1) \div 2 + k, image)>>
      BY <1>1, Zenon DEF Window, Started
    <2>1. chroma' = ChromaAfter(c, image)
      BY DEF GetLine
    <2> QED BY <1>1, <1>2, <1>3, <2>1, WindowMoves
  <1>6. ChromaRight'
    <2> SUFFICES ASSUME image.format = "420", NEW k \in -3..3
                 PROVE  line'.chroma[k] = <<line'.luma, Clamp(line'.y \div 2 + k, image)>>
      BY <1>1, Zenon DEF ChromaRight
    <2>1. line' = [y |-> y, luma |-> yPic, alpha |-> aPic, chroma |-> Taps(c)]
      BY DEF GetLine
    <2>2. k \in -3..4
      BY SMT
    <2>3. Taps(c)[k] = c[(y \div 2 + k) % 8]
      BY DEF Taps, ITAPS
    <2>4. c[(y \div 2 + k) % 8] = <<yPic, Clamp(y \div 2 + k, image)>>
      BY <1>3, <2>2, Zenon
    <2>5. line'.chroma[k] = Taps(c)[k] /\ line'.luma = yPic /\ line'.y = y
      BY <2>1, Zenon
    <2> QED BY <2>3, <2>4, <2>5, Zenon
  <1> QED BY <1>4, <1>5, <1>6 DEF IInv

\* A frame that is started begins at its first line, before which nothing is
\* asked of the buffer.
LEMMA StartInv ==
    ASSUME IInv, y' = 0, UNCHANGED <<image, chroma, line>>, image \in Images
    PROVE  IInv'
  <1>1. Shape' BY Zenon DEF IInv, Shape, Started
  <1>2. Window' BY SMT DEF Window
  <1>3. ChromaRight' BY Zenon DEF IInv, ChromaRight, Clamp
  <1> QED BY <1>1, <1>2, <1>3 DEF IInv

\* Elsewhere no line can be read after the step.
LEMMA IdleInv ==
    ASSUME IInv, phase' # "started", phase' # "closed" => image \in Images,
           UNCHANGED <<image, chroma, line>>
    PROVE  IInv'
  BY Zenon DEF IInv, Shape, Window, ChromaRight, Started, Clamp

THEOREM NextIInv == IInv /\ [Next]_vars => IInv'
  <1> SUFFICES ASSUME IInv, [Next]_vars PROVE IInv'
    OBVIOUS
  <1>1. CASE Open
    <2>1. image' \in Images /\ phase' = "opened" /\ line' = NULL
          /\ chroma' = [i \in 0..7 |-> NULL]
      BY <1>1 DEF Open
    <2> QED BY <2>1 DEF IInv, Shape, Window, ChromaRight, Started
  <1>2. CASE Decode
    BY <1>2, IdleInv DEF Decode, IInv, Shape
  <1>3. CASE DecodeFails
    BY <1>3, IdleInv DEF DecodeFails, IInv, Shape, output
  <1>4. CASE PlayerStarts
    <2>1. phase # "closed" /\ image \in Images
      BY <1>4 DEF PlayerStarts, IInv, Shape
    <2>2. CASE StartFirst
      BY <2>1, <2>2, StartInv DEF StartFirst, PointAt, context
    <2>3. CASE StartNext
      <3>1. UNCHANGED <<image, chroma, line>> /\ (y' = 0 \/ phase' = "failed")
        BY <2>3 DEF StartNext, PointAt, context
      <3> QED BY <2>1, <3>1, StartInv, IdleInv
    <2> QED BY <1>4, <2>2, <2>3 DEF PlayerStarts
  <1>5. CASE PlayerReads
    BY <1>5, GetLineInv DEF PlayerReads
  <1>6. CASE BmpStarts
    <2>1. image \in Images
      BY <1>6 DEF BmpStarts, IInv, Shape
    <2> QED BY <1>6, <2>1, StartInv DEF BmpStarts, StartFirst, PointAt, context
  <1>7. CASE BmpRow
    BY <1>7, GetLineInv DEF BmpRow
  <1>8. CASE Close
    BY <1>8, IdleInv DEF Close, output
  <1>9. CASE UNCHANGED vars
    BY <1>9, Zenon DEF IInv, Shape, Window, ChromaRight, Started, Clamp, vars
  <1> QED BY <1>1, <1>2, <1>3, <1>4, <1>5, <1>6, <1>7, <1>8, <1>9 DEF Next

\* For images of any size, every line of a 4:2:0 picture is interpolated from
\* the chroma lines around it (bpg_decoder_get_line, libbpg.c).
THEOREM ChromaAlwaysRight == Spec => []ChromaRight
  <1>1. Init => IInv
    BY DEF Init, IInv, Shape, Window, ChromaRight, Started
  <1>2. IInv => ChromaRight
    BY DEF IInv
  <1> QED BY <1>1, <1>2, NextIInv, PTL DEF Spec
-----------------------------------------------------------------------------
RowSize(m) == 4 * ((3 * m.w + 3) \div 4)

\* The first n lines, at their places from the end of the file.
Rows(m, n) == {<<HeaderSize + (m.h - 1 - r) * RowSize(m), r>> : r \in 0..n - 1}

\* The file decode_buffer is writing holds the lines read so far.
BmpInv ==
    /\ phase \in {"closed", "opened", "decoded", "started", "failed"}
    /\ phase # "closed" => image \in Images
    /\ phase = "opened" => file = NULL
    /\ caller = "bmp" /\ phase \in {"decoded", "failed"} => file = NULL
    /\ caller = "bmp" /\ phase = "started" =>
        /\ y \in 0..image.h
        /\ file = [size |-> HeaderSize + image.h * RowSize(image), rows |-> Rows(image, y)]
    /\ BmpWhole

LEMMA Padding ==
    ASSUME NEW w \in Nat, NEW n \in 0..3, (w * 3 + n) % 4 = 0
    PROVE  w * 3 + n = 4 * ((3 * w + 3) \div 4)
  BY SMT

LEMMA PaddingExists ==
    ASSUME NEW w \in Nat
    PROVE  \E n \in 0..3 : (w * 3 + n) % 4 = 0
  <1>1. (w * 3) % 4 \in 0..3
    BY SMT
  <1>2. PICK n \in 0..3 : n = (4 - ((w * 3) % 4)) % 4
    BY <1>1, SMT
  <1>3. (w * 3 + n) % 4 = 0
    BY <1>1, <1>2, SMT
  <1> QED BY <1>3

LEMMA RowSizes ==
    ASSUME NEW m \in Images
    PROVE  SizeOfLine(m) = RowSize(m) /\ RowSize(m) \in Nat
  <1>1. m.w \in Nat
    BY ImageAssumption
  <1> DEFINE n == CHOOSE n \in 0..3 : (m.w * 3 + n) % 4 = 0
  <1>2. n \in 0..3 /\ (m.w * 3 + n) % 4 = 0
    BY <1>1, PaddingExists
  <1>3. SizeOfLine(m) = m.w * 3 + n
    BY DEF SizeOfLine
  <1> HIDE DEF n
  <1>4. m.w * 3 + n = RowSize(m)
    BY <1>1, <1>2, Padding DEF RowSize
  <1>5. RowSize(m) \in Nat
    BY <1>1, SMT DEF RowSize
  <1> QED BY <1>3, <1>4, <1>5

\* From the end of the file or from its start, a row has the same place.
LEMMA RowPlace ==
    ASSUME NEW s \in Nat, NEW h \in Nat, NEW n \in Nat
    PROVE  /\ s * h + 54 = 54 + h * s
           /\ (54 + h * s) - (n + 1) * s = 54 + (h - 1 - n) * s
  BY SMT

LEMMA RowsGrow ==
    ASSUME NEW m, NEW n \in Nat
    PROVE  Rows(m, n + 1) = Rows(m, n) \cup {<<HeaderSize + (m.h - 1 - n) * RowSize(m), n>>}
  <1> DEFINE place(r) == <<HeaderSize + (m.h - 1 - r) * RowSize(m), r>>
  <1>1. 0..(n + 1) - 1 = (0..n - 1) \cup {n}
    BY SMT
  <1> HIDE DEF place
  <1>2. {place(r) : r \in 0..(n + 1) - 1} = {place(r) : r \in 0..n - 1} \cup {place(n)}
    BY <1>1, Zenon
  <1> QED BY <1>2 DEF Rows, place

LEMMA BmpRowInv ==
    ASSUME BmpInv, BmpRow
    PROVE  BmpInv'
  <1> DEFINE s == RowSize(image)
             h == image.h
  <1>1. /\ caller = "bmp" /\ phase = "started" /\ y < h
        /\ image' = image /\ caller' = caller /\ phase' = phase /\ y' = y + 1
        /\ file' = [file EXCEPT !.rows = @ \cup {<<file.size - (y + 1) * SizeOfLine(image), y>>}]
    BY DEF BmpRow, GetLine, context
  <1>2. image \in Images /\ y \in 0..h /\ file = [size |-> HeaderSize + h * s, rows |-> Rows(image, y)]
    BY <1>1 DEF BmpInv
  <1>3. h \in Nat /\ y \in Nat /\ y + 1 \in 0..h /\ s \in Nat /\ SizeOfLine(image) = s
    <2>1. h \in Nat
      BY <1>2, ImageAssumption
    <2>2. s \in Nat /\ SizeOfLine(image) = s
      BY <1>2, RowSizes
    <2> HIDE DEF h, s
    <2>3. y \in Nat /\ y + 1 \in 0..h
      BY <1>1, <1>2, <2>1
    <2> QED BY <2>1, <2>2, <2>3
  <1>4. (HeaderSize + h * s) - (y + 1) * s = HeaderSize + (h - 1 - y) * s
    BY <1>3, RowPlace DEF HeaderSize
  <1>5. file' = [size |-> HeaderSize + h * s,
                 rows |-> Rows(image, y) \cup {<<HeaderSize + (h - 1 - y) * s, y>>}]
    BY <1>1, <1>2, <1>3, <1>4
  <1>6. file' = [size |-> HeaderSize + h * s, rows |-> Rows(image, y + 1)]
    BY <1>3, <1>5, RowsGrow
  <1>7. image' \in Images /\ y' \in 0..image'.h
    BY <1>1, <1>2, <1>3
  <1>8. file' = [size |-> HeaderSize + image'.h * RowSize(image'), rows |-> Rows(image', y')]
    BY <1>1, <1>6
  <1> QED BY <1>1, <1>7, <1>8 DEF BmpInv, BmpWhole

THEOREM NextBmpInv == BmpInv /\ [Next]_vars => BmpInv'
  <1> SUFFICES ASSUME BmpInv, [Next]_vars PROVE BmpInv'
    OBVIOUS
  <1>1. CASE Open
    BY <1>1 DEF Open, BmpInv, BmpWhole
  <1>2. CASE Decode
    <2>1. /\ phase = "opened" /\ phase' = "decoded"
          /\ image' = image /\ caller' = caller /\ file' = file
      BY <1>2 DEF Decode
    <2> QED BY <2>1 DEF BmpInv, BmpWhole
  <1>3. CASE DecodeFails
    BY <1>3 DEF DecodeFails, BmpInv, BmpWhole
  <1>4. CASE PlayerStarts
    <2>1. /\ caller = "player" /\ caller' = caller /\ phase # "closed"
          /\ image' = image /\ phase' \in {"started", "failed"}
      BY <1>4 DEF PlayerStarts, StartFirst, StartNext, PointAt, context
    <2> QED BY <2>1 DEF BmpInv, BmpWhole
  <1>5. CASE PlayerReads
    <2>1. /\ caller = "player" /\ caller' = caller
          /\ image' = image /\ phase = "started" /\ phase' = phase
      BY <1>5 DEF PlayerReads, GetLine, context
    <2> QED BY <2>1 DEF BmpInv, BmpWhole
  <1>6. CASE BmpStarts
    <2>1. /\ image \in Images /\ image' = image /\ caller' = caller /\ phase' = "started" /\ y' = 0
          /\ file' = [size |-> SizeOfLine(image) * image.h + HeaderSize, rows |-> {}]
      BY <1>6 DEF BmpInv, BmpStarts, StartFirst, PointAt, context
    <2>2. image.h \in Nat /\ 0 \in 0..image.h
      BY <2>1, ImageAssumption
    <2>3. SizeOfLine(image) * image.h + HeaderSize = HeaderSize + image.h * RowSize(image)
      BY <2>1, <2>2, RowSizes, RowPlace DEF HeaderSize
    <2>4. Rows(image, 0) = {}
      <3>1. 0..0 - 1 = {}
        BY SMT
      <3> QED BY <3>1, Zenon DEF Rows
    <2> QED BY <2>1, <2>2, <2>3, <2>4 DEF BmpInv, BmpWhole
  <1>7. CASE BmpRow
    BY <1>7, BmpRowInv
  <1>8. CASE Close
    <2>1. /\ image' = image /\ caller' = caller /\ file' = file /\ phase' = "closed"
          /\ phase \notin {"closed", "opened"}
          /\ caller = "bmp" /\ phase = "started" => y = image.h
      BY <1>8 DEF Close, output
    <2>2. SUFFICES ASSUME caller = "bmp", file # NULL
                   PROVE  /\ file.size = HeaderSize + image.h * RowSize(image)
                          /\ file.rows = Rows(image, image.h)
      BY <2>1, <2>2 DEF BmpInv, BmpWhole, Rows, RowSize
    <2>3. phase = "started"
      BY <2>1, <2>2 DEF BmpInv
    <2> QED BY <2>1, <2>2, <2>3 DEF BmpInv
  <1>9. CASE UNCHANGED vars
    BY <1>9 DEF BmpInv, BmpWhole, vars
  <1> QED BY <1>1, <1>2, <1>3, <1>4, <1>5, <1>6, <1>7, <1>8, <1>9 DEF Next

\* For images of any size, a bitmap decode_buffer returns has its rows
\* bottom-up and side by side between the headers and its end (decoder.c).
THEOREM BmpAlwaysWhole == Spec => []BmpWhole
  <1>1. Init => BmpInv
    BY NullAssumption DEF Init, BmpInv, BmpWhole
  <1>2. BmpInv => BmpWhole
    BY DEF BmpInv
  <1> QED BY <1>1, <1>2, NextBmpInv, PTL DEF Spec
-----------------------------------------------------------------------------
(* Frames are split from the stream in step with its pictures.             *)

\* NAL unit n comes between pictures d and d + 1 of every layer.
Cut(m, n, d) == \A alpha \in BOOLEAN : \A i \in Firsts(m, alpha) : i < n <=> m.nals[i].pic <= d

\* A set of naturals that is not empty has a least element.
LEMMA LeastNatural ==
    ASSUME NEW S \in SUBSET Nat, S # {}
    PROVE  \E x \in S : \A j \in S : x <= j
<1>1. PICK n \in S : TRUE  OBVIOUS
<1> DEFINE All == 0..n
           R == StrictSubsetOrdering(All)
           T == {0..m : m \in {k \in S : k <= n}}
<1>2. IsFiniteSet(All)  BY FS_Interval
<1>3. IsWellFoundedOn(R, SUBSET All)
  <2> HIDE DEF All
  <2> QED BY <1>2, FS_StrictSubsetOrderingWellFounded, FS_FiniteSubsetsOfFinite
<1>4. T \subseteq SUBSET All  BY SMT
<1>5. 0..n \in T  BY <1>1
<1>6. PICK x \in T : \A j \in T : ~ (<<j, x>> \in R)
  <2>1. T # {}  BY <1>5
  <2> HIDE DEF T, R, All
  <2> QED BY <2>1, <1>3, <1>4, WFMin
<1>7. PICK m \in S : m <= n /\ x = 0..m  OBVIOUS
<1>8. ASSUME NEW j \in S, j < m PROVE FALSE
  <2>1. 0..j \in T  BY <1>1, <1>7, <1>8
  <2>2. 0..j \subseteq 0..m /\ 0..j # 0..m
    <3>1. m \in 0..m /\ m \notin 0..j  BY <1>8
    <3> QED BY <1>8, <3>1
  <2>3. <<0..j, x>> \in R  BY <1>4, <1>7, <2>1, <2>2 DEF StrictSubsetOrdering
  <2> QED BY <1>6, <2>1, <2>3
<1>9. \A j \in S : m <= j  BY <1>8
<1> QED BY <1>9

LEMMA LeastIs ==
    ASSUME NEW S \in SUBSET Nat, S # {}
    PROVE  Least(S) \in S /\ \A n \in S : Least(S) <= n
  BY LeastNatural, Zenon DEF Least

LEMMA PicTypes ==
    ASSUME NEW m \in Images, NEW alpha \in BOOLEAN, NEW i \in Firsts(m, alpha)
    PROVE  i \in Nat \ {0} /\ i <= Len(m.nals) /\ m.nals[i].kind = "first"
           /\ m.nals[i].pic \in Nat \ {0} /\ Len(m.nals) \in Nat
  <1>1. m.nals \in Seq(NALs)
    BY ImageAssumption
  <1>2. i \in 1..Len(m.nals) /\ m.nals[i].kind = "first"
    BY DEF Firsts
  <1>3. m.nals[i] \in NALs /\ Len(m.nals) \in Nat
    BY <1>1, <1>2
  <1> QED BY <1>2, <1>3 DEF NALs

LEMMA FrameEndIs ==
    ASSUME NEW m \in Images, NEW from \in Nat \ {0}
    PROVE  LET end == FrameEnd(m, from)
           IN  /\ end \in Nat \ {0}
               /\ end = Len(m.nals) + 1
                  \/ (Begun(m, from, end, FALSE) /\ (m.alpha => Begun(m, from, end, TRUE)))
               /\ \A n \in from..Len(m.nals) :
                     /\ m.nals[n].kind # "next"
                     /\ Begun(m, from, n, FALSE)
                     /\ m.alpha => Begun(m, from, n, TRUE)
                     => end <= n
  <1>1. Len(m.nals) \in Nat
    BY ImageAssumption
  <1> DEFINE next == {n \in from..Len(m.nals) :
                        /\ m.nals[n].kind # "next"
                        /\ Begun(m, from, n, FALSE)
                        /\ m.alpha => Begun(m, from, n, TRUE)}
             S == next \cup {Len(m.nals) + 1}
  <1>2. S \in SUBSET Nat /\ S # {} /\ 0 \notin S
    <2>1. from..Len(m.nals) \subseteq Nat \ {0} /\ Len(m.nals) + 1 \in Nat \ {0}
      BY <1>1
    <2>2. next \subseteq from..Len(m.nals)
      BY Zenon
    <2> HIDE DEF next
    <2> QED BY <2>1, <2>2
  <1>3. FrameEnd(m, from) = Least(S)
    BY DEF FrameEnd
  <1>4. Least(S) \in S /\ \A n \in S : Least(S) <= n
    <2> HIDE DEF S
    <2> QED BY <1>2, LeastIs
  <1>5. FrameEnd(m, from) \in Nat \ {0}
    <2> HIDE DEF S
    <2> QED BY <1>2, <1>3, <1>4
  <1>6. FrameEnd(m, from) = Len(m.nals) + 1
        \/ (/\ Begun(m, from, FrameEnd(m, from), FALSE)
            /\ m.alpha => Begun(m, from, FrameEnd(m, from), TRUE))
    <2>1. CASE Least(S) \in next
      BY <1>3, <2>1, Zenon
    <2>2. CASE Least(S) = Len(m.nals) + 1
      BY <1>3, <2>2, Zenon
    <2> HIDE DEF next
    <2> QED BY <1>4, <2>1, <2>2, Zenon
  <1>7. ASSUME NEW n \in from..Len(m.nals), m.nals[n].kind # "next",
               Begun(m, from, n, FALSE), m.alpha => Begun(m, from, n, TRUE)
        PROVE  FrameEnd(m, from) <= n
    <2>1. n \in S
      BY <1>7, Zenon
    <2> QED BY <1>3, <1>4, <2>1, Zenon
  <1> QED BY <1>5, <1>6, <1>7, Zenon

\* The picture returned is the first of its layer from there on, the next one.
LEMMA NextPicture ==
    ASSUME NEW m \in Images, NEW from \in Nat \ {0}, NEW d \in Nat, Cut(m, from, d),
           NEW alpha \in BOOLEAN, Returned(m, from, alpha) # {}
    PROVE  /\ Returned(m, from, alpha) = {d + 1}
           /\ \E i \in Firsts(m, alpha) : from <= i /\ i < FrameEnd(m, from) /\ m.nals[i].pic = d + 1
  <1> DEFINE S == {i \in Firsts(m, alpha) : from <= i /\ i < FrameEnd(m, from)}
  <1>1. S # {} /\ Returned(m, from, alpha) = {m.nals[Least(S)].pic}
    BY DEF Returned
  <1>2. S \in SUBSET Nat
    BY PicTypes
  <1>3. Least(S) \in S /\ \A n \in S : Least(S) <= n
    <2> HIDE DEF S
    <2> QED BY <1>1, <1>2, LeastIs
  <1> DEFINE i == Least(S)
  <1>4. i \in Firsts(m, alpha) /\ from <= i /\ i < FrameEnd(m, from)
    BY <1>3, Zenon
  <1> HIDE DEF i
  <1>5. i \in Nat /\ m.nals[i].pic \in Nat \ {0}
    BY <1>4, PicTypes
  <1>6. ~(m.nals[i].pic <= d)
    <2>1. ~(i < from)
      BY <1>4, <1>5
    <2> QED BY <1>4, <2>1, Zenon DEF Cut
  <1>7. m.nals[i].pic = d + 1
    <2> SUFFICES ASSUME m.nals[i].pic > d + 1 PROVE FALSE
      BY <1>5, <1>6
    <2>1. m.nals[i].pic # 1
      BY <1>5
    <2>2. PICK j \in Firsts(m, alpha) : m.nals[j].pic = m.nals[i].pic - 1
      BY <1>4, <2>1, OrderAssumption, Zenon
    <2>3. j \in Nat /\ m.nals[j].pic \in Nat
      BY PicTypes
    <2>4. ~(m.nals[j].pic <= d)
      BY <1>5, <2>2
    <2>5. ~(j < from)
      BY <2>4, Zenon DEF Cut
    <2>6. j < i \/ j = i \/ i < j
      BY <1>5, <2>3
    <2>7. ~(i < j)
      <3>1. i < j => m.nals[i].pic < m.nals[j].pic
        BY <1>4, OrderAssumption, Zenon
      <3> QED BY <1>5, <2>2, <3>1
    <2>8. j # i
      BY <1>5, <2>2
    <2>9. j \in S
      <3>1. from <= j /\ j < FrameEnd(m, from)
        <4>1. FrameEnd(m, from) \in Nat
          BY FrameEndIs, Zenon
        <4> QED BY <1>4, <1>5, <2>3, <2>5, <2>6, <2>7, <2>8, <4>1
      <3> QED BY <3>1
    <2>10. i <= j
      BY <1>3, <2>9, Zenon DEF i
    <2> QED BY <1>5, <2>3, <2>6, <2>7, <2>8, <2>10
  <1> QED BY <1>1, <1>4, <1>7, Zenon DEF i

\* A frame that gives a picture of each layer ends before the next pictures.
LEMMA FrameSplit ==
    ASSUME NEW m \in Images, NEW from \in Nat \ {0}, NEW d \in Nat, Cut(m, from, d),
           Returned(m, from, FALSE) # {}, m.alpha => Returned(m, from, TRUE) # {}
    PROVE  /\ Returned(m, from, FALSE) = {d + 1}
           /\ m.alpha => Returned(m, from, TRUE) = {d + 1}
           /\ Cut(m, FrameEnd(m, from), d + 1)
  <1> DEFINE end == FrameEnd(m, from)
  <1>1. /\ Returned(m, from, FALSE) = {d + 1}
        /\ \E i \in Firsts(m, FALSE) : from <= i /\ i < end /\ m.nals[i].pic = d + 1
    BY NextPicture, Zenon
  <1>2. m.alpha =>
        /\ Returned(m, from, TRUE) = {d + 1}
        /\ \E i \in Firsts(m, TRUE) : from <= i /\ i < end /\ m.nals[i].pic = d + 1
    BY NextPicture, Zenon
  <1>3. \A alpha \in BOOLEAN : alpha = FALSE \/ (alpha = TRUE /\ (Firsts(m, alpha) # {} => m.alpha))
    BY DEF Firsts
  <1>4. end \in Nat
    BY FrameEndIs
  <1>5. ASSUME NEW alpha \in BOOLEAN, NEW n \in Firsts(m, alpha)
        PROVE  n < end <=> m.nals[n].pic <= d + 1
    <2>1. PICK i \in Firsts(m, alpha) : from <= i /\ i < end /\ m.nals[i].pic = d + 1
      BY <1>1, <1>2, <1>3, <1>5, Zenon
    <2>2. n \in Nat /\ n <= Len(m.nals) /\ m.nals[n].pic \in Nat /\ i \in Nat /\ n # 0
      BY PicTypes
    <2>3. CASE m.nals[n].pic <= d + 1
      <3>1. ~(i < n)
        <4>1. i < n => m.nals[i].pic < m.nals[n].pic
          BY OrderAssumption
        <4> QED BY <2>1, <2>2, <2>3, <4>1
      <3> QED BY <1>4, <2>1, <2>2, <2>3, <3>1
    <2>4. CASE ~(m.nals[n].pic <= d + 1)
      <3>1. from <= n
        <4>1. ~(m.nals[n].pic <= d)
          BY <2>2, <2>4
        <4>2. ~(n < from)
          BY <4>1, Zenon DEF Cut
        <4> QED BY <2>2, <4>2
      <3>2. ASSUME NEW b \in BOOLEAN, NEW j \in Firsts(m, b), from <= j, m.nals[j].pic = d + 1
            PROVE  Begun(m, from, n, b)
        <4>1. n < j => m.nals[n].pic <= m.nals[j].pic
          <5>1. n < j => IF alpha = b THEN m.nals[n].pic < m.nals[j].pic
                                      ELSE m.nals[n].pic <= m.nals[j].pic
            BY <1>5, OrderAssumption
          <5> QED BY <2>2, <3>2, <5>1
        <4>2. j \in Nat /\ n # j
          BY <2>4, <3>2, PicTypes
        <4>3. j < n
          BY <2>2, <2>4, <3>2, <4>1, <4>2
        <4> QED BY <3>2, <4>3, Zenon DEF Begun
      <3>3. Begun(m, from, n, FALSE)
        BY <1>1, <3>2, Zenon
      <3>4. m.alpha => Begun(m, from, n, TRUE)
        BY <1>2, <3>2, Zenon
      <3>5. n \in from..Len(m.nals) /\ m.nals[n].kind # "next"
        BY <2>2, <3>1, PicTypes, ImageAssumption
      <3>6. end <= n
        BY <3>3, <3>4, <3>5, FrameEndIs
      <3> QED BY <1>4, <2>2, <2>4, <3>6
    <2> QED BY <2>3, <2>4
  <1>6. Cut(m, end, d + 1)
    BY <1>5, Zenon DEF Cut
  <1> QED BY <1>1, <1>2, <1>6, Zenon
-----------------------------------------------------------------------------
\* What is held and consumed fits the number of frames started: after
\* bpg_decoder_decode one frame is held that is not started, and a start that
\* fails consumes nothing.
StepInv ==
    /\ InStep
    /\ phase \in {"closed", "opened"} => frame = NULL
    /\ phase = "opened" => pos = 1 /\ starts = 0 /\ ~outputInited
    /\ phase = "decoded" => frame # NULL /\ ~outputInited
    /\ frame # NULL /\ ~outputInited =>
        /\ phase = "decoded" /\ starts = 0 /\ frame = 1 /\ Cut(image, pos, 1)
        /\ image.alpha => alphaFrame = 1
    /\ frame # NULL /\ outputInited => Cut(image, pos, starts)

\* What hevc_decode_frame_internal leaves in the two frames.
LEMMA OutcomeIs ==
    ASSUME NEW m \in Images, NEW from \in Nat \ {0}, NEW o \in Outcomes(m, from),
           frame \in Nat \cup {NULL}, alphaFrame \in Nat \cup {NULL}
    PROVE  /\ o.frame \in Nat \cup {NULL} /\ o.alpha \in Nat \cup {NULL} /\ o.ok \in BOOLEAN
           /\ frame # NULL => o.frame # NULL
           /\ o.ok => /\ o.frame \in Returned(m, from, FALSE)
                      /\ m.alpha => o.alpha \in Returned(m, from, TRUE)
  <1>1. \A alpha \in BOOLEAN : Returned(m, from, alpha) \subseteq Nat \ {0}
    <2> SUFFICES ASSUME NEW alpha \in BOOLEAN, Returned(m, from, alpha) # {}
                 PROVE  Returned(m, from, alpha) \subseteq Nat \ {0}
      OBVIOUS
    <2> DEFINE S == {i \in Firsts(m, alpha) : from <= i /\ i < FrameEnd(m, from)}
    <2>1. S # {} /\ Returned(m, from, alpha) = {m.nals[Least(S)].pic}
      BY DEF Returned
    <2>2. S \in SUBSET Nat
      BY PicTypes
    <2>3. Least(S) \in S
      <3> HIDE DEF S
      <3> QED BY <2>1, <2>2, LeastIs
    <2>4. m.nals[Least(S)].pic \in Nat \ {0}
      BY <2>3, PicTypes
    <2> QED BY <2>1, <2>4
  <1> DEFINE alphas == IF m.alpha THEN Returned(m, from, TRUE) ELSE {alphaFrame}
             R1 == [ok : {FALSE}, frame : {frame}, alpha : {alphaFrame} \cup IF m.alpha THEN {0} ELSE {}]
             R2 == [ok : {FALSE}, frame : {frame, 0}, alpha : alphas]
             R3 == [ok : {TRUE}, frame : Returned(m, from, FALSE), alpha : alphas]
  <1>2. o \in R1 \/ o \in R2 \/ o \in R3
    BY DEF Outcomes
  <1>3. CASE o \in R1
    <2>1. o.ok = FALSE /\ o.frame = frame /\ (o.alpha = alphaFrame \/ o.alpha = 0)
      BY <1>3, Zenon
    <2>2. o.ok \in BOOLEAN /\ ~o.ok
      BY <2>1, Zenon
    <2>3. o.alpha \in Nat \cup {NULL}
      BY <2>1
    <2> QED BY <2>1, <2>2, <2>3, Zenon
  <1>4. CASE o \in R2
    <2>1. o.ok = FALSE /\ (o.frame = frame \/ o.frame = 0) /\ o.alpha \in alphas
      BY <1>4, Zenon
    <2>2. o.alpha \in Nat \cup {NULL}
      BY <1>1, <2>1
    <2>3. o.ok \in BOOLEAN /\ ~o.ok
      BY <2>1, Zenon
    <2>4. o.frame \in Nat \cup {NULL} /\ (frame # NULL => o.frame # NULL)
      BY <2>1, NullAssumption
    <2> QED BY <2>2, <2>3, <2>4
  <1>5. CASE o \in R3
    BY <1>1, <1>5, NullAssumption
  <1> QED BY <1>2, <1>3, <1>4, <1>5

\* Before the first frame nothing has begun.
LEMMA FirstCut ==
    ASSUME NEW m \in Images
    PROVE  Cut(m, 1, 0)
  BY PicTypes DEF Cut

LEMMA DecodeStep ==
    ASSUME StepInv, Decode
    PROVE  StepInv'
  <1>1. image \in Images /\ image' = image /\ pos \in Nat \ {0} /\ pos = 1 /\ frame = NULL /\ starts \in Nat /\ starts = 0 /\ ~outputInited
    BY DEF StepInv, InStep, TypeOK, Decode
  <1>2. PICK o \in Outcomes(image, pos) : o.ok /\ frame' = o.frame /\ alphaFrame' = o.alpha
    BY <1>1, Zenon DEF Decode
  <1>3. frame \in Nat \cup {NULL} /\ alphaFrame \in Nat \cup {NULL}
    BY DEF StepInv, InStep, TypeOK
  <1>4. /\ frame' \in Nat \cup {NULL} /\ alphaFrame' \in Nat \cup {NULL}
        /\ frame' \in Returned(image, pos, FALSE)
        /\ image.alpha => alphaFrame' \in Returned(image, pos, TRUE)
    BY <1>1, <1>2, <1>3, OutcomeIs
  <1>5. Cut(image, pos, starts)
    BY <1>1, FirstCut
  <1>6. /\ Returned(image, pos, FALSE) = {starts + 1}
        /\ image.alpha => Returned(image, pos, TRUE) = {starts + 1}
        /\ Cut(image, FrameEnd(image, pos), starts + 1)
    BY <1>1, <1>4, <1>5, FrameSplit
  <1>7. FrameEnd(image, pos) \in Nat \ {0}
    BY <1>1, FrameEndIs
  <1>8. pos' = FrameEnd(image, pos) /\ y' = -1 /\ phase' = "decoded" /\ starts' = 0 /\ ~outputInited'
        /\ decCtx' = image.animated /\ alphaCtx' = (image.animated /\ image.alpha) /\ caller' = caller
    BY <1>1 DEF Decode
  <1>9. frame' = starts + 1 /\ (image.alpha => alphaFrame' = starts + 1) /\ Cut(image', pos', starts + 1)
    BY <1>1, <1>4, <1>6, <1>8
  <1>10. image.animated \in BOOLEAN /\ image.alpha \in BOOLEAN
    BY <1>1, ImageAssumption
  <1>11. TypeOK'
    <2>1. decCtx' \in BOOLEAN /\ alphaCtx' \in BOOLEAN
      BY <1>8, <1>10, Zenon
    <2>2. y' \in Int /\ y' >= -1 /\ pos' \in Nat \ {0} /\ starts' \in Nat
      BY <1>1, <1>7, <1>8
    <2>3. caller' \in {"bmp", "player"} /\ outputInited' \in BOOLEAN /\ image' \in Images
      BY <1>1, <1>8, Zenon DEF StepInv, InStep, TypeOK, Decode
    <2> QED BY <1>1, <1>4, <1>8, <2>1, <2>2, <2>3, Zenon DEF TypeOK
  <1>12. frame' # NULL
    BY <1>1, <1>9, NullAssumption
  <1>13. frame' = 1 /\ (image.alpha => alphaFrame' = 1) /\ Cut(image', pos', 1)
    BY <1>1, <1>9
  <1> QED BY <1>1, <1>8, <1>11, <1>12, <1>13 DEF StepInv, InStep

LEMMA StartFirstStep ==
    ASSUME StepInv, StartFirst, phase = "decoded" \/ frame # NULL
    PROVE  StepInv'
  <1>1. frame # NULL /\ ~outputInited
    BY DEF StepInv, StartFirst
  <1>2. /\ phase = "decoded" /\ starts = 0 /\ frame = 1 /\ Cut(image, pos, 1)
        /\ image.alpha => alphaFrame = 1
    BY <1>1 DEF StepInv
  <1>3. image \in Images /\ image.h \in Nat /\ image.alpha \in BOOLEAN
    BY <1>2, ImageAssumption DEF StepInv, InStep, TypeOK
  <1>4. /\ UNCHANGED <<image, caller, decCtx, alphaCtx, frame, alphaFrame, pos>>
        /\ outputInited' = TRUE /\ yPic' = frame /\ y' = 0 /\ starts' = starts + 1 /\ phase' = "started"
        /\ image.alpha => aPic' = alphaFrame
    BY DEF StartFirst, PointAt, context, pictures
  <1>5. TypeOK'
    BY <1>3, <1>4 DEF StepInv, InStep, TypeOK
  <1>6. starts' = 1
    BY <1>2, <1>4
  <1> QED BY <1>1, <1>2, <1>4, <1>5, <1>6 DEF StepInv, InStep

LEMMA StartNextStep ==
    ASSUME StepInv, StartNext, frame # NULL
    PROVE  StepInv'
  <1>1. outputInited /\ Cut(image, pos, starts)
    BY DEF StepInv, StartNext
  <1>2. phase \notin {"closed", "opened"}
    BY DEF StepInv
  <1>3. image \in Images /\ image.h \in Nat /\ image.alpha \in BOOLEAN
    BY <1>2, ImageAssumption DEF StepInv, InStep, TypeOK
  <1>4. starts \in Nat /\ pos \in Nat \ {0} /\ frame \in Nat \cup {NULL} /\ alphaFrame \in Nat \cup {NULL}
    BY DEF StepInv, InStep, TypeOK
  <1>5. PICK o \in Outcomes(image, pos) :
            /\ frame' = o.frame /\ alphaFrame' = o.alpha
            /\ \/ /\ o.ok
                  /\ pos' = FrameEnd(image, pos)
                  /\ PointAt(o.frame, o.alpha)
               \/ /\ ~o.ok
                  /\ phase' = "failed"
                  /\ UNCHANGED <<pos, y, yPic, aPic, starts>>
    BY DEF StartNext
  <1>6. /\ frame' \in Nat \cup {NULL} /\ alphaFrame' \in Nat \cup {NULL} /\ frame' # NULL
        /\ o.ok => /\ frame' \in Returned(image, pos, FALSE)
                   /\ image.alpha => alphaFrame' \in Returned(image, pos, TRUE)
    BY <1>3, <1>4, <1>5, OutcomeIs
  <1>7. UNCHANGED <<image, caller, decCtx, alphaCtx>> /\ outputInited' = outputInited
    BY DEF StartNext, context
  <1>8. CASE /\ o.ok
             /\ pos' = FrameEnd(image, pos)
             /\ PointAt(o.frame, o.alpha)
    <2>1. /\ Returned(image, pos, FALSE) = {starts + 1}
          /\ image.alpha => Returned(image, pos, TRUE) = {starts + 1}
          /\ Cut(image, FrameEnd(image, pos), starts + 1)
      BY <1>1, <1>3, <1>4, <1>6, <1>8, FrameSplit
    <2>2. FrameEnd(image, pos) \in Nat \ {0}
      BY <1>3, <1>4, FrameEndIs
    <2>3. /\ yPic' = frame' /\ y' = 0 /\ starts' = starts + 1 /\ phase' = "started"
          /\ image.alpha => aPic' = alphaFrame'
      BY <1>5, <1>8 DEF PointAt
    <2>4. frame' = starts' /\ (image.alpha => alphaFrame' = starts') /\ Cut(image', pos', starts')
      BY <1>6, <1>7, <1>8, <2>1, <2>3
    <2>5. TypeOK'
      BY <1>3, <1>4, <1>6, <1>7, <1>8, <2>2, <2>3 DEF StepInv, InStep, TypeOK
    <2> QED BY <1>1, <1>7, <2>3, <2>4, <2>5 DEF StepInv, InStep
  <1>9. CASE /\ ~o.ok
             /\ phase' = "failed"
             /\ UNCHANGED <<pos, y, yPic, aPic, starts>>
    <2>1. TypeOK'
      BY <1>3, <1>6, <1>7, <1>9 DEF StepInv, InStep, TypeOK
    <2>2. Cut(image', pos', starts')
      BY <1>1, <1>7, <1>9
    <2> QED BY <1>1, <1>7, <1>9, <2>1, <2>2 DEF StepInv, InStep
  <1> QED BY <1>5, <1>8, <1>9

LEMMA GetLineStep ==
    ASSUME StepInv, GetLine
    PROVE  StepInv'
  <1>1. /\ phase = "started" /\ y < image.h /\ y' = y + 1
        /\ UNCHANGED <<image, caller, decCtx, alphaCtx, phase, frame, alphaFrame, pos, outputInited,
                       yPic, aPic, starts>>
    BY DEF GetLine, context, pictures
  <1>2. image \in Images /\ image.h \in Nat
    BY <1>1, ImageAssumption DEF StepInv, InStep, TypeOK
  <1>3. TypeOK'
    BY <1>1, <1>2 DEF StepInv, InStep, TypeOK
  <1> QED BY <1>1, <1>3 DEF StepInv, InStep

THEOREM NextStepInv == StepInv /\ [Next]_vars => StepInv'
  <1> SUFFICES ASSUME StepInv, [Next]_vars PROVE StepInv'
    OBVIOUS
  <1>1. CASE Open
    <2>1. /\ image' \in Images /\ caller' \in {"bmp", "player"} /\ phase' = "opened"
          /\ decCtx' = FALSE /\ alphaCtx' = FALSE /\ frame' = NULL /\ alphaFrame' = NULL
          /\ pos' = 1 /\ outputInited' = FALSE /\ y' = 0 /\ starts' = 0
      BY <1>1, Zenon DEF Open
    <2>2. decCtx' \in BOOLEAN /\ alphaCtx' \in BOOLEAN /\ outputInited' \in BOOLEAN /\ ~outputInited'
      BY <2>1, Zenon
    <2>3. y' \in Int /\ y' >= -1 /\ pos' \in Nat \ {0} /\ starts' \in Nat
      BY <2>1
    <2>4. TypeOK'
      BY <2>1, <2>2, <2>3, Zenon DEF TypeOK
    <2> QED BY <2>1, <2>2, <2>4, Zenon DEF StepInv, InStep
  <1>2. CASE Decode
    BY <1>2, DecodeStep
  <1>3. CASE DecodeFails
    <2>1. image \in Images
      BY <1>3 DEF DecodeFails, StepInv, InStep, TypeOK
    <2>2. image.alpha \in BOOLEAN
      BY <2>1, ImageAssumption
    <2>3. TypeOK'
      BY <1>3, <2>1, <2>2 DEF DecodeFails, StepInv, InStep, TypeOK, pictures, output
    <2>4. phase' = "failed" /\ phase = "opened" /\ frame' = frame
      BY <1>3 DEF DecodeFails, pictures
    <2> QED BY <2>3, <2>4 DEF StepInv, InStep
  <1>4. CASE PlayerStarts
    BY <1>4, StartFirstStep, StartNextStep DEF PlayerStarts
  <1>5. CASE PlayerReads
    BY <1>5, GetLineStep DEF PlayerReads
  <1>6. CASE BmpStarts
    BY <1>6, StartFirstStep DEF BmpStarts
  <1>7. CASE BmpRow
    BY <1>7, GetLineStep DEF BmpRow
  <1>8. CASE Close
    <2>1. TypeOK'
      BY <1>8 DEF Close, StepInv, InStep, TypeOK, output
    <2> QED BY <1>8, <2>1 DEF Close, StepInv, InStep
  <1>9. CASE UNCHANGED vars
    BY <1>9 DEF StepInv, InStep, TypeOK, Cut, vars
  <1> QED BY <1>1, <1>2, <1>3, <1>4, <1>5, <1>6, <1>7, <1>8, <1>9 DEF Next

\* For any images with their pictures frame by frame, of any number and length,
\* the lines read, the alpha beside them and the pictures held are of the frame
\* started last (bpg_decoder_start, bpg_decoder_get_line, libbpg.c).
THEOREM FramesInStep == Spec => []InStep
  <1>1. ASSUME Init PROVE StepInv
    <2>1. /\ image = NULL /\ caller = "player" /\ phase = "closed"
          /\ decCtx = FALSE /\ alphaCtx = FALSE /\ frame = NULL /\ alphaFrame = NULL
          /\ pos = 1 /\ outputInited = FALSE /\ y = 0 /\ starts = 0
      BY <1>1, Zenon DEF Init
    <2>2. decCtx \in BOOLEAN /\ alphaCtx \in BOOLEAN /\ outputInited \in BOOLEAN
      BY <2>1, Zenon
    <2>3. y \in Int /\ y >= -1 /\ pos \in Nat \ {0} /\ starts \in Nat
      BY <2>1
    <2>4. TypeOK
      BY <2>1, <2>2, <2>3, Zenon DEF TypeOK
    <2> QED BY <2>1, <2>4, Zenon DEF StepInv, InStep
  <1>2. StepInv => InStep
    BY DEF StepInv
  <1> QED BY <1>1, <1>2, NextStepInv, PTL DEF Spec
=============================================================================
